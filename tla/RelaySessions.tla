---------------------------- MODULE RelaySessions ----------------------------
(***************************************************************************)
(* The WebSocket side of the relay: relay/handler.go runs one handler, one *)
(* writer and one ping goroutine per connection, relay/broker.go pairs a   *)
(* device connection with a node connection in a session, and the UDP      *)
(* bridge sends to the node connections it finds in the registry.          *)
(*                                                                         *)
(* Every connection owns a channel, Send.  Only the tear-down of a session *)
(* closes channels.  Sending on a closed channel, or closing it again,     *)
(* panics.  net/http recovers a panic of a handler, and its deferred       *)
(* Unregister still runs; a panic of any other goroutine ends the process; *)
(* a panic inside UnregisterNode leaves the broker's mutex locked.         *)
(***************************************************************************)
EXTENDS Naturals, FiniteSets

CONSTANTS
  Node,      \* node identifiers
  Device,    \* device identifiers
  Family,    \* families
  NodeConn,  \* connections of nodes, each used once
  DevConn,   \* connections of devices, each used once
  FamilyOf,  \* the family of a node or a device
  None       \* no connection

Conn == NodeConn \union DevConn

Ownership ==
  {o \in [Conn -> Node \union Device] :
     \A c \in Conn : o[c] \in Node <=> c \in NodeConn}

ASSUME SessionsAssumption ==
  /\ NodeConn \intersect DevConn = {}
  /\ Node \intersect Device = {}
  /\ None \notin Conn
  /\ FamilyOf \in [Node \union Device -> Family]

VARIABLES
  owner,      \* the node or the device each connection belongs to
  phase,      \* how far the handler of each connection is
  closed,     \* connections whose Send channel is closed
  pinging,    \* connections whose writer and ping goroutines run
  nodeConns,  \* Broker.nodeConns: the connection of each node
  registry,   \* Registry.byNode: the connection of each node
  sessions,   \* Broker.sessions: the device connection of each device; a
              \* session and its device connection are made together
  rooted,     \* the NodeConn of the session made for each device connection
  emptied,    \* sessions whose DevConn was set to nil
  holds,      \* the connection a handler is about to send to
  bridge,     \* the node connection the bridge is about to send to
  locked,     \* Broker.mu is held by a goroutine that panicked
  crashed     \* the process has ended

vars == <<owner, phase, closed, pinging, nodeConns, registry, sessions, rooted,
          emptied, holds, bridge, locked, crashed>>

tables == <<owner, nodeConns, registry, sessions, rooted, emptied>>
faults == <<locked, crashed>>

\* A goroutine that needs Broker.mu blocks for ever once it is stuck.
Lockable == ~locked /\ ~crashed

\* Faulty variant: the sessions of the node's whole family.
BugSessionsOfFamily(n) ==
  {v \in DevConn : sessions[owner[v]] = v /\ FamilyOf[owner[v]] = FamilyOf[n]}

\* The sessions rooted on a node.
SessionsOn(n) ==
  {v \in DevConn :
     sessions[owner[v]] = v /\ rooted[v] # None /\ owner[rooted[v]] = n}

-----------------------------------------------------------------------------
(* Connections of nodes.                                                    *)

\* handleNodeConn, first half of RegisterNode.
ConnectNode(c) ==
  /\ Lockable
  /\ phase[c] = "new"
  /\ nodeConns' = [nodeConns EXCEPT ![owner[c]] = c]
  /\ phase' = [phase EXCEPT ![c] = "adding"]
  /\ UNCHANGED <<owner, closed, pinging, registry, sessions, rooted, emptied,
                 holds, bridge, faults>>

\* Second half: Registry.Add; then runRelayLoop starts its goroutines.
AddNode(c) ==
  /\ ~crashed
  /\ phase[c] = "adding"
  /\ registry' = [registry EXCEPT ![owner[c]] = c]
  /\ phase' = [phase EXCEPT ![c] = "reading"]
  /\ pinging' = pinging \union {c}
  /\ UNCHANGED <<owner, closed, nodeConns, sessions, rooted, emptied, holds,
                 bridge, faults>>

\* UnregisterNode starts with Registry.Remove.
RemoveNode(c) ==
  /\ ~crashed
  /\ c \in NodeConn
  /\ phase[c] = "leaving"
  /\ registry' = [registry EXCEPT ![owner[c]] = None]
  /\ phase' = [phase EXCEPT ![c] = "tearing"]
  /\ UNCHANGED <<owner, closed, pinging, nodeConns, sessions, rooted, emptied,
                 holds, bridge, faults>>

\* The loop over the sessions of a node, in any order, has closed the ones in
\* done and then stops: it is through, or it panics on the next one because the
\* channel of that one's node connection is closed already.
TornDown(n, done) ==
  /\ done \subseteq SessionsOn(n)
  /\ \A v, w \in done : rooted[v] = rooted[w] => v = w
  /\ done # SessionsOn(n)
       => \E v \in SessionsOn(n) \ done : rooted[v] \in {rooted[w] : w \in done}

\* Faulty variant: the sessions stay in the map.
BugKeepSessions(c) ==
  /\ Lockable
  /\ phase[c] = "tearing"
  /\ \E done \in SUBSET DevConn :
       /\ TornDown(owner[c], done)
       /\ closed' = closed \union done \union {rooted[v] : v \in done}
       /\ locked' = (done # SessionsOn(owner[c]))
  /\ nodeConns' = [nodeConns EXCEPT ![owner[c]] = None]
  /\ phase' = [phase EXCEPT ![c] = "gone"]
  /\ UNCHANGED <<owner, pinging, registry, sessions, rooted, emptied, holds,
                 bridge, crashed>>

\* Second half of UnregisterNode, under the mutex.  It goes by the node's
\* identifier, so it also takes down what a newer connection has put there.
UnregisterNode(c) ==
  /\ Lockable
  /\ phase[c] = "tearing"
  /\ \E done \in SUBSET DevConn :
       /\ TornDown(owner[c], done)
       /\ closed' = closed \union done \union {rooted[v] : v \in done}
       /\ sessions' = [d \in Device |-> IF sessions[d] \in done THEN None
                                        ELSE sessions[d]]
       /\ locked' = (done # SessionsOn(owner[c]))
  /\ nodeConns' = [nodeConns EXCEPT ![owner[c]] = None]
  /\ phase' = [phase EXCEPT ![c] = "gone"]
  /\ UNCHANGED <<owner, pinging, registry, rooted, emptied, holds, bridge,
                 crashed>>

-----------------------------------------------------------------------------
(* Connections of devices.                                                  *)

NodesFor(d) ==
  {n \in Node : nodeConns[n] # None /\ FamilyOf[n] = FamilyOf[d]}

\* handleDeviceConn and RegisterDevice, when a node of the family is online;
\* the map yields any one of them.  A session of the same device is replaced.
RegisterDevice(v) ==
  /\ Lockable
  /\ phase[v] = "new"
  /\ \E n \in NodesFor(owner[v]) :
       rooted' = [rooted EXCEPT ![v] = nodeConns[n]]
  /\ sessions' = [sessions EXCEPT ![owner[v]] = v]
  /\ phase' = [phase EXCEPT ![v] = "reading"]
  /\ pinging' = pinging \union {v}
  /\ UNCHANGED <<owner, closed, nodeConns, registry, emptied, holds, bridge,
                 faults>>

\* No node of the family: the connection is closed.
RefuseDevice(v) ==
  /\ Lockable
  /\ phase[v] = "new"
  /\ NodesFor(owner[v]) = {}
  /\ phase' = [phase EXCEPT ![v] = "gone"]
  /\ UNCHANGED <<closed, pinging, tables, holds, bridge, faults>>

\* Faulty variant: the session stays in the map, closed.
BugKeepSession(v) ==
  /\ Lockable
  /\ v \in DevConn
  /\ phase[v] = "leaving"
  /\ LET s == sessions[owner[v]] IN
       /\ closed' = closed \union ({s} \ {None})
       /\ emptied' = emptied \union ({s} \ {None})
       /\ locked' = (s \in closed)
  /\ phase' = [phase EXCEPT ![v] = "gone"]
  /\ UNCHANGED <<owner, pinging, nodeConns, registry, sessions, rooted, holds,
                 bridge, crashed>>

\* UnregisterDevice goes by the device's identifier: it ends the session that is
\* current, whichever connection made it.  (Were its channel closed already, the
\* second close would panic under the mutex.)
UnregisterDevice(v) ==
  /\ Lockable
  /\ v \in DevConn
  /\ phase[v] = "leaving"
  /\ LET s == sessions[owner[v]] IN
       /\ closed' = closed \union ({s} \ {None})
       /\ emptied' = emptied \union ({s} \ {None})
       /\ locked' = (s \in closed)
  /\ sessions' = [sessions EXCEPT ![owner[v]] = None]
  /\ phase' = [phase EXCEPT ![v] = "gone"]
  /\ UNCHANGED <<owner, pinging, nodeConns, registry, rooted, holds, bridge,
                 crashed>>

-----------------------------------------------------------------------------
(* The reader loop of a handler.                                            *)

Idle(c) == phase[c] = "reading" /\ holds[c] = None

\* The peer is gone, or it was silent for 25 s.
EndRead(c) ==
  /\ ~crashed
  /\ Idle(c)
  /\ phase' = [phase EXCEPT ![c] = "leaving"]
  /\ UNCHANGED <<closed, pinging, tables, holds, bridge, faults>>

\* A ping of the peer is answered on the handler's own channel.
PongPanics(c) ==
  /\ ~crashed
  /\ Idle(c)
  /\ c \in closed
  /\ phase' = [phase EXCEPT ![c] = "leaving"]
  /\ UNCHANGED <<closed, pinging, tables, holds, bridge, faults>>

\* ForwardToDevice and ForwardToNode look the session up under the mutex and
\* send when they have released it.  Without a session a packet for a device
\* goes to the UDP bridge, and one for a node is dropped.
LookUpDevice(c, d) ==
  /\ Lockable
  /\ c \in NodeConn
  /\ Idle(c)
  /\ FamilyOf[owner[c]] = FamilyOf[d]
  /\ sessions[d] # None
  /\ holds' = [holds EXCEPT ![c] = sessions[d]]
  /\ UNCHANGED <<phase, closed, pinging, tables, bridge, faults>>

LookUpNode(v) ==
  /\ Lockable
  /\ v \in DevConn
  /\ Idle(v)
  /\ sessions[owner[v]] # None
  /\ holds' = [holds EXCEPT ![v] = rooted[sessions[owner[v]]]]
  /\ UNCHANGED <<phase, closed, pinging, tables, bridge, faults>>

\* The channel is open: the packet is queued, or dropped if the queue is full.
\* Or UnregisterDevice has set DevConn to nil and the handler sees that.
Forward(c) ==
  /\ ~crashed
  /\ holds[c] # None
  /\ holds[c] \notin closed \/ holds[c] \in emptied
  /\ holds' = [holds EXCEPT ![c] = None]
  /\ UNCHANGED <<phase, closed, pinging, tables, bridge, faults>>

\* The channel is closed, or DevConn became nil after the test for nil: the
\* handler panics, and its deferred Unregister runs.
ForwardPanics(c) ==
  /\ ~crashed
  /\ holds[c] \in closed
  /\ holds' = [holds EXCEPT ![c] = None]
  /\ phase' = [phase EXCEPT ![c] = "leaving"]
  /\ UNCHANGED <<closed, pinging, tables, bridge, faults>>

-----------------------------------------------------------------------------
(* The goroutines beside the handler.                                       *)

\* The writer returns when its channel is closed or when a write fails, and then
\* the ping goroutine returns.
EndPing(c) ==
  /\ ~crashed
  /\ c \in pinging
  /\ c \in closed \/ phase[c] # "reading"
  /\ pinging' = pinging \ {c}
  /\ UNCHANGED <<phase, closed, tables, holds, bridge, faults>>

\* Its timer fires before it sees that, when the channel is closed.
PingPanics(c) ==
  /\ ~crashed
  /\ c \in pinging \intersect closed
  /\ crashed' = TRUE
  /\ UNCHANGED <<phase, closed, pinging, tables, holds, bridge, locked>>

\* UDPBridge.readLoop: PickHealthyNode, and then the send.
BridgePick(n) ==
  /\ ~crashed
  /\ bridge = None
  /\ registry[n] # None
  /\ bridge' = registry[n]
  /\ UNCHANGED <<phase, closed, pinging, tables, holds, faults>>

BridgeSend ==
  /\ ~crashed
  /\ bridge # None
  /\ bridge' = None
  /\ crashed' = (bridge \in closed)
  /\ UNCHANGED <<phase, closed, pinging, tables, holds, locked>>

-----------------------------------------------------------------------------
Init ==
  /\ owner \in Ownership
  /\ phase = [c \in Conn |-> "new"]
  /\ closed = {}
  /\ pinging = {}
  /\ nodeConns = [n \in Node |-> None]
  /\ registry = [n \in Node |-> None]
  /\ sessions = [d \in Device |-> None]
  /\ rooted = [v \in DevConn |-> None]
  /\ emptied = {}
  /\ holds = [c \in Conn |-> None]
  /\ bridge = None
  /\ locked = FALSE
  /\ crashed = FALSE

Leave(c) ==
  \/ RemoveNode(c)
  \/ UnregisterNode(c)
  \/ UnregisterDevice(c)

Run(c) ==
  \/ EndRead(c)
  \/ PongPanics(c)
  \/ \E d \in Device : LookUpDevice(c, d)
  \/ LookUpNode(c)
  \/ Forward(c)
  \/ ForwardPanics(c)

Next ==
  \/ \E c \in NodeConn : ConnectNode(c) \/ AddNode(c)
  \/ \E v \in DevConn : RegisterDevice(v) \/ RefuseDevice(v)
  \/ \E c \in Conn : Run(c) \/ Leave(c)
  \/ \E c \in Conn : EndPing(c) \/ PingPanics(c)
  \/ \E n \in Node : BridgePick(n)
  \/ BridgeSend

Spec == Init /\ [][Next]_vars

-----------------------------------------------------------------------------
TypeOK ==
  /\ owner \in Ownership
  /\ phase \in [Conn -> {"new", "adding", "reading", "leaving", "tearing",
                         "gone"}]
  /\ closed \subseteq Conn
  /\ pinging \subseteq Conn
  /\ nodeConns \in [Node -> NodeConn \union {None}]
  /\ registry \in [Node -> NodeConn \union {None}]
  /\ sessions \in [Device -> DevConn \union {None}]
  /\ rooted \in [DevConn -> NodeConn \union {None}]
  /\ emptied \subseteq DevConn
  /\ holds \in [Conn -> Conn \union {None}]
  /\ bridge \in NodeConn \union {None}
  /\ locked \in BOOLEAN
  /\ crashed \in BOOLEAN

\* While the mutex works, a session in the map has both its channels open and
\* its DevConn set: no tear-down closes a channel twice, whichever of the
\* connections of a node or a device it belongs to, and cleanup has nothing to
\* remove.
SessionsOpen ==
  ~locked =>
    \A d \in Device : sessions[d] # None =>
      /\ {sessions[d], rooted[sessions[d]]} \intersect closed = {}
      /\ sessions[d] \notin emptied

\* The mutex is lost in one way only: UnregisterNode met two sessions on one
\* node connection.  The first is gone, the second is still in the map.
LockedByTwo ==
  locked =>
    \E v, w \in DevConn :
      /\ v # w
      /\ rooted[v] = rooted[w]
      /\ v \in closed
      /\ sessions[owner[w]] = w

\* A tear-down stays within its node or its device: a node connection's channel is
\* closed only if it had a session and a handler of the same node has ended, a device
\* connection's only if a handler of the same device or of the session's node has.
\* The process, which all share, ends only after such a close.
OnlyOwnClose ==
  /\ \A c \in NodeConn \intersect closed :
       /\ \E v \in DevConn : rooted[v] = c
       /\ \E b \in NodeConn : owner[b] = owner[c] /\ phase[b] = "gone"
  /\ \A v \in DevConn \intersect closed :
       \E b \in Conn : /\ phase[b] = "gone"
                       /\ owner[b] \in {owner[v], owner[rooted[v]]}
  /\ crashed => closed # {}

\* broker.go keeps nodeConns for "closing Send channels on disconnect", and registry.go
\* leaves a replaced connection's channel "for the broker's UnregisterNode path to
\* close". The code does not keep this: only channels of sessions are closed.
DisconnectCloses ==
  \A c \in NodeConn : phase[c] = "gone" => c \in closed

\* The inductive invariant behind these.  Nothing refers to a connection that has
\* not come yet, the broker's maps name their own nodes and devices, and while the
\* mutex works no node connection in the map is closed.
SessionsInv ==
  /\ SessionsOpen
  /\ LockedByTwo
  /\ \A c \in NodeConn \intersect closed : \E v \in DevConn : rooted[v] = c
  /\ crashed => closed # {}
  /\ \A n \in Node : nodeConns[n] # None =>
       /\ owner[nodeConns[n]] = n
       /\ phase[nodeConns[n]] # "new"
       /\ locked \/ nodeConns[n] \notin closed
  /\ \A d \in Device : sessions[d] # None =>
       /\ owner[sessions[d]] = d
       /\ rooted[sessions[d]] # None
  /\ \A v \in DevConn : rooted[v] # None =>
       phase[v] # "new" /\ phase[rooted[v]] # "new"
  /\ \A c \in closed : phase[c] # "new"
  /\ emptied \subseteq closed

\* broker.go says of UnregisterNode that it tears down any sessions rooted on
\* the node: nothing is left of them when it is through. The code does not
\* keep this: it panics on the second session of one connection and leaves that
\* session, and its lock, behind.
TeardownComplete ==
  [][\A c \in NodeConn : UnregisterNode(c) =>
       \A d \in Device :
         sessions'[d] # None => owner[rooted[sessions'[d]]] # owner[c]]_vars
=============================================================================
