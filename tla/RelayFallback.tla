---------------------------- MODULE RelayFallback ----------------------------
(***************************************************************************)
(* The relay's choice between a family's home nodes and the fallback       *)
(* endpoint on the VPS: relay/registry.go and the node table of            *)
(* relay/broker.go, the degraded flag of relay/fallback.go, the routing    *)
(* decision of relay/relay_udp_bridge.go, the life of the per-family       *)
(* endpoint in terminator/service.go, and what the cloud is told.          *)
(*                                                                         *)
(* The relay serves one family (UDPBridge.familyID is configured).  Four   *)
(* kinds of goroutine meet here: the handler of each node connection, the  *)
(* bridge's read loop, the janitor, and one goroutine per notification.    *)
(*                                                                         *)
(* Touch is called by nobody, so a connection's LastSeen stays at the time *)
(* it was added.  A connection that sends no frame for 25 seconds is ended *)
(* by its read deadline, long before it is stale.                          *)
(***************************************************************************)
EXTENDS Integers, FiniteSets

CONSTANTS
  Nodes,       \* home nodes of the family
  Devices,     \* child devices, by UDP address
  Ports,       \* UDP ports an endpoint may have
  MaxConn      \* bound: connections of each node

ASSUME RelayAssumption ==
  /\ MaxConn \in Nat
  /\ Ports \subseteq Nat \ {0}
  /\ "none" \notin Devices

Conns == Nodes \X (1 .. MaxConn)
NoPort == 0
NoDevice == "none"

VARIABLES
  handler,    \* where the handler of each connection is
  nodeConns,  \* Broker.nodeConns: the connection of each node, 0 for none
  byNode,     \* NodeRegistry.byNode, likewise
  stale,      \* connections whose LastSeen is over stalenessThreshold ago
  active,     \* FallbackResolver.active has the family
  janitor,    \* where the sweep is
  bridge,     \* where the read loop is
  sender,     \* the device whose packet it handles
  endpoint,   \* port of the family's endpoint, NoPort if it is down
  idle,       \* it has seen no packet for idleTeardown
  socket,     \* fallbackConns: the port each device's socket is connected to
  reader,     \* the socket's fallbackReplyLoop runs
  posts,      \* notification goroutines, by in_fallback
  cloud,      \* family_fallback_state
  told,       \* history: in_fallback of the last notification started
  crossed,    \* history: fallback was entered while a recovery was yet to be told
  reused      \* history: a socket led to the last endpoint's port before it came up

registry == <<handler, nodeConns, byNode, stale>>
terminator == <<endpoint, idle, socket, reader, reused>>
flag == <<active, crossed>>
notices == <<posts, cloud, told>>
vars == <<registry, flag, janitor, bridge, sender, terminator, notices>>

TypeOK ==
  /\ handler \in [Conns -> {"new", "adding", "up", "removing", "gone"}]
  /\ nodeConns \in [Nodes -> 0 .. MaxConn]
  /\ byNode \in [Nodes -> 0 .. MaxConn]
  /\ stale \subseteq {c \in Conns : handler[c] # "new"}
  /\ active \in BOOLEAN
  /\ janitor \in {"idle", "status", "enter", "tellin", "exit", "tellout"}
  /\ bridge \in {"read", "healthy", "degraded", "tell", "forward"}
  /\ sender \in Devices \union {NoDevice}
  /\ bridge = "read" <=> sender = NoDevice
  /\ endpoint \in Ports \union {NoPort}
  /\ idle \in BOOLEAN
  /\ socket \in [Devices -> Ports \union {NoPort}]
  /\ reader \in [Devices -> BOOLEAN]
  /\ \A d \in Devices : reader[d] => socket[d] # NoPort
  /\ posts \in [BOOLEAN -> Nat]
  /\ cloud \in BOOLEAN /\ told \in BOOLEAN /\ crossed \in BOOLEAN
  /\ reused \in BOOLEAN

Init ==
  /\ handler = [c \in Conns |-> "new"]
  /\ nodeConns = [n \in Nodes |-> 0]
  /\ byNode = [n \in Nodes |-> 0]
  /\ stale = {}
  /\ active = FALSE
  /\ janitor = "idle"
  /\ bridge = "read" /\ sender = NoDevice
  /\ endpoint = NoPort /\ idle = FALSE
  /\ socket = [d \in Devices |-> NoPort]
  /\ reader = [d \in Devices |-> FALSE]
  /\ posts = [b \in BOOLEAN |-> 0]
  /\ cloud = FALSE /\ told = FALSE /\ crossed = FALSE
  /\ reused = FALSE

-----------------------------------------------------------------------------
(* Node connections: handleNodeConn with RegisterNode and UnregisterNode.   *)

\* RegisterNode's first half.  A node dials again when it has lost a connection,
\* which the relay may not have noticed yet.
Connect(c) ==
  /\ handler[c] = "new"
  /\ c[2] > 1 => handler[<<c[1], c[2] - 1>>] # "new"
  /\ handler' = [handler EXCEPT ![c] = "adding"]
  /\ nodeConns' = [nodeConns EXCEPT ![c[1]] = c[2]]
  /\ UNCHANGED <<byNode, stale, flag, janitor, bridge, sender, terminator,
                 notices>>

\* NodeRegistry.Add.
RegistryAdd(c) ==
  /\ handler[c] = "adding"
  /\ handler' = [handler EXCEPT ![c] = "up"]
  /\ byNode' = [byNode EXCEPT ![c[1]] = c[2]]
  /\ UNCHANGED <<nodeConns, stale, flag, janitor, bridge, sender, terminator,
                 notices>>

\* The connection ends: NodeRegistry.Remove, by node and not by connection.
Disconnect(c) ==
  /\ handler[c] = "up"
  /\ handler' = [handler EXCEPT ![c] = "removing"]
  /\ byNode' = [byNode EXCEPT ![c[1]] = 0]
  /\ UNCHANGED <<nodeConns, stale, flag, janitor, bridge, sender, terminator,
                 notices>>

\* The rest of UnregisterNode.
DropConn(c) ==
  /\ handler[c] = "removing"
  /\ handler' = [handler EXCEPT ![c] = "gone"]
  /\ nodeConns' = [nodeConns EXCEPT ![c[1]] = 0]
  /\ UNCHANGED <<byNode, stale, flag, janitor, bridge, sender, terminator,
                 notices>>

\* Sixty seconds after it was added.
Age(c) ==
  /\ handler[c] \in {"up", "removing"}
  /\ c \notin stale
  /\ stale' = stale \union {c}
  /\ UNCHANGED <<handler, nodeConns, byNode, flag, janitor, bridge, sender,
                 terminator, notices>>

Registered == {c \in Conns : byNode[c[1]] = c[2]}

\* PickHealthyNode finds one; HealthyCount > 0.
Healthy == \E c \in Registered : c \notin stale

-----------------------------------------------------------------------------
(* The degraded flag and the notifications.                                 *)

notify(inFallback) ==
  /\ posts' = [posts EXCEPT ![inFallback] = @ + 1]
  /\ told' = inFallback
  /\ UNCHANGED cloud

\* EnterFallback and ExitFallback; the caller starts the notification of a
\* transition when they have returned.
EnterFallback ==
  /\ active' = TRUE
  /\ crossed' = IF active THEN crossed ELSE janitor = "tellout"

ExitFallback == active' = FALSE /\ crossed' = FALSE

\* NotifyFamilyFallback: the goroutines' requests arrive in any order, or fail.
Post(inFallback) ==
  /\ posts[inFallback] > 0
  /\ posts' = [posts EXCEPT ![inFallback] = @ - 1]
  /\ cloud' \in {inFallback, cloud}
  /\ UNCHANGED <<registry, flag, janitor, bridge, sender, terminator, told>>

-----------------------------------------------------------------------------
(* The janitor: sweepStaleFamilies, every 15 seconds.                       *)

\* The families are those of nodeConns.
SweepFamilies ==
  /\ janitor = "idle"
  /\ \E n \in Nodes : nodeConns[n] # 0
  /\ janitor' = "status"
  /\ UNCHANGED <<registry, flag, bridge, sender, terminator, notices>>

\* Status.
SweepStatus ==
  /\ janitor = "status"
  /\ janitor' = CASE Healthy -> "exit"
                  [] Registered # {} /\ ~Healthy -> "enter"
                  [] OTHER -> "idle"
  /\ UNCHANGED <<registry, flag, bridge, sender, terminator, notices>>

\* Faulty variant: the sweep marks the family and tells nobody.
BugSilentSweep ==
  /\ janitor = "enter"
  /\ EnterFallback
  /\ janitor' = "idle"
  /\ UNCHANGED <<registry, bridge, sender, terminator, notices>>

SweepEnter ==
  /\ janitor = "enter"
  /\ EnterFallback
  /\ janitor' = IF active THEN "idle" ELSE "tellin"
  /\ UNCHANGED <<registry, bridge, sender, terminator, notices>>

SweepExit ==
  /\ janitor = "exit"
  /\ ExitFallback
  /\ janitor' = IF active THEN "tellout" ELSE "idle"
  /\ UNCHANGED <<registry, bridge, sender, terminator, notices>>

SweepTell ==
  /\ janitor \in {"tellin", "tellout"}
  /\ notify(janitor = "tellin")
  /\ janitor' = "idle"
  /\ UNCHANGED <<registry, flag, bridge, sender, terminator>>

-----------------------------------------------------------------------------
(* The bridge: readLoop and forwardToFallback.                              *)

\* A packet of d, and PickHealthyNode.
Packet(d) ==
  /\ bridge = "read"
  /\ sender' = d
  /\ bridge' = IF Healthy THEN "healthy" ELSE "degraded"
  /\ UNCHANGED <<registry, flag, janitor, terminator, notices>>

\* ExitFallback without a notification; the frame is queued for the node or
\* dropped.
BridgeExit ==
  /\ bridge = "healthy"
  /\ ExitFallback
  /\ bridge' = "read" /\ sender' = NoDevice
  /\ UNCHANGED <<registry, janitor, terminator, notices>>

\* Faulty variant: the janitor's condition is used here too.
BugEnterIfKnown ==
  /\ bridge = "degraded"
  /\ \/ Registered = {} /\ UNCHANGED flag /\ bridge' = "forward"
     \/ Registered # {} /\ EnterFallback /\ bridge' = IF active THEN "forward" ELSE "tell"
  /\ UNCHANGED <<registry, janitor, sender, terminator, notices>>

BridgeEnter ==
  /\ bridge = "degraded"
  /\ EnterFallback
  /\ bridge' = IF active THEN "forward" ELSE "tell"
  /\ UNCHANGED <<registry, janitor, sender, terminator, notices>>

BridgeTell ==
  /\ bridge = "tell"
  /\ notify(TRUE)
  /\ bridge' = "forward"
  /\ UNCHANGED <<registry, flag, janitor, sender, terminator>>

PacketDone == bridge' = "read" /\ sender' = NoDevice

\* bringUpFamily binds the port the family's config names, or any free one: what it
\* is depends on the cloud and on the kernel.
NewPort ==
  \E port \in Ports :
    /\ endpoint' = port
    /\ reused' = \E d \in Devices : socket[d] = port

Serves(d) == endpoint # NoPort /\ socket[d] = endpoint

\* The device has no socket yet: EnsureFamily, which brings the endpoint up if it
\* is not; the packet goes through the new socket.
FirstForward ==
  /\ bridge = "forward" /\ socket[sender] = NoPort
  /\ \/ endpoint # NoPort /\ UNCHANGED <<endpoint, reused>>
     \/ endpoint = NoPort /\ NewPort
  /\ socket' = [socket EXCEPT ![sender] = endpoint']
  /\ reader' = [reader EXCEPT ![sender] = TRUE]
  /\ idle' = FALSE
  /\ PacketDone
  /\ UNCHANGED <<registry, flag, janitor, notices>>

\* The config cannot be fetched, or the endpoint not brought up.
FirstForwardFails ==
  /\ bridge = "forward" /\ socket[sender] = NoPort /\ endpoint = NoPort
  /\ PacketDone
  /\ UNCHANGED <<registry, flag, janitor, terminator, notices>>

\* Faulty variant: the reply loop ends at a read deadline.
BugTimeoutEnds ==
  /\ bridge = "forward" /\ socket[sender] # NoPort
  /\ reader' \in {reader, [reader EXCEPT ![sender] = FALSE]}
  /\ idle' = (idle /\ ~Serves(sender))
  /\ PacketDone
  /\ UNCHANGED <<registry, flag, janitor, endpoint, socket, reused, notices>>

\* The socket is used again.  If nobody listens, the refusal ends the reply loop
\* unless the next write meets it first.
Forward ==
  /\ bridge = "forward" /\ socket[sender] # NoPort
  /\ IF Serves(sender)
       THEN idle' = FALSE /\ UNCHANGED reader
       ELSE /\ reader' \in {reader, [reader EXCEPT ![sender] = FALSE]}
            /\ UNCHANGED idle
  /\ PacketDone
  /\ UNCHANGED <<registry, flag, janitor, endpoint, socket, reused, notices>>

-----------------------------------------------------------------------------
(* The terminator: five minutes without a packet, then idleSweeper.         *)

Idle ==
  /\ endpoint # NoPort /\ ~idle
  /\ idle' = TRUE
  /\ UNCHANGED <<registry, flag, janitor, bridge, sender, endpoint, socket,
                 reader, reused, notices>>

IdleTeardown ==
  /\ endpoint # NoPort /\ idle
  /\ endpoint' = NoPort /\ idle' = FALSE
  /\ UNCHANGED <<registry, flag, janitor, bridge, sender, socket, reader, reused,
                 notices>>

-----------------------------------------------------------------------------
HandlerStep(c) == RegistryAdd(c) \/ DropConn(c)
JanitorStep == SweepFamilies \/ SweepStatus \/ SweepEnter \/ SweepExit \/ SweepTell
BridgeStep ==
  BridgeExit \/ BridgeEnter \/ BridgeTell \/ FirstForward \/ FirstForwardFails \/ Forward

Next ==
  \/ \E c \in Conns : Connect(c) \/ HandlerStep(c) \/ Disconnect(c) \/ Age(c)
  \/ \E b \in BOOLEAN : Post(b)
  \/ JanitorStep
  \/ \E d \in Devices : Packet(d)
  \/ BridgeStep
  \/ Idle \/ IdleTeardown

Spec == Init /\ [][Next]_vars

\* The relay's own goroutines run and some child keeps sending.  No node need do
\* anything.
FairSpec ==
  /\ Spec
  /\ \A c \in Conns : WF_vars(HandlerStep(c))
  /\ WF_vars(JanitorStep) /\ WF_vars(BridgeStep)
  /\ WF_vars(\E d \in Devices : Packet(d))

-----------------------------------------------------------------------------
(* Properties.                                                              *)

\* The cloud is told of an outage: whichever of the bridge and the janitor enters
\* fallback, and whatever exits and re-entries come between, the last notification
\* started while the family is degraded says so, or one is about to; unless fallback
\* was entered when the janitor had yet to start that of the recovery before.
CloudWarned == active => told \/ crossed \/ janitor = "tellin" \/ bridge = "tell"

\* What carries it: that of a recovery comes after a new outage only when they cross.
WarnInv == janitor = "tellout" /\ active => crossed

\* relay_udp_bridge.go starts the notification "so the parent app can show 'running on
\* backup'". The code does not keep this: the flag's lock is released before the
\* notification is started, so that of the recovery can be the last.
AlwaysWarned == active => told \/ janitor = "tellin" \/ bridge = "tell"

\* A device whose socket leads to the running endpoint has a reply loop, through any
\* sequence of outages, idle teardowns and refusals, unless the endpoint has come up
\* on a port that a socket of an earlier one leads to.
RepliesDelivered == ~reused => \A d \in Devices : Serves(d) => reader[d]

\* relay_udp_bridge.go: forwardToFallback "arranges for replies to be routed back to
\* the originating child". The code does not keep this when the endpoint comes back
\* on the port it had: a socket whose reply loop a refusal has ended is used again.
RepliesAlways == \A d \in Devices : Serves(d) => reader[d]

\* The bridge and the janitor act on health they read earlier, but they do not
\* keep the flag wrong: as long as a child sends, it agrees with the registry
\* again and again.
FallbackSettles == []<>(active <=> ~Healthy)

\* fallback.go: "When a home node disappears we keep the child device's traffic
\* flowing". The code does not keep this: after an idle teardown a child's socket
\* leads to a port nobody listens on, and it is not dialled again, though the config
\* can be fetched.
FallbackServes ==
  SF_vars(FirstForward) => \A d \in Devices : []<>(active => Serves(d))
=============================================================================
