------------------------ MODULE RelayConnectionsProof ------------------------
(* Proofs about the connections of the relay.  RelaySessions: the tables, for  *)
(* any number of nodes, devices, families and connections.  RelayPath:         *)
(* deadlines and pings on one path, for channels of any capacity and any       *)
(* number of sessions.                                                        *)
EXTENDS RelaySessions, RelayPath, TLAPS

-----------------------------------------------------------------------------
(* Type correctness.                                                         *)

\* A connection belongs to a node if it is a node's, else to a device.
LEMMA OwnerType ==
  ASSUME TypeOK
  PROVE  /\ \A c \in NodeConn : owner[c] \in Node
         /\ \A v \in DevConn : owner[v] \in Device
         /\ \A c \in NodeConn : c \notin DevConn
BY SessionsAssumption DEF TypeOK, Ownership, Conn

\* Every step keeps the types.
LEMMA TypeStep ==
  ASSUME TypeOK, [Next]_vars
  PROVE  TypeOK'
<1> USE SessionsAssumption DEF faults, tables
<1>1. NodeConn \subseteq Conn /\ DevConn \subseteq Conn
  BY DEF Conn
<1>2. ASSUME NEW c \in NodeConn, ConnectNode(c) PROVE TypeOK'
  BY <1>1, <1>2 DEF ConnectNode, TypeOK
<1>3. ASSUME NEW c \in NodeConn, AddNode(c) PROVE TypeOK'
  BY <1>1, <1>3 DEF AddNode, TypeOK
<1>4. ASSUME NEW v \in DevConn, RegisterDevice(v) PROVE TypeOK'
  BY <1>1, <1>4 DEF RegisterDevice, NodesFor, TypeOK
<1>5. ASSUME NEW v \in DevConn, RefuseDevice(v) PROVE TypeOK'
  BY <1>1, <1>5 DEF RefuseDevice, TypeOK
<1>6. ASSUME NEW c \in Conn, EndRead(c) \/ PongPanics(c) PROVE TypeOK'
  BY <1>6 DEF EndRead, PongPanics, TypeOK
<1>7. ASSUME NEW c \in Conn, NEW d \in Device, LookUpDevice(c, d) PROVE TypeOK'
  BY <1>1, <1>7 DEF LookUpDevice, TypeOK
<1>8. ASSUME NEW v \in Conn, LookUpNode(v) PROVE TypeOK'
  <2>1. owner[v] \in Device
    BY <1>8, OwnerType DEF LookUpNode
  <2>2. rooted[sessions[owner[v]]] \in Conn \union {None}
    BY <1>1, <1>8, <2>1 DEF LookUpNode, TypeOK
  <2> QED
    BY <1>8, <2>2 DEF LookUpNode, TypeOK
<1>9. ASSUME NEW c \in Conn, Forward(c) \/ ForwardPanics(c) PROVE TypeOK'
  BY <1>9 DEF Forward, ForwardPanics, TypeOK
<1>10. ASSUME NEW c \in Conn, RemoveNode(c) PROVE TypeOK'
  BY <1>10 DEF RemoveNode, TypeOK
<1>11. ASSUME NEW c \in Conn, UnregisterNode(c) PROVE TypeOK'
  <2>1. PICK done \in SUBSET DevConn :
          /\ closed' = closed \union done \union {rooted[v] : v \in done}
          /\ done \subseteq SessionsOn(owner[c])
          /\ sessions' = [d \in Device |-> IF sessions[d] \in done THEN None
                                           ELSE sessions[d]]
          /\ locked' = (done # SessionsOn(owner[c]))
    BY <1>11 DEF UnregisterNode, TornDown
  <2>2. \A v \in done : rooted[v] \in NodeConn
    BY <2>1 DEF SessionsOn, TypeOK
  <2>3. closed' \subseteq Conn
    BY <1>1, <2>1, <2>2 DEF TypeOK
  <2>4. locked' \in BOOLEAN
    BY <2>1
  <2>5. sessions' \in [Device -> DevConn \union {None}]
    BY <2>1 DEF TypeOK
  <2> QED
    BY <1>11, <2>3, <2>4, <2>5 DEF UnregisterNode, TypeOK
<1>12. ASSUME NEW v \in Conn, UnregisterDevice(v) PROVE TypeOK'
  <2>1. owner[v] \in Device
    BY <1>12, OwnerType DEF UnregisterDevice
  <2>2. closed' \subseteq Conn /\ emptied' \subseteq DevConn
    BY <1>1, <1>12, <2>1 DEF UnregisterDevice, TypeOK
  <2>3. locked' \in BOOLEAN
    BY <1>12 DEF UnregisterDevice
  <2> QED
    BY <1>12, <2>1, <2>2, <2>3 DEF UnregisterDevice, TypeOK
<1>13. ASSUME NEW c \in Conn, EndPing(c) \/ PingPanics(c) PROVE TypeOK'
  BY <1>13 DEF EndPing, PingPanics, TypeOK
<1>14. ASSUME NEW n \in Node, BridgePick(n) PROVE TypeOK'
  BY <1>14 DEF BridgePick, TypeOK
<1>15. CASE BridgeSend
  BY <1>15 DEF BridgeSend, TypeOK
<1>16. CASE UNCHANGED vars
  BY <1>16 DEF vars, TypeOK
<1> QED
  BY <1>2, <1>3, <1>4, <1>5, <1>6, <1>7, <1>8, <1>9, <1>10, <1>11, <1>12,
     <1>13, <1>14, <1>15, <1>16 DEF Next, Run, Leave

\* The variables of the relay stay in their types.
THEOREM TypeCorrect == Spec => []TypeOK
<1>1. Init => TypeOK
  BY DEF Init, TypeOK
<1>2. TypeOK /\ [Next]_vars => TypeOK'
  BY TypeStep
<1> QED
  BY <1>1, <1>2, PTL DEF Spec

-----------------------------------------------------------------------------
(* The invariant.                                                            *)

\* What the invariant says of the two maps of the broker, of the sessions made
\* so far, and of the closed channels.
NodesOwn ==
  \A n \in Node : nodeConns[n] # None =>
    /\ owner[nodeConns[n]] = n
    /\ phase[nodeConns[n]] # "new"
    /\ locked \/ nodeConns[n] \notin closed
DevicesOwn ==
  \A d \in Device : sessions[d] # None =>
    owner[sessions[d]] = d /\ rooted[sessions[d]] # None
RootsCame ==
  \A v \in DevConn : rooted[v] # None =>
    phase[v] # "new" /\ phase[rooted[v]] # "new"
ClosedCame == (\A c \in closed : phase[c] # "new") /\ emptied \subseteq closed
Crash == crashed => closed # {}
RootedClosed ==
  \A c \in NodeConn \intersect closed : \E v \in DevConn : rooted[v] = c

\* The invariant is the conjunction of these parts.
LEMMA InvParts ==
  SessionsInv <=> /\ SessionsOpen /\ LockedByTwo /\ RootedClosed /\ Crash
                  /\ NodesOwn /\ DevicesOwn /\ RootsCame /\ ClosedCame
BY DEF SessionsInv, RootedClosed, Crash, NodesOwn, DevicesOwn,
       RootsCame, ClosedCame

\* A step that leaves the broker's tables and all channels alone keeps the
\* invariant, whatever the handlers, the ping goroutines and the bridge do.
LEMMA QuietKeeps ==
  ASSUME TypeOK, SessionsInv,
         UNCHANGED <<owner, closed, nodeConns, sessions, rooted, emptied, locked>>,
         \A x \in Conn : phase'[x] = "new" => phase[x] = "new",
         crashed' => crashed \/ closed # {}
  PROVE  SessionsInv'
<1>1. /\ SessionsOpen /\ LockedByTwo /\ RootedClosed /\ Crash
      /\ NodesOwn /\ DevicesOwn /\ RootsCame /\ ClosedCame
  BY InvParts
<1>2. SessionsOpen' /\ LockedByTwo' /\ RootedClosed' /\ DevicesOwn'
  BY <1>1 DEF SessionsOpen, LockedByTwo, RootedClosed, DevicesOwn
<1>3. Crash'
  BY <1>1 DEF Crash
<1>4. NodesOwn'
  <2> SUFFICES ASSUME NEW n \in Node, nodeConns[n] # None
               PROVE  /\ owner[nodeConns[n]] = n /\ phase'[nodeConns[n]] # "new"
                      /\ locked \/ nodeConns[n] \notin closed
    BY DEF NodesOwn
  <2>1. nodeConns[n] \in Conn
    BY DEF TypeOK, Conn
  <2> QED
    BY <1>1, <2>1 DEF NodesOwn
<1>5. RootsCame'
  <2> SUFFICES ASSUME NEW v \in DevConn, rooted[v] # None
               PROVE  phase'[v] # "new" /\ phase'[rooted[v]] # "new"
    BY DEF RootsCame
  <2>1. v \in Conn /\ rooted[v] \in Conn
    BY DEF TypeOK, Conn
  <2> QED
    BY <1>1, <2>1 DEF RootsCame
<1>6. ClosedCame'
  BY <1>1 DEF ClosedCame, TypeOK
<1> QED
  BY <1>2, <1>3, <1>4, <1>5, <1>6, InvParts, PTL

\* The steps of handlers and ping goroutines that touch no table.
LEMMA QuietSteps ==
  ASSUME TypeOK, SessionsInv, NEW c \in Conn,
         \/ AddNode(c) \/ RefuseDevice(c) \/ RemoveNode(c)
         \/ Run(c) \/ EndPing(c) \/ PingPanics(c)
  PROVE  SessionsInv'
<1>1. CASE AddNode(c)
  <2>1. \A x \in Conn : phase'[x] = "new" => phase[x] = "new"
    BY <1>1 DEF AddNode, TypeOK
  <2> QED
    BY <1>1, <2>1, QuietKeeps DEF AddNode, faults
<1>2. CASE RefuseDevice(c)
  <2>1. \A x \in Conn : phase'[x] = "new" => phase[x] = "new"
    BY <1>2 DEF RefuseDevice, TypeOK
  <2> QED
    BY <1>2, <2>1, QuietKeeps DEF RefuseDevice, tables, faults
<1>3. CASE RemoveNode(c)
  <2>1. \A x \in Conn : phase'[x] = "new" => phase[x] = "new"
    BY <1>3 DEF RemoveNode, TypeOK
  <2> QED
    BY <1>3, <2>1, QuietKeeps DEF RemoveNode, faults
<1>4. CASE EndRead(c) \/ PongPanics(c) \/ ForwardPanics(c)
  <2>1. \A x \in Conn : phase'[x] = "new" => phase[x] = "new"
    BY <1>4 DEF EndRead, PongPanics, ForwardPanics, TypeOK
  <2> QED
    BY <1>4, <2>1, QuietKeeps DEF EndRead, PongPanics, ForwardPanics, tables, faults
<1>5. CASE (\E d \in Device : LookUpDevice(c, d)) \/ LookUpNode(c) \/ Forward(c)
  BY <1>5, QuietKeeps DEF LookUpDevice, LookUpNode, Forward, tables, faults
<1>6. CASE EndPing(c) \/ PingPanics(c)
  <2>1. crashed' => crashed \/ closed # {}
    BY <1>6 DEF EndPing, PingPanics, faults
  <2> QED
    BY <1>6, <2>1, QuietKeeps DEF EndPing, PingPanics, tables, faults
<1> QED
  BY <1>1, <1>2, <1>3, <1>4, <1>5, <1>6 DEF Run

\* The steps of the UDP bridge touch no table.
LEMMA BridgeKeeps ==
  ASSUME TypeOK, SessionsInv,
         (\E n \in Node : BridgePick(n)) \/ BridgeSend \/ UNCHANGED vars
  PROVE  SessionsInv'
<1>1. crashed' => crashed \/ closed # {}
  BY DEF BridgePick, BridgeSend, faults, vars
<1> QED
  BY <1>1, QuietKeeps DEF BridgePick, BridgeSend, tables, faults, vars

\* A new connection of a node takes the node's place in the map.
LEMMA ConnectKeeps ==
  ASSUME TypeOK, SessionsInv, NEW c \in NodeConn, ConnectNode(c)
  PROVE  SessionsInv'
<1>1. /\ SessionsOpen /\ LockedByTwo /\ RootedClosed /\ Crash
      /\ NodesOwn /\ DevicesOwn /\ RootsCame /\ ClosedCame
  BY InvParts
<1>2. /\ UNCHANGED <<owner, closed, sessions, rooted, emptied, locked, crashed>>
      /\ c \in Conn /\ owner[c] \in Node /\ c \notin closed
      /\ nodeConns' = [nodeConns EXCEPT ![owner[c]] = c]
      /\ nodeConns \in [Node -> NodeConn \union {None}]
  BY <1>1, OwnerType DEF ConnectNode, faults, ClosedCame, TypeOK, Conn
<1>3. /\ \A x \in Conn : phase'[x] = "new" => phase[x] = "new"
      /\ phase'[c] # "new"
  BY <1>2 DEF ConnectNode, TypeOK
<1>4. SessionsOpen' /\ LockedByTwo' /\ RootedClosed' /\ DevicesOwn' /\ Crash'
  BY <1>1, <1>2 DEF SessionsOpen, LockedByTwo, RootedClosed, DevicesOwn, Crash
<1>5. NodesOwn'
  <2> SUFFICES ASSUME NEW n \in Node, nodeConns'[n] # None
               PROVE  /\ owner[nodeConns'[n]] = n /\ phase'[nodeConns'[n]] # "new"
                      /\ locked \/ nodeConns'[n] \notin closed
    BY <1>2 DEF NodesOwn
  <2>1. CASE n = owner[c]
    BY <1>2, <1>3, <2>1
  <2>2. CASE n # owner[c]
    <3>1. nodeConns'[n] = nodeConns[n] /\ nodeConns[n] \in Conn
      BY <1>2, <2>2 DEF Conn
    <3> QED
      BY <1>1, <1>3, <3>1 DEF NodesOwn
  <2> QED
    BY <2>1, <2>2
<1>6. RootsCame'
  <2> SUFFICES ASSUME NEW v \in DevConn, rooted[v] # None
               PROVE  phase'[v] # "new" /\ phase'[rooted[v]] # "new"
    BY <1>2 DEF RootsCame
  <2>1. v \in Conn /\ rooted[v] \in Conn
    BY DEF TypeOK, Conn
  <2> QED
    BY <1>1, <1>3, <2>1 DEF RootsCame
<1>7. ClosedCame'
  BY <1>1, <1>2, <1>3 DEF ClosedCame, TypeOK
<1> QED
  BY <1>4, <1>5, <1>6, <1>7, InvParts, PTL

\* A new connection of a device, whose channel is open, gets a session on a
\* node connection of the map, which is open as well.
LEMMA RegisterKeeps ==
  ASSUME TypeOK, SessionsInv, NEW v \in DevConn, RegisterDevice(v)
  PROVE  SessionsInv'
<1>1. /\ SessionsOpen /\ LockedByTwo /\ RootedClosed /\ Crash
      /\ NodesOwn /\ DevicesOwn /\ RootsCame /\ ClosedCame
  BY InvParts
<1>2. /\ UNCHANGED <<owner, closed, nodeConns, emptied, locked, crashed>>
      /\ ~locked
      /\ v \in Conn /\ owner[v] \in Device /\ v \notin closed /\ v \notin emptied
      /\ rooted[v] = None
      /\ sessions' = [sessions EXCEPT ![owner[v]] = v]
      /\ sessions \in [Device -> DevConn \union {None}]
  BY <1>1, OwnerType DEF RegisterDevice, Lockable, faults, ClosedCame, RootsCame,
                         TypeOK, Conn
<1>3. PICK n \in Node : /\ nodeConns[n] # None
                        /\ rooted' = [rooted EXCEPT ![v] = nodeConns[n]]
  BY DEF RegisterDevice, NodesFor
<1>4. /\ rooted'[v] = nodeConns[n] /\ nodeConns[n] \in NodeConn
      /\ nodeConns[n] \notin closed /\ phase[nodeConns[n]] # "new"
      /\ \A w \in DevConn \ {v} : rooted'[w] = rooted[w]
  BY <1>1, <1>2, <1>3 DEF NodesOwn, TypeOK
<1>5. /\ \A x \in Conn : phase'[x] = "new" => phase[x] = "new"
      /\ phase'[v] # "new"
  BY <1>2 DEF RegisterDevice, TypeOK
<1>6. \A d \in Device \ {owner[v]} : sessions'[d] = sessions[d]
  BY <1>2
<1>7. \A d \in Device : sessions[d] # None => sessions[d] \in DevConn \ {v}
  BY <1>1, <1>2 DEF DevicesOwn
<1>8. SessionsOpen'
  <2> SUFFICES ASSUME NEW d \in Device, sessions'[d] # None
               PROVE  /\ {sessions'[d], rooted'[sessions'[d]]} \intersect closed = {}
                      /\ sessions'[d] \notin emptied
    BY <1>2 DEF SessionsOpen
  <2>1. CASE d = owner[v]
    BY <1>2, <1>4, <2>1
  <2>2. CASE d # owner[v]
    <3>1. /\ sessions'[d] = sessions[d] /\ sessions[d] # None
          /\ rooted'[sessions[d]] = rooted[sessions[d]]
      BY <1>4, <1>6, <1>7, <2>2
    <3> QED
      BY <1>1, <1>2, <3>1 DEF SessionsOpen
  <2> QED
    BY <2>1, <2>2
<1>9. LockedByTwo' /\ Crash'
  BY <1>1, <1>2 DEF LockedByTwo, Crash
<1>10. RootedClosed'
  <2> SUFFICES ASSUME NEW c \in NodeConn \intersect closed
               PROVE  \E w \in DevConn : rooted'[w] = c
    BY <1>2 DEF RootedClosed
  <2>1. PICK w \in DevConn : rooted[w] = c
    BY <1>1 DEF RootedClosed
  <2>2. w # v
    BY <1>2, <2>1, SessionsAssumption DEF Conn
  <2> QED
    BY <1>4, <2>1, <2>2
<1>11. NodesOwn'
  <2>1. \A m \in Node : nodeConns[m] # None => nodeConns[m] \in Conn
    BY DEF TypeOK, Conn
  <2> QED
    BY <1>1, <1>2, <1>5, <2>1 DEF NodesOwn
<1>12. DevicesOwn'
  <2> SUFFICES ASSUME NEW d \in Device, sessions'[d] # None
               PROVE  owner[sessions'[d]] = d /\ rooted'[sessions'[d]] # None
    BY <1>2 DEF DevicesOwn
  <2>1. CASE d = owner[v]
    BY <1>2, <1>3, <1>4, <2>1
  <2>2. CASE d # owner[v]
    BY <1>1, <1>4, <1>6, <1>7, <2>2 DEF DevicesOwn
  <2> QED
    BY <2>1, <2>2
<1>13. RootsCame'
  <2> SUFFICES ASSUME NEW w \in DevConn, rooted'[w] # None
               PROVE  phase'[w] # "new" /\ phase'[rooted'[w]] # "new"
    BY DEF RootsCame
  <2>1. CASE w = v
    BY <1>4, <1>5, <2>1 DEF Conn
  <2>2. CASE w # v
    <3>1. rooted'[w] = rooted[w] /\ w \in Conn /\ rooted[w] \in Conn
      BY <1>4, <2>2 DEF TypeOK, Conn
    <3> QED
      BY <1>1, <1>5, <3>1 DEF RootsCame
  <2> QED
    BY <2>1, <2>2
<1>14. ClosedCame'
  BY <1>1, <1>2, <1>5 DEF ClosedCame, TypeOK
<1> QED
  BY <1>8, <1>9, <1>10, <1>11, <1>12, <1>13, <1>14, InvParts, PTL

\* The handler of a device ends the current session of that device, whichever
\* connection made it; its channel was open, so the mutex is not lost.
LEMMA DeviceLeaves ==
  ASSUME TypeOK, SessionsInv, NEW v \in Conn, UnregisterDevice(v)
  PROVE  SessionsInv'
<1>1. /\ SessionsOpen /\ LockedByTwo /\ RootedClosed /\ Crash
      /\ NodesOwn /\ DevicesOwn /\ RootsCame /\ ClosedCame
  BY InvParts
<1> DEFINE o == owner[v]
           s == sessions[o]
<1>2. /\ v \in DevConn /\ o \in Device /\ s \in DevConn \union {None}
      /\ UNCHANGED <<owner, nodeConns, rooted, crashed>> /\ ~locked
      /\ closed' = closed \union ({s} \ {None})
      /\ emptied' = emptied \union ({s} \ {None})
      /\ sessions' = [sessions EXCEPT ![o] = None]
      /\ locked' = (s \in closed)
  BY OwnerType DEF UnregisterDevice, Lockable, TypeOK
<1>3. /\ ~locked'
      /\ \A x \in Conn : phase'[x] = "new" => phase[x] = "new"
  <2>1. s \notin closed
    BY <1>1, <1>2, SessionsAssumption DEF SessionsOpen, TypeOK
  <2>2. \A x \in Conn : phase'[x] = "new" => phase[x] = "new"
    BY DEF UnregisterDevice, TypeOK
  <2> QED
    BY <1>2, <2>1, <2>2
<1>4. \A d \in Device : sessions'[d] # None =>
        /\ d # o /\ sessions'[d] = sessions[d] /\ sessions[d] # s
        /\ sessions[d] \in DevConn /\ rooted[sessions[d]] \in NodeConn
  BY <1>1, <1>2 DEF DevicesOwn, TypeOK
<1>5. s # None => s \in Conn /\ s \notin NodeConn /\ phase[s] # "new"
  BY <1>1, <1>2, OwnerType DEF DevicesOwn, RootsCame, Conn
<1> HIDE DEF o, s
<1>6. SessionsOpen'
  BY <1>1, <1>2, <1>4, <1>5 DEF SessionsOpen
<1>7. LockedByTwo' /\ Crash'
  BY <1>1, <1>2, <1>3 DEF LockedByTwo, Crash
<1>8. RootedClosed'
  BY <1>1, <1>2, <1>5 DEF RootedClosed
<1>9. NodesOwn'
  <2> SUFFICES ASSUME NEW n \in Node, nodeConns[n] # None
               PROVE  /\ owner[nodeConns[n]] = n /\ phase'[nodeConns[n]] # "new"
                      /\ nodeConns[n] \notin closed'
    BY <1>2 DEF NodesOwn
  <2>1. nodeConns[n] \in Conn /\ nodeConns[n] \in NodeConn
    BY DEF TypeOK, Conn
  <2> QED
    BY <1>1, <1>2, <1>3, <1>5, <2>1 DEF NodesOwn
<1>10. DevicesOwn'
  BY <1>1, <1>2, <1>4 DEF DevicesOwn
<1>11. RootsCame'
  <2> SUFFICES ASSUME NEW w \in DevConn, rooted[w] # None
               PROVE  phase'[w] # "new" /\ phase'[rooted[w]] # "new"
    BY <1>2 DEF RootsCame
  <2>1. w \in Conn /\ rooted[w] \in Conn
    BY DEF TypeOK, Conn
  <2> QED
    BY <1>1, <1>3, <2>1 DEF RootsCame
<1>12. ClosedCame'
  BY <1>1, <1>2, <1>3, <1>5 DEF ClosedCame, TypeOK
<1> QED
  BY <1>6, <1>7, <1>8, <1>9, <1>10, <1>11, <1>12, InvParts, PTL

\* The handler of a node ends the sessions of that node, or panics on the
\* second session of one connection and leaves the mutex locked.
LEMMA NodeLeaves ==
  ASSUME TypeOK, SessionsInv, NEW c \in Conn, UnregisterNode(c)
  PROVE  SessionsInv'
<1>1. /\ SessionsOpen /\ LockedByTwo /\ RootedClosed /\ Crash
      /\ NodesOwn /\ DevicesOwn /\ RootsCame /\ ClosedCame
  BY InvParts
<1> DEFINE n == owner[c]
           all == SessionsOn(n)
<1>2. /\ UNCHANGED <<owner, rooted, emptied, crashed>> /\ ~locked
      /\ nodeConns' = [nodeConns EXCEPT ![n] = None]
      /\ \A x \in Conn : phase'[x] = "new" => phase[x] = "new"
  BY DEF UnregisterNode, Lockable, TypeOK
<1>3. PICK done \in SUBSET DevConn :
        /\ done \subseteq all
        /\ done # all => \E v \in all \ done : rooted[v] \in {rooted[w] : w \in done}
        /\ closed' = closed \union done \union {rooted[v] : v \in done}
        /\ sessions' = [d \in Device |-> IF sessions[d] \in done THEN None
                                         ELSE sessions[d]]
        /\ locked' = (done # all)
  BY DEF UnregisterNode, TornDown
<1>4. \A v \in all : /\ v \in DevConn /\ owner[v] \in Device
                     /\ sessions[owner[v]] = v
                     /\ rooted[v] \in NodeConn /\ owner[rooted[v]] = n
                     /\ phase[v] # "new" /\ phase[rooted[v]] # "new"
  BY <1>1, OwnerType DEF SessionsOn, RootsCame, TypeOK
<1>5. \A d \in Device : sessions'[d] # None =>
        /\ sessions'[d] = sessions[d] /\ sessions[d] \notin done
        /\ sessions[d] \in DevConn /\ rooted[sessions[d]] \in NodeConn
        /\ owner[sessions[d]] = d
        /\ owner[rooted[sessions[d]]] = n => sessions[d] \in all
  BY <1>1, <1>3 DEF DevicesOwn, SessionsOn, TypeOK
<1> HIDE DEF n, all
<1>6. SessionsOpen'
  <2> SUFFICES ASSUME ~locked', NEW d \in Device, sessions'[d] # None
               PROVE  /\ {sessions'[d], rooted[sessions'[d]]} \intersect closed' = {}
                      /\ sessions'[d] \notin emptied
    BY <1>2 DEF SessionsOpen
  <2>1. done = all
    BY <1>3
  <2>2. owner[rooted[sessions[d]]] # n
    BY <1>5, <2>1
  <2>3. rooted[sessions[d]] \notin {rooted[v] : v \in done}
    BY <1>3, <1>4, <2>2
  <2>4. sessions[d] \notin {rooted[v] : v \in done} /\ rooted[sessions[d]] \notin done
    BY <1>3, <1>4, <1>5, OwnerType
  <2>5. /\ sessions[d] \notin closed /\ rooted[sessions[d]] \notin closed
        /\ sessions[d] \notin emptied
    BY <1>1, <1>2, <1>5 DEF SessionsOpen
  <2> QED
    BY <1>3, <1>5, <2>3, <2>4, <2>5
<1>7. LockedByTwo'
  <2> SUFFICES ASSUME locked'
               PROVE  \E v, w \in DevConn : /\ v # w /\ rooted[v] = rooted[w]
                                            /\ v \in closed'
                                            /\ sessions'[owner[w]] = w
    BY <1>2 DEF LockedByTwo
  <2>1. PICK w \in all \ done : rooted[w] \in {rooted[x] : x \in done}
    BY <1>3
  <2>2. PICK v \in done : rooted[w] = rooted[v]
    BY <2>1
  <2>3. v \in closed' /\ sessions'[owner[w]] = w
    BY <1>3, <1>4, <2>1
  <2> QED
    BY <1>4, <2>1, <2>2, <2>3
<1>8. RootedClosed'
  <2> SUFFICES ASSUME NEW x \in NodeConn \intersect closed'
               PROVE  \E v \in DevConn : rooted[v] = x
    BY <1>2 DEF RootedClosed
  <2>1. x \notin done
    BY OwnerType
  <2> QED
    BY <1>1, <1>3, <2>1 DEF RootedClosed
<1>9. Crash'
  BY <1>1, <1>2, <1>3 DEF Crash
<1>10. NodesOwn'
  <2> SUFFICES ASSUME NEW m \in Node, nodeConns'[m] # None
               PROVE  /\ owner[nodeConns'[m]] = m /\ phase'[nodeConns'[m]] # "new"
                      /\ nodeConns'[m] \notin closed'
    BY <1>2 DEF NodesOwn
  <2>1. /\ nodeConns'[m] = nodeConns[m] /\ m # n
        /\ nodeConns[m] \in Conn /\ nodeConns[m] \in NodeConn
    BY <1>2 DEF TypeOK, Conn
  <2>2. /\ owner[nodeConns[m]] = m
        /\ phase[nodeConns[m]] # "new"
        /\ nodeConns[m] \notin closed
    BY <1>1, <1>2, <2>1 DEF NodesOwn
  <2>3. nodeConns[m] \notin done /\ nodeConns[m] \notin {rooted[v] : v \in done}
    BY <1>3, <1>4, <2>1, <2>2, OwnerType
  <2> QED
    BY <1>2, <1>3, <2>1, <2>2, <2>3
<1>11. DevicesOwn'
  BY <1>1, <1>2, <1>5 DEF DevicesOwn
<1>12. RootsCame'
  <2> SUFFICES ASSUME NEW w \in DevConn, rooted[w] # None
               PROVE  phase'[w] # "new" /\ phase'[rooted[w]] # "new"
    BY <1>2 DEF RootsCame
  <2>1. w \in Conn /\ rooted[w] \in Conn
    BY DEF TypeOK, Conn
  <2> QED
    BY <1>1, <1>2, <2>1 DEF RootsCame
<1>13. ClosedCame'
  <2> SUFFICES ASSUME NEW x \in closed' PROVE phase'[x] # "new"
    BY <1>1, <1>2, <1>3 DEF ClosedCame
  <2>1. x \in Conn /\ phase[x] # "new"
    BY <1>1, <1>3, <1>4 DEF ClosedCame, TypeOK, Conn
  <2> QED
    BY <1>2, <2>1
<1> QED
  BY <1>6, <1>7, <1>8, <1>9, <1>10, <1>11, <1>12, <1>13, InvParts, PTL

\* The inductive invariant holds in every reachable state.
THEOREM SessionsInvariant == Spec => []SessionsInv
<1>1. Init => SessionsInv
  <2> SUFFICES ASSUME Init PROVE SessionsInv
    OBVIOUS
  <2>1. SessionsOpen /\ DevicesOwn /\ NodesOwn /\ RootsCame
    BY DEF Init, SessionsOpen, DevicesOwn, NodesOwn, RootsCame
  <2>2. LockedByTwo /\ RootedClosed /\ Crash /\ ClosedCame
    BY DEF Init, LockedByTwo, RootedClosed, Crash, ClosedCame
  <2> QED
    BY <2>1, <2>2, InvParts
<1>2. TypeOK /\ SessionsInv /\ [Next]_vars => SessionsInv'
  <2> SUFFICES ASSUME TypeOK, SessionsInv, [Next]_vars PROVE SessionsInv'
    OBVIOUS
  <2>1. CASE \E c \in NodeConn : ConnectNode(c)
    BY <2>1, ConnectKeeps
  <2>2. CASE \E c \in NodeConn : AddNode(c)
    BY <2>2, QuietSteps DEF Conn
  <2>3. CASE \E v \in DevConn : RegisterDevice(v)
    BY <2>3, RegisterKeeps
  <2>4. CASE \E v \in DevConn : RefuseDevice(v)
    BY <2>4, QuietSteps DEF Conn
  <2>5. CASE \E c \in Conn : Run(c) \/ RemoveNode(c) \/ EndPing(c) \/ PingPanics(c)
    BY <2>5, QuietSteps
  <2>6. CASE \E c \in Conn : UnregisterNode(c)
    BY <2>6, NodeLeaves
  <2>7. CASE \E c \in Conn : UnregisterDevice(c)
    BY <2>7, DeviceLeaves
  <2>8. CASE (\E n \in Node : BridgePick(n)) \/ BridgeSend \/ UNCHANGED vars
    BY <2>8, BridgeKeeps
  <2> QED
    BY <2>1, <2>2, <2>3, <2>4, <2>5, <2>6, <2>7, <2>8 DEF Next, Leave
<1> QED
  BY <1>1, <1>2, TypeCorrect, PTL DEF Spec

\* While the broker's mutex works, every session in its map has both channels
\* open, so no tear-down closes one twice but in the way LockedByTwo names.
THEOREM SessionsOpenAlways == Spec => []SessionsOpen
<1>1. SessionsInv => SessionsOpen
  BY DEF SessionsInv
<1> QED
  BY <1>1, SessionsInvariant, PTL

\* The mutex is lost only by a node connection that carries two sessions.
THEOREM LockedByTwoAlways == Spec => []LockedByTwo
<1>1. SessionsInv => LockedByTwo
  BY DEF SessionsInv
<1> QED
  BY <1>1, SessionsInvariant, PTL

\* The handler whose tear-down closed a channel has ended, and it was one of the same
\* node or device.
OwnGone ==
  /\ \A c \in NodeConn \intersect closed :
       \E b \in NodeConn : owner[b] = owner[c] /\ phase[b] = "gone"
  /\ \A v \in DevConn \intersect closed :
       \E b \in Conn : phase[b] = "gone" /\ owner[b] \in {owner[v], owner[rooted[v]]}

\* A handler about to send has not ended.
Sending == \A c \in Conn : holds[c] # None => phase[c] = "reading"

\* A step that closes no channel keeps this: a handler that has ended does not return,
\* and a device connection gets its session before it is closed.
LEMMA OpenKeepsOwn ==
  ASSUME OwnGone, UNCHANGED <<owner, closed>>,
         \A x \in Conn : phase[x] = "gone" => phase'[x] = "gone",
         \A v \in DevConn \intersect closed : rooted'[v] = rooted[v]
  PROVE  OwnGone'
<1>1. ASSUME NEW c \in NodeConn \intersect closed
      PROVE  \E b \in NodeConn : owner[b] = owner[c] /\ phase'[b] = "gone"
  BY DEF OwnGone, Conn
<1>2. ASSUME NEW v \in DevConn \intersect closed
      PROVE  \E b \in Conn : phase'[b] = "gone" /\ owner[b] \in {owner[v], owner[rooted'[v]]}
  BY DEF OwnGone
<1> QED
  BY <1>1, <1>2 DEF OwnGone

\* The two tear-downs, which close channels of their own node or device only.
LEMMA TearDownOwn ==
  ASSUME TypeOK, SessionsInv, OwnGone, NEW c \in Conn,
         UnregisterNode(c) \/ UnregisterDevice(c)
  PROVE  OwnGone'
<1>1. /\ UNCHANGED <<owner, rooted>> /\ phase'[c] = "gone"
      /\ \A x \in Conn : phase[x] = "gone" => phase'[x] = "gone"
  BY DEF UnregisterNode, UnregisterDevice, TypeOK
<1>2. /\ \A x \in NodeConn \intersect closed :
           \E b \in NodeConn : owner[b] = owner[x] /\ phase'[b] = "gone"
      /\ \A v \in DevConn \intersect closed :
           \E b \in Conn : phase'[b] = "gone" /\ owner[b] \in {owner[v], owner[rooted[v]]}
  BY <1>1 DEF OwnGone, Conn
<1>3. ASSUME NEW x \in closed' \ closed
      PROVE  \/ x \in NodeConn /\ c \in NodeConn /\ owner[c] = owner[x]
             \/ x \in DevConn /\ x \notin NodeConn
                  /\ owner[c] \in {owner[x], owner[rooted[x]]}
  <2>1. CASE UnregisterNode(c)
    <3>1. PICK done \in SUBSET DevConn :
            /\ done \subseteq SessionsOn(owner[c])
            /\ closed' = closed \union done \union {rooted[v] : v \in done}
      BY <2>1 DEF UnregisterNode, TornDown
    <3>2. \A v \in done : /\ v \in DevConn /\ rooted[v] \in NodeConn
                          /\ owner[rooted[v]] = owner[c]
      BY <3>1 DEF SessionsOn, TypeOK
    <3>3. \A v \in done : c \in NodeConn
      BY <3>2, OwnerType, SessionsAssumption DEF Conn
    <3> QED
      BY <1>3, <3>1, <3>2, <3>3, OwnerType
  <2>2. CASE UnregisterDevice(c)
    <3>1. c \in DevConn /\ x = sessions[owner[c]] /\ x # None /\ owner[c] \in Device
      BY <1>3, <2>2, OwnerType DEF UnregisterDevice
    <3>2. x \in DevConn /\ owner[x] = owner[c]
      BY <3>1, InvParts DEF DevicesOwn, TypeOK
    <3> QED
      BY <3>2, OwnerType
  <2> QED
    BY <2>1, <2>2
<1>4. ASSUME NEW x \in NodeConn \intersect closed'
      PROVE  \E b \in NodeConn : owner[b] = owner[x] /\ phase'[b] = "gone"
  <2>1. CASE x \in closed
    BY <1>2, <2>1
  <2>2. CASE x \notin closed
    BY <1>1, <1>3, <2>2
  <2> QED
    BY <2>1, <2>2
<1>5. ASSUME NEW v \in DevConn \intersect closed'
      PROVE  \E b \in Conn : phase'[b] = "gone" /\ owner[b] \in {owner[v], owner[rooted[v]]}
  <2>1. CASE v \in closed
    BY <1>2, <2>1
  <2>2. CASE v \notin closed
    BY <1>1, <1>3, <2>2, OwnerType
  <2> QED
    BY <2>1, <2>2
<1> QED
  BY <1>1, <1>4, <1>5 DEF OwnGone

\* Every step keeps the two.
LEMMA OwnStep ==
  ASSUME TypeOK, SessionsInv, OwnGone, Sending, [Next]_vars
  PROVE  OwnGone' /\ Sending'
<1> USE DEF tables, faults
<1>1. NodeConn \subseteq Conn /\ DevConn \subseteq Conn
  BY DEF Conn
<1>2. ASSUME NEW c \in Conn, UnregisterNode(c) \/ UnregisterDevice(c)
      PROVE  OwnGone' /\ Sending'
  BY <1>2, TearDownOwn DEF UnregisterNode, UnregisterDevice, Sending, TypeOK
<1>3. ASSUME NEW v \in DevConn, RegisterDevice(v)
      PROVE  OwnGone' /\ Sending'
  <2>1. v \notin closed
    BY <1>3, InvParts DEF ClosedCame, RegisterDevice
  <2>2. \A w \in DevConn \intersect closed : rooted'[w] = rooted[w]
    BY <1>3, <2>1 DEF RegisterDevice, TypeOK
  <2>3. /\ \A x \in Conn : phase[x] = "gone" => phase'[x] = "gone"
        /\ UNCHANGED <<owner, closed>> /\ Sending'
    BY <1>1, <1>3 DEF RegisterDevice, TypeOK, Sending
  <2> QED
    BY <2>2, <2>3, OpenKeepsOwn
<1>4. ASSUME NEW c \in Conn,
             \/ ConnectNode(c) \/ AddNode(c) \/ RefuseDevice(c) \/ RemoveNode(c)
             \/ EndRead(c) \/ PongPanics(c) \/ ForwardPanics(c)
      PROVE  OwnGone' /\ Sending'
  <2>1. UNCHANGED <<owner, closed, rooted>>
    BY <1>4 DEF ConnectNode, AddNode, RefuseDevice, RemoveNode, EndRead, PongPanics,
                ForwardPanics
  <2>2. holds[c] # None => phase[c] = "reading"
    BY DEF Sending
  <2>3. ForwardPanics(c) => holds[c] # None
    BY SessionsAssumption DEF ForwardPanics, TypeOK
  <2>4. \A x \in Conn : phase[x] = "gone" => phase'[x] = "gone"
    BY <1>4, <2>2, <2>3 DEF ConnectNode, AddNode, RefuseDevice, RemoveNode, EndRead,
                            PongPanics, ForwardPanics, Idle, TypeOK
  <2>5. Sending'
    BY <1>4, <2>2 DEF ConnectNode, AddNode, RefuseDevice, RemoveNode, EndRead,
                      PongPanics, ForwardPanics, Idle, TypeOK, Sending
  <2> QED
    BY <2>1, <2>4, <2>5, OpenKeepsOwn
<1>5. ASSUME NEW c \in Conn,
             \/ \E d \in Device : LookUpDevice(c, d)
             \/ LookUpNode(c) \/ Forward(c)
      PROVE  OwnGone' /\ Sending'
  <2>1. UNCHANGED <<owner, closed, rooted, phase>>
    BY <1>5 DEF LookUpDevice, LookUpNode, Forward
  <2>2. Sending'
    BY <1>5 DEF LookUpDevice, LookUpNode, Forward, Idle, TypeOK, Sending
  <2> QED
    BY <2>1, <2>2, OpenKeepsOwn
<1>6. CASE \/ \E c \in Conn : EndPing(c) \/ PingPanics(c)
           \/ \E n \in Node : BridgePick(n)
           \/ BridgeSend
           \/ UNCHANGED vars
  <2>1. UNCHANGED <<owner, closed, rooted, phase, holds>>
    BY <1>6 DEF EndPing, PingPanics, BridgePick, BridgeSend, vars
  <2> QED
    BY <2>1, OpenKeepsOwn DEF Sending
<1> QED
  BY <1>1, <1>2, <1>3, <1>4, <1>5, <1>6 DEF Next, Run, Leave

\* broker.go: for any number of nodes, devices and connections, a tear-down closes the
\* channels of sessions of its own node or device only.
THEOREM OnlyOwnCloseAlways == Spec => []OnlyOwnClose
<1>1. Init => OwnGone /\ Sending
  BY DEF Init, OwnGone, Sending
<1>2. TypeOK /\ SessionsInv /\ OwnGone /\ Sending /\ [Next]_vars => OwnGone' /\ Sending'
  BY OwnStep
<1>3. SessionsInv /\ OwnGone => OnlyOwnClose
  BY DEF SessionsInv, OwnGone, OnlyOwnClose
<1> QED
  BY <1>1, <1>2, <1>3, TypeCorrect, SessionsInvariant, PTL DEF Spec

-----------------------------------------------------------------------------
(* RelayPath: frames and channels.                                           *)

\* A frame for a channel is put in or dropped; in no case is the channel empty.
LEMMA OfferIs ==
  ASSUME NEW q \in Seq(Frame), NEW f \in Frame
  PROVE  Offer(q, f) \in Seq(Frame) /\ Offer(q, f) # <<>>
<1> USE PathAssumption
<1>1. Cap \in Nat \ {0}
  OBVIOUS
<1>2. CASE Len(q) < Cap
  <2>1. Append(q, f) \in Seq(Frame) /\ Append(q, f) # <<>>
    OBVIOUS
  <2> QED
    BY <1>2, <2>1 DEF Offer
<1>3. CASE ~(Len(q) < Cap)
  <2>1. q # <<>>
    BY <1>1, <1>3
  <2> QED
    BY <1>3, <2>1 DEF Offer
<1> QED
  BY <1>2, <1>3

\* What pings, pongs and wrapped datagrams are, and what a frame of data holds.
LEMMA FrameIs ==
  /\ Control("ping") \in Frame /\ Control("pong") \in Frame
  /\ \A tag \in Tag, load \in Load : Wrap(tag, load) \in Frame
  /\ \A f \in Frame : f.type = "data" => f.tag \in Tag /\ f.load \in Load
<1>1. Control("ping") \in Frame /\ Control("pong") \in Frame
  BY DEF Control, Frame
<1>2. \A tag \in Tag, load \in Load : Wrap(tag, load) \in Frame
  BY DEF Wrap, Frame
<1>3. \A f \in Frame : f.type = "data" => f.tag \in Tag /\ f.load \in Load
  BY DEF Frame
<1> QED
  BY <1>1, <1>2, <1>3

\* The first frame of a channel, and what is left.
LEMMA HeadIs ==
  ASSUME NEW q \in Seq(Frame), q # <<>>
  PROVE  Head(q) \in Frame /\ Tail(q) \in Seq(Frame)
OBVIOUS

\* A request and its answer.
LEMMA LoadIs ==
  /\ \A d \in Child : [kind |-> "request", child |-> d] \in Load
  /\ \A l \in Load : [l EXCEPT !.kind = "reply"] \in Load
BY DEF Load

\* A bounded event is counted.
LEMMA PathSpend ==
  ASSUME NEW k \in DOMAIN Bound, Spend(k), count \in [DOMAIN Bound -> Nat]
  PROVE  count' \in [DOMAIN Bound -> Nat]
<1> DEFINE D == DOMAIN Bound
<1>1. count' = [count EXCEPT ![k] = count[k] + 1]
  BY DEF Spend
<1> HIDE DEF D
<1> QED
  BY <1>1 DEF D

\* The names of the bounded events.
LEMMA PathBoundNames == DOMAIN Bound = {"send", "fault", "restart"}
BY DEF Bound

\* The parts of PathTypeOK.
DataOK ==
  /\ inbox \subseteq [src : Tag, load : Load] /\ answers \subseteq Load
  /\ delivered \subseteq [to : Tag, load : Load]
QueuesOK == up \in [Session -> Seq(Frame)] /\ down \in [Session -> Seq(Frame)]
ClientOK ==
  /\ client \in {"waiting", "session", "stopped"}
  /\ cur \in Session \union {0}
  /\ delay \in ReconnectBase .. ReconnectMax /\ wait \in 0 .. ReconnectMax
  /\ readers \in [Session -> SUBSET {"wg", "ws"}]
  /\ errs \in [Session -> 0 .. ErrCap]
ConnOK ==
  /\ link \in [Session -> {"none", "up", "cut", "closed"}]
  /\ handler \in [Session -> {"none", "open", "ended"}]
  /\ registered \in Session \union {0}
  /\ heard \in [Session -> [broker : 0 .. BrokerDeadline, client : 0 .. ClientDeadline]]
  /\ timer \in [Session -> 0 .. PingInterval]
CountOK == abrupt \in BOOLEAN /\ count \in [DOMAIN Bound -> Nat]

\* PathTypeOK is the conjunction of these parts.
LEMMA PathTypeParts ==
  PathTypeOK <=> DataOK /\ QueuesOK /\ ClientOK /\ ConnOK /\ CountOK
BY DEF PathTypeOK, DataOK, QueuesOK, ClientOK, ConnOK, CountOK

\* Sessions are numbered from 1.
LEMMA Numbers == Session \subseteq Nat \ {0}
BY PathAssumption DEF Session

-----------------------------------------------------------------------------
(* RelayPath: types.                                                         *)

\* A session ends and the client waits.
LEMMA AgainType ==
  ASSUME ClientOK, Again, UNCHANGED <<cur, readers>>,
         errs' \in [Session -> 0 .. ErrCap]
  PROVE  ClientOK' /\ wait' > 0
BY DEF Again, ClientOK, ReconnectBase, ReconnectMax

\* What the deferred calls close.
LEMMA CloseType ==
  ASSUME DataOK, QueuesOK, NEW s \in Session, Close(s), UNCHANGED <<inbox, delivered, down>>,
         link \in [Session -> {"none", "up", "cut", "closed"}]
  PROVE  /\ DataOK' /\ QueuesOK'
         /\ link' \in [Session -> {"none", "up", "cut", "closed"}]
<1>1. <<>> \in Seq(Frame)
  OBVIOUS
<1> QED
  BY <1>1 DEF Close, DataOK, QueuesOK

\* Every step keeps the types.
LEMMA PathTypeStep ==
  ASSUME PathTypeOK, LiveInv, PathNext \/ UNCHANGED pathVars
  PROVE  PathTypeOK'
<1> USE PathAssumption
<1> USE DEF clientVars, queues
<1>0. DataOK /\ QueuesOK /\ ClientOK /\ ConnOK /\ CountOK
  BY PathTypeParts
<1>1. ASSUME NEW d \in Child, ChildSends(d)
      PROVE  PathTypeOK'
  <2>1. QueuesOK' /\ ClientOK' /\ ConnOK' /\ CountOK'
    BY <1>0, <1>1, PathSpend, PathBoundNames
       DEF ChildSends, QueuesOK, ClientOK, ConnOK, CountOK
  <2>2. DataOK'
    <3>1. [src |-> d, load |-> [kind |-> "request", child |-> d]] \in [src : Tag, load : Load]
      BY <1>1, LoadIs DEF Tag
    <3> QED
      BY <1>0, <1>1, <3>1 DEF ChildSends, DataOK
  <2> QED
    BY <2>1, <2>2, PathTypeParts, PTL
<1>2. ASSUME NEW m \in inbox, BridgeForwards(m)
      PROVE  PathTypeOK'
  <2>1. DataOK' /\ ClientOK' /\ ConnOK' /\ CountOK'
    BY <1>0, <1>2 DEF BridgeForwards, DataOK, ClientOK, ConnOK, CountOK
  <2>2. QueuesOK'
    <3>1. Wrap(m.src, m.load) \in Frame
      BY <1>0, <1>2, FrameIs DEF DataOK
    <3>2. Offer(down[registered], Wrap(m.src, m.load)) \in Seq(Frame)
      BY <1>0, <1>2, <3>1, OfferIs DEF BridgeForwards, QueuesOK, ConnOK
    <3> QED
      BY <1>0, <1>2, <3>2 DEF BridgeForwards, QueuesOK, ConnOK
  <2> QED
    BY <2>1, <2>2, PathTypeParts, PTL
<1>3. ASSUME NEW m \in inbox, BridgeFallsBack(m)
      PROVE  PathTypeOK'
  <2>1. DataOK' /\ QueuesOK' /\ ClientOK' /\ ConnOK' /\ CountOK'
    BY <1>0, <1>3 DEF BridgeFallsBack, DataOK, QueuesOK, ClientOK, ConnOK, CountOK
  <2> QED
    BY <2>1, PathTypeParts, PTL
<1>4. CASE Dial
  <2>1. DataOK' /\ QueuesOK' /\ ClientOK' /\ ConnOK' /\ CountOK'
    BY <1>0, <1>4 DEF Dial, DataOK, QueuesOK, ClientOK, ConnOK, CountOK
  <2> QED
    BY <2>1, PathTypeParts, PTL
<1>5. CASE DialFails
  <2>1. DataOK' /\ QueuesOK' /\ ConnOK' /\ CountOK'
    BY <1>0, <1>5, PathSpend, PathBoundNames
       DEF DialFails, Again, DataOK, QueuesOK, ConnOK, CountOK
  <2>2. ClientOK'
    BY <1>0, <1>5, AgainType DEF DialFails, ClientOK
  <2> QED
    BY <2>1, <2>2, PathTypeParts, PTL
<1>6. CASE SessionEnds
  <2>1. CountOK'
    BY <1>0, <1>6 DEF SessionEnds, Again, Close, CountOK
  <2>2. DataOK'
    <3>1. cur \in Session /\ UNCHANGED <<inbox, delivered, down>>
      BY <1>0, <1>6 DEF SessionEnds, ClientOK, LiveInv
    <3> QED
      BY <1>0, <1>6, <3>1, CloseType DEF SessionEnds, ConnOK
  <2>3. QueuesOK'
    <3>1. cur \in Session /\ UNCHANGED <<inbox, delivered, down>>
      BY <1>0, <1>6 DEF SessionEnds, ClientOK, LiveInv
    <3> QED
      BY <1>0, <1>6, <3>1, CloseType DEF SessionEnds, ConnOK
  <2>4. ClientOK'
    <3>1. errs' \in [Session -> 0 .. ErrCap]
      BY <1>0, <1>6 DEF SessionEnds, ClientOK, ErrCap, LiveInv
    <3> QED
      BY <1>0, <1>6, <3>1, AgainType DEF SessionEnds
  <2>5. ConnOK'
    <3>1. cur \in Session /\ UNCHANGED <<inbox, delivered, down>>
      BY <1>0, <1>6 DEF SessionEnds, ClientOK, LiveInv
    <3>2. link' \in [Session -> {"none", "up", "cut", "closed"}]
      BY <1>0, <1>6, <3>1, CloseType DEF SessionEnds, ConnOK
    <3> QED
      BY <1>0, <1>6, <3>2 DEF SessionEnds, ConnOK
  <2> QED
    BY <2>1, <2>2, <2>3, <2>4, <2>5, PathTypeParts, PTL
<1>7. CASE WriteFails
  <2>1. CountOK'
    BY <1>0, <1>7 DEF WriteFails, Again, Close, CountOK
  <2>2. DataOK'
    <3>1. cur \in Session /\ UNCHANGED <<inbox, delivered, down>>
      BY <1>0, <1>7 DEF WriteFails, ClientOK, LiveInv
    <3> QED
      BY <1>0, <1>7, <3>1, CloseType DEF WriteFails, ConnOK
  <2>3. QueuesOK'
    <3>1. cur \in Session /\ UNCHANGED <<inbox, delivered, down>>
      BY <1>0, <1>7 DEF WriteFails, ClientOK, LiveInv
    <3> QED
      BY <1>0, <1>7, <3>1, CloseType DEF WriteFails, ConnOK
  <2>4. ClientOK'
    <3>1. errs' \in [Session -> 0 .. ErrCap]
      BY <1>0, <1>7 DEF WriteFails, ClientOK, ErrCap, LiveInv
    <3> QED
      BY <1>0, <1>7, <3>1, AgainType DEF WriteFails
  <2>5. ConnOK'
    <3>1. cur \in Session /\ UNCHANGED <<inbox, delivered, down>>
      BY <1>0, <1>7 DEF WriteFails, ClientOK, LiveInv
    <3>2. link' \in [Session -> {"none", "up", "cut", "closed"}]
      BY <1>0, <1>7, <3>1, CloseType DEF WriteFails, ConnOK
    <3> QED
      BY <1>0, <1>7, <3>2 DEF WriteFails, ConnOK
  <2> QED
    BY <2>1, <2>2, <2>3, <2>4, <2>5, PathTypeParts, PTL
<1>8. CASE ClientReceives
  <2>1. ClientOK' /\ CountOK'
    BY <1>0, <1>8 DEF ClientReceives, ClientOK, CountOK
  <2>2. DataOK'
    <3>1. cur \in Session /\ down[cur] \in Seq(Frame) /\ down[cur] # <<>>
      BY <1>0, <1>8 DEF ClientReceives, ClientOK, QueuesOK, LiveInv
    <3> DEFINE f == Head(down[cur])
    <3>2. f \in Frame
      BY <3>1, HeadIs
    <3>3. f.type = "data" => f.load \in Load
      BY <3>2, FrameIs
    <3>4. CASE UNCHANGED answers
      BY <1>0, <1>8, <3>4 DEF ClientReceives, DataOK
    <3>5. CASE /\ f.type = "data"
               /\ answers' = answers \union {[f.load EXCEPT !.kind = "reply"]}
      <4>1. [f.load EXCEPT !.kind = "reply"] \in Load
        BY <3>3, <3>5, LoadIs
      <4> HIDE DEF f
      <4> QED
        BY <1>0, <1>8, <3>5, <4>1 DEF ClientReceives, DataOK
    <3> QED
      BY <1>8, <3>4, <3>5 DEF ClientReceives
  <2>3. QueuesOK'
    <3>1. cur \in Session /\ down[cur] \in Seq(Frame) /\ down[cur] # <<>>
      BY <1>0, <1>8 DEF ClientReceives, ClientOK, QueuesOK, LiveInv
    <3>2. Tail(down[cur]) \in Seq(Frame)
      BY <3>1, HeadIs
    <3>3. Offer(up[cur], Control("pong")) \in Seq(Frame)
      BY <1>0, <3>1, FrameIs, OfferIs DEF QueuesOK
    <3> QED
      BY <1>0, <1>8, <3>1, <3>2, <3>3 DEF ClientReceives, QueuesOK
  <2>4. ConnOK'
    <3>1. cur \in Session
      BY <1>0, <1>8 DEF ClientReceives, ClientOK, LiveInv
    <3>2. heard' = [heard EXCEPT ![cur] = [heard[cur] EXCEPT !.client = 0]]
      BY <1>8 DEF ClientReceives
    <3>3. [heard[cur] EXCEPT !.client = 0] \in [broker : 0 .. BrokerDeadline, client : 0 .. ClientDeadline]
      BY <1>0, <3>1 DEF ConnOK, BrokerDeadline, ClientDeadline, PingInterval
    <3>4. heard' \in [Session -> [broker : 0 .. BrokerDeadline, client : 0 .. ClientDeadline]]
      BY <1>0, <3>2, <3>3 DEF ConnOK
    <3> QED
      BY <1>0, <1>8, <3>4 DEF ClientReceives, ConnOK
  <2> QED
    BY <2>1, <2>2, <2>3, <2>4, PathTypeParts, PTL
<1>9. ASSUME NEW a \in answers, ClientWraps(a)
      PROVE  PathTypeOK'
  <2>1. DataOK' /\ ClientOK' /\ ConnOK' /\ CountOK'
    BY <1>0, <1>9 DEF ClientWraps, DataOK, ClientOK, ConnOK, CountOK
  <2>2. QueuesOK'
    <3>1. cur \in Session /\ a \in Load /\ Local \in Tag
      BY <1>0, <1>9 DEF ClientWraps, ClientOK, DataOK, LiveInv, Tag
    <3>2. Offer(up[cur], Wrap(Local, a)) \in Seq(Frame)
      BY <1>0, <3>1, FrameIs, OfferIs DEF QueuesOK
    <3> QED
      BY <1>0, <1>9, <3>1, <3>2 DEF ClientWraps, QueuesOK
  <2> QED
    BY <2>1, <2>2, PathTypeParts, PTL
<1>10. ASSUME NEW s \in Session, NEW r \in readers[s], ReaderEnds(s, r)
      PROVE  PathTypeOK'
  <2>1. ClientOK'
    BY <1>0, <1>10 DEF ReaderEnds, Report, ClientOK, ErrCap
  <2>2. DataOK' /\ QueuesOK' /\ ConnOK' /\ CountOK'
    BY <1>0, <1>10 DEF ReaderEnds, Report, DataOK, QueuesOK, ConnOK, CountOK
  <2> QED
    BY <2>1, <2>2, PathTypeParts, PTL
<1>11. ASSUME NEW s \in Session, WgRefuses(s)
      PROVE  PathTypeOK'
  <2>1. ClientOK'
    BY <1>0, <1>11 DEF WgRefuses, Report, ClientOK, ErrCap
  <2>2. DataOK' /\ QueuesOK' /\ ConnOK' /\ CountOK'
    BY <1>0, <1>11, PathSpend, PathBoundNames
       DEF WgRefuses, Report, DataOK, QueuesOK, ConnOK, CountOK
  <2> QED
    BY <2>1, <2>2, PathTypeParts, PTL
<1>12. ASSUME NEW how \in {"closed", "cut"}, Quit(how)
      PROVE  PathTypeOK'
  <2>1. ClientOK'
    BY <1>0, <1>12 DEF Quit, ClientOK, ErrCap
  <2>2. DataOK' /\ ConnOK' /\ CountOK'
    BY <1>0, <1>12, PathSpend, PathBoundNames DEF Quit, DataOK, ConnOK, CountOK
  <2>3. QueuesOK'
    <3>1. <<>> \in Seq(Frame)
      OBVIOUS
    <3> QED
      BY <1>0, <1>12, <3>1 DEF Quit, QueuesOK
  <2> QED
    BY <2>1, <2>2, <2>3, PathTypeParts, PTL
<1>13. CASE Start
  <2>1. DataOK' /\ QueuesOK' /\ ClientOK' /\ ConnOK' /\ CountOK'
    BY <1>0, <1>13 DEF Start, Quiet, ReconnectBase, ReconnectMax, DataOK,
                       QueuesOK, ClientOK, ConnOK, CountOK
  <2> QED
    BY <2>1, PathTypeParts, PTL
<1>14. ASSUME NEW s \in Session, HandlerReceives(s)
      PROVE  PathTypeOK'
  <2>1. ClientOK' /\ CountOK'
    BY <1>0, <1>14 DEF HandlerReceives, ClientOK, CountOK
  <2>2. DataOK'
    <3> DEFINE f == Head(up[s])
    <3>1. f \in Frame /\ Local \in Tag
      BY <1>0, <1>14, HeadIs DEF HandlerReceives, QueuesOK, Tag
    <3>2. f.type = "data" => f.tag \in Tag /\ f.load \in Load
      BY <3>1, FrameIs
    <3>3. /\ inbox' = inbox \/ (f.type = "data" /\ inbox' = inbox \union {[src |-> Local, load |-> f.load]})
          /\ \/ delivered' = delivered
             \/ f.type = "data" /\ delivered' = delivered \union {[to |-> f.tag, load |-> f.load]}
          /\ answers' = answers
      BY <1>14 DEF HandlerReceives
    <3> HIDE DEF f
    <3> QED
      BY <1>0, <3>1, <3>2, <3>3 DEF DataOK
  <2>3. QueuesOK'
    <3>1. Tail(up[s]) \in Seq(Frame)
      BY <1>0, <1>14, HeadIs DEF HandlerReceives, QueuesOK
    <3>2. Offer(down[s], Control("pong")) \in Seq(Frame)
      BY <1>0, FrameIs, OfferIs DEF QueuesOK
    <3> QED
      BY <1>0, <1>14, <3>1, <3>2 DEF HandlerReceives, QueuesOK
  <2>4. ConnOK'
    <3>1. s \in Session
      BY <1>0, <1>14 DEF HandlerReceives, ClientOK, LiveInv
    <3>2. heard' = [heard EXCEPT ![s] = [heard[s] EXCEPT !.broker = 0]]
      BY <1>14 DEF HandlerReceives
    <3>3. [heard[s] EXCEPT !.broker = 0] \in [broker : 0 .. BrokerDeadline, client : 0 .. ClientDeadline]
      BY <1>0, <3>1 DEF ConnOK, BrokerDeadline, ClientDeadline, PingInterval
    <3>4. heard' \in [Session -> [broker : 0 .. BrokerDeadline, client : 0 .. ClientDeadline]]
      BY <1>0, <3>2, <3>3 DEF ConnOK
    <3> QED
      BY <1>0, <1>14, <3>4 DEF HandlerReceives, ConnOK
  <2> QED
    BY <2>1, <2>2, <2>3, <2>4, PathTypeParts, PTL
<1>15. ASSUME NEW s \in Session, HandlerEnds(s)
      PROVE  PathTypeOK'
  <2>1. DataOK' /\ ClientOK' /\ ConnOK' /\ CountOK'
    BY <1>0, <1>15 DEF HandlerEnds, DataOK, ClientOK, ConnOK, CountOK
  <2>2. QueuesOK'
    <3>1. <<>> \in Seq(Frame)
      OBVIOUS
    <3> QED
      BY <1>0, <1>15, <3>1 DEF HandlerEnds, QueuesOK
  <2> QED
    BY <2>1, <2>2, PathTypeParts, PTL
<1>16. CASE BrokerDies
  <2>1. DataOK' /\ ClientOK' /\ ConnOK' /\ CountOK'
    BY <1>0, <1>16, PathSpend, PathBoundNames
       DEF BrokerDies, DataOK, ClientOK, ConnOK, CountOK
  <2>2. QueuesOK'
    <3>1. <<>> \in Seq(Frame)
      OBVIOUS
    <3> QED
      BY <1>0, <1>16, <3>1 DEF BrokerDies, QueuesOK
  <2> QED
    BY <2>1, <2>2, PathTypeParts, PTL
<1>17. ASSUME NEW s \in Session, Ping(s)
      PROVE  PathTypeOK'
  <2>1. DataOK' /\ ClientOK' /\ ConnOK' /\ CountOK'
    BY <1>0, <1>17 DEF Ping, DataOK, ClientOK, ConnOK, CountOK
  <2>2. QueuesOK'
    <3>1. /\ Offer(down[s], Control("ping")) \in Seq(Frame)
          /\ Offer(up[s], Control("ping")) \in Seq(Frame)
      BY <1>0, FrameIs, OfferIs DEF QueuesOK
    <3> QED
      BY <1>0, <1>17, <3>1 DEF Ping, QueuesOK
  <2> QED
    BY <2>1, <2>2, PathTypeParts, PTL
<1>18. ASSUME NEW s \in Session, Cut(s)
      PROVE  PathTypeOK'
  <2>1. DataOK' /\ QueuesOK' /\ ClientOK' /\ ConnOK' /\ CountOK'
    BY <1>0, <1>18, PathSpend, PathBoundNames
       DEF Cut, DataOK, QueuesOK, ClientOK, ConnOK, CountOK
  <2> QED
    BY <2>1, PathTypeParts, PTL
<1>19. ASSUME NEW s \in Session, Lose(s)
      PROVE  PathTypeOK'
  <2>1. DataOK' /\ ClientOK' /\ ConnOK' /\ CountOK'
    BY <1>0, <1>19 DEF Lose, DataOK, ClientOK, ConnOK, CountOK
  <2>2. QueuesOK'
    <3>1. <<>> \in Seq(Frame)
      OBVIOUS
    <3> QED
      BY <1>0, <1>19, <3>1 DEF Lose, QueuesOK
  <2> QED
    BY <2>1, <2>2, PathTypeParts, PTL
<1>20. CASE Tick
  <2>1. DataOK' /\ QueuesOK' /\ CountOK'
    BY <1>0, <1>20 DEF Tick, Quiet, DataOK, QueuesOK, CountOK
  <2>2. ClientOK'
    BY <1>0, <1>20 DEF Tick, Quiet, ClientOK, ReconnectMax
  <2>3. ConnOK'
    <3>1. ASSUME NEW s \in Session
          PROVE  /\ heard'[s] \in [broker : 0 .. BrokerDeadline, client : 0 .. ClientDeadline]
                 /\ timer'[s] \in 0 .. PingInterval
      <4>1. /\ heard[s].broker \in 0 .. 5 /\ heard[s].client \in 0 .. 8
            /\ timer[s] \in 0 .. 3
        BY <1>0 DEF ConnOK, BrokerDeadline, ClientDeadline, PingInterval
      <4>2. /\ handler[s] = "open" => heard[s].broker < 5
            /\ InSession(s) => heard[s].client < 8
            /\ timer[s] < 3
        BY <1>20 DEF Tick, Quiet, BrokerDeadline, ClientDeadline, PingInterval
      <4> QED
        BY <1>20, <4>1, <4>2 DEF Tick, BrokerDeadline, ClientDeadline, PingInterval
    <3>2. /\ heard' = [s \in Session |-> heard'[s]]
          /\ timer' = [s \in Session |-> timer'[s]]
      BY <1>20 DEF Tick
    <3>3. /\ heard' \in [Session -> [broker : 0 .. BrokerDeadline, client : 0 .. ClientDeadline]]
          /\ timer' \in [Session -> 0 .. PingInterval]
      BY <3>1, <3>2
    <3> QED
      BY <1>0, <1>20, <3>3 DEF Tick, ConnOK
  <2> QED
    BY <2>1, <2>2, <2>3, PathTypeParts, PTL
<1>21. CASE UNCHANGED pathVars
  BY <1>21 DEF pathVars, PathTypeOK, Bound
<1> QED
  BY <1>1, <1>2, <1>3, <1>4, <1>5, <1>6, <1>7, <1>8, <1>9, <1>10, <1>11, <1>12,
     <1>13, <1>14, <1>15, <1>16, <1>17, <1>18, <1>19, <1>20, <1>21
     DEF PathNext, Bridge, Connect, Receive, SomeReaderEnds

-----------------------------------------------------------------------------
(* RelayPath: deadlines.                                                     *)

\* What LiveInv and LateInv say of one session.
Fresh(u) ==
  u > cur => /\ handler[u] = "none" /\ link[u] = "none"
             /\ timer[u] = 0 /\ heard[u] = [broker |-> 0, client |-> 0]
Live(u) ==
  link[u] = "up" =>
    /\ InSession(u) /\ handler[u] = "open"
    /\ heard[u].broker <= 3 /\ heard[u].client <= 3
    /\ up[u] = <<>> => heard[u].broker <= timer[u]
    /\ down[u] = <<>> => heard[u].client <= timer[u]
Linked(u) == InSession(u) => link[u] # "none"
Silent(u) ==
  link[u] = "cut" /\ InSession(u) /\ handler[u] = "open" =>
    heard[u].client <= heard[u].broker + 3
Due(u) ==
  ~abrupt /\ handler[u] = "open" /\ ~InSession(u) =>
    /\ client # "session" /\ (client = "waiting" => wait > 0)
    /\ link[u] = "closed" \/ heard[u].broker >= 5

Started == client = "session" => cur # 0
PathInv ==
  /\ Started /\ NoLateUnregister
  /\ \A u \in Session : Fresh(u) /\ Linked(u) /\ Live(u) /\ Silent(u) /\ Due(u)

\* The invariant, session by session.
LEMMA PathParts == LiveInv /\ LateInv /\ NoLateUnregister <=> PathInv
BY DEF LiveInv, LateInv, PathInv, Started, Fresh, Linked, Live, Silent, Due,
       PingInterval, BrokerDeadline

\* What a step has to keep.
LEMMA PathGoal ==
  ASSUME Started', NoLateUnregister',
         \A u \in Session : Fresh(u)' /\ Linked(u)' /\ Live(u)' /\ Silent(u)' /\ Due(u)'
  PROVE  PathInv'
BY DEF PathInv

\* Every step keeps the invariant.
LEMMA PathStep ==
  ASSUME PathTypeOK, PathInv, PathNext \/ UNCHANGED pathVars
  PROVE  PathInv'
<1> USE PathAssumption
<1> USE DEF clientVars, queues
<1>0. /\ DataOK /\ QueuesOK /\ ClientOK /\ ConnOK /\ Started /\ NoLateUnregister
      /\ \A u \in Session : Fresh(u) /\ Linked(u) /\ Live(u) /\ Silent(u) /\ Due(u)
  BY PathTypeParts DEF PathInv
<1>a. Session \subseteq Nat \ {0} /\ cur \in Nat
  BY <1>0, Numbers DEF ClientOK
<1>b. \A u \in Session : /\ heard[u].broker \in Nat /\ heard[u].client \in Nat
                          /\ timer[u] \in 0 .. 3
  BY <1>0 DEF ConnOK, BrokerDeadline, ClientDeadline, PingInterval
<1>c. /\ Control("ping") \in Frame /\ Control("pong") \in Frame
      /\ \A u \in Session, f \in Frame :
           Offer(up[u], f) # <<>> /\ Offer(down[u], f) # <<>>
  BY <1>0, FrameIs, OfferIs DEF QueuesOK
<1>1. ASSUME NEW d \in Child, ChildSends(d)
      PROVE  PathInv'
  <2>1. Started' /\ NoLateUnregister'
    BY <1>0, <1>1 DEF ChildSends, Started, NoLateUnregister, Due, InSession,
                      ClientOK, ConnOK
  <2> SUFFICES ASSUME NEW u \in Session
               PROVE  Fresh(u)' /\ Linked(u)' /\ Live(u)' /\ Silent(u)' /\ Due(u)'
    BY <2>1, PathGoal
  <2>2. Fresh(u)' /\ Linked(u)' /\ Live(u)' /\ Silent(u)' /\ Due(u)'
    BY <1>0, <1>1 DEF ChildSends, Fresh, Linked, Started, Live, Silent, Due,
                      InSession, ClientOK, ConnOK, QueuesOK
  <2> QED
    BY <2>2
<1>2. ASSUME NEW m \in inbox, BridgeForwards(m)
      PROVE  PathInv'
  <2>1. Started' /\ NoLateUnregister'
    BY <1>0, <1>2 DEF BridgeForwards, Started, NoLateUnregister, Due, InSession,
                      ClientOK, ConnOK
  <2> SUFFICES ASSUME NEW u \in Session
               PROVE  Fresh(u)' /\ Linked(u)' /\ Live(u)' /\ Silent(u)' /\ Due(u)'
    BY <2>1, PathGoal
  <2>2. Fresh(u)' /\ Linked(u)' /\ Silent(u)' /\ Due(u)'
    BY <1>0, <1>2 DEF BridgeForwards, Fresh, Linked, Started, Silent, Live, Due,
                      InSession, ClientOK, ConnOK, QueuesOK
  <2>3. Live(u)'
    <3>1. Wrap(m.src, m.load) \in Frame /\ registered \in Session
      BY <1>0, <1>2, FrameIs DEF DataOK, ConnOK, BridgeForwards
    <3>2. down' = [down EXCEPT ![registered] = Offer(down[registered], Wrap(m.src, m.load))]
      BY <1>2 DEF BridgeForwards
    <3>3. down'[u] = <<>> => down[u] = <<>>
      BY <1>0, <1>c, <3>1, <3>2 DEF QueuesOK
    <3> QED
      BY <1>0, <1>2, <3>3 DEF BridgeForwards, Live, InSession
  <2> QED
    BY <2>2, <2>3
<1>3. ASSUME NEW m \in inbox, BridgeFallsBack(m)
      PROVE  PathInv'
  <2>1. Started' /\ NoLateUnregister'
    BY <1>0, <1>3 DEF BridgeFallsBack, Started, NoLateUnregister, Due, InSession,
                      ClientOK, ConnOK
  <2> SUFFICES ASSUME NEW u \in Session
               PROVE  Fresh(u)' /\ Linked(u)' /\ Live(u)' /\ Silent(u)' /\ Due(u)'
    BY <2>1, PathGoal
  <2>2. Fresh(u)' /\ Linked(u)' /\ Live(u)' /\ Silent(u)' /\ Due(u)'
    BY <1>0, <1>3 DEF BridgeFallsBack, Fresh, Linked, Started, Live, Silent, Due,
                      InSession, ClientOK, ConnOK, QueuesOK
  <2> QED
    BY <2>2
<1>4. CASE Dial
  <2>1. Started' /\ NoLateUnregister'
    <3>1. /\ handler' = [handler EXCEPT ![cur + 1] = "open"]
          /\ registered' = cur + 1
          /\ cur' = cur + 1
      BY <1>4 DEF Dial
    <3> QED
      BY <1>a, <3>1 DEF Started, NoLateUnregister
  <2> SUFFICES ASSUME NEW u \in Session
               PROVE  Fresh(u)' /\ Linked(u)' /\ Live(u)' /\ Silent(u)' /\ Due(u)'
    BY <2>1, PathGoal
  <2>2. Linked(u)'
    BY <1>0, <1>4 DEF Dial, Linked, Fresh, Started, InSession, ClientOK, ConnOK,
                      QueuesOK
  <2>3. Silent(u)'
    BY <1>0, <1>4 DEF Dial, Silent, Live, InSession, ClientOK, ConnOK, QueuesOK
  <2>4. Due(u)'
    BY <1>0, <1>4 DEF Dial, Due, Live, InSession, ClientOK, ConnOK, QueuesOK
  <2>5. Fresh(u)'
    <3>1. /\ cur' = cur + 1 /\ UNCHANGED <<heard, timer>>
          /\ link' = [link EXCEPT ![cur + 1] = "up"]
          /\ handler' = [handler EXCEPT ![cur + 1] = "open"]
      BY <1>4 DEF Dial
    <3>2. u > cur' => u > cur /\ u # cur + 1
      BY <1>a, <3>1
    <3> QED
      BY <1>0, <3>1, <3>2 DEF Fresh, ConnOK
  <2>6. Live(u)'
    <3>1. /\ cur' = cur + 1 /\ client' = "session" /\ UNCHANGED <<heard, timer, up, down>>
          /\ link' = [link EXCEPT ![cur + 1] = "up"]
          /\ handler' = [handler EXCEPT ![cur + 1] = "open"]
      BY <1>4 DEF Dial
    <3>2. CASE u = cur + 1
      <4>1. u > cur
        BY <1>a, <3>2
      <4>2. heard[u].broker = 0 /\ heard[u].client = 0 /\ timer[u] = 0
        BY <1>0, <4>1 DEF Fresh
      <4> QED
        BY <1>0, <3>1, <3>2, <4>2 DEF Live, InSession, ConnOK
    <3>3. CASE u # cur + 1
      <4>1. link[u] # "up"
        BY <1>0, <1>4 DEF Dial, Live, InSession
      <4> QED
        BY <1>0, <3>1, <3>3, <4>1 DEF Live, ConnOK
    <3> QED
      BY <3>2, <3>3
  <2> QED
    BY <2>2, <2>3, <2>4, <2>5, <2>6
<1>5. CASE DialFails
  <2>1. Started' /\ NoLateUnregister'
    BY <1>0, <1>5 DEF DialFails, Again, Started, NoLateUnregister, Due, InSession,
                      ClientOK, ConnOK
  <2> SUFFICES ASSUME NEW u \in Session
               PROVE  Fresh(u)' /\ Linked(u)' /\ Live(u)' /\ Silent(u)' /\ Due(u)'
    BY <2>1, PathGoal
  <2>2. Fresh(u)' /\ Linked(u)' /\ Live(u)' /\ Silent(u)' /\ Due(u)'
    BY <1>0, <1>5 DEF DialFails, Again, Fresh, Linked, Started, Live, Silent, Due,
                      InSession, ClientOK, ConnOK, QueuesOK
  <2> QED
    BY <2>2
<1>6. CASE SessionEnds
  <2>1. Started' /\ NoLateUnregister'
    BY <1>0, <1>6 DEF SessionEnds, Again, Close, Started, NoLateUnregister, Due,
                      InSession, ClientOK, ConnOK
  <2> SUFFICES ASSUME NEW u \in Session
               PROVE  Fresh(u)' /\ Linked(u)' /\ Live(u)' /\ Silent(u)' /\ Due(u)'
    BY <2>1, PathGoal
  <2>2. Fresh(u)' /\ Linked(u)' /\ Live(u)' /\ Silent(u)'
    BY <1>0, <1>6 DEF SessionEnds, Again, Close, Fresh, Linked, Started, Live,
                      Silent, InSession, ClientOK, ConnOK, QueuesOK
  <2>3. Due(u)'
    <3>1. /\ client = "session" /\ client' = "waiting" /\ wait' > 0 /\ cur \in Session
          /\ UNCHANGED <<handler, heard, cur>>
          /\ link' = [link EXCEPT ![cur] = IF link[cur] = "up" THEN "closed" ELSE link[cur]]
      BY <1>0, <1>6 DEF SessionEnds, Again, Close, ClientOK, Started, ReconnectBase
    <3>2. CASE u = cur
      <4>1. link[cur] # "none" /\ InSession(cur)
        BY <1>0, <3>1 DEF Linked, InSession
      <4>2. link[cur] = "cut" /\ handler[cur] = "open" /\ ~abrupt' => heard[cur].broker >= 5
        BY <1>0, <1>b, <1>6, <3>1, <4>1 DEF SessionEnds, Silent, ClientDeadline
      <4> QED
        BY <1>0, <3>1, <3>2, <4>1, <4>2 DEF Due, ConnOK
    <3>3. CASE u # cur
      <4>1. ~abrupt => handler[u] # "open"
        BY <1>0, <3>1, <3>3 DEF Due, InSession
      <4>2. ~abrupt' => ~abrupt
        BY <1>6 DEF SessionEnds
      <4> QED
        BY <3>1, <4>1, <4>2 DEF Due
    <3> QED
      BY <3>2, <3>3
  <2> QED
    BY <2>2, <2>3
<1>7. CASE WriteFails
  <2>1. Started' /\ NoLateUnregister'
    BY <1>0, <1>7 DEF WriteFails, Again, Close, Started, NoLateUnregister, Due,
                      InSession, ClientOK, ConnOK
  <2> SUFFICES ASSUME NEW u \in Session
               PROVE  Fresh(u)' /\ Linked(u)' /\ Live(u)' /\ Silent(u)' /\ Due(u)'
    BY <2>1, PathGoal
  <2>2. Fresh(u)' /\ Linked(u)' /\ Live(u)' /\ Silent(u)'
    BY <1>0, <1>7 DEF WriteFails, Again, Close, Fresh, Linked, Started, Live,
                      Silent, InSession, ClientOK, ConnOK, QueuesOK
  <2>3. Due(u)'
    <3>1. /\ client = "session" /\ client' = "waiting" /\ wait' > 0 /\ cur \in Session
          /\ UNCHANGED <<handler, heard, cur>>
          /\ link' = [link EXCEPT ![cur] = IF link[cur] = "up" THEN "closed" ELSE link[cur]]
      BY <1>0, <1>7 DEF WriteFails, Again, Close, ClientOK, Started, ReconnectBase
    <3>2. CASE u = cur
      <4>1. link[cur] # "none" /\ InSession(cur)
        BY <1>0, <3>1 DEF Linked, InSession
      <4>2. link[cur] = "cut" /\ handler[cur] = "open" /\ ~abrupt' => heard[cur].broker >= 5
        BY <1>0, <1>b, <1>7, <3>1, <4>1 DEF WriteFails, Silent, ClientDeadline
      <4> QED
        BY <1>0, <3>1, <3>2, <4>1, <4>2 DEF Due, ConnOK
    <3>3. CASE u # cur
      <4>1. ~abrupt => handler[u] # "open"
        BY <1>0, <3>1, <3>3 DEF Due, InSession
      <4>2. ~abrupt' => ~abrupt
        BY <1>7 DEF WriteFails
      <4> QED
        BY <3>1, <4>1, <4>2 DEF Due
    <3> QED
      BY <3>2, <3>3
  <2> QED
    BY <2>2, <2>3
<1>8. CASE ClientReceives
  <2>1. Started' /\ NoLateUnregister'
    BY <1>0, <1>8 DEF ClientReceives, Started, NoLateUnregister, Due, InSession,
                      ClientOK, ConnOK
  <2> SUFFICES ASSUME NEW u \in Session
               PROVE  Fresh(u)' /\ Linked(u)' /\ Live(u)' /\ Silent(u)' /\ Due(u)'
    BY <2>1, PathGoal
  <2>2. Fresh(u)' /\ Linked(u)' /\ Silent(u)' /\ Due(u)'
    BY <1>0, <1>8 DEF ClientReceives, Fresh, Linked, Started, Silent, Live, Due,
                      InSession, ClientOK, ConnOK, QueuesOK
  <2>3. Live(u)'
    <3>1. /\ UNCHANGED <<client, cur, link, handler, timer>>
          /\ up' = up \/ up' = [up EXCEPT ![cur] = Offer(up[cur], Control("pong"))]
          /\ down' = [down EXCEPT ![cur] = Tail(down[cur])]
          /\ heard' = [heard EXCEPT ![cur] = [heard[cur] EXCEPT !.client = 0]]
          /\ cur \in Session
      BY <1>0, <1>8 DEF ClientReceives, ClientOK, Started
    <3>2. up'[u] = <<>> => up[u] = <<>>
      BY <1>0, <1>c, <3>1 DEF QueuesOK
    <3>3. CASE u = cur
      <4>1. heard'[u].client = 0 /\ heard'[u].broker = heard[u].broker
        BY <1>0, <3>1, <3>3 DEF ConnOK
      <4> QED
        BY <1>0, <1>b, <3>1, <3>2, <4>1 DEF Live, InSession
    <3>4. CASE u # cur
      <4>1. link[u] # "up"
        BY <1>0, <3>4 DEF Live, InSession
      <4> QED
        BY <3>1, <4>1 DEF Live
    <3> QED
      BY <3>3, <3>4
  <2> QED
    BY <2>2, <2>3
<1>9. ASSUME NEW a \in answers, ClientWraps(a)
      PROVE  PathInv'
  <2>1. Started' /\ NoLateUnregister'
    BY <1>0, <1>9 DEF ClientWraps, Started, NoLateUnregister, Due, InSession,
                      ClientOK, ConnOK
  <2> SUFFICES ASSUME NEW u \in Session
               PROVE  Fresh(u)' /\ Linked(u)' /\ Live(u)' /\ Silent(u)' /\ Due(u)'
    BY <2>1, PathGoal
  <2>2. Fresh(u)' /\ Linked(u)' /\ Silent(u)' /\ Due(u)'
    BY <1>0, <1>9 DEF ClientWraps, Fresh, Linked, Started, Silent, Live, Due,
                      InSession, ClientOK, ConnOK, QueuesOK
  <2>3. Live(u)'
    <3>1. Wrap(Local, a) \in Frame /\ cur \in Session
      BY <1>0, <1>9, FrameIs DEF DataOK, ClientOK, Started, ClientWraps, Tag
    <3>2. up' = [up EXCEPT ![cur] = Offer(up[cur], Wrap(Local, a))]
      BY <1>9 DEF ClientWraps
    <3>3. up'[u] = <<>> => up[u] = <<>>
      BY <1>0, <1>c, <3>1, <3>2 DEF QueuesOK
    <3> QED
      BY <1>0, <1>9, <3>3 DEF ClientWraps, Live, InSession
  <2> QED
    BY <2>2, <2>3
<1>10. ASSUME NEW s \in Session, NEW r \in readers[s], ReaderEnds(s, r)
      PROVE  PathInv'
  <2>1. Started' /\ NoLateUnregister'
    BY <1>0, <1>10 DEF ReaderEnds, Report, Started, NoLateUnregister, Due,
                       InSession, ClientOK, ConnOK
  <2> SUFFICES ASSUME NEW u \in Session
               PROVE  Fresh(u)' /\ Linked(u)' /\ Live(u)' /\ Silent(u)' /\ Due(u)'
    BY <2>1, PathGoal
  <2>2. Fresh(u)' /\ Linked(u)' /\ Live(u)' /\ Silent(u)' /\ Due(u)'
    BY <1>0, <1>10 DEF ReaderEnds, Report, Fresh, Linked, Started, Live, Silent,
                       Due, InSession, ClientOK, ConnOK, QueuesOK
  <2> QED
    BY <2>2
<1>11. ASSUME NEW s \in Session, WgRefuses(s)
      PROVE  PathInv'
  <2>1. Started' /\ NoLateUnregister'
    BY <1>0, <1>11 DEF WgRefuses, Report, Started, NoLateUnregister, Due,
                       InSession, ClientOK, ConnOK
  <2> SUFFICES ASSUME NEW u \in Session
               PROVE  Fresh(u)' /\ Linked(u)' /\ Live(u)' /\ Silent(u)' /\ Due(u)'
    BY <2>1, PathGoal
  <2>2. Fresh(u)' /\ Linked(u)' /\ Live(u)' /\ Silent(u)' /\ Due(u)'
    BY <1>0, <1>11 DEF WgRefuses, Report, Fresh, Linked, Started, Live, Silent,
                       Due, InSession, ClientOK, ConnOK, QueuesOK
  <2> QED
    BY <2>2
<1>12. ASSUME NEW how \in {"closed", "cut"}, Quit(how)
      PROVE  PathInv'
  <2>1. Started' /\ NoLateUnregister'
    BY <1>0, <1>12 DEF Quit, Started, NoLateUnregister, Due, InSession, ClientOK,
                       ConnOK
  <2> SUFFICES ASSUME NEW u \in Session
               PROVE  Fresh(u)' /\ Linked(u)' /\ Live(u)' /\ Silent(u)' /\ Due(u)'
    BY <2>1, PathGoal
  <2>2. Fresh(u)' /\ Linked(u)' /\ Live(u)' /\ Silent(u)'
    BY <1>0, <1>12 DEF Quit, Fresh, Linked, Started, Live, Silent, InSession,
                       ClientOK, ConnOK, QueuesOK
  <2>3. Due(u)'
    <3>0. /\ link' = [w \in Session |-> IF InSession(w) /\ link[w] = "up" THEN how ELSE link[w]]
          /\ abrupt' = (abrupt \/ \E w \in Session : link'[w] = "cut")
      BY <1>12 DEF Quit
    <3>a. ~abrupt' => ~abrupt /\ link'[u] # "cut"
      BY <3>0, Zenon
    <3>b. link'[u] = IF InSession(u) /\ link[u] = "up" THEN how ELSE link[u]
      BY <3>0, Zenon
    <3>c. how \in {"closed", "cut"}
      OBVIOUS
    <3>d. client' = "stopped" /\ UNCHANGED <<cur, handler, heard>>
      BY <1>12 DEF Quit
    <3>e. link[u] \in {"none", "up", "cut", "closed"}
      BY <1>0 DEF ConnOK
    <3>1. /\ link[u] # "up" => link'[u] = link[u]
          /\ link[u] = "up" => link'[u] \in {"closed", "cut"}
      BY <1>0, <3>b, <3>c DEF Live
    <3>2. CASE InSession(u)
      <4>1. link[u] # "none"
        BY <1>0, <3>2 DEF Linked
      <4>2. ~abrupt' => link'[u] = "closed"
        BY <3>1, <3>a, <3>e, <4>1
      <4> QED
        BY <3>d, <4>2 DEF Due
    <3>3. CASE ~InSession(u)
      <4>1. link[u] # "up"
        BY <1>0, <3>3 DEF Live
      <4> QED
        BY <1>0, <3>1, <3>3, <3>a, <3>d, <4>1 DEF Due
    <3> QED
      BY <3>2, <3>3
  <2> QED
    BY <2>2, <2>3
<1>13. CASE Start
  <2>1. Started' /\ NoLateUnregister'
    BY <1>0, <1>13 DEF Start, Quiet, Started, NoLateUnregister, Due, InSession,
                       ClientOK, ConnOK
  <2> SUFFICES ASSUME NEW u \in Session
               PROVE  Fresh(u)' /\ Linked(u)' /\ Live(u)' /\ Silent(u)' /\ Due(u)'
    BY <2>1, PathGoal
  <2>2. Fresh(u)' /\ Linked(u)' /\ Live(u)' /\ Silent(u)'
    BY <1>0, <1>13 DEF Start, Quiet, Fresh, Linked, Started, Live, Silent,
                       InSession, ClientOK, ConnOK, QueuesOK
  <2>3. Due(u)'
    <3>1. handler[u] = "open" => link[u] # "closed" /\ ~(heard[u].broker >= 5)
      BY <1>b, <1>13 DEF Start, Quiet, BrokerDeadline, PingInterval
    <3>2. abrupt \/ handler[u] # "open"
      BY <1>0, <1>13, <3>1 DEF Start, Due, InSession
    <3> QED
      BY <1>13, <3>2 DEF Start, Due
  <2> QED
    BY <2>2, <2>3
<1>14. ASSUME NEW s \in Session, HandlerReceives(s)
      PROVE  PathInv'
  <2>1. Started' /\ NoLateUnregister'
    BY <1>0, <1>14 DEF HandlerReceives, Started, NoLateUnregister, Due, InSession,
                       ClientOK, ConnOK
  <2> SUFFICES ASSUME NEW u \in Session
               PROVE  Fresh(u)' /\ Linked(u)' /\ Live(u)' /\ Silent(u)' /\ Due(u)'
    BY <2>1, PathGoal
  <2>2. Fresh(u)' /\ Linked(u)' /\ Silent(u)' /\ Due(u)'
    BY <1>0, <1>14 DEF HandlerReceives, Fresh, Linked, Started, Silent, Live, Due,
                       InSession, ClientOK, ConnOK, QueuesOK
  <2>3. Live(u)'
    <3>1. /\ UNCHANGED <<client, cur, link, handler, timer>>
          /\ down' = down \/ down' = [down EXCEPT ![s] = Offer(down[s], Control("pong"))]
          /\ up' = [up EXCEPT ![s] = Tail(up[s])]
          /\ heard' = [heard EXCEPT ![s] = [heard[s] EXCEPT !.broker = 0]]
      BY <1>14 DEF HandlerReceives
    <3>2. down'[u] = <<>> => down[u] = <<>>
      BY <1>0, <1>c, <3>1 DEF QueuesOK
    <3>3. CASE u = s
      <4>1. heard'[u].broker = 0 /\ heard'[u].client = heard[u].client
        BY <1>0, <3>1, <3>3 DEF ConnOK
      <4> QED
        BY <1>0, <1>b, <3>1, <3>2, <4>1 DEF Live, InSession
    <3>4. CASE u # s
      <4>1. heard'[u] = heard[u] /\ up'[u] = up[u]
        BY <1>0, <3>1, <3>4 DEF ConnOK, QueuesOK
      <4> QED
        BY <1>0, <3>1, <3>2, <4>1 DEF Live, InSession
    <3> QED
      BY <3>3, <3>4
  <2> QED
    BY <2>2, <2>3
<1>15. ASSUME NEW s \in Session, HandlerEnds(s)
      PROVE  PathInv'
  <2>1. Started' /\ NoLateUnregister'
    BY <1>0, <1>15 DEF HandlerEnds, Started, NoLateUnregister, Due, InSession,
                       ClientOK, ConnOK
  <2> SUFFICES ASSUME NEW u \in Session
               PROVE  Fresh(u)' /\ Linked(u)' /\ Live(u)' /\ Silent(u)' /\ Due(u)'
    BY <2>1, PathGoal
  <2>2. Fresh(u)' /\ Linked(u)' /\ Live(u)' /\ Silent(u)' /\ Due(u)'
    BY <1>0, <1>15 DEF HandlerEnds, Fresh, Linked, Started, Live, Silent, Due,
                       InSession, ClientOK, ConnOK, QueuesOK
  <2> QED
    BY <2>2
<1>16. CASE BrokerDies
  <2>1. Started' /\ NoLateUnregister'
    BY <1>0, <1>16 DEF BrokerDies, Started, NoLateUnregister, Due, InSession,
                       ClientOK, ConnOK
  <2> SUFFICES ASSUME NEW u \in Session
               PROVE  Fresh(u)' /\ Linked(u)' /\ Live(u)' /\ Silent(u)' /\ Due(u)'
    BY <2>1, PathGoal
  <2>2. Fresh(u)' /\ Linked(u)' /\ Live(u)' /\ Silent(u)' /\ Due(u)'
    BY <1>0, <1>16 DEF BrokerDies, Fresh, Linked, Started, Live, Silent, Due,
                       InSession, ClientOK, ConnOK, QueuesOK
  <2> QED
    BY <2>2
<1>17. ASSUME NEW s \in Session, Ping(s)
      PROVE  PathInv'
  <2>1. Started' /\ NoLateUnregister'
    BY <1>0, <1>17 DEF Ping, Started, NoLateUnregister, Due, InSession, ClientOK,
                       ConnOK
  <2> SUFFICES ASSUME NEW u \in Session
               PROVE  Fresh(u)' /\ Linked(u)' /\ Live(u)' /\ Silent(u)' /\ Due(u)'
    BY <2>1, PathGoal
  <2>2. Fresh(u)' /\ Linked(u)' /\ Silent(u)' /\ Due(u)'
    BY <1>0, <1>17 DEF Ping, Fresh, Linked, Started, Silent, Live, Due, InSession,
                       ClientOK, ConnOK, QueuesOK
  <2>3. Live(u)'
    <3>1. /\ UNCHANGED <<client, cur, link, handler, heard>>
          /\ timer' = [timer EXCEPT ![s] = 0]
          /\ InSession(s) => up' = [up EXCEPT ![s] = Offer(up[s], Control("ping"))]
          /\ ~InSession(s) => up' = up
          /\ handler[s] = "open" => down' = [down EXCEPT ![s] = Offer(down[s], Control("ping"))]
          /\ handler[s] # "open" => down' = down
      BY <1>17 DEF Ping
    <3>2. CASE u = s
      <4>1. link[u] = "up" => up'[u] # <<>> /\ down'[u] # <<>>
        BY <1>0, <1>c, <3>1, <3>2 DEF Live, QueuesOK
      <4> QED
        BY <1>0, <3>1, <4>1 DEF Live, InSession
    <3>3. CASE u # s
      <4>1. up'[u] = up[u] /\ down'[u] = down[u] /\ timer'[u] = timer[u]
        BY <1>0, <3>1, <3>3 DEF QueuesOK, ConnOK
      <4> QED
        BY <1>0, <3>1, <4>1 DEF Live, InSession
    <3> QED
      BY <3>2, <3>3
  <2> QED
    BY <2>2, <2>3
<1>18. ASSUME NEW s \in Session, Cut(s)
      PROVE  PathInv'
  <2>1. Started' /\ NoLateUnregister'
    BY <1>0, <1>18 DEF Cut, Started, NoLateUnregister, Due, InSession, ClientOK,
                       ConnOK
  <2> SUFFICES ASSUME NEW u \in Session
               PROVE  Fresh(u)' /\ Linked(u)' /\ Live(u)' /\ Silent(u)' /\ Due(u)'
    BY <2>1, PathGoal
  <2>2. Fresh(u)'
    BY <1>0, <1>18 DEF Cut, Fresh, InSession, ClientOK, ConnOK, QueuesOK
  <2>3. Linked(u)'
    BY <1>0, <1>18 DEF Cut, Linked, Fresh, Started, InSession, ClientOK, ConnOK,
                       QueuesOK
  <2>4. Live(u)'
    BY <1>0, <1>18 DEF Cut, Live, InSession, ClientOK, ConnOK, QueuesOK
  <2>5. Silent(u)'
    BY <1>0, <1>18 DEF Cut, Silent, Live, InSession, ClientOK, ConnOK, QueuesOK
  <2>6. Due(u)'
    BY <1>0, <1>18 DEF Cut, Due, Live, InSession, ClientOK, ConnOK, QueuesOK
  <2> QED
    BY <2>2, <2>3, <2>4, <2>5, <2>6
<1>19. ASSUME NEW s \in Session, Lose(s)
      PROVE  PathInv'
  <2>1. Started' /\ NoLateUnregister'
    BY <1>0, <1>19 DEF Lose, Started, NoLateUnregister, Due, InSession, ClientOK,
                       ConnOK
  <2> SUFFICES ASSUME NEW u \in Session
               PROVE  Fresh(u)' /\ Linked(u)' /\ Live(u)' /\ Silent(u)' /\ Due(u)'
    BY <2>1, PathGoal
  <2>2. Fresh(u)' /\ Linked(u)' /\ Live(u)' /\ Silent(u)' /\ Due(u)'
    BY <1>0, <1>19 DEF Lose, Fresh, Linked, Started, Live, Silent, Due, InSession,
                       ClientOK, ConnOK, QueuesOK
  <2> QED
    BY <2>2
<1>20. CASE Tick
  <2>1. Started' /\ NoLateUnregister'
    BY <1>0, <1>20 DEF Tick, Quiet, Started, NoLateUnregister, Due, InSession,
                       ClientOK, ConnOK
  <2> SUFFICES ASSUME NEW u \in Session
               PROVE  Fresh(u)' /\ Linked(u)' /\ Live(u)' /\ Silent(u)' /\ Due(u)'
    BY <2>1, PathGoal
  <2>2. Linked(u)' /\ Silent(u)'
    BY <1>0, <1>20 DEF Tick, Quiet, Linked, Fresh, Started, Silent, Live,
                       InSession, ClientOK, ConnOK, QueuesOK
  <2>3. Fresh(u)'
    <3>1. handler[u] = "none" /\ ~InSession(u) =>
            heard'[u] = [broker |-> 0, client |-> 0] /\ timer'[u] = 0
      BY <1>20 DEF Tick
    <3>2. UNCHANGED <<cur, handler, link>>
      BY <1>20 DEF Tick
    <3>3. u > cur => ~InSession(u)
      BY <1>a DEF InSession
    <3> QED
      BY <1>0, <3>1, <3>2, <3>3 DEF Fresh
  <2>4. Live(u)'
    <3>1. timer[u] < 3 /\ up[u] = <<>> /\ down[u] = <<>>
      BY <1>20 DEF Tick, Quiet, PingInterval
    <3>2. InSession(u) /\ handler[u] = "open" =>
            /\ heard'[u].broker = heard[u].broker + 1
            /\ heard'[u].client = heard[u].client + 1
            /\ timer'[u] = timer[u] + 1
      BY <1>20 DEF Tick
    <3>3. UNCHANGED <<client, cur, link, handler, up, down>>
      BY <1>20 DEF Tick
    <3>4. ASSUME link[u] = "up"
          PROVE  /\ InSession(u) /\ handler[u] = "open"
                 /\ heard[u].broker <= timer[u] /\ heard[u].client <= timer[u]
      BY <1>0, <3>1, <3>4 DEF Live
    <3>5. heard[u].broker \in Nat /\ heard[u].client \in Nat /\ timer[u] \in 0 .. 3
      BY <1>b
    <3>6. ASSUME link[u] = "up"
          PROVE  /\ heard'[u].broker <= timer'[u] /\ heard'[u].client <= timer'[u]
                 /\ heard'[u].broker <= 3 /\ heard'[u].client <= 3
      <4>1. /\ heard'[u].broker = heard[u].broker + 1
            /\ heard'[u].client = heard[u].client + 1
            /\ timer'[u] = timer[u] + 1
        BY <3>2, <3>4, <3>6
      <4>2. heard[u].broker <= timer[u] /\ heard[u].client <= timer[u] /\ timer[u] < 3
        BY <3>1, <3>4, <3>6
      <4> QED
        BY <3>5, <4>1, <4>2
    <3> QED
      <4> SUFFICES ASSUME link'[u] = "up"
                   PROVE  /\ InSession(u)' /\ handler'[u] = "open"
                          /\ heard'[u].broker <= 3 /\ heard'[u].client <= 3
                          /\ heard'[u].broker <= timer'[u]
                          /\ heard'[u].client <= timer'[u]
        BY DEF Live
      <4>1. link[u] = "up"
        BY <3>3
      <4>2. InSession(u)' /\ handler'[u] = "open"
        BY <3>3, <3>4, <4>1 DEF InSession
      <4> QED
        BY <3>6, <4>1, <4>2
  <2>5. Due(u)'
    <3>1. handler[u] = "open" => link[u] # "closed" /\ ~(heard[u].broker >= 5)
      BY <1>b, <1>20 DEF Tick, Quiet, BrokerDeadline, PingInterval
    <3>2. abrupt \/ handler[u] # "open" \/ InSession(u)
      BY <1>0, <3>1 DEF Due
    <3> QED
      BY <1>20, <3>2 DEF Tick, Due, InSession
  <2> QED
    BY <2>2, <2>3, <2>4, <2>5
<1>21. CASE UNCHANGED pathVars
  BY <1>21 DEF pathVars, PathInv, Started, NoLateUnregister, Fresh, Linked, Live,
               Silent, Due, InSession
<1> QED
  BY <1>1, <1>2, <1>3, <1>4, <1>5, <1>6, <1>7, <1>8, <1>9, <1>10, <1>11, <1>12,
     <1>13, <1>14, <1>15, <1>16, <1>17, <1>18, <1>19, <1>20, <1>21
     DEF PathNext, Bridge, Connect, Receive, SomeReaderEnds

\* The first state.
LEMMA PathStarts ==
  ASSUME PathInit
  PROVE  PathTypeOK /\ PathInv
<1> USE PathAssumption
<1>1. PathTypeOK
  <2>1. <<>> \in Seq(Frame)
    OBVIOUS
  <2>2. DataOK /\ QueuesOK
    BY <2>1 DEF PathInit, DataOK, QueuesOK
  <2>3. ClientOK /\ ConnOK
    BY DEF PathInit, ClientOK, ConnOK, ReconnectBase, ReconnectMax, ErrCap,
           PingInterval, BrokerDeadline, ClientDeadline
  <2>4. CountOK
    BY DEF PathInit, CountOK
  <2> QED
    BY <2>2, <2>3, <2>4, PathTypeParts
<1>2. PathInv
  BY DEF PathInit, PathInv, Started, NoLateUnregister, Fresh, Linked, Live,
         Silent, Due, InSession
<1> QED
  BY <1>1, <1>2

\* What both ends of a relay connection have heard, and which handlers may still
\* be open, hold in every reachable state, and the types with them: a session is
\* always one of the numbered ones because the client only works on its own.
THEOREM PathInvariant ==
  PathSpec => [](PathTypeOK /\ LiveInv /\ LateInv /\ NoLateUnregister)
<1>1. PathInit => PathTypeOK /\ PathInv
  BY PathStarts
<1>2. PathTypeOK /\ PathInv /\ [PathNext]_pathVars => (PathTypeOK /\ PathInv)'
  <2> SUFFICES ASSUME PathTypeOK, PathInv, PathNext \/ UNCHANGED pathVars
               PROVE  PathTypeOK' /\ PathInv'
    OBVIOUS
  <2>1. LiveInv
    BY PathParts
  <2> QED
    BY <2>1, PathTypeStep, PathStep
<1>3. PathTypeOK /\ PathInv => PathTypeOK /\ LiveInv /\ LateInv /\ NoLateUnregister
  BY PathParts
<1> QED
  BY <1>1, <1>2, <1>3, PTL DEF PathSpec

\* For channels of any capacity: neither end of a connection that delivers reaches
\* its read deadline, though the pings that keep it alive are dropped by a full
\* channel (relay/client.go, relay/broker.go).
THEOREM KeptAliveAlways ==
  PathSpec => []KeptAlive
<1>1. PathTypeOK /\ LiveInv => KeptAlive
  <2> SUFFICES ASSUME PathTypeOK, LiveInv, NEW s \in Session, link[s] = "up"
               PROVE  heard[s].broker < BrokerDeadline /\ heard[s].client < ClientDeadline
    BY DEF KeptAlive
  <2>1. heard[s].broker \in Nat /\ heard[s].client \in Nat
    BY PathTypeParts DEF ConnOK, BrokerDeadline, ClientDeadline, PingInterval
  <2> QED
    BY <2>1 DEF LiveInv, PingInterval, BrokerDeadline, ClientDeadline
<1> QED
  BY <1>1, PathInvariant, PTL

\* For any number of sessions: as long as every connection is given up by its
\* deadline or closed, the handler of one never unregisters the node from under the
\* next.
THEOREM NeverLateUnregister ==
  PathSpec => []NoLateUnregister
BY PathInvariant, PTL

=============================================================================
