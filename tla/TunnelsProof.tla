---------------------------- MODULE TunnelsProof ----------------------------
(* Proofs about the two WireGuard tunnels of a child: the fallback endpoint on *)
(* the VPS (RelayFallback), for every family, fleet and bound, and the peers   *)
(* of the home node (TunnelSync), for any keys, bundles and overlapping syncs. *)
EXTENDS RelayFallback, TunnelSync, TLAPS

-----------------------------------------------------------------------------
(* RelayFallback.                                                            *)

\* The typing facts that the steps below use, conjunct by conjunct.
LEMMA PortTypes ==
  ASSUME TypeOK
  PROVE  /\ endpoint \in Ports \union {NoPort} /\ NoPort \notin Ports
         /\ socket \in [Devices -> Ports \union {NoPort}]
         /\ reader \in [Devices -> BOOLEAN]
BY RelayAssumption DEF TypeOK, NoPort

\* While the bridge forwards a packet, it is a device's.
LEMMA SenderIsDevice ==
  ASSUME TypeOK, bridge # "read"
  PROVE  sender \in Devices
BY DEF TypeOK

\* Starting a notification keeps the counters' types.
LEMMA NotifyTypes ==
  ASSUME TypeOK, NEW b \in BOOLEAN, notify(b)
  PROVE  posts' \in [BOOLEAN -> Nat] /\ cloud' \in BOOLEAN /\ told' \in BOOLEAN
BY DEF TypeOK, notify

\* Entering and leaving fallback keep the types.
LEMMA FlagTypes ==
  ASSUME TypeOK, EnterFallback \/ ExitFallback
  PROVE  active' \in BOOLEAN /\ crossed' \in BOOLEAN
BY DEF TypeOK, EnterFallback, ExitFallback

-----------------------------------------------------------------------------
(* Type correctness.                                                        *)

\* The types and the invariants hold at the start.
LEMMA InitHolds == Init => TypeOK /\ RepliesDelivered /\ CloudWarned /\ WarnInv
<1> SUFFICES ASSUME Init PROVE TypeOK /\ RepliesDelivered /\ CloudWarned /\ WarnInv
  OBVIOUS
<1>1. /\ endpoint \in Ports \union {NoPort}
      /\ socket \in [Devices -> Ports \union {NoPort}]
  BY DEF Init
<1>2. nodeConns \in [Nodes -> 0 .. MaxConn] /\ byNode \in [Nodes -> 0 .. MaxConn]
  BY RelayAssumption DEF Init
<1>3. posts \in [BOOLEAN -> Nat]
  BY DEF Init
<1>4. /\ reader \in [Devices -> BOOLEAN]
      /\ \A d \in Devices : reader[d] => socket[d] # NoPort
  BY DEF Init
<1>5. TypeOK
  BY <1>1, <1>2, <1>3, <1>4 DEF Init, TypeOK
<1>6. RepliesDelivered
  BY DEF Init, RepliesDelivered, Serves
<1> QED
  BY <1>5, <1>6 DEF Init, CloudWarned, WarnInv

\* Every step keeps the types.
LEMMA TypeStep ==
  ASSUME TypeOK, [Next]_vars
  PROVE  TypeOK'
<1> USE RelayAssumption DEF flag
<1>1. ASSUME NEW c \in Conns, Connect(c) PROVE TypeOK'
  BY <1>1 DEF TypeOK, Connect, Conns, terminator, notices
<1>2. ASSUME NEW c \in Conns, RegistryAdd(c) PROVE TypeOK'
  BY <1>2 DEF TypeOK, RegistryAdd, Conns, terminator, notices
<1>3. ASSUME NEW c \in Conns, Disconnect(c) PROVE TypeOK'
  BY <1>3 DEF TypeOK, Disconnect, Conns, terminator, notices
<1>4. ASSUME NEW c \in Conns, DropConn(c) PROVE TypeOK'
  BY <1>4 DEF TypeOK, DropConn, Conns, terminator, notices
<1>5. ASSUME NEW c \in Conns, Age(c) PROVE TypeOK'
  BY <1>5 DEF TypeOK, Age, terminator, notices
<1>6. ASSUME NEW b \in BOOLEAN, Post(b) PROVE TypeOK'
  BY <1>6 DEF TypeOK, Post, registry, terminator
<1>7. CASE SweepFamilies
  BY <1>7 DEF TypeOK, SweepFamilies, registry, terminator, notices
<1>8. CASE SweepStatus
  <2>1. janitor' \in {"idle", "status", "enter", "tellin", "exit", "tellout"}
    BY <1>8 DEF SweepStatus
  <2> QED
    BY <1>8, <2>1 DEF TypeOK, SweepStatus, registry, terminator, notices
<1>9. CASE SweepEnter
  BY <1>9, FlagTypes DEF TypeOK, SweepEnter, registry, terminator, notices
<1>10. CASE SweepExit
  BY <1>10, FlagTypes DEF TypeOK, SweepExit, registry, terminator, notices
<1>11. CASE SweepTell
  <2>1. posts' \in [BOOLEAN -> Nat] /\ cloud' \in BOOLEAN /\ told' \in BOOLEAN
    BY <1>11, NotifyTypes DEF SweepTell
  <2> QED
    BY <1>11, <2>1 DEF TypeOK, SweepTell, registry, terminator
<1>12. ASSUME NEW d \in Devices, Packet(d) PROVE TypeOK'
  BY <1>12 DEF TypeOK, Packet, NoDevice, registry, terminator, notices
<1>13. CASE BridgeExit
  BY <1>13, FlagTypes DEF TypeOK, BridgeExit, registry, terminator, notices
<1>14. CASE BridgeEnter
  BY <1>14, FlagTypes DEF TypeOK, BridgeEnter, registry, terminator, notices
<1>15. CASE BridgeTell
  <2>1. posts' \in [BOOLEAN -> Nat] /\ cloud' \in BOOLEAN /\ told' \in BOOLEAN
    BY <1>15, NotifyTypes DEF BridgeTell
  <2> QED
    BY <1>15, <2>1 DEF TypeOK, BridgeTell, registry, terminator
<1>16. CASE FirstForward
  <2>1. sender \in Devices
    BY <1>16, SenderIsDevice DEF FirstForward
  <2>2. endpoint' \in Ports /\ endpoint' # NoPort /\ reused' \in BOOLEAN
    BY <1>16, PortTypes DEF FirstForward, NewPort, TypeOK
  <2>3. /\ socket' \in [Devices -> Ports \union {NoPort}]
        /\ reader' \in [Devices -> BOOLEAN]
        /\ \A d \in Devices : reader'[d] => socket'[d] # NoPort
    BY <1>16, <2>1, <2>2 DEF FirstForward, TypeOK
  <2> QED
    BY <1>16, <2>2, <2>3 DEF TypeOK, FirstForward, PacketDone, registry, notices
<1>17. CASE FirstForwardFails
  BY <1>17 DEF TypeOK, FirstForwardFails, PacketDone, registry, terminator, notices
<1>18. CASE Forward
  <2>1. sender \in Devices
    BY <1>18, SenderIsDevice DEF Forward
  <2>2. /\ reader' \in [Devices -> BOOLEAN]
        /\ \A d \in Devices : reader'[d] => reader[d]
    BY <1>18, <2>1 DEF Forward, TypeOK
  <2>3. idle' \in BOOLEAN
    BY <1>18 DEF Forward, TypeOK
  <2> QED
    BY <1>18, <2>2, <2>3 DEF TypeOK, Forward, PacketDone, registry, notices
<1>19. CASE Idle
  BY <1>19 DEF TypeOK, Idle, registry, notices
<1>20. CASE IdleTeardown
  BY <1>20 DEF TypeOK, IdleTeardown, registry, notices
<1>21. CASE UNCHANGED vars
  BY <1>21 DEF TypeOK, vars, registry, terminator, notices
<1> QED
  BY <1>1, <1>2, <1>3, <1>4, <1>5, <1>6, <1>7, <1>8, <1>9, <1>10, <1>11, <1>12,
     <1>13, <1>14, <1>15, <1>16, <1>17, <1>18, <1>19, <1>20, <1>21
     DEF Next, HandlerStep, JanitorStep, BridgeStep

\* Type correctness of RelayFallback, whatever the nodes, devices, ports and bounds.
THEOREM TypeCorrect == Spec => []TypeOK
<1>1. Init => TypeOK
  BY InitHolds
<1>2. TypeOK /\ [Next]_vars => TypeOK'
  BY TypeStep
<1> QED
  BY <1>1, <1>2, PTL DEF Spec

-----------------------------------------------------------------------------
(* The ports.                                                               *)

\* Every step keeps a reply loop for each socket that leads to the endpoint.
LEMMA PortStep ==
  ASSUME TypeOK, RepliesDelivered, [Next]_vars
  PROVE  RepliesDelivered'
<1>1. CASE UNCHANGED terminator
  BY <1>1 DEF RepliesDelivered, Serves, terminator
<1>2. CASE FirstForward
  <2>1. sender \in Devices
    BY <1>2, SenderIsDevice DEF FirstForward
  <2>2. \A d \in Devices : d # sender => socket'[d] = socket[d] /\ reader'[d] = reader[d]
    BY <1>2, PortTypes DEF FirstForward
  <2>3. reader'[sender] = TRUE
    BY <1>2, <2>1, PortTypes DEF FirstForward
  <2>4. ASSUME ~reused', NEW d \in Devices, d # sender, Serves(d)' PROVE reader'[d]
    <3>1. socket[d] = endpoint'
      BY <2>2, <2>4 DEF Serves
    <3>2. CASE endpoint # NoPort
      <4>1. endpoint' = endpoint /\ reused' = reused
        BY <1>2, <3>2 DEF FirstForward
      <4> QED
        BY <2>2, <2>4, <3>1, <3>2, <4>1 DEF RepliesDelivered, Serves
    <3>3. CASE endpoint = NoPort
      \* The new port is none that a socket leads to.
      BY <1>2, <2>4, <3>1, <3>3 DEF FirstForward, NewPort
    <3> QED
      BY <3>2, <3>3
  <2> QED
    BY <2>3, <2>4 DEF RepliesDelivered
<1>3. CASE Forward
  <2>1. sender \in Devices
    BY <1>3, SenderIsDevice DEF Forward
  <2>2. \A d \in Devices : Serves(d) => reader'[d] = reader[d]
    BY <1>3, <2>1, PortTypes DEF Forward
  <2> QED
    BY <1>3, <2>2 DEF Forward, RepliesDelivered, Serves
<1>4. CASE Idle
  BY <1>4 DEF Idle, RepliesDelivered, Serves
<1>5. CASE IdleTeardown
  BY <1>5 DEF IdleTeardown, RepliesDelivered, Serves
<1> QED
  BY <1>1, <1>2, <1>3, <1>4, <1>5 DEF Next, HandlerStep, JanitorStep, BridgeStep,
                                      Connect, RegistryAdd, Disconnect, DropConn,
                                      Age, Post, SweepFamilies, SweepStatus,
                                      SweepEnter, SweepExit, SweepTell, Packet,
                                      BridgeExit, BridgeEnter, BridgeTell,
                                      FirstForwardFails, vars

\* relay_udp_bridge.go and terminator/service.go: no order of outages, teardowns and
\* refused packets leaves a device connected to the running endpoint without a reply
\* loop, unless that endpoint came up on a port an earlier one had.
THEOREM RepliesAreDelivered == Spec => []RepliesDelivered
<1>1. Init => TypeOK /\ RepliesDelivered
  BY InitHolds
<1>2. TypeOK /\ RepliesDelivered /\ [Next]_vars => TypeOK' /\ RepliesDelivered'
  BY TypeStep, PortStep
<1> QED
  BY <1>1, <1>2, PTL DEF Spec

-----------------------------------------------------------------------------
(* The notifications.                                                       *)

\* Every step keeps the last notification true of an outage, or the two crossed.
LEMMA WarnedStep ==
  ASSUME CloudWarned, WarnInv, [Next]_vars
  PROVE  CloudWarned' /\ WarnInv'
<1> USE DEF CloudWarned, WarnInv, flag, notices
<1>1. CASE UNCHANGED <<active, crossed, told, janitor>> /\ bridge # "tell"
  BY <1>1
<1>2. CASE SweepFamilies
  BY <1>2 DEF SweepFamilies
<1>3. CASE SweepStatus
  <2>1. janitor' # "tellout" /\ janitor # "tellin"
    BY <1>3 DEF SweepStatus
  <2> QED
    BY <1>3, <2>1 DEF SweepStatus
<1>4. CASE SweepEnter
  BY <1>4 DEF SweepEnter, EnterFallback
<1>5. CASE SweepExit
  BY <1>5 DEF SweepExit, ExitFallback
<1>6. CASE SweepTell
  BY <1>6 DEF SweepTell, notify
<1>7. CASE BridgeExit
  BY <1>7 DEF BridgeExit, ExitFallback
<1>8. CASE BridgeEnter
  BY <1>8 DEF BridgeEnter, EnterFallback
<1>9. CASE BridgeTell
  BY <1>9 DEF BridgeTell, notify
<1>10. CASE UNCHANGED <<active, crossed, told, janitor, bridge>>
  BY <1>10
<1> QED
  BY <1>1, <1>2, <1>3, <1>4, <1>5, <1>6, <1>7, <1>8, <1>9, <1>10
     DEF Next, HandlerStep, JanitorStep, BridgeStep, Connect, RegistryAdd, Disconnect,
         DropConn, Age, Post, Packet, FirstForward, FirstForwardFails, Forward, Idle,
         IdleTeardown, vars

\* broker.go and relay_udp_bridge.go: whichever goroutine enters fallback, the last
\* notification started during an outage reports it or one is about to, unless that of
\* the recovery before was still to be started.
THEOREM CloudIsWarned == Spec => []CloudWarned
<1>1. Init => CloudWarned /\ WarnInv
  BY InitHolds
<1>2. CloudWarned /\ WarnInv /\ [Next]_vars => CloudWarned' /\ WarnInv'
  BY WarnedStep
<1> QED
  BY <1>1, <1>2, PTL DEF Spec

-----------------------------------------------------------------------------
(* TunnelSync: maps of peers.                                                *)

\* Taking peers out of a map leaves every address to one peer.
LEMMA DropIs ==
  ASSUME NEW m \in [Keys -> Address], Injective(m), NEW n \in [Keys -> Address],
         \A j \in Keys : n[j] \in {NoIP, m[j]}
  PROVE  Injective(n)
BY DEF Injective, Members

\* INSERT OR REPLACE puts k at ip, takes whoever had ip out and leaves the others.
LEMMA UpsertIs ==
  ASSUME table \in [Keys -> Address], Injective(table),
         NEW k \in Keys, NEW ip \in Address, Upsert(k, ip)
  PROVE  /\ table' \in [Keys -> Address] /\ Injective(table') /\ table'[k] = ip
         /\ \A j \in Keys \ {k} : /\ table'[j] \in {NoIP, table[j]}
                                  /\ table[j] # ip => table'[j] = table[j]
<1> USE TunnelAssumption
<1>0. NoIP \in Address
  BY DEF NoIP, Address
<1>1. /\ table' \in [Keys -> Address] /\ table'[k] = ip
      /\ \A j \in Keys \ {k} : table'[j] = IF table[j] = ip THEN NoIP ELSE table[j]
  BY <1>0 DEF Upsert
<1>2. Injective(table')
  BY <1>1 DEF Injective, Members
<1> QED
  BY <1>1, <1>2

\* An unaffected peer has one address, and no command names it.
LEMMA StableIs ==
  ASSUME NEW k \in Stable, NEW b \in Bundles
  PROVE  /\ k \in Keys /\ k \notin AddKeys /\ k \notin RemoveKeys
         /\ b[k] \in Address /\ b[k] # NoIP /\ b[k] \in Nat /\ b[k] > 0
         /\ \A c \in Bundles : c[k] = b[k]
BY TunnelAssumption DEF Stable, Address, NoIP

\* A bundle is a map of peers.
LEMMA BundleIs ==
  /\ \A b \in Bundles : b \in [Keys -> Address] /\ Injective(b)
  /\ NoPeers \in [Keys -> Address] /\ Injective(NoPeers)
  /\ NoPeers \in Listing /\ OneHolder(NoPeers)
  /\ \A k \in Keys : NoPeers[k] = NoIP
BY TunnelAssumption DEF NoPeers, NoIP, Address, Injective, Members, Listing, OneHolder

\* A map of peers is a listing, with one holder of each address.
LEMMA MapIsListing ==
  ASSUME NEW m \in [Keys -> Address], Injective(m)
  PROVE  m \in Listing /\ OneHolder(m)
BY TunnelAssumption DEF Listing, OneHolder, Injective, Members, NoIP, Address

\* Writing over a longer file leaves each entry as it was or as it is written, or
\* without its address, and each address with one entry.
LEMMA OverwrittenIs ==
  ASSUME NEW old \in Listing, OneHolder(old), NEW new \in [Keys -> Address], Injective(new),
         NEW m \in Overwritten(old, new)
  PROVE  /\ m \in Listing /\ OneHolder(m)
         /\ \A k \in Keys : m[k] \in {old[k], new[k], Bare}
<1>1. PICK tail \in SUBSET {k \in Keys : old[k] > 0} :
        m = [k \in Keys |-> IF k \in tail THEN old[k]
                            ELSE IF \E j \in tail : old[j] = new[k] THEN Bare ELSE new[k]]
  BY DEF Overwritten
<1>2. /\ \A k \in tail : k \in Keys /\ m[k] = old[k]
      /\ \A k \in Keys \ tail : \/ m[k] = Bare
                                 \/ (m[k] = new[k] /\ \A j \in tail : old[j] # new[k])
  BY <1>1
<1>3. m \in Listing /\ \A k \in Keys : m[k] \in {old[k], new[k], Bare}
  BY <1>1 DEF Listing
<1>4. OneHolder(new) /\ ~(Bare > 0)
  BY MapIsListing DEF Bare
<1>5. OneHolder(m)
  <2> SUFFICES ASSUME NEW j \in Keys, NEW k \in Keys, m[j] = m[k], m[j] > 0
               PROVE  j = k
    BY DEF OneHolder
  <2>1. CASE j \in tail /\ k \in tail
    BY <1>2, <2>1 DEF OneHolder
  <2>2. CASE j \notin tail /\ k \notin tail
    BY <1>2, <1>4, <2>2 DEF OneHolder
  <2>3. CASE j \in tail /\ k \notin tail
    BY <1>2, <1>4, <2>3
  <2>4. CASE j \notin tail /\ k \in tail
    BY <1>2, <1>4, <2>4
  <2> QED
    BY <2>1, <2>2, <2>3, <2>4
<1> QED
  BY <1>3, <1>5

\* The parts of TunnelTypeOK.
LocalsOK ==
  /\ bundle \in Active
  /\ adds \subseteq AddKeys /\ removes \subseteq RemoveKeys
  /\ pc \in [Threads -> Labels]
  /\ arg \in [Threads -> (Keys \X Address) \union {<<>>}]
  /\ view \in [Threads -> [Keys -> Address]]
  /\ todo \in [Threads -> SUBSET Keys]
  /\ live \in [Threads -> Listing]
  /\ swaps \in 0 .. MaxSwap /\ faults \in 0 .. MaxFault
TableOK == table \in [Keys -> Address] /\ Injective(table)
DesiredOK ==
  /\ desired \in [Threads -> [Keys -> Address]]
  /\ \A t \in Threads : Injective(desired[t])
WgOK == wg \in Listing /\ OneHolder(wg)
ConfOK ==
  /\ conf \in Listing /\ tmp \subseteq Listing /\ torn \in BOOLEAN
  /\ OneHolder(conf) /\ \A m \in tmp : OneHolder(m)

\* What SyncInv says of one goroutine, and PlaceInv of one peer.
Works(t) ==
  /\ pc[t] \in {"upsert", "delete"} => view[t] \in Bundles
  /\ pc[t] = "upsert" => todo[t] \subseteq Members(view[t])
  /\ pc[t] = "delete" => todo[t] \intersect Members(view[t]) = {}
  /\ pc[t] = "prune" => todo[t] \intersect Members(desired[t]) = {}
  /\ pc[t] \in {"alloc", "insert"} => arg[t] \in AddKeys \X Address
  /\ pc[t] = "writeconf" => torn
  /\ pc[t] = "syncconf" => OneHolder(live[t])
Stored(k, b) ==
  /\ table[k] \in {NoIP, b[k]} /\ wg[k] \in {Gone, Bare, b[k]}
  /\ conf[k] \in {NoIP, Bare, b[k]}
  /\ \A m \in tmp : m[k] \in {NoIP, Bare, b[k]}
Seen(k, b) ==
  \A t \in Threads : /\ desired[t][k] \in {NoIP, b[k]}
                     /\ live[t][k] \in {NoIP, Bare, b[k]}

\* A sync that has ended has nothing left, and the others are as they were.
LEMMA FinishIs ==
  ASSUME LocalsOK, DesiredOK, NEW t \in Threads, Finish(t)
  PROVE  /\ pc' \in [Threads -> Labels]
         /\ view' \in [Threads -> [Keys -> Address]]
         /\ todo' \in [Threads -> SUBSET Keys]
         /\ live' \in [Threads -> Listing]
         /\ DesiredOK'
         /\ pc'[t] = "idle"
         /\ \A k \in Keys : desired'[t][k] = NoIP /\ live'[t][k] = NoIP
         /\ \A u \in Threads \ {t} :
              /\ pc'[u] = pc[u] /\ view'[u] = view[u] /\ todo'[u] = todo[u]
              /\ desired'[u] = desired[u] /\ live'[u] = live[u]
<1> USE TunnelAssumption
<1>1. /\ NoPeers \in [Keys -> Address] /\ NoPeers \in Listing /\ Injective(NoPeers)
      /\ \A k \in Keys : NoPeers[k] = NoIP
  BY BundleIs
<1>2. /\ pc' = [pc EXCEPT ![t] = "idle"] /\ view' = [view EXCEPT ![t] = NoPeers]
      /\ todo' = [todo EXCEPT ![t] = {}]
      /\ desired' = [desired EXCEPT ![t] = NoPeers]
      /\ live' = [live EXCEPT ![t] = NoPeers]
  BY DEF Finish, goto
<1>3. DesiredOK'
  BY <1>1, <1>2 DEF DesiredOK
<1> QED
  BY <1>1, <1>2, <1>3 DEF LocalsOK, DesiredOK, Labels

\* What the end of a sync keeps.
LEMMA FinishKeeps ==
  ASSUME LocalsOK, DesiredOK, NEW t \in Threads, Finish(t),
         \A u \in Threads : Works(u), \A u \in Threads \ {t} : arg'[u] = arg[u],
         UNCHANGED torn
  PROVE  /\ \A u \in Threads : Works(u)'
         /\ \A i \in Stable, c \in Bundles : Seen(i, c) => Seen(i, c)'
<1> USE TunnelAssumption
<1>1. ASSUME NEW u \in Threads PROVE Works(u)'
  <2>1. CASE u = t
    BY <2>1, FinishIs DEF Works
  <2>2. CASE u # t
    BY <2>2, FinishIs DEF Works
  <2> QED
    BY <2>1, <2>2
<1>2. ASSUME NEW i \in Stable, NEW c \in Bundles, Seen(i, c) PROVE Seen(i, c)'
  <2> SUFFICES ASSUME NEW u \in Threads
               PROVE  /\ desired'[u][i] \in {NoIP, c[i]}
                      /\ live'[u][i] \in {NoIP, Bare, c[i]}
    BY DEF Seen
  <2>1. CASE u = t
    BY <2>1, FinishIs, StableIs
  <2>2. CASE u # t
    BY <1>2, <2>2, FinishIs DEF Seen
  <2> QED
    BY <2>1, <2>2
<1> QED
  BY <1>1, <1>2

\* A peer taken off wg0.
LEMMA GoneIs ==
  ASSUME WgOK, NEW j \in Keys, wg' = [wg EXCEPT ![j] = Gone]
  PROVE  WgOK' /\ \A k \in Keys : wg'[k] \in {Gone, wg[k]}
<1> USE TunnelAssumption
<1>1. Gone \in Address /\ ~(Gone > 0)
  BY DEF Gone, Address
<1> QED
  BY <1>1 DEF WgOK, Listing, OneHolder

-----------------------------------------------------------------------------
(* TunnelSync: the invariant.                                                *)

\* The types and the two invariants together.
TunnelInv == TunnelTypeOK /\ SyncInv /\ PlaceInv

\* It, part by part, goroutine by goroutine and peer by peer.
LEMMA TunnelParts ==
  ASSUME TunnelInv
  PROVE  /\ LocalsOK /\ TableOK /\ DesiredOK /\ WgOK /\ ConfOK
         /\ \A t \in Threads : Works(t)
         /\ \A k \in Stable, b \in Bundles : Stored(k, b) /\ Seen(k, b)
BY DEF TunnelInv, TunnelTypeOK, SyncInv, PlaceInv, LocalsOK, TableOK, DesiredOK,
       WgOK, ConfOK, Works, Stored, Seen

\* What a step has to keep.
LEMMA TunnelGoal ==
  ASSUME LocalsOK', TableOK', DesiredOK', WgOK', ConfOK', \A t \in Threads : Works(t)',
         \A k \in Stable, b \in Bundles : Stored(k, b)' /\ Seen(k, b)'
  PROVE  TunnelInv'
BY DEF TunnelInv, TunnelTypeOK, SyncInv, PlaceInv, LocalsOK, TableOK, DesiredOK,
       WgOK, ConfOK, Works, Stored, Seen

\* Every step keeps the invariant.
LEMMA TunnelStep ==
  ASSUME TunnelInv, TunnelNext \/ UNCHANGED tunnelVars
  PROVE  TunnelInv'
<1> USE TunnelAssumption
<1> USE DEF locals, history, files, Labels, Writing
<1>0. /\ LocalsOK /\ TableOK /\ DesiredOK /\ WgOK /\ ConfOK /\ \A t \in Threads : Works(t)
      /\ \A k \in Stable, b \in Bundles : Stored(k, b) /\ Seen(k, b)
  BY TunnelParts
<1>a. NoIP \in Address
  BY DEF NoIP, Address
<1>1. ASSUME NEW t \in Threads, NEW b \in Active, Swap(t, b)
      PROVE  TunnelInv'
  <2>1. /\ LocalsOK' /\ TableOK' /\ DesiredOK' /\ WgOK' /\ ConfOK'
        /\ \A u \in Threads : Works(u)'
        /\ \A i \in Stable, c \in Bundles : Stored(i, c)' /\ Seen(i, c)'
    BY <1>0, <1>1, StableIs DEF Swap, goto, LocalsOK, TableOK, DesiredOK, WgOK,
                                ConfOK, Works, Stored, Seen
  <2> QED
    BY <2>1, TunnelGoal
<1>2. ASSUME NEW t \in Threads, Tick(t)
      PROVE  TunnelInv'
  <2>1. /\ LocalsOK' /\ TableOK' /\ DesiredOK' /\ WgOK' /\ ConfOK'
        /\ \A u \in Threads : Works(u)'
        /\ \A i \in Stable, c \in Bundles : Stored(i, c)' /\ Seen(i, c)'
    BY <1>0, <1>2, StableIs DEF Tick, goto, LocalsOK, TableOK, DesiredOK, WgOK,
                                ConfOK, Works, Stored, Seen
  <2> QED
    BY <2>1, TunnelGoal
<1>3. ASSUME NEW t \in Threads, NEW k \in Keys, AddPeer(t, k)
      PROVE  TunnelInv'
  <2>1. /\ TableOK' /\ DesiredOK' /\ WgOK' /\ ConfOK'
        /\ \A i \in Stable, c \in Bundles : Stored(i, c)' /\ Seen(i, c)'
    BY <1>0, <1>3, StableIs DEF AddPeer, Fault, goto, TableOK, DesiredOK, WgOK,
                                ConfOK, Stored, Seen, LocalsOK
  <2>2. LocalsOK'
    <3>1. /\ adds' \subseteq AddKeys
          /\ UNCHANGED <<bundle, conf, removes, view, todo, live, swaps>>
      BY <1>0, <1>3 DEF AddPeer, LocalsOK
    <3>2. pc' \in [Threads -> Labels]
      BY <1>0, <1>3 DEF AddPeer, goto, LocalsOK
    <3>3. <<k, NoIP>> \in Keys \X Address
      BY <1>a
    <3>4. arg' \in [Threads -> (Keys \X Address) \union {<<>>}]
      BY <1>0, <1>3, <3>3 DEF AddPeer, LocalsOK
    <3>5. faults' \in 0 .. MaxFault
      BY <1>0, <1>3 DEF AddPeer, Fault, LocalsOK
    <3> QED
      BY <1>0, <3>1, <3>2, <3>4, <3>5 DEF LocalsOK
  <2>3. \A u \in Threads : Works(u)'
    <3>1. CASE UNCHANGED <<pc, arg>>
      BY <1>0, <1>3, <3>1 DEF AddPeer, Works
    <3>2. CASE goto(t, "alloc") /\ arg' = [arg EXCEPT ![t] = <<k, NoIP>>]
      <4>1. <<k, NoIP>> \in AddKeys \X Address
        BY <1>0, <1>a, <1>3 DEF AddPeer, LocalsOK
      <4> SUFFICES ASSUME NEW u \in Threads PROVE Works(u)'
        OBVIOUS
      <4>2. CASE u = t
        BY <1>0, <3>2, <4>1, <4>2 DEF goto, LocalsOK, Works
      <4>3. CASE u # t
        BY <1>0, <1>3, <3>2, <4>3 DEF AddPeer, goto, LocalsOK, Works
      <4> QED
        BY <4>2, <4>3
    <3> QED
      BY <1>3, <3>1, <3>2 DEF AddPeer
  <2> QED
    BY <2>1, <2>2, <2>3, TunnelGoal
<1>4. ASSUME NEW t \in Threads, NEW k \in Keys, RemovePeer(t, k)
      PROVE  TunnelInv'
  <2>1. /\ LocalsOK' /\ DesiredOK' /\ WgOK' /\ ConfOK'
        /\ \A u \in Threads : Works(u)'
        /\ \A i \in Stable, c \in Bundles : Stored(i, c)' /\ Seen(i, c)'
    BY <1>0, <1>4, StableIs DEF RemovePeer, goto, LocalsOK, DesiredOK, WgOK,
                                ConfOK, Works, Stored, Seen
  <2>2. TableOK'
    <3>1. table' = [table EXCEPT ![k] = NoIP]
      BY <1>4 DEF RemovePeer
    <3>2. table' \in [Keys -> Address] /\ \A j \in Keys : table'[j] \in {NoIP, table[j]}
      BY <1>0, <1>a, <3>1 DEF TableOK
    <3> QED
      BY <1>0, <3>2, DropIs DEF TableOK
  <2> QED
    BY <2>1, <2>2, TunnelGoal
<1>5. ASSUME NEW t \in Threads, AllocateIP(t)
      PROVE  TunnelInv'
  <2>1. /\ TableOK' /\ DesiredOK' /\ WgOK' /\ ConfOK'
        /\ \A i \in Stable, c \in Bundles : Stored(i, c)' /\ Seen(i, c)'
    BY <1>0, <1>5, StableIs DEF AllocateIP, goto, TableOK, DesiredOK, WgOK,
                                ConfOK, Stored, Seen, LocalsOK
  <2>2. LocalsOK'
    <3>1. CASE FreeIPs = {}
      BY <1>0, <1>5, <3>1 DEF AllocateIP, goto, LocalsOK
    <3>2. CASE FreeIPs # {}
      <4>1. PICK ip \in FreeIPs : arg' = [arg EXCEPT ![t] = <<arg[t][1], ip>>] /\ goto(t, "insert")
        BY <1>5, <3>2 DEF AllocateIP
      <4>2. ip \in Address /\ arg[t][1] \in Keys
        BY <1>0, <1>5 DEF AllocateIP, FreeIPs, Address, Works
      <4>3. UNCHANGED <<bundle, conf, adds, removes, view, todo, live, swaps, faults>>
        BY <1>5 DEF AllocateIP
      <4> QED
        BY <1>0, <4>1, <4>2, <4>3 DEF goto, LocalsOK
    <3> QED
      BY <3>1, <3>2
  <2>3. \A u \in Threads : Works(u)'
    <3>1. CASE FreeIPs = {}
      BY <1>0, <1>5, <3>1 DEF AllocateIP, goto, LocalsOK, Works
    <3>2. CASE FreeIPs # {}
      <4>1. PICK ip \in FreeIPs : arg' = [arg EXCEPT ![t] = <<arg[t][1], ip>>] /\ goto(t, "insert")
        BY <1>5, <3>2 DEF AllocateIP
      <4>2. ip \in Address /\ arg[t][1] \in AddKeys
        BY <1>0, <1>5 DEF AllocateIP, FreeIPs, Address, Works
      <4>3. UNCHANGED <<view, todo, desired, live, torn>>
        BY <1>5 DEF AllocateIP
      <4> QED
        BY <1>0, <4>1, <4>2, <4>3 DEF goto, LocalsOK, Works
    <3> QED
      BY <3>1, <3>2
  <2> QED
    BY <2>1, <2>2, <2>3, TunnelGoal
<1>6. ASSUME NEW t \in Threads, InsertPeer(t)
      PROVE  TunnelInv'
  <2>1. /\ LocalsOK' /\ DesiredOK' /\ WgOK' /\ ConfOK'
        /\ \A u \in Threads : Works(u)'
    BY <1>0, <1>6 DEF InsertPeer, goto, LocalsOK, DesiredOK, WgOK, ConfOK, Works
  <2>2. TableOK'
    <3>1. arg[t] \in AddKeys \X Address /\ AddKeys \subseteq Keys
      BY <1>0, <1>6 DEF InsertPeer, Works
    <3> QED
      BY <1>0, <1>6, <3>1, UpsertIs DEF InsertPeer, TableOK
  <2>3. \A i \in Stable, c \in Bundles : Stored(i, c)' /\ Seen(i, c)'
    <3> SUFFICES ASSUME NEW i \in Stable, NEW c \in Bundles
                 PROVE  Stored(i, c)' /\ Seen(i, c)'
      OBVIOUS
    <3>1. arg[t] \in AddKeys \X Address /\ AddKeys \subseteq Keys
      BY <1>0, <1>6 DEF InsertPeer, Works
    <3>2. i \in Keys /\ i # arg[t][1]
      BY <3>1, StableIs
    <3>3. table'[i] \in {NoIP, table[i]}
      BY <1>0, <1>6, <3>1, <3>2, UpsertIs DEF InsertPeer, TableOK
    <3> QED
      BY <1>0, <1>6, <3>3 DEF InsertPeer, Stored, Seen
  <2> QED
    BY <2>1, <2>2, <2>3, TunnelGoal
<1>7. ASSUME NEW t \in Threads, ReadBundle(t)
      PROVE  TunnelInv'
  <2>1. /\ TableOK' /\ DesiredOK' /\ WgOK' /\ ConfOK'
        /\ \A i \in Stable, c \in Bundles : Stored(i, c)' /\ Seen(i, c)'
    BY <1>0, <1>7, StableIs DEF ReadBundle, goto, TableOK, DesiredOK, WgOK,
                                ConfOK, Stored, Seen, LocalsOK
  <2>2. LocalsOK'
    <3>1. bundle[1] \notin {"none", "bootstrap"} => bundle[2] \in Bundles
      BY <1>0 DEF LocalsOK, Active
    <3>2. CASE /\ bundle[2] \in Bundles
               /\ view' = [view EXCEPT ![t] = bundle[2]]
               /\ todo' = [todo EXCEPT ![t] = Members(bundle[2])]
               /\ goto(t, "upsert")
      <4>1. bundle[2] \in [Keys -> Address] /\ Members(bundle[2]) \subseteq Keys
        BY <3>2, BundleIs DEF Members
      <4>2. UNCHANGED <<bundle, conf, adds, removes, arg, live, swaps, faults>>
        BY <1>7 DEF ReadBundle
      <4> QED
        BY <1>0, <3>2, <4>1, <4>2 DEF goto, LocalsOK
    <3>3. CASE (goto(t, "idle") \/ goto(t, "load")) /\ UNCHANGED <<view, todo>>
      BY <1>0, <1>7, <3>3 DEF ReadBundle, goto, LocalsOK
    <3> QED
      BY <1>7, <3>1, <3>2, <3>3 DEF ReadBundle
  <2>3. \A u \in Threads : Works(u)'
    <3>1. bundle[1] \notin {"none", "bootstrap"} => bundle[2] \in Bundles
      BY <1>0 DEF LocalsOK, Active
    <3>2. CASE /\ bundle[2] \in Bundles
               /\ view' = [view EXCEPT ![t] = bundle[2]]
               /\ todo' = [todo EXCEPT ![t] = Members(bundle[2])]
               /\ goto(t, "upsert")
      <4> SUFFICES ASSUME NEW u \in Threads PROVE Works(u)'
        OBVIOUS
      <4>1. CASE u = t
        BY <1>0, <3>2, <4>1 DEF goto, LocalsOK, Works
      <4>2. CASE u # t
        BY <1>0, <1>7, <3>2, <4>2 DEF ReadBundle, goto, LocalsOK, Works
      <4> QED
        BY <4>1, <4>2
    <3>3. CASE (goto(t, "idle") \/ goto(t, "load")) /\ UNCHANGED <<view, todo>>
      BY <1>0, <1>7, <3>3 DEF ReadBundle, goto, LocalsOK, Works
    <3> QED
      BY <1>7, <3>1, <3>2, <3>3 DEF ReadBundle
  <2> QED
    BY <2>1, <2>2, <2>3, TunnelGoal
<1>8. ASSUME NEW t \in Threads, UpsertChild(t)
      PROVE  TunnelInv'
  <2>1. /\ LocalsOK' /\ DesiredOK' /\ WgOK' /\ ConfOK'
        /\ \A u \in Threads : Works(u)'
    BY <1>0, <1>8 DEF UpsertChild, LocalsOK, DesiredOK, WgOK, ConfOK, Works
  <2>2. TableOK'
    <3>1. PICK k \in todo[t] : Upsert(k, view[t][k])
      BY <1>8 DEF UpsertChild
    <3>2. k \in Keys /\ view[t][k] \in Address
      BY <1>0, <3>1 DEF LocalsOK
    <3> QED
      BY <1>0, <3>1, <3>2, UpsertIs DEF TableOK
  <2>3. \A i \in Stable, c \in Bundles : Stored(i, c)' /\ Seen(i, c)'
    <3> SUFFICES ASSUME NEW i \in Stable, NEW c \in Bundles
                 PROVE  Stored(i, c)' /\ Seen(i, c)'
      OBVIOUS
    <3>1. PICK k \in todo[t] : Upsert(k, view[t][k])
      BY <1>8 DEF UpsertChild
    <3>2. k \in Keys /\ view[t][k] \in Address /\ view[t] \in Bundles
      BY <1>0, <1>8, <3>1 DEF UpsertChild, LocalsOK, Works
    <3>3. table'[i] \in {NoIP, table[i], view[t][i]}
      BY <1>0, <3>1, <3>2, UpsertIs, StableIs DEF TableOK
    <3>4. view[t][i] = c[i]
      BY <3>2, StableIs
    <3> QED
      BY <1>0, <1>8, <3>3, <3>4 DEF UpsertChild, Stored, Seen
  <2> QED
    BY <2>1, <2>2, <2>3, TunnelGoal
<1>9. ASSUME NEW t \in Threads, QueryOrphans(t)
      PROVE  TunnelInv'
  <2>1. /\ LocalsOK' /\ TableOK' /\ DesiredOK' /\ WgOK' /\ ConfOK'
        /\ \A u \in Threads : Works(u)'
        /\ \A i \in Stable, c \in Bundles : Stored(i, c)' /\ Seen(i, c)'
    BY <1>0, <1>9, StableIs DEF QueryOrphans, goto, LocalsOK, TableOK, DesiredOK,
                                WgOK, ConfOK, Works, Members, Stored, Seen
  <2> QED
    BY <2>1, TunnelGoal
<1>10. ASSUME NEW t \in Threads, DeleteOrphan(t)
      PROVE  TunnelInv'
  <2>1. /\ LocalsOK' /\ DesiredOK' /\ WgOK' /\ ConfOK'
        /\ \A u \in Threads : Works(u)'
        /\ \A i \in Stable, c \in Bundles : Stored(i, c)' /\ Seen(i, c)'
    BY <1>0, <1>10, StableIs DEF DeleteOrphan, LocalsOK, DesiredOK, WgOK, ConfOK,
                                 Works, Stored, Seen
  <2>2. TableOK'
    <3>1. PICK k \in todo[t] : table' = [table EXCEPT ![k] = NoIP]
      BY <1>10 DEF DeleteOrphan
    <3>2. table' \in [Keys -> Address] /\ \A j \in Keys : table'[j] \in {NoIP, table[j]}
      BY <1>0, <1>a, <3>1 DEF TableOK
    <3> QED
      BY <1>0, <3>2, DropIs DEF TableOK
  <2> QED
    BY <2>1, <2>2, TunnelGoal
<1>11. ASSUME NEW t \in Threads, LoadPeers(t)
      PROVE  TunnelInv'
  <2>1. /\ LocalsOK' /\ TableOK' /\ WgOK' /\ ConfOK'
        /\ \A u \in Threads : Works(u)'
    BY <1>0, <1>11, BundleIs DEF LoadPeers, goto, LocalsOK, TableOK, WgOK, ConfOK,
                                 Works
  <2>2. DesiredOK'
    BY <1>0, <1>11 DEF LoadPeers, DesiredOK, TableOK
  <2>3. \A i \in Stable, c \in Bundles : Stored(i, c)' /\ Seen(i, c)'
    BY <1>0, <1>11, StableIs DEF LoadPeers, Stored, Seen, DesiredOK
  <2> QED
    BY <2>1, <2>2, <2>3, TunnelGoal
<1>12. ASSUME NEW t \in Threads, OpenTmp(t)
      PROVE  TunnelInv'
  <2>1. /\ LocalsOK' /\ TableOK' /\ DesiredOK' /\ WgOK'
        /\ \A u \in Threads : Works(u)'
    BY <1>0, <1>12 DEF OpenTmp, goto, LocalsOK, TableOK, DesiredOK, WgOK, Works
  <2>2. ConfOK' /\ \A i \in Stable, c \in Bundles : Stored(i, c)' /\ Seen(i, c)'
    BY <1>0, <1>12, BundleIs, StableIs DEF OpenTmp, ConfOK, Stored, Seen
  <2> QED
    BY <2>1, <2>2, TunnelGoal
<1>13. ASSUME NEW t \in Threads, ReadLive(t)
      PROVE  TunnelInv'
  <2>1. /\ TableOK' /\ DesiredOK' /\ WgOK' /\ ConfOK'
        /\ \A u \in Threads : Works(u)'
    BY <1>0, <1>13 DEF ReadLive, goto, TableOK, DesiredOK, WgOK, ConfOK, Works,
                       LocalsOK
  <2>2. LocalsOK'
    <3> DEFINE seen == [k \in Keys |-> IF wg[k] = Bare THEN NoIP ELSE wg[k]]
    <3>1. seen \in [Keys -> Address] /\ Members(desired[t]) \subseteq Keys
      BY <1>0, <1>a DEF WgOK, Members, Listing
    <3>2. /\ live' = [live EXCEPT ![t] = seen] /\ todo' = [todo EXCEPT ![t] = Members(desired[t])]
          /\ goto(t, "diff")
          /\ UNCHANGED <<bundle, conf, adds, removes, arg, view, swaps, faults>>
      BY <1>13 DEF ReadLive
    <3> HIDE DEF seen
    <3> QED
      BY <1>0, <3>1, <3>2 DEF goto, LocalsOK, Listing
  <2>3. \A i \in Stable, c \in Bundles : Stored(i, c)' /\ Seen(i, c)'
    <3> SUFFICES ASSUME NEW i \in Stable, NEW c \in Bundles
                 PROVE  Stored(i, c)' /\ Seen(i, c)'
      OBVIOUS
    <3>1. i \in Keys /\ Stored(i, c) /\ Seen(i, c)
      BY <1>0, StableIs
    <3>2. /\ UNCHANGED <<table, conf, tmp, wg, desired>>
          /\ live' = [live EXCEPT ![t] = [k \in Keys |-> IF wg[k] = Bare THEN NoIP ELSE wg[k]]]
      BY <1>13 DEF ReadLive
    <3>3. /\ live'[t][i] \in {NoIP, c[i]}
          /\ \A u \in Threads \ {t} : live'[u] = live[u]
      BY <1>0, <3>1, <3>2 DEF Stored, LocalsOK, Gone, NoIP
    <3> QED
      BY <3>1, <3>2, <3>3 DEF Stored, Seen
  <2> QED
    BY <2>1, <2>2, <2>3, TunnelGoal
<1>14. ASSUME NEW t \in Threads, NEW k \in Keys, KeepPeer(t, k)
      PROVE  TunnelInv'
  <2>1. /\ LocalsOK' /\ TableOK' /\ DesiredOK' /\ WgOK' /\ ConfOK'
        /\ \A u \in Threads : Works(u)'
        /\ \A i \in Stable, c \in Bundles : Stored(i, c)' /\ Seen(i, c)'
    BY <1>0, <1>14, StableIs DEF KeepPeer, NextDesired, LocalsOK, TableOK,
                                 DesiredOK, WgOK, ConfOK, Works, Stored, Seen
  <2> QED
    BY <2>1, TunnelGoal
<1>15. ASSUME NEW t \in Threads, NEW k \in Keys, RemoveHolder(t, k)
      PROVE  TunnelInv'
  <2>1. TableOK' /\ DesiredOK' /\ ConfOK'
    BY <1>0, <1>15 DEF RemoveHolder, NextDesired, TableOK, DesiredOK, ConfOK
  <2>2. LocalsOK'
    BY <1>0, <1>15, <1>a DEF RemoveHolder, NextDesired, LocalsOK, Members, Holders,
                             Listing
  <2>3. \A u \in Threads : Works(u)'
    BY <1>0, <1>15 DEF RemoveHolder, NextDesired, Works, LocalsOK
  <2>4. \A i \in Stable, c \in Bundles : Stored(i, c)' /\ Seen(i, c)'
    BY <1>0, <1>15, StableIs DEF RemoveHolder, NextDesired, Stored, Seen,
                                 LocalsOK, DesiredOK
  <2>5. WgOK'
    BY <1>0, <1>15, GoneIs DEF RemoveHolder, Holders, Members
  <2> QED
    BY <2>1, <2>2, <2>3, <2>4, <2>5, TunnelGoal
<1>16. ASSUME NEW t \in Threads, NEW k \in Keys, SetPeer(t, k)
      PROVE  TunnelInv'
  <2>1. /\ LocalsOK' /\ TableOK' /\ DesiredOK' /\ ConfOK'
        /\ \A u \in Threads : Works(u)'
    BY <1>0, <1>16 DEF SetPeer, NextDesired, LocalsOK, TableOK, DesiredOK, ConfOK,
                       Works
  <2>2. WgOK'
    <3>1. /\ desired[t][k] \in Address
          /\ wg' = [j \in Keys |-> IF j = k THEN desired[t][k]
                                   ELSE IF wg[j] = desired[t][k] THEN Bare ELSE wg[j]]
      BY <1>0, <1>16 DEF SetPeer, DesiredOK
    <3>2. ~(Bare > 0)
      BY DEF Bare
    <3> QED
      BY <1>0, <3>1, <3>2 DEF WgOK, Listing, OneHolder
  <2>3. \A i \in Stable, c \in Bundles : Stored(i, c)' /\ Seen(i, c)'
    <3> SUFFICES ASSUME NEW i \in Stable, NEW c \in Bundles
                 PROVE  Stored(i, c)' /\ Seen(i, c)'
      OBVIOUS
    <3>1. /\ i \in Keys
          /\ Stored(i, c)
          /\ Seen(i, c)
          /\ desired[t][i] \in {Gone, c[i]}
      BY <1>0, StableIs DEF Seen, Gone, NoIP
    <3>2. wg'[i] \in {desired[t][k], Bare, wg[i]} /\ (wg'[i] = desired[t][k] => wg[i] = desired[t][k] \/ i = k)
      BY <1>16, <3>1 DEF SetPeer
    <3>3. wg'[i] \in {Gone, Bare, c[i]}
      BY <3>1, <3>2 DEF Stored
    <3> QED
      BY <1>16, <3>1, <3>3 DEF SetPeer, Stored, Seen
  <2> QED
    BY <2>1, <2>2, <2>3, TunnelGoal
<1>17. ASSUME NEW t \in Threads, DiffDone(t)
      PROVE  TunnelInv'
  <2>1. TableOK' /\ DesiredOK' /\ WgOK' /\ ConfOK'
    BY <1>0, <1>17, FinishIs DEF DiffDone, goto, TableOK, DesiredOK, WgOK, ConfOK
  <2>2. LocalsOK'
    <3>1. CASE Finish(t)
      BY <1>0, <1>17, <3>1, FinishIs DEF DiffDone, LocalsOK
    <3>2. CASE /\ todo' = [todo EXCEPT ![t] = Members(live[t]) \ Members(desired[t])]
               /\ goto(t, "prune") /\ UNCHANGED <<view, desired, live>>
      BY <1>0, <1>17, <3>2 DEF DiffDone, goto, LocalsOK, Members
    <3> QED
      BY <1>17, <3>1, <3>2 DEF DiffDone
  <2>3. \A u \in Threads : Works(u)'
    <3>1. CASE Finish(t)
      BY <1>0, <1>17, <3>1, FinishKeeps DEF DiffDone
    <3>2. CASE /\ todo' = [todo EXCEPT ![t] = Members(live[t]) \ Members(desired[t])]
               /\ goto(t, "prune") /\ UNCHANGED <<view, desired, live>>
      BY <1>0, <1>17, <3>2 DEF DiffDone, goto, LocalsOK, Works
    <3> QED
      BY <1>17, <3>1, <3>2 DEF DiffDone
  <2>4. \A i \in Stable, c \in Bundles : Stored(i, c)' /\ Seen(i, c)'
    <3>1. CASE Finish(t)
      BY <1>0, <1>17, <3>1, FinishKeeps DEF DiffDone, Stored
    <3>2. CASE UNCHANGED <<desired, live>>
      BY <1>0, <1>17, <3>2 DEF DiffDone, Stored, Seen
    <3> QED
      BY <1>17, <3>1, <3>2 DEF DiffDone
  <2> QED
    BY <2>1, <2>2, <2>3, <2>4, TunnelGoal
<1>18. ASSUME NEW t \in Threads, RemoveOrphan(t)
      PROVE  TunnelInv'
  <2>1. TableOK' /\ ConfOK'
    BY <1>0, <1>18 DEF RemoveOrphan, TableOK, ConfOK
  <2>2. DesiredOK'
    BY <1>0, <1>18, FinishIs DEF RemoveOrphan, goto, DesiredOK
  <2>3. LocalsOK'
    <3>1. UNCHANGED <<bundle, conf, adds, removes, arg, swaps, faults>>
      BY <1>18 DEF RemoveOrphan
    <3>2. CASE Finish(t)
      BY <1>0, <3>1, <3>2, FinishIs DEF LocalsOK
    <3>3. CASE /\ \E k \in todo[t] : todo' = [todo EXCEPT ![t] = @ \ {k}]
               /\ UNCHANGED <<pc, view, desired, live>>
      BY <1>0, <3>1, <3>3 DEF LocalsOK
    <3> QED
      BY <1>18, <3>2, <3>3 DEF RemoveOrphan
  <2>4. WgOK'
    BY <1>0, <1>18, GoneIs DEF RemoveOrphan, LocalsOK
  <2>5. \A u \in Threads : Works(u)'
    <3>1. CASE Finish(t)
      BY <1>0, <1>18, <3>1, FinishKeeps DEF RemoveOrphan
    <3>2. CASE /\ \E k \in todo[t] : todo' = [todo EXCEPT ![t] = @ \ {k}]
               /\ UNCHANGED <<pc, view, desired, live>>
      BY <1>0, <1>18, <3>2 DEF RemoveOrphan, LocalsOK, Works
    <3> QED
      BY <1>18, <3>1, <3>2 DEF RemoveOrphan
  <2>6. \A i \in Stable, c \in Bundles : Stored(i, c)' /\ Seen(i, c)'
    <3> SUFFICES ASSUME NEW i \in Stable, NEW c \in Bundles
                 PROVE  Stored(i, c)' /\ Seen(i, c)'
      OBVIOUS
    <3>1. i \in Keys /\ Stored(i, c) /\ Seen(i, c)
      BY <1>0, StableIs
    <3>2. wg'[i] \in {Gone, wg[i]}
      BY <1>0, <1>18, <3>1, GoneIs DEF RemoveOrphan, LocalsOK
    <3>3. Seen(i, c)'
      <4>1. CASE Finish(t)
        BY <1>0, <1>18, <3>1, <4>1, FinishKeeps DEF RemoveOrphan
      <4>2. CASE UNCHANGED <<desired, live>>
        BY <3>1, <4>2 DEF Seen
      <4> QED
        BY <1>18, <4>1, <4>2 DEF RemoveOrphan
    <3> QED
      BY <1>18, <3>1, <3>2, <3>3 DEF RemoveOrphan, Stored
  <2> QED
    BY <2>1, <2>2, <2>3, <2>4, <2>5, <2>6, TunnelGoal
<1>19. ASSUME NEW t \in Threads, ReadConf(t)
      PROVE  TunnelInv'
  <2>1. LocalsOK' /\ TableOK' /\ DesiredOK' /\ WgOK' /\ ConfOK'
    BY <1>0, <1>19 DEF ReadConf, Fault, goto, LocalsOK, TableOK, DesiredOK, WgOK,
                       ConfOK
  <2>2. \A u \in Threads : Works(u)'
    BY <1>0, <1>19 DEF ReadConf, Fault, goto, LocalsOK, ConfOK, Works
  <2>3. \A i \in Stable, c \in Bundles : Stored(i, c)' /\ Seen(i, c)'
    BY <1>0, <1>19, StableIs DEF ReadConf, LocalsOK, Stored, Seen
  <2> QED
    BY <2>1, <2>2, <2>3, TunnelGoal
<1>20. ASSUME NEW t \in Threads, StatementFails(t)
      PROVE  TunnelInv'
  <2>1. /\ LocalsOK' /\ TableOK' /\ DesiredOK' /\ WgOK' /\ ConfOK'
        /\ \A u \in Threads : Works(u)'
        /\ \A i \in Stable, c \in Bundles : Stored(i, c)' /\ Seen(i, c)'
    BY <1>0, <1>20, StableIs DEF StatementFails, Fault, LocalsOK, TableOK,
                                 DesiredOK, WgOK, ConfOK, Works, Stored, Seen
  <2> QED
    BY <2>1, TunnelGoal
<1>21. ASSUME NEW t \in Threads, SyncFails(t)
      PROVE  TunnelInv'
  <2>1. LocalsOK' /\ TableOK' /\ DesiredOK' /\ WgOK' /\ ConfOK'
    BY <1>0, <1>21, FinishIs DEF SyncFails, Fault, goto, LocalsOK, TableOK,
                                 DesiredOK, WgOK, ConfOK
  <2>2. \A u \in Threads : Works(u)'
    BY <1>0, <1>21, FinishKeeps DEF SyncFails, LocalsOK
  <2>3. \A i \in Stable, c \in Bundles : Stored(i, c)' /\ Seen(i, c)'
    <3>1. /\ Finish(t) /\ UNCHANGED <<table, wg, conf, tmp, torn>>
          /\ \A u \in Threads \ {t} : arg'[u] = arg[u]
      BY <1>0, <1>21 DEF SyncFails, LocalsOK
    <3> QED
      BY <1>0, <3>1, FinishKeeps DEF Stored
  <2> QED
    BY <2>1, <2>2, <2>3, TunnelGoal
<1>22. CASE Restart
  <2>1. /\ LocalsOK' /\ TableOK' /\ DesiredOK' /\ WgOK' /\ ConfOK'
        /\ \A u \in Threads : Works(u)'
        /\ \A i \in Stable, c \in Bundles : Stored(i, c)' /\ Seen(i, c)'
    BY <1>0, <1>22, BundleIs, StableIs DEF Restart, Fault, LocalsOK, TableOK,
                                           DesiredOK, WgOK, ConfOK, Works, Stored,
                                           Seen
  <2> QED
    BY <2>1, TunnelGoal
<1>23. CASE UNCHANGED tunnelVars
  BY <1>23 DEF tunnelVars, TunnelInv, TunnelTypeOK, SyncInv, PlaceInv
<1>24. ASSUME NEW t \in Threads, WriteTmp(t)
      PROVE  TunnelInv'
  <2>1. /\ LocalsOK' /\ TableOK' /\ DesiredOK' /\ WgOK'
        /\ \A u \in Threads : Works(u)'
        /\ UNCHANGED <<table, wg, torn, desired, live>>
    BY <1>0, <1>24 DEF WriteTmp, goto, LocalsOK, TableOK, DesiredOK, WgOK, Works
  <2>2. /\ desired[t] \in [Keys -> Address] /\ Injective(desired[t])
        /\ \A i \in Stable, c \in Bundles : i \in Keys /\ desired[t][i] \in {NoIP, c[i]}
    BY <1>0, StableIs DEF DesiredOK, Seen
  <2>3. ConfOK' /\ \A i \in Stable, c \in Bundles : Stored(i, c)'
    <3>1. CASE /\ \E old \in tmp : \E m \in Overwritten(old, desired[t]) : tmp' = {m}
               /\ UNCHANGED conf
      <4>1. PICK old \in tmp : \E m \in Overwritten(old, desired[t]) : tmp' = {m}
        BY <3>1
      <4>2. PICK m \in Overwritten(old, desired[t]) : tmp' = {m}
        BY <4>1
      <4>3. old \in Listing /\ OneHolder(old)
        BY <1>0, <4>1 DEF ConfOK
      <4>4. /\ m \in Listing /\ OneHolder(m)
            /\ \A k \in Keys : m[k] \in {old[k], desired[t][k], Bare}
        BY <2>2, <4>2, <4>3, OverwrittenIs
      <4>5. \A i \in Stable, c \in Bundles : m[i] \in {NoIP, Bare, c[i]}
        BY <1>0, <2>2, <4>1, <4>4 DEF Stored
      <4> QED
        BY <1>0, <2>1, <3>1, <4>2, <4>4, <4>5 DEF ConfOK, Stored
    <3>2. CASE conf' \in Overwritten(conf, desired[t]) /\ UNCHANGED tmp
      <4>1. /\ conf' \in Listing /\ OneHolder(conf')
            /\ \A k \in Keys : conf'[k] \in {conf[k], desired[t][k], Bare}
        BY <1>0, <2>2, <3>2, OverwrittenIs DEF ConfOK
      <4>2. \A i \in Stable, c \in Bundles : conf'[i] \in {NoIP, Bare, c[i]}
        BY <1>0, <2>2, <4>1 DEF Stored
      <4> QED
        BY <1>0, <2>1, <3>2, <4>1, <4>2 DEF ConfOK, Stored
    <3>3. CASE UNCHANGED <<conf, tmp>>
      BY <1>0, <2>1, <3>3 DEF ConfOK, Stored
    <3> QED
      BY <1>24, <3>1, <3>2, <3>3 DEF WriteTmp
  <2>4. \A i \in Stable, c \in Bundles : Seen(i, c)'
    BY <1>0, <2>1 DEF Seen
  <2> QED
    BY <2>1, <2>3, <2>4, TunnelGoal
<1>25. ASSUME NEW t \in Threads, RenameTmp(t)
      PROVE  TunnelInv'
  <2>1. LocalsOK' /\ TableOK' /\ DesiredOK' /\ WgOK'
    BY <1>0, <1>25 DEF RenameTmp, LocalsOK, TableOK, DesiredOK, WgOK
  <2>2. ConfOK' /\ \A i \in Stable, c \in Bundles : Stored(i, c)' /\ Seen(i, c)'
    BY <1>0, <1>25 DEF RenameTmp, ConfOK, Stored, Seen
  <2>3. \A u \in Threads : Works(u)'
    <3> SUFFICES ASSUME NEW u \in Threads PROVE Works(u)'
      OBVIOUS
    <3>1. /\ UNCHANGED <<arg, view, todo, desired, live>>
          /\ pc'[u] \in {pc[u], "live", "writeconf", "writelost"}
          /\ pc'[u] = "writeconf" => pc[u] = "write"
          /\ \A v \in Threads : pc[v] = "write" => torn'
      BY <1>0, <1>25 DEF RenameTmp, LocalsOK
    <3> QED
      BY <1>0, <3>1 DEF Works
  <2> QED
    BY <2>1, <2>2, <2>3, TunnelGoal
<1>26. ASSUME NEW t \in Threads, RenameFails(t)
      PROVE  TunnelInv'
  <2>1. LocalsOK' /\ TableOK' /\ DesiredOK' /\ WgOK' /\ ConfOK'
    BY <1>0, <1>26, FinishIs DEF RenameFails, LocalsOK, TableOK, WgOK, ConfOK
  <2>2. \A u \in Threads : Works(u)'
    BY <1>0, <1>26, FinishKeeps DEF RenameFails
  <2>3. \A i \in Stable, c \in Bundles : Stored(i, c)' /\ Seen(i, c)'
    BY <1>0, <1>26, FinishKeeps DEF RenameFails, Stored
  <2> QED
    BY <2>1, <2>2, <2>3, TunnelGoal
<1>27. ASSUME NEW t \in Threads, Syncconf(t)
      PROVE  TunnelInv'
  <2>1. LocalsOK' /\ TableOK' /\ DesiredOK' /\ ConfOK'
    BY <1>0, <1>27, FinishIs DEF Syncconf, LocalsOK, TableOK, ConfOK
  <2>2. WgOK'
    BY <1>0, <1>27 DEF Syncconf, WgOK, Works, LocalsOK
  <2>3. \A u \in Threads : Works(u)'
    BY <1>0, <1>27, FinishKeeps DEF Syncconf
  <2>4. \A i \in Stable, c \in Bundles : Stored(i, c)' /\ Seen(i, c)'
    <3> SUFFICES ASSUME NEW i \in Stable, NEW c \in Bundles
                 PROVE  Stored(i, c)' /\ Seen(i, c)'
      OBVIOUS
    <3>1. wg'[i] \in {Gone, Bare, c[i]}
      BY <1>0, <1>27 DEF Syncconf, Seen, Gone, NoIP
    <3>2. UNCHANGED <<table, conf, tmp>>
      BY <1>27 DEF Syncconf
    <3> QED
      BY <1>0, <1>27, <3>1, <3>2, FinishKeeps DEF Syncconf, Stored
  <2> QED
    BY <2>1, <2>2, <2>3, <2>4, TunnelGoal
<1> QED
  BY <1>1, <1>2, <1>3, <1>4, <1>5, <1>6, <1>7, <1>8, <1>9, <1>10, <1>11, <1>12,
     <1>13, <1>14, <1>15, <1>16, <1>17, <1>18, <1>19, <1>20, <1>21, <1>22, <1>23,
     <1>24, <1>25, <1>26, <1>27 DEF TunnelNext, SyncStep

-----------------------------------------------------------------------------
(* TunnelSync: unaffected peers.                                             *)

\* What Established says of the tables and of one goroutine.
InPlace(p, b) == table[p] = b[p] /\ wg[p] = b[p]
Agrees(u, p, b) ==
  /\ pc[u] \in {"apply", "live", "diff", "prune"} \union Writing => desired[u][p] = b[p]
  /\ pc[u] = "live" /\ ~torn => conf[p] = b[p]
  /\ pc[u] = "syncconf" => live[u][p] = b[p]
  /\ pc[u] = "insert" => arg[u][2] # b[p]

\* Established, part by part.
LEMMA EstablishedParts ==
  ASSUME NEW p
  PROVE  Established(p) <=>
           \A b \in Bundles : InPlace(p, b) /\ \A u \in Threads : Agrees(u, p, b)
BY DEF Established, InPlace, Agrees

\* What a step has to keep.
LEMMA EstablishedGoal ==
  ASSUME NEW p,
         \A b \in Bundles : InPlace(p, b)' /\ \A u \in Threads : Agrees(u, p, b)'
  PROVE  Established(p)'
BY DEF Established, InPlace, Agrees

\* The end of a sync leaves the others as they were.
LEMMA FinishAgrees ==
  ASSUME LocalsOK, DesiredOK, NEW t \in Threads, Finish(t),
         UNCHANGED <<conf, torn>>, \A u \in Threads \ {t} : arg'[u] = arg[u],
         NEW p \in Stable, NEW b \in Bundles, \A u \in Threads : Agrees(u, p, b)
  PROVE  \A u \in Threads : Agrees(u, p, b)'
<1> USE TunnelAssumption
<1> SUFFICES ASSUME NEW u \in Threads PROVE Agrees(u, p, b)'
  OBVIOUS
<1>1. CASE u = t
  BY <1>1, FinishIs DEF Agrees, Writing
<1>2. CASE u # t
  BY <1>2, FinishIs DEF Agrees
<1> QED
  BY <1>1, <1>2

\* No step moves an established peer.
LEMMA EstablishedStep ==
  ASSUME TunnelInv, TunnelNext \/ UNCHANGED tunnelVars,
         NEW p \in Stable, Established(p), ~ReadsTorn
  PROVE  Established(p)'
<1> USE TunnelAssumption
<1> USE DEF locals, history, files, Labels, Writing
<1> SUFFICES ASSUME NEW q \in Bundles
             PROVE  InPlace(p, q)' /\ \A u \in Threads : Agrees(u, p, q)'
  BY EstablishedGoal
<1>0. /\ LocalsOK /\ TableOK /\ DesiredOK /\ WgOK /\ ConfOK /\ \A t \in Threads : Works(t)
      /\ Stored(p, q) /\ Seen(p, q) /\ InPlace(p, q) /\ \A u \in Threads : Agrees(u, p, q)
  BY TunnelParts, EstablishedParts
<1>a. /\ p \in Keys /\ p \notin AddKeys /\ p \notin RemoveKeys
      /\ q[p] \in Address /\ q[p] # NoIP /\ q[p] > 0 /\ \A c \in Bundles : c[p] = q[p]
  BY StableIs
<1>1. ASSUME NEW t \in Threads, NEW b \in Active, Swap(t, b)
      PROVE  InPlace(p, q)' /\ \A u \in Threads : Agrees(u, p, q)'
  BY <1>0, <1>a, <1>1 DEF Swap, goto, InPlace, Agrees, LocalsOK
<1>2. ASSUME NEW t \in Threads, Tick(t)
      PROVE  InPlace(p, q)' /\ \A u \in Threads : Agrees(u, p, q)'
  BY <1>0, <1>a, <1>2 DEF Tick, goto, InPlace, Agrees, LocalsOK
<1>3. ASSUME NEW t \in Threads, NEW k \in Keys, AddPeer(t, k)
      PROVE  InPlace(p, q)' /\ \A u \in Threads : Agrees(u, p, q)'
  BY <1>0, <1>a, <1>3 DEF AddPeer, Fault, goto, InPlace, Agrees, LocalsOK
<1>4. ASSUME NEW t \in Threads, NEW k \in Keys, RemovePeer(t, k)
      PROVE  InPlace(p, q)' /\ \A u \in Threads : Agrees(u, p, q)'
  <2>1. InPlace(p, q)'
    <3>1. k # p /\ table' = [table EXCEPT ![k] = NoIP]
      BY <1>0, <1>a, <1>4 DEF RemovePeer, LocalsOK
    <3> QED
      BY <1>0, <1>a, <1>4, <3>1 DEF RemovePeer, InPlace, TableOK
  <2>2. \A u \in Threads : Agrees(u, p, q)'
    BY <1>0, <1>a, <1>4 DEF RemovePeer, goto, InPlace, Agrees, LocalsOK
  <2> QED
    BY <2>1, <2>2
<1>5. ASSUME NEW t \in Threads, AllocateIP(t)
      PROVE  InPlace(p, q)' /\ \A u \in Threads : Agrees(u, p, q)'
  <2>1. InPlace(p, q)'
    BY <1>0, <1>a, <1>5 DEF AllocateIP, InPlace
  <2>2. \A u \in Threads : Agrees(u, p, q)'
    <3>1. UNCHANGED <<conf, torn, desired, live>>
      BY <1>5 DEF AllocateIP
    <3>2. CASE goto(t, "idle") /\ arg' = [arg EXCEPT ![t] = <<>>]
      BY <1>0, <3>1, <3>2 DEF goto, Agrees, LocalsOK
    <3>3. CASE \E ip \in FreeIPs : arg' = [arg EXCEPT ![t] = <<arg[t][1], ip>>] /\ goto(t, "insert")
      <4>1. PICK ip \in FreeIPs : arg' = [arg EXCEPT ![t] = <<arg[t][1], ip>>] /\ goto(t, "insert")
        BY <3>3
      <4>2. ip # q[p]
        BY <1>0, <1>a DEF FreeIPs, InPlace
      <4> QED
        BY <1>0, <3>1, <4>1, <4>2 DEF goto, Agrees, LocalsOK
    <3> QED
      BY <1>5, <3>2, <3>3 DEF AllocateIP
  <2> QED
    BY <2>1, <2>2
<1>6. ASSUME NEW t \in Threads, InsertPeer(t)
      PROVE  InPlace(p, q)' /\ \A u \in Threads : Agrees(u, p, q)'
  <2>1. InPlace(p, q)'
    <3>1. /\ arg[t] \in AddKeys \X Address
          /\ AddKeys \subseteq Keys
          /\ arg[t][2] # q[p]
      BY <1>0, <1>6 DEF InsertPeer, Works, Agrees
    <3>2. table'[p] = table[p]
      BY <1>0, <1>a, <1>6, <3>1, UpsertIs DEF InsertPeer, TableOK, InPlace
    <3> QED
      BY <1>0, <1>6, <3>2 DEF InsertPeer, InPlace
  <2>2. \A u \in Threads : Agrees(u, p, q)'
    BY <1>0, <1>a, <1>6 DEF InsertPeer, goto, InPlace, Agrees, LocalsOK
  <2> QED
    BY <2>1, <2>2
<1>7. ASSUME NEW t \in Threads, ReadBundle(t)
      PROVE  InPlace(p, q)' /\ \A u \in Threads : Agrees(u, p, q)'
  BY <1>0, <1>a, <1>7 DEF ReadBundle, goto, InPlace, Agrees, LocalsOK
<1>8. ASSUME NEW t \in Threads, UpsertChild(t)
      PROVE  InPlace(p, q)' /\ \A u \in Threads : Agrees(u, p, q)'
  <2>1. InPlace(p, q)'
    <3>1. PICK k \in todo[t] : Upsert(k, view[t][k])
      BY <1>8 DEF UpsertChild
    <3>2. view[t] \in Bundles /\ k \in Members(view[t])
      BY <1>0, <1>8, <3>1 DEF UpsertChild, Works
    <3>3. /\ k \in Keys /\ p \in Members(view[t]) /\ view[t][p] = q[p]
          /\ view[t] \in [Keys -> Address] /\ Injective(view[t])
      BY <1>a, <3>2, BundleIs DEF Members
    <3>4. CASE k = p
      BY <1>0, <1>8, <3>1, <3>3, <3>4, UpsertIs DEF UpsertChild, TableOK, InPlace
    <3>5. CASE k # p
      <4>1. view[t][k] # q[p]
        BY <3>2, <3>3, <3>5 DEF Injective
      <4> QED
        BY <1>0, <1>a, <1>8, <3>1, <3>3, <3>5, <4>1, UpsertIs
           DEF UpsertChild, TableOK, InPlace
    <3> QED
      BY <3>4, <3>5
  <2>2. \A u \in Threads : Agrees(u, p, q)'
    BY <1>0, <1>a, <1>8 DEF UpsertChild, InPlace, Agrees, LocalsOK
  <2> QED
    BY <2>1, <2>2
<1>9. ASSUME NEW t \in Threads, QueryOrphans(t)
      PROVE  InPlace(p, q)' /\ \A u \in Threads : Agrees(u, p, q)'
  BY <1>0, <1>a, <1>9 DEF QueryOrphans, goto, InPlace, Agrees, LocalsOK
<1>10. ASSUME NEW t \in Threads, DeleteOrphan(t)
      PROVE  InPlace(p, q)' /\ \A u \in Threads : Agrees(u, p, q)'
  <2>1. InPlace(p, q)'
    <3>1. PICK k \in todo[t] : table' = [table EXCEPT ![k] = NoIP]
      BY <1>10 DEF DeleteOrphan
    <3>2. view[t] \in Bundles /\ k \notin Members(view[t])
      BY <1>0, <1>10, <3>1 DEF DeleteOrphan, Works
    <3>3. p \in Members(view[t])
      BY <1>a, <3>2 DEF Members
    <3> QED
      BY <1>0, <1>a, <1>10, <3>1, <3>2, <3>3 DEF DeleteOrphan, InPlace, TableOK
  <2>2. \A u \in Threads : Agrees(u, p, q)'
    BY <1>0, <1>a, <1>10 DEF DeleteOrphan, InPlace, Agrees, LocalsOK
  <2> QED
    BY <2>1, <2>2
<1>11. ASSUME NEW t \in Threads, LoadPeers(t)
      PROVE  InPlace(p, q)' /\ \A u \in Threads : Agrees(u, p, q)'
  <2>1. InPlace(p, q)'
    BY <1>0, <1>a, <1>11 DEF LoadPeers, InPlace
  <2>2. \A u \in Threads : Agrees(u, p, q)'
    BY <1>0, <1>11 DEF LoadPeers, goto, InPlace, Agrees, LocalsOK, DesiredOK
  <2> QED
    BY <2>1, <2>2
<1>12. ASSUME NEW t \in Threads, OpenTmp(t)
      PROVE  InPlace(p, q)' /\ \A u \in Threads : Agrees(u, p, q)'
  BY <1>0, <1>a, <1>12 DEF OpenTmp, goto, InPlace, Agrees, LocalsOK
<1>13. ASSUME NEW t \in Threads, ReadLive(t)
      PROVE  InPlace(p, q)' /\ \A u \in Threads : Agrees(u, p, q)'
  BY <1>0, <1>a, <1>13 DEF ReadLive, goto, InPlace, Agrees, LocalsOK
<1>14. ASSUME NEW t \in Threads, NEW k \in Keys, KeepPeer(t, k)
      PROVE  InPlace(p, q)' /\ \A u \in Threads : Agrees(u, p, q)'
  BY <1>0, <1>a, <1>14 DEF KeepPeer, NextDesired, InPlace, Agrees, LocalsOK
<1>15. ASSUME NEW t \in Threads, NEW k \in Keys, RemoveHolder(t, k)
      PROVE  InPlace(p, q)' /\ \A u \in Threads : Agrees(u, p, q)'
  <2>1. InPlace(p, q)'
    <3>1. PICK j \in Holders(t, k) : wg' = [wg EXCEPT ![j] = Gone]
      BY <1>15 DEF RemoveHolder
    <3>2. desired[t][p] = q[p] /\ Injective(desired[t]) /\ desired[t] \in [Keys -> Address]
      BY <1>0, <1>15 DEF RemoveHolder, NextDesired, Agrees, DesiredOK
    <3>3. j # p
      <4> SUFFICES ASSUME j = p PROVE FALSE
        OBVIOUS
      <4>1. live[t][p] = desired[t][k] /\ live[t][p] # NoIP /\ k # p
        BY <3>1 DEF Holders, Members
      <4>2. k \in Keys /\ desired[t][k] # Bare
        BY <1>0, <1>15, <3>2 DEF RemoveHolder, NextDesired, LocalsOK, Address, Bare
      <4>3. desired[t][k] = desired[t][p] /\ desired[t][k] # NoIP
        BY <1>0, <3>2, <4>1, <4>2 DEF Seen
      <4> QED
        BY <1>a, <3>2, <4>1, <4>2, <4>3 DEF Injective, Members
    <3> QED
      BY <1>0, <1>a, <1>15, <3>1, <3>3 DEF RemoveHolder, InPlace, WgOK
  <2>2. \A u \in Threads : Agrees(u, p, q)'
    BY <1>0, <1>a, <1>15 DEF RemoveHolder, NextDesired, Holders, InPlace, Agrees,
                             LocalsOK
  <2> QED
    BY <2>1, <2>2
<1>16. ASSUME NEW t \in Threads, NEW k \in Keys, SetPeer(t, k)
      PROVE  InPlace(p, q)' /\ \A u \in Threads : Agrees(u, p, q)'
  <2>1. InPlace(p, q)'
    <3>1. desired[t][p] = q[p] /\ Injective(desired[t])
      BY <1>0, <1>16 DEF SetPeer, NextDesired, Agrees, DesiredOK
    <3>2. k # p => desired[t][k] # q[p]
      BY <1>a, <3>1 DEF Injective, Members
    <3>3. wg'[p] = q[p]
      BY <1>0, <1>a, <1>16, <3>1, <3>2 DEF SetPeer, InPlace
    <3> QED
      BY <1>0, <1>16, <3>3 DEF SetPeer, InPlace
  <2>2. \A u \in Threads : Agrees(u, p, q)'
    BY <1>0, <1>a, <1>16 DEF SetPeer, NextDesired, Holders, InPlace, Agrees,
                             LocalsOK
  <2> QED
    BY <2>1, <2>2
<1>17. ASSUME NEW t \in Threads, DiffDone(t)
      PROVE  InPlace(p, q)' /\ \A u \in Threads : Agrees(u, p, q)'
  <2>1. InPlace(p, q)'
    BY <1>0, <1>a, <1>17 DEF DiffDone, InPlace
  <2>2. \A u \in Threads : Agrees(u, p, q)'
    <3>1. CASE Finish(t)
      BY <1>0, <1>17, <3>1, FinishAgrees DEF DiffDone
    <3>2. CASE goto(t, "prune") /\ UNCHANGED <<view, desired, live>>
      BY <1>0, <1>17, <3>2 DEF DiffDone, goto, Agrees, LocalsOK
    <3> QED
      BY <1>17, <3>1, <3>2 DEF DiffDone
  <2> QED
    BY <2>1, <2>2
<1>18. ASSUME NEW t \in Threads, RemoveOrphan(t)
      PROVE  InPlace(p, q)' /\ \A u \in Threads : Agrees(u, p, q)'
  <2>1. InPlace(p, q)'
    <3>1. PICK k \in todo[t] : wg' = [wg EXCEPT ![k] = Gone]
      BY <1>18 DEF RemoveOrphan
    <3>2. desired[t][p] = q[p] /\ k \notin Members(desired[t])
      BY <1>0, <1>18, <3>1 DEF RemoveOrphan, Agrees, Works
    <3>3. k # p
      BY <1>a, <3>2 DEF Members
    <3> QED
      BY <1>0, <1>a, <1>18, <3>1, <3>3 DEF RemoveOrphan, InPlace, WgOK
  <2>2. \A u \in Threads : Agrees(u, p, q)'
    <3>1. CASE Finish(t)
      BY <1>0, <1>18, <3>1, FinishAgrees DEF RemoveOrphan
    <3>2. CASE UNCHANGED <<pc, desired, live>>
      BY <1>0, <1>18, <3>2 DEF RemoveOrphan, Agrees
    <3> QED
      BY <1>18, <3>1, <3>2 DEF RemoveOrphan
  <2> QED
    BY <2>1, <2>2
<1>19. ASSUME NEW t \in Threads, ReadConf(t)
      PROVE  InPlace(p, q)' /\ \A u \in Threads : Agrees(u, p, q)'
  <2>1. ~torn
    BY <1>19 DEF ReadsTorn
  <2> QED
    BY <1>0, <1>a, <1>19, <2>1 DEF ReadConf, goto, InPlace, Agrees, LocalsOK
<1>20. ASSUME NEW t \in Threads, StatementFails(t)
      PROVE  InPlace(p, q)' /\ \A u \in Threads : Agrees(u, p, q)'
  BY <1>0, <1>a, <1>20 DEF StatementFails, Fault, InPlace, Agrees, LocalsOK
<1>21. ASSUME NEW t \in Threads, SyncFails(t)
      PROVE  InPlace(p, q)' /\ \A u \in Threads : Agrees(u, p, q)'
  <2>1. InPlace(p, q)'
    BY <1>0, <1>a, <1>21 DEF SyncFails, InPlace
  <2>2. \A u \in Threads : Agrees(u, p, q)'
    <3>1. /\ Finish(t) /\ UNCHANGED <<conf, torn>>
          /\ \A u \in Threads \ {t} : arg'[u] = arg[u]
      BY <1>0, <1>21 DEF SyncFails, LocalsOK
    <3> QED
      BY <1>0, <3>1, FinishAgrees
  <2> QED
    BY <2>1, <2>2
<1>22. CASE Restart
  BY <1>0, <1>a, <1>22 DEF Restart, Fault, InPlace, Agrees, LocalsOK
<1>23. CASE UNCHANGED tunnelVars
  BY <1>0, <1>23 DEF tunnelVars, InPlace, Agrees
<1>24. ASSUME NEW t \in Threads, WriteTmp(t)
      PROVE  InPlace(p, q)' /\ \A u \in Threads : Agrees(u, p, q)'
  <2>1. InPlace(p, q)'
    BY <1>0, <1>24 DEF WriteTmp, InPlace
  <2>2. pc[t] \in Writing /\ (torn \/ UNCHANGED conf)
    BY <1>0, <1>24 DEF WriteTmp, Works
  <2>3. \A u \in Threads : Agrees(u, p, q)'
    BY <1>0, <1>24, <2>2 DEF WriteTmp, goto, Agrees, LocalsOK
  <2> QED
    BY <2>1, <2>3
<1>25. ASSUME NEW t \in Threads, RenameTmp(t)
      PROVE  InPlace(p, q)' /\ \A u \in Threads : Agrees(u, p, q)'
  <2>1. InPlace(p, q)' /\ UNCHANGED <<desired, live, arg>>
    BY <1>0, <1>25 DEF RenameTmp, InPlace
  <2>2. ~torn' => conf' = desired[t]
    BY <1>25 DEF RenameTmp
  <2>3. desired[t][p] = q[p]
    BY <1>0, <1>25 DEF RenameTmp, Agrees
  <2> SUFFICES ASSUME NEW u \in Threads PROVE Agrees(u, p, q)'
    BY <2>1
  <2>4. \/ pc'[u] = pc[u] \/ (pc[u] \in Writing /\ pc'[u] \in {"live"} \union Writing)
    BY <1>0, <1>25 DEF RenameTmp, LocalsOK
  <2> QED
    BY <1>0, <2>1, <2>2, <2>3, <2>4 DEF Agrees
<1>26. ASSUME NEW t \in Threads, RenameFails(t)
      PROVE  InPlace(p, q)' /\ \A u \in Threads : Agrees(u, p, q)'
  <2>1. InPlace(p, q)'
    BY <1>0, <1>26 DEF RenameFails, InPlace
  <2>2. \A u \in Threads : Agrees(u, p, q)'
    BY <1>0, <1>26, FinishAgrees DEF RenameFails
  <2> QED
    BY <2>1, <2>2
<1>27. ASSUME NEW t \in Threads, Syncconf(t)
      PROVE  InPlace(p, q)' /\ \A u \in Threads : Agrees(u, p, q)'
  <2>1. InPlace(p, q)'
    BY <1>0, <1>27 DEF Syncconf, InPlace, Agrees
  <2>2. \A u \in Threads : Agrees(u, p, q)'
    BY <1>0, <1>27, FinishAgrees DEF Syncconf
  <2> QED
    BY <2>1, <2>2
<1> QED
  BY <1>1, <1>2, <1>3, <1>4, <1>5, <1>6, <1>7, <1>8, <1>9, <1>10, <1>11, <1>12,
     <1>13, <1>14, <1>15, <1>16, <1>17, <1>18, <1>19, <1>20, <1>21, <1>22, <1>23,
     <1>24, <1>25, <1>26, <1>27 DEF TunnelNext, SyncStep

-----------------------------------------------------------------------------
(* TunnelSync: theorems.                                                     *)

\* The first state.
LEMMA TunnelStarts ==
  ASSUME TunnelInit
  PROVE  TunnelInv
<1> USE TunnelAssumption
<1>0. NoIP \in Address /\ 0 \in 0 .. MaxSwap /\ 0 \in 0 .. MaxFault
  BY DEF NoIP, Address
<1>1. /\ NoPeers \in [Keys -> Address] /\ Injective(NoPeers)
      /\ NoPeers \in Listing /\ OneHolder(NoPeers) /\ \A k \in Keys : NoPeers[k] = NoIP
  BY BundleIs
<1>2. LocalsOK /\ TableOK /\ DesiredOK /\ ConfOK
  BY <1>0, <1>1 DEF TunnelInit, LocalsOK, TableOK, DesiredOK, ConfOK, Active, Labels
<1>3. WgOK
  BY <1>0, <1>1 DEF TunnelInit, WgOK, NoPeers, Gone, NoIP
<1>4. \A t \in Threads : Works(t)
  BY DEF TunnelInit, Works
<1>5. \A k \in Stable, b \in Bundles : Stored(k, b) /\ Seen(k, b)
  BY <1>1, StableIs DEF TunnelInit, Stored, Seen
<1> QED
  BY <1>2, <1>3, <1>4, <1>5
     DEF TunnelInv, TunnelTypeOK, SyncInv, PlaceInv, LocalsOK, TableOK, DesiredOK,
         WgOK, ConfOK, Works, Stored, Seen

\* The types of the peer tables, the rule that an address belongs to one peer, what
\* each sync is about and where an unaffected peer can be: for any keys, bundles
\* and number of overlapping syncs (tunnel/manager.go, tunnel/wgconf.go).
THEOREM TunnelInvariant ==
  TunnelSpec => [](TunnelTypeOK /\ SyncInv /\ PlaceInv)
<1>1. TunnelInit => TunnelInv
  BY TunnelStarts
<1>2. TunnelInv /\ [TunnelNext]_tunnelVars => TunnelInv'
  BY TunnelStep
<1>3. TunnelInv => TunnelTypeOK /\ SyncInv /\ PlaceInv
  BY DEF TunnelInv
<1> QED
  BY <1>1, <1>2, <1>3, PTL DEF TunnelSpec

\* No address is given to two peers, in the table or on wg0, however syncs and
\* commands overlap and fail.
THEOREM TunnelTypeCorrect ==
  TunnelSpec => []TunnelTypeOK
BY TunnelInvariant, PTL

\* wgconf.go, Apply: "a bundle swap or re-enrollment never drops unaffected peers".
\* A peer that no bundle moves and no command is about, once established, keeps its
\* row and its place on wg0 through any step of any number of overlapping syncs,
\* failures and restarts, until a sync falls back to a torn wg0.conf.
THEOREM UnaffectedAlwaysStay ==
  TunnelSpec => UnaffectedStay
<1>1. TunnelInv /\ [TunnelNext]_tunnelVars =>
        [\A k \in Stable : Established(k) => Established(k)' \/ ReadsTorn]_tunnelVars
  <2> SUFFICES ASSUME TunnelInv, TunnelNext \/ UNCHANGED tunnelVars, NEW k \in Stable,
                      Established(k), ~ReadsTorn
               PROVE  Established(k)'
    OBVIOUS
  <2> QED
    BY EstablishedStep
<1>2. TunnelTypeOK /\ SyncInv /\ PlaceInv => TunnelInv
  BY DEF TunnelInv
<1> QED
  BY <1>1, <1>2, TunnelInvariant, PTL DEF TunnelSpec, UnaffectedStay

=============================================================================
