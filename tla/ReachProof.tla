------------------------------ MODULE ReachProof -----------------------------
(***************************************************************************)
(* Theorems about a node that is out of reach: of the cloud (Failsafe), for *)
(* any grace period, any bundle lifetimes and any number of restarts and   *)
(* failing statements, and of its children (EndpointUpkeep), for any       *)
(* addresses and any number of lost answers, moves, reboots and restarts.  *)
(* The two have nothing in common but the process that runs them.          *)
(***************************************************************************)
EXTENDS Failsafe, EndpointUpkeep, TLAPS

-----------------------------------------------------------------------------
(* Failsafe.                                                                 *)

\* Every clock value kept by the fail-safe stays a time, and flags stay flags.
THEOREM TypeCorrect == Spec => []TypeOK
<1> USE FailsafeAssumption DEF TypeOK, Time, Zero, Origins
<1>1. Init => TypeOK
  <2> SUFFICES ASSUME Init PROVE TypeOK
    OBVIOUS
  <2>1. /\ online \in BOOLEAN /\ origin \in Origins
        /\ beat \in BOOLEAN /\ reachable \in BOOLEAN /\ checked \in BOOLEAN
        /\ active \in BOOLEAN /\ seeded \in BOOLEAN /\ received \in BOOLEAN
        /\ renewed \in BOOLEAN /\ faulty \in BOOLEAN
    BY Zenon DEF Init
  <2>2. /\ now = 1 /\ expiry = Zero /\ stored = Zero
        /\ triggeredAt = Zero /\ bundleExpiredAt = Zero /\ offlineSince = Zero
        /\ restarts = 0 /\ dbFaults = 0
    BY Zenon DEF Init
  <2>3. /\ now \in 1 .. MaxTime /\ expiry \in Time /\ stored \in Time
        /\ triggeredAt \in Time /\ bundleExpiredAt \in Time /\ offlineSince \in Time
        /\ restarts \in 0 .. MaxRestart /\ dbFaults \in 0 .. MaxDbFault
    BY <2>2
  <2> QED BY <2>1, <2>3, Zenon
<1>2. TypeOK /\ [Next]_vars => TypeOK'
  <2> SUFFICES ASSUME TypeOK, [Next]_vars PROVE TypeOK'
    OBVIOUS
  <2>1. CASE ClockTick
    BY <2>1 DEF ClockTick, state
  <2>2. CASE Toggle
    BY <2>2 DEF Toggle, state
  <2>3. CASE Receive
    BY <2>3 DEF Receive, state
  <2>4. CASE Seed
    <3>1. /\ renewed' \in BOOLEAN /\ origin' \in Origins /\ seeded' \in BOOLEAN
          /\ expiry' = now + BootstrapTTL \/ expiry' = expiry
          /\ UNCHANGED <<now, online, stored, beat, reachable, checked, state, received,
                         faulty, restarts, dbFaults>>
      BY <2>4, Zenon DEF Seed
    <3>2. expiry' \in Nat
      BY <3>1
    <3> QED BY <3>1, <3>2 DEF state
  <2>5. CASE HeartbeatStart
    <3>1. /\ beat' \in BOOLEAN /\ renewed' \in BOOLEAN /\ faulty' \in BOOLEAN
          /\ stored' = expiry \/ stored' = stored
          /\ dbFaults' = dbFaults \/ (dbFaults < MaxDbFault /\ dbFaults' = dbFaults + 1)
          /\ UNCHANGED <<now, online, origin, expiry, reachable, checked, state, seeded,
                         received, restarts>>
      BY <2>5, Zenon DEF HeartbeatStart, PersistExpiry, DbFault
    <3>2. dbFaults' \in 0 .. MaxDbFault
      BY <3>1
    <3> QED BY <3>1, <3>2 DEF state
  <2>6. CASE HeartbeatEnd
    <3>1. PICK exp \in {stored, Zero}, grace \in {Grace, 0} :
            /\ IF exp = stored /\ grace = Grace
                 THEN UNCHANGED <<dbFaults, faulty>>
                 ELSE DbFault /\ faulty' = TRUE
            /\ CheckAndEnterFailsafe(exp, grace, online)
      BY <2>6, Zenon DEF HeartbeatEnd
    <3>2. exp \in Nat
      OBVIOUS
    <3>3. active' \in BOOLEAN
      <4>1. active' = TRUE \/ active' = FALSE \/ active' = active
        BY <3>1, Zenon DEF CheckAndEnterFailsafe, Enter, Exit, Stay
      <4> QED BY <4>1
    <3>4. triggeredAt' \in Nat /\ bundleExpiredAt' \in Nat
      <4>1. triggeredAt' = now \/ triggeredAt' = triggeredAt
        BY <3>1, Zenon DEF CheckAndEnterFailsafe, Enter, Exit, Stay
      <4>2. bundleExpiredAt' = exp \/ bundleExpiredAt' = bundleExpiredAt
        BY <3>1, Zenon DEF CheckAndEnterFailsafe, Enter, Exit, Stay
      <4> QED BY <3>2, <4>1, <4>2
    <3>5. offlineSince' \in Nat
      <4>1. offlineSince' \in {Zero, now, offlineSince}
        BY <3>1, Zenon DEF CheckAndEnterFailsafe, Enter, Exit, Stay
      <4> QED BY <4>1
    <3>6. dbFaults' \in 0 .. MaxDbFault /\ faulty' \in BOOLEAN
      <4>1. /\ dbFaults' = dbFaults \/ (dbFaults < MaxDbFault /\ dbFaults' = dbFaults + 1)
            /\ faulty' = faulty \/ faulty' = TRUE
        BY <3>1, Zenon DEF DbFault
      <4>2. dbFaults' \in 0 .. MaxDbFault
        BY <4>1
      <4>3. faulty' \in BOOLEAN
        BY <4>1, Zenon
      <4> QED BY <4>2, <4>3
    <3>7. /\ beat' = FALSE /\ reachable' = online /\ checked' = TRUE
          /\ UNCHANGED <<now, online, origin, expiry, stored, seeded, received,
                         renewed, restarts>>
      BY <2>6, Zenon DEF HeartbeatEnd
    <3>8. /\ online' \in BOOLEAN /\ origin' \in Origins
          /\ beat' \in BOOLEAN /\ reachable' \in BOOLEAN /\ checked' \in BOOLEAN
          /\ seeded' \in BOOLEAN /\ received' \in BOOLEAN /\ renewed' \in BOOLEAN
      BY <3>7, Zenon
    <3>9. /\ now' \in 1 .. MaxTime /\ expiry' \in Time /\ stored' \in Time
          /\ restarts' \in 0 .. MaxRestart
      BY <3>7, Zenon
    <3> QED BY <3>3, <3>4, <3>5, <3>6, <3>8, <3>9, Zenon
  <2>7. CASE Restart
    <3>1. /\ triggeredAt' \in Nat /\ bundleExpiredAt' \in Nat /\ offlineSince' \in Nat
          /\ restarts' \in 0 .. MaxRestart
      BY <2>7 DEF Restart
    <3>2. /\ beat' \in BOOLEAN /\ reachable' \in BOOLEAN /\ checked' \in BOOLEAN
          /\ active' \in BOOLEAN /\ seeded' \in BOOLEAN
          /\ UNCHANGED <<now, online, origin, expiry, stored, received, renewed,
                         faulty, dbFaults>>
      BY <2>7, Zenon DEF Restart
    <3> QED BY <3>1, <3>2, Zenon
  <2>8. CASE UNCHANGED vars
    BY <2>8 DEF vars
  <2> QED BY <2>1, <2>2, <2>3, <2>4, <2>5, <2>6, <2>7, <2>8 DEF Next
<1>3. QED BY <1>1, <1>2, PTL DEF Spec

\* Every step keeps the invariant of the fail-safe.
LEMMA StepInv == TypeOK /\ FailsafeInv /\ [Next]_vars => FailsafeInv'
<1> SUFFICES ASSUME TypeOK, FailsafeInv, [Next]_vars PROVE FailsafeInv'
  OBVIOUS
<1> USE FailsafeAssumption
    DEF TypeOK, Time, Zero, FailsafeInv, OfflineKnown, NoFalseLockdown, StoredIsActive,
        HasExpiry
<1>1. CASE ClockTick
  BY <1>1 DEF ClockTick, state
<1>2. CASE Toggle
  BY <1>2 DEF Toggle, state
<1>3. CASE Receive
  BY <1>3 DEF Receive, state
<1>4. CASE Seed
  BY <1>4 DEF Seed, state
<1>5. CASE HeartbeatStart
  BY <1>5 DEF HeartbeatStart, PersistExpiry, DbFault, state
<1>6. CASE HeartbeatEnd
  <2>1. PICK exp \in {stored, Zero}, grace \in {Grace, 0} :
          /\ ~faulty' => exp = stored /\ grace = Grace /\ ~faulty
          /\ CheckAndEnterFailsafe(exp, grace, online)
    BY <1>6, Zenon DEF HeartbeatEnd
  <2>2. /\ now' = now /\ checked' = TRUE /\ reachable' = online /\ beat' = FALSE
        /\ UNCHANGED <<origin, expiry, stored, renewed>>
        /\ beat /\ exp \in Nat /\ grace \in Nat
    BY <1>6 DEF HeartbeatEnd
  <2>3. CASE Enter(exp, grace, online)
    BY <2>1, <2>2, <2>3 DEF Enter, shouldBeActive, bundleExpired, noBundleEver
  <2>4. CASE Exit(exp, grace, online)
    BY <2>2, <2>4 DEF Exit
  <2>5. CASE Stay(exp, grace, online)
    BY <2>1, <2>2, <2>5 DEF Stay, shouldBeActive, bundleExpired, noBundleEver
  <2> QED BY <2>1, <2>3, <2>4, <2>5 DEF CheckAndEnterFailsafe
<1>7. CASE Restart
  BY <1>7 DEF Restart
<1>8. CASE UNCHANGED vars
  BY <1>8 DEF vars
<1> QED BY <1>1, <1>2, <1>3, <1>4, <1>5, <1>6, <1>7, <1>8 DEF Next

\* The bookkeeping of the fail-safe is consistent in every reachable state, and a
\* heartbeat whose statements succeed decides with the expiry of the active bundle.
THEOREM FailsafeInvariant == Spec => []FailsafeInv
<1>1. Init => FailsafeInv
  BY DEF Init, FailsafeInv, OfflineKnown, NoFalseLockdown, StoredIsActive, Zero
<1> QED BY <1>1, StepInv, TypeCorrect, PTL DEF Spec

\* A node in fail-safe had a failing heartbeat and knows since when it is offline.
THEOREM OfflineIsKnown == Spec => []OfflineKnown
<1>1. FailsafeInv => OfflineKnown
  BY DEF FailsafeInv
<1> QED BY <1>1, FailsafeInvariant, PTL

\* heartbeat.go and CheckAndEnterFailsafe: after a heartbeat whose statements succeed
\* no node is in fail-safe whose active bundle is within its expiry and the grace
\* period, whatever bundles, restarts and failures came before.
THEOREM LockdownIsJustified == Spec => []NoFalseLockdown
<1>1. FailsafeInv => NoFalseLockdown
  BY DEF FailsafeInv
<1> QED BY <1>1, FailsafeInvariant, PTL

-----------------------------------------------------------------------------
(* EndpointUpkeep.                                                           *)

\* A bounded event is counted.
LEMMA SpendType ==
  ASSUME NEW k \in DOMAIN Bound, Spend(k),
         count \in [DOMAIN Bound -> Nat]
  PROVE  count' \in [DOMAIN Bound -> Nat]
<1> DEFINE D == DOMAIN Bound
<1>1. count' = [count EXCEPT ![k] = count[k] + 1]
  BY DEF Spend
<1> HIDE DEF D
<1> QED
  BY <1>1 DEF D

\* The names of the bounded events.
LEMMA BoundNames ==
  DOMAIN Bound = {"fault", "move", "reboot", "restart"}
BY DEF Bound

\* The parts of UpkeepTypeOK.
RouterOK ==
  /\ lan \in Lan /\ forward \in Lan \union {None}
  /\ lease \in 0 .. MappingDuration /\ (lease > 0 <=> forward # None)
ServiceOK ==
  /\ phase \in {"starting", "running", "unavailable", "stopping", "stopped"}
  /\ trying \in {"no", "begin", "added"}
  /\ since \in 0 .. RenewEvery
UpdaterOK ==
  /\ wan \in Wan /\ published \in Wan \union {None}
  /\ lastKnown \in Wan \union {None} /\ found \in Wan \union {None}
FlagsOK == /\ mapped \in BOOLEAN /\ disturbed \in BOOLEAN
           /\ leaked \in BOOLEAN /\ drifted \in BOOLEAN
CountOK == count \in [DOMAIN Bound -> Nat]

\* UpkeepTypeOK is the conjunction of these parts.
LEMMA UpkeepTypeParts ==
  UpkeepTypeOK <=> RouterOK /\ ServiceOK /\ UpdaterOK /\ FlagsOK /\ CountOK
<1>1. {disturbed, leaked, drifted} \subseteq BOOLEAN
        <=> disturbed \in BOOLEAN /\ leaked \in BOOLEAN /\ drifted \in BOOLEAN
  BY Zenon
<1> QED
  BY <1>1, Zenon DEF UpkeepTypeOK, RouterOK, ServiceOK, UpdaterOK, FlagsOK, CountOK

\* Every step keeps the types.
LEMMA UpkeepTypeStep ==
  ASSUME UpkeepTypeOK, UpkeepNext \/ UNCHANGED upkeepVars
  PROVE  UpkeepTypeOK'
<1> USE EndpointAssumption
<1> USE DEF routerVars, upnpVars, ddnsVars
<1>0. RouterOK /\ ServiceOK /\ UpdaterOK /\ FlagsOK /\ CountOK
  BY UpkeepTypeParts
<1>1. CASE TryFails
  <2>1. RouterOK' /\ ServiceOK'
    BY <1>0, <1>1 DEF TryFails, GiveUp, MappingDuration, RenewEvery, RouterOK,
                      ServiceOK
  <2>2. UpdaterOK'
    BY <1>0, <1>1 DEF TryFails, GiveUp, UpdaterOK
  <2>3. FlagsOK'
    BY <1>0, <1>1, Zenon DEF TryFails, GiveUp, FlagsOK
  <2>4. CountOK'
    BY <1>0, <1>1, SpendType, BoundNames DEF TryFails, GiveUp, CountOK
  <2> QED
    BY <2>1, <2>2, <2>3, <2>4, UpkeepTypeParts, PTL
<1>2. CASE AddMapping
  <2>1. RouterOK' /\ ServiceOK'
    BY <1>0, <1>2 DEF AddMapping, MappingDuration, RenewEvery, RouterOK, ServiceOK
  <2>2. UpdaterOK'
    BY <1>0, <1>2 DEF AddMapping, UpdaterOK
  <2>3. FlagsOK'
    BY <1>0, <1>2, Zenon DEF AddMapping, FlagsOK
  <2>4. CountOK'
    BY <1>0, <1>2 DEF AddMapping, CountOK, Bound
  <2> QED
    BY <2>1, <2>2, <2>3, <2>4, UpkeepTypeParts, PTL
<1>3. CASE Mapped
  <2>1. RouterOK' /\ ServiceOK'
    BY <1>0, <1>3 DEF Mapped, MappingDuration, RenewEvery, RouterOK, ServiceOK
  <2>2. UpdaterOK'
    BY <1>0, <1>3 DEF Mapped, UpdaterOK
  <2>3. FlagsOK'
    BY <1>0, <1>3, Zenon DEF Mapped, FlagsOK
  <2>4. CountOK'
    BY <1>0, <1>3 DEF Mapped, CountOK, Bound
  <2> QED
    BY <2>1, <2>2, <2>3, <2>4, UpkeepTypeParts, PTL
<1>4. CASE AnswerLost
  <2>1. RouterOK' /\ ServiceOK'
    BY <1>0, <1>4 DEF AnswerLost, GiveUp, MappingDuration, RenewEvery, RouterOK,
                      ServiceOK
  <2>2. UpdaterOK'
    BY <1>0, <1>4 DEF AnswerLost, GiveUp, UpdaterOK
  <2>3. FlagsOK'
    BY <1>0, <1>4, Zenon DEF AnswerLost, GiveUp, FlagsOK
  <2>4. CountOK'
    BY <1>0, <1>4, SpendType, BoundNames DEF AnswerLost, GiveUp, CountOK
  <2> QED
    BY <2>1, <2>2, <2>3, <2>4, UpkeepTypeParts, PTL
<1>5. CASE Renew
  <2>1. RouterOK' /\ ServiceOK'
    BY <1>0, <1>5 DEF Renew, MappingDuration, RenewEvery, RouterOK, ServiceOK
  <2>2. UpdaterOK'
    BY <1>0, <1>5 DEF Renew, UpdaterOK
  <2>3. FlagsOK'
    BY <1>0, <1>5, Zenon DEF Renew, FlagsOK
  <2>4. CountOK'
    BY <1>0, <1>5 DEF Renew, CountOK, Bound
  <2> QED
    BY <2>1, <2>2, <2>3, <2>4, UpkeepTypeParts, PTL
<1>6. CASE Stop
  <2>1. RouterOK' /\ ServiceOK'
    BY <1>0, <1>6 DEF Stop, MappingDuration, RenewEvery, RouterOK, ServiceOK
  <2>2. UpdaterOK'
    BY <1>0, <1>6 DEF Stop, UpdaterOK
  <2>3. FlagsOK'
    BY <1>0, <1>6, Zenon DEF Stop, FlagsOK
  <2>4. CountOK'
    BY <1>0, <1>6, SpendType, BoundNames DEF Stop, CountOK
  <2> QED
    BY <2>1, <2>2, <2>3, <2>4, UpkeepTypeParts, PTL
<1>7. CASE Release
  <2>1. RouterOK' /\ ServiceOK'
    BY <1>0, <1>7 DEF Release, MappingDuration, RenewEvery, RouterOK, ServiceOK
  <2>2. UpdaterOK'
    BY <1>0, <1>7 DEF Release, UpdaterOK
  <2>3. FlagsOK'
    BY <1>0, <1>7, Zenon DEF Release, FlagsOK
  <2>4. CountOK'
    BY <1>0, <1>7 DEF Release, CountOK, Bound
  <2> QED
    BY <2>1, <2>2, <2>3, <2>4, UpkeepTypeParts, PTL
<1>8. CASE ReleaseFails
  <2>1. RouterOK' /\ ServiceOK'
    BY <1>0, <1>8 DEF ReleaseFails, MappingDuration, RenewEvery, RouterOK, ServiceOK
  <2>2. UpdaterOK'
    BY <1>0, <1>8 DEF ReleaseFails, UpdaterOK
  <2>3. FlagsOK'
    BY <1>0, <1>8, Zenon DEF ReleaseFails, FlagsOK
  <2>4. CountOK'
    BY <1>0, <1>8, SpendType, BoundNames DEF ReleaseFails, CountOK
  <2> QED
    BY <2>1, <2>2, <2>3, <2>4, UpkeepTypeParts, PTL
<1>9. CASE Kill
  <2>1. RouterOK' /\ ServiceOK'
    BY <1>0, <1>9 DEF Kill, MappingDuration, RenewEvery, RouterOK, ServiceOK
  <2>2. UpdaterOK'
    BY <1>0, <1>9 DEF Kill, UpdaterOK
  <2>3. FlagsOK'
    BY <1>0, <1>9, Zenon DEF Kill, FlagsOK
  <2>4. CountOK'
    BY <1>0, <1>9, SpendType, BoundNames DEF Kill, CountOK
  <2> QED
    BY <2>1, <2>2, <2>3, <2>4, UpkeepTypeParts, PTL
<1>10. CASE Start
  <2>1. RouterOK' /\ ServiceOK'
    BY <1>0, <1>10 DEF Start, MappingDuration, RenewEvery, RouterOK, ServiceOK
  <2>2. UpdaterOK'
    BY <1>0, <1>10 DEF Start, UpdaterOK
  <2>3. FlagsOK'
    BY <1>0, <1>10, Zenon DEF Start, FlagsOK
  <2>4. CountOK'
    BY <1>0, <1>10 DEF Start, CountOK, Bound
  <2> QED
    BY <2>1, <2>2, <2>3, <2>4, UpkeepTypeParts, PTL
<1>11. ASSUME NEW answers \in Answers, Check(answers) PROVE UpkeepTypeOK'
  <2>1. RouterOK' /\ ServiceOK'
    BY <1>0, <1>11 DEF Check, MappingDuration, RenewEvery, RouterOK, ServiceOK
  <2>2. UpdaterOK'
    <3>1. \A ip \in DetectPublicIP(answers) : ip \in Wan
      BY DEF DetectPublicIP, Answers
    <3> QED
      BY <1>0, <1>11, <3>1 DEF Check, UpdaterOK
  <2>3. FlagsOK'
    BY <1>0, <1>11, Zenon DEF Check, FlagsOK
  <2>4. CountOK'
    BY <1>0, <1>11, SpendType, BoundNames DEF Check, CountOK
  <2> QED
    BY <2>1, <2>2, <2>3, <2>4, UpkeepTypeParts, PTL
<1>12. CASE PatchFails
  <2>1. RouterOK' /\ ServiceOK'
    BY <1>0, <1>12 DEF PatchFails, MappingDuration, RenewEvery, RouterOK, ServiceOK
  <2>2. UpdaterOK'
    BY <1>0, <1>12 DEF PatchFails, UpdaterOK
  <2>3. FlagsOK'
    BY <1>0, <1>12, Zenon DEF PatchFails, FlagsOK
  <2>4. CountOK'
    BY <1>0, <1>12, SpendType, BoundNames DEF PatchFails, CountOK
  <2> QED
    BY <2>1, <2>2, <2>3, <2>4, UpkeepTypeParts, PTL
<1>13. CASE Patch
  <2>1. RouterOK' /\ ServiceOK'
    BY <1>0, <1>13 DEF Patch, MappingDuration, RenewEvery, RouterOK, ServiceOK
  <2>2. UpdaterOK'
    BY <1>0, <1>13 DEF Patch, UpdaterOK
  <2>3. FlagsOK'
    BY <1>0, <1>13, Zenon DEF Patch, FlagsOK
  <2>4. CountOK'
    BY <1>0, <1>13 DEF Patch, CountOK, Bound
  <2> QED
    BY <2>1, <2>2, <2>3, <2>4, UpkeepTypeParts, PTL
<1>14. CASE PatchUnanswered
  <2>1. RouterOK' /\ ServiceOK'
    BY <1>0, <1>14 DEF PatchUnanswered, MappingDuration, RenewEvery, RouterOK,
                       ServiceOK
  <2>2. UpdaterOK'
    BY <1>0, <1>14 DEF PatchUnanswered, UpdaterOK
  <2>3. FlagsOK'
    BY <1>0, <1>14, Zenon DEF PatchUnanswered, FlagsOK
  <2>4. CountOK'
    BY <1>0, <1>14, SpendType, BoundNames DEF PatchUnanswered, CountOK
  <2> QED
    BY <2>1, <2>2, <2>3, <2>4, UpkeepTypeParts, PTL
<1>15. CASE Tick
  <2>1. RouterOK' /\ ServiceOK'
    BY <1>0, <1>15 DEF Tick, MappingDuration, RenewEvery, RouterOK, ServiceOK
  <2>2. UpdaterOK'
    BY <1>0, <1>15 DEF Tick, UpdaterOK
  <2>3. FlagsOK'
    BY <1>0, <1>15, Zenon DEF Tick, FlagsOK
  <2>4. CountOK'
    BY <1>0, <1>15 DEF Tick, CountOK, Bound
  <2> QED
    BY <2>1, <2>2, <2>3, <2>4, UpkeepTypeParts, PTL
<1>16. CASE Reboot
  <2>1. RouterOK' /\ ServiceOK'
    BY <1>0, <1>16 DEF Reboot, MappingDuration, RenewEvery, RouterOK, ServiceOK
  <2>2. UpdaterOK'
    BY <1>0, <1>16 DEF Reboot, UpdaterOK
  <2>3. FlagsOK'
    BY <1>0, <1>16, Zenon DEF Reboot, FlagsOK
  <2>4. CountOK'
    BY <1>0, <1>16, SpendType, BoundNames DEF Reboot, CountOK
  <2> QED
    BY <2>1, <2>2, <2>3, <2>4, UpkeepTypeParts, PTL
<1>17. ASSUME NEW a \in Lan, MoveLan(a) PROVE UpkeepTypeOK'
  <2>1. RouterOK' /\ ServiceOK'
    BY <1>0, <1>17 DEF MoveLan, MappingDuration, RenewEvery, RouterOK, ServiceOK
  <2>2. UpdaterOK'
    BY <1>0, <1>17 DEF MoveLan, UpdaterOK
  <2>3. FlagsOK'
    BY <1>0, <1>17, Zenon DEF MoveLan, FlagsOK
  <2>4. CountOK'
    BY <1>0, <1>17, SpendType, BoundNames DEF MoveLan, CountOK
  <2> QED
    BY <2>1, <2>2, <2>3, <2>4, UpkeepTypeParts, PTL
<1>18. ASSUME NEW ip \in Wan, MoveWan(ip) PROVE UpkeepTypeOK'
  <2>1. RouterOK' /\ ServiceOK'
    BY <1>0, <1>18 DEF MoveWan, MappingDuration, RenewEvery, RouterOK, ServiceOK
  <2>2. UpdaterOK'
    BY <1>0, <1>18 DEF MoveWan, UpdaterOK
  <2>3. FlagsOK'
    BY <1>0, <1>18, Zenon DEF MoveWan, FlagsOK
  <2>4. CountOK'
    BY <1>0, <1>18, SpendType, BoundNames DEF MoveWan, CountOK
  <2> QED
    BY <2>1, <2>2, <2>3, <2>4, UpkeepTypeParts, PTL
<1>19. CASE UNCHANGED upkeepVars
  BY <1>19 DEF upkeepVars, UpkeepTypeOK, Bound
<1> QED
  BY <1>1, <1>2, <1>3, <1>4, <1>5, <1>6, <1>7, <1>8, <1>9, <1>10, <1>11, <1>12,
     <1>13, <1>14, <1>15, <1>16, <1>17, <1>18, <1>19
     DEF UpkeepNext, TryMap, Write

\* Every step keeps what is true of the lease and of the entry.
LEMMA LeaseStep ==
  ASSUME UpkeepTypeOK, LeaseInv, EntryInv,
         UpkeepNext \/ UNCHANGED upkeepVars
  PROVE  LeaseInv' /\ EntryInv'
<1> USE EndpointAssumption
<1> USE DEF routerVars, upnpVars, ddnsVars,
            MappingDuration, RenewEvery, LeaseInv, EntryInv
<1>0. RouterOK /\ ServiceOK /\ FlagsOK /\ None \notin Lan
  BY UpkeepTypeParts
<1>1. CASE TryFails
  BY <1>0, <1>1 DEF TryFails, GiveUp, RouterOK, ServiceOK, FlagsOK
<1>2. CASE AddMapping
  BY <1>0, <1>2 DEF AddMapping, RouterOK, ServiceOK, FlagsOK
<1>3. CASE Mapped
  BY <1>0, <1>3 DEF Mapped, RouterOK, ServiceOK, FlagsOK
<1>4. CASE AnswerLost
  BY <1>0, <1>4 DEF AnswerLost, GiveUp, RouterOK, ServiceOK, FlagsOK
<1>5. CASE Renew
  BY <1>0, <1>5 DEF Renew, RouterOK, ServiceOK, FlagsOK
<1>6. CASE Stop
  BY <1>0, <1>6 DEF Stop, RouterOK, ServiceOK, FlagsOK
<1>7. CASE Release
  BY <1>0, <1>7 DEF Release, RouterOK, ServiceOK, FlagsOK
<1>8. CASE ReleaseFails
  BY <1>0, <1>8 DEF ReleaseFails, RouterOK, ServiceOK, FlagsOK
<1>9. CASE Kill
  BY <1>0, <1>9 DEF Kill, RouterOK, ServiceOK, FlagsOK
<1>10. CASE Start
  BY <1>0, <1>10 DEF Start, RouterOK, ServiceOK, FlagsOK
<1>11. ASSUME NEW answers \in Answers, Check(answers) PROVE LeaseInv' /\ EntryInv'
  BY <1>0, <1>11 DEF Check, RouterOK, ServiceOK, FlagsOK
<1>12. CASE PatchFails
  BY <1>0, <1>12 DEF PatchFails, RouterOK, ServiceOK, FlagsOK
<1>13. CASE Patch
  BY <1>0, <1>13 DEF Patch, RouterOK, ServiceOK, FlagsOK
<1>14. CASE PatchUnanswered
  BY <1>0, <1>14 DEF PatchUnanswered, RouterOK, ServiceOK, FlagsOK
<1>15. CASE Tick
  BY <1>0, <1>15 DEF Tick, RouterOK, ServiceOK, FlagsOK
<1>16. CASE Reboot
  BY <1>0, <1>16 DEF Reboot, RouterOK, ServiceOK, FlagsOK
<1>17. ASSUME NEW a \in Lan, MoveLan(a) PROVE LeaseInv' /\ EntryInv'
  BY <1>0, <1>17 DEF MoveLan, RouterOK, ServiceOK, FlagsOK
<1>18. ASSUME NEW ip \in Wan, MoveWan(ip) PROVE LeaseInv' /\ EntryInv'
  BY <1>0, <1>18 DEF MoveWan, RouterOK, ServiceOK, FlagsOK
<1>19. CASE UNCHANGED upkeepVars
  BY <1>19 DEF upkeepVars
<1> QED
  BY <1>1, <1>2, <1>3, <1>4, <1>5, <1>6, <1>7, <1>8, <1>9, <1>10, <1>11, <1>12,
     <1>13, <1>14, <1>15, <1>16, <1>17, <1>18, <1>19
     DEF UpkeepNext, TryMap, Write

\* The inductive invariant of the endpoint: types, lease and entry.
THEOREM LeaseInvariant ==
  UpkeepSpec => [](UpkeepTypeOK /\ LeaseInv /\ EntryInv)
<1>1. UpkeepInit => UpkeepTypeOK /\ LeaseInv /\ EntryInv
  <2> SUFFICES ASSUME UpkeepInit
               PROVE  UpkeepTypeOK /\ LeaseInv /\ EntryInv
    OBVIOUS
  <2>1. RouterOK /\ ServiceOK /\ UpdaterOK
    BY DEF UpkeepInit, RouterOK, ServiceOK, UpdaterOK, MappingDuration, RenewEvery
  <2>2. FlagsOK
    BY Zenon DEF UpkeepInit, FlagsOK
  <2>3. CountOK
    BY DEF UpkeepInit, CountOK
  <2>4. LeaseInv /\ EntryInv
    BY DEF UpkeepInit, LeaseInv, EntryInv
  <2> QED
    BY <2>1, <2>2, <2>3, <2>4, UpkeepTypeParts
<1>2. UpkeepTypeOK /\ LeaseInv /\ EntryInv /\ [UpkeepNext]_(upkeepVars)
        => UpkeepTypeOK' /\ LeaseInv' /\ EntryInv'
  BY UpkeepTypeStep, LeaseStep
<1> QED
  BY <1>1, <1>2, PTL DEF UpkeepSpec

\* The renewal timer leaves no gap, for any addresses and any number of faults:
\* upnp.Service renews 15 minutes before the lease it asked for runs out, and a
\* request that is under way ends before time passes.
THEOREM LeaseAlwaysCovered ==
  UpkeepSpec => []LeaseCovered
<1>1. LeaseInv => LeaseCovered
  BY DEF LeaseInv, LeaseCovered
<1> QED
  BY <1>1, LeaseInvariant, PTL

\* Stop leaves no entry at the router: upnp.Service deletes every entry it knows
\* of, and one it does not know of is a leak of a crash, of a failed delete, or of
\* an add of Start whose answer was lost.
THEOREM StopAlwaysUnmaps ==
  UpkeepSpec => []StoppedIsUnmapped
<1>1. UpkeepTypeOK /\ LeaseInv /\ EntryInv => StoppedIsUnmapped
  BY DEF LeaseInv, EntryInv, StoppedIsUnmapped
<1> QED
  BY <1>1, LeaseInvariant, PTL
=============================================================================
