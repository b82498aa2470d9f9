------------------------------ MODULE Failsafe -------------------------------
(***************************************************************************)
(* The fail-safe of a node that has lost the cloud: enforcer/              *)
(* failsafe_enforcer.go keeps the state, controlsync/heartbeat.go drives   *)
(* it.  Every heartbeat stores the expiry of the active bundle in SQLite,  *)
(* POSTs, and enters or leaves fail-safe by the stored expiry, the stored  *)
(* grace period and whether the POST succeeded.  The state is lost with    *)
(* the process, what is stored is not.                                     *)
(*                                                                         *)
(* Bundles arrive by PolicySync; here one is its origin and its expiry.    *)
(***************************************************************************)
EXTENDS Integers

CONSTANTS
  MaxTime,       \* bound: the clock stops here
  BootstrapTTL,  \* life of the bootstrap bundle (24 hours)
  Grace,         \* failsafe_grace_seconds in tunnel_config
  Lifetimes,     \* lifetimes of the bundles of the cloud; 0: ExpiresAt not set
  MaxRestart,    \* bound: process restarts
  MaxDbFault     \* bound: halves of a heartbeat in which SQL statements fail

ASSUME FailsafeAssumption ==
  /\ MaxTime \in Nat \ {0}
  /\ BootstrapTTL \in Nat \ {0}
  /\ Grace \in Nat
  /\ Lifetimes \subseteq Nat
  /\ MaxRestart \in Nat
  /\ MaxDbFault \in Nat

Zero == 0               \* the zero time.Time; the clock starts at 1
Time == Nat
Origins == {"none", "bootstrap", "cloud"}

VARIABLES
  now,        \* the clock
  online,     \* the cloud answers (environment)
  origin,     \* where the active bundle comes from
  expiry,     \* ExpiresAt of the active bundle
  stored,     \* bundle_expires_at in tunnel_config
  beat,       \* the heartbeat goroutine is waiting for its POST
  reachable,  \* what the last heartbeat found; TRUE before the first
  checked,    \* a heartbeat has ended since the last start
  active,     \* FailsafeState.Active
  triggeredAt, bundleExpiredAt, offlineSince,  \* FailsafeState
  seeded,     \* the command poll has seeded or found a bundle since the start
  received,   \* history: the cloud has ever sent a bundle
  renewed,    \* history: a bundle was swapped in since the last heartbeat began
  faulty,     \* history: a statement of the last heartbeat failed
  restarts, dbFaults  \* history

vars == <<now, online, origin, expiry, stored, beat, reachable, checked, active,
          triggeredAt, bundleExpiredAt, offlineSince, seeded, received, renewed,
          faulty, restarts, dbFaults>>

state == <<active, triggeredAt, bundleExpiredAt, offlineSince>>

TypeOK ==
  /\ now \in 1 .. MaxTime
  /\ online \in BOOLEAN
  /\ origin \in Origins
  /\ expiry \in Time /\ stored \in Time
  /\ beat \in BOOLEAN /\ reachable \in BOOLEAN /\ checked \in BOOLEAN
  /\ active \in BOOLEAN
  /\ triggeredAt \in Time /\ bundleExpiredAt \in Time /\ offlineSince \in Time
  /\ seeded \in BOOLEAN /\ received \in BOOLEAN
  /\ renewed \in BOOLEAN /\ faulty \in BOOLEAN
  /\ restarts \in 0 .. MaxRestart /\ dbFaults \in 0 .. MaxDbFault

Init ==
  /\ now = 1
  /\ online \in BOOLEAN
  /\ origin = "none" /\ expiry = Zero /\ stored = Zero
  /\ beat = FALSE /\ reachable = TRUE /\ checked = FALSE
  /\ active = FALSE
  /\ triggeredAt = Zero /\ bundleExpiredAt = Zero /\ offlineSince = Zero
  /\ seeded = FALSE /\ received = FALSE
  /\ renewed = FALSE /\ faulty = FALSE
  /\ restarts = 0 /\ dbFaults = 0

-----------------------------------------------------------------------------
ClockTick ==
  /\ now < MaxTime
  /\ now' = now + 1
  /\ UNCHANGED <<online, origin, expiry, stored, beat, reachable, checked,
                 state, seeded, received, renewed, faulty, restarts, dbFaults>>

\* The uplink or the cloud fails, or comes back.
Toggle ==
  /\ online' = ~online
  /\ UNCHANGED <<now, origin, expiry, stored, beat, reachable, checked, state,
                 seeded, received, renewed, faulty, restarts, dbFaults>>

\* A bundle of the cloud is swapped in by a fetch or an update_policy command.
Receive ==
  /\ \E life \in Lifetimes :
       expiry' = IF life = 0 THEN Zero ELSE now + life
  /\ origin' = "cloud"
  /\ received' = TRUE /\ renewed' = TRUE
  /\ UNCHANGED <<now, online, stored, beat, reachable, checked, state, seeded,
                 faulty, restarts, dbFaults>>

\* seedBootstrapBundle, on the first command poll after a start.
Seed ==
  /\ ~seeded
  /\ seeded' = TRUE
  /\ IF origin = "none"
       THEN origin' = "bootstrap" /\ expiry' = now + BootstrapTTL /\ renewed' = TRUE
       ELSE UNCHANGED <<origin, expiry, renewed>>
  /\ UNCHANGED <<now, online, stored, beat, reachable, checked, state, received,
                 faulty, restarts, dbFaults>>

DbFault ==
  /\ dbFaults < MaxDbFault
  /\ dbFaults' = dbFaults + 1

\* Faulty variant: an expiry that is stored is not replaced.
BugPersistOnce == stored' = IF stored = Zero THEN expiry ELSE stored

\* persistBundleExpiry; a failure is only logged.
PersistExpiry == stored' = expiry

\* There is an active bundle with an ExpiresAt.
HasExpiry == origin # "none" /\ expiry # Zero

\* sendHeartbeat up to the POST: the expiry of the active bundle is stored if it
\* has one.
HeartbeatStart ==
  /\ ~beat
  /\ beat' = TRUE /\ renewed' = FALSE
  /\ IF HasExpiry
       THEN \/ PersistExpiry /\ faulty' = FALSE /\ UNCHANGED dbFaults
            \/ DbFault /\ faulty' = TRUE /\ UNCHANGED stored
       ELSE faulty' = FALSE /\ UNCHANGED <<stored, dbFaults>>
  /\ UNCHANGED <<now, online, origin, expiry, reachable, checked, state, seeded,
                 received, restarts>>

-----------------------------------------------------------------------------
(* CheckAndEnterFailsafe(bundleExpiresAt, cloudReachable, gracePeriod).      *)

noBundleEver(exp) == exp = Zero

\* Faulty variant: a zero expiry is not treated as expired.
BugZeroIsValid(exp, grace) == ~noBundleEver(exp) /\ now > exp + grace

bundleExpired(exp, grace) == noBundleEver(exp) \/ now > exp + grace

\* Faulty variant: fail-safe outlives the outage until the bundle is renewed.
BugSticky(exp, grace, ok) == bundleExpired(exp, grace) /\ (~ok \/ active)

shouldBeActive(exp, grace, ok) == bundleExpired(exp, grace) /\ ~ok

Enter(exp, grace, ok) ==
  /\ shouldBeActive(exp, grace, ok) /\ ~active
  /\ active' = TRUE
  /\ triggeredAt' = now
  /\ bundleExpiredAt' = exp
  /\ offlineSince' = IF offlineSince = Zero THEN now ELSE offlineSince

Exit(exp, grace, ok) ==
  /\ ~shouldBeActive(exp, grace, ok) /\ active
  /\ active' = FALSE
  /\ offlineSince' = Zero
  /\ UNCHANGED <<triggeredAt, bundleExpiredAt>>

Stay(exp, grace, ok) ==
  /\ shouldBeActive(exp, grace, ok) = active
  /\ offlineSince' = IF ok THEN Zero
                     ELSE IF offlineSince = Zero THEN now ELSE offlineSince
  /\ UNCHANGED <<active, triggeredAt, bundleExpiredAt>>

CheckAndEnterFailsafe(exp, grace, ok) ==
  Enter(exp, grace, ok) \/ Exit(exp, grace, ok) \/ Stay(exp, grace, ok)

\* The POST has ended, well or not, and the fail-safe is re-evaluated with what is
\* stored.  loadBundleExpiry answers the zero time when its query fails, and
\* loadFailsafeGrace no grace.
HeartbeatEnd ==
  /\ beat
  /\ beat' = FALSE
  /\ reachable' = online
  /\ checked' = TRUE
  /\ \E exp \in {stored, Zero}, grace \in {Grace, 0} :
       /\ IF exp = stored /\ grace = Grace
            THEN UNCHANGED <<dbFaults, faulty>>
            ELSE DbFault /\ faulty' = TRUE
       /\ CheckAndEnterFailsafe(exp, grace, online)
  /\ UNCHANGED <<now, online, origin, expiry, stored, seeded, received, renewed,
                 restarts>>

\* The state is a package variable: a restart forgets it.  The bundle comes back
\* from SQLite.
Restart ==
  /\ restarts < MaxRestart
  /\ restarts' = restarts + 1
  /\ beat' = FALSE /\ reachable' = TRUE /\ checked' = FALSE
  /\ active' = FALSE
  /\ triggeredAt' = Zero /\ bundleExpiredAt' = Zero /\ offlineSince' = Zero
  /\ seeded' = FALSE
  /\ UNCHANGED <<now, online, origin, expiry, stored, received, renewed, faulty,
                 dbFaults>>

Next ==
  \/ ClockTick
  \/ Toggle
  \/ Receive
  \/ Seed
  \/ HeartbeatStart
  \/ HeartbeatEnd
  \/ Restart

Spec == Init /\ [][Next]_vars

\* Heartbeats keep being sent and end (the client has timeouts), time passes.
FairSpec ==
  /\ Spec
  /\ WF_vars(ClockTick)
  /\ WF_vars(HeartbeatStart)
  /\ WF_vars(HeartbeatEnd)

-----------------------------------------------------------------------------
(* Properties.                                                              *)

\* A node is in fail-safe only after a heartbeat of this process failed, knows
\* since when it has been offline, and entered no earlier than that.
OfflineKnown ==
  active => /\ checked /\ ~reachable
            /\ Zero < offlineSince /\ offlineSince <= triggeredAt
            /\ triggeredAt <= now

\* Between heartbeats, a node in fail-safe has an active bundle that is past its
\* expiry and the grace period: the stored expiry the decision was made with is that
\* of the bundle in memory, through swaps, restarts and earlier failures. Exempt are
\* a bundle swapped in since the last heartbeat began, one without an expiry, and a
\* heartbeat with a failing statement, which may find no expiry or no grace.
NoFalseLockdown ==
  active /\ ~beat /\ ~renewed /\ ~faulty /\ HasExpiry => now > expiry + Grace

\* What carries it: the heartbeat decides with the expiry it has stored.
StoredIsActive ==
  beat /\ ~renewed /\ ~faulty /\ HasExpiry => stored = expiry

\* The inductive strengthening of the three.
FailsafeInv ==
  /\ OfflineKnown
  /\ NoFalseLockdown
  /\ StoredIsActive
  /\ offlineSince <= now /\ triggeredAt <= now

\* The lockdown waits for failsafe_grace_seconds (heartbeat.go). The code does not
\* keep this: a query that fails is a grace period of zero, and one that fails to
\* find the expiry is a bundle never received.
GraceIsGranted ==
  active /\ ~beat /\ ~renewed /\ HasExpiry => now > expiry + Grace

\* An outage that does not end ends in fail-safe once the stored expiry and the
\* grace period are over, whatever restarts and renewals came before: a node cut
\* off does not go on with an outdated policy for ever.
Locks == <>[]~online => <>[](active \/ MaxTime <= stored + Grace)

\* And fail-safe does not outlive the outage.
Recovers == <>[]online => <>[]~active

\* failsafe_enforcer.go: "a device with no policy bundle must not pass traffic
\* silently when the cloud is also unreachable": a node that never received a
\* bundle and whose last heartbeat failed is in fail-safe. The code does not keep
\* this: the bootstrap bundle has an expiry of its own, a day ahead.
NoBundleLocks == ~received /\ checked /\ ~reachable => active
=============================================================================
