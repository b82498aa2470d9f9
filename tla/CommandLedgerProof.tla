------------------------- MODULE CommandLedgerProof -------------------------
(***************************************************************************)
(* Theorems about CommandLedger for any set of commands, any limit of      *)
(* workers and any number of crashes and failing statements.               *)
(***************************************************************************)
EXTENDS CommandLedger, FiniteSetTheorems, TLAPS

(* Type correctness.                                                        *)

\* No step of the poll loop, of a worker or of a crash leaves the types: a row
\* holds a status of the lifecycle, the cloud only what the node PATCHes.
THEOREM TypeCorrect == Spec => []TypeOK
<1>1. Init => TypeOK
  BY CommandAssumption DEF Init, TypeOK, CloudStatus, Status, Phase, WorkerPc
<1>2. TypeOK /\ [Next]_vars => TypeOK'
  <2> SUFFICES ASSUME TypeOK, [Next]_vars PROVE TypeOK'
    OBVIOUS
  <2> USE CommandAssumption DEF TypeOK, CloudStatus, Status, Phase, WorkerPc
  <2>1. CASE \E c \in Command : Issue(c)
    BY <2>1 DEF Issue
  <2>2. CASE Fetch
    BY <2>2 DEF Fetch
  <2>3. ASSUME NEW c \in Command, SkipKnown(c) PROVE TypeOK'
    BY <2>3 DEF SkipKnown
  <2>4. ASSUME NEW c \in Command, Enqueue(c) PROVE TypeOK'
    <3>1. RowTimes \subseteq Nat
      BY DEF RowTimes, LatestRows
    <3>2. ledger' \in [Command -> Status \union {"absent"}]
      BY <2>4 DEF Enqueue, Insert
    <3>3. created' \in [Command -> Nat]
      <4>1. CASE ledger[c] = "absent"
        BY <2>4, <3>1, <4>1 DEF Enqueue, Insert
      <4>2. CASE ledger[c] # "absent"
        BY <2>4, <4>2 DEF Enqueue, Insert
      <4> QED BY <4>1, <4>2
    <3>4. dbFaults' \in 0 .. MaxDbFault
      BY <2>4 DEF Enqueue, DbOk, DbFault
    <3> QED BY <2>4, <3>2, <3>3, <3>4 DEF Enqueue
  <2>5. ASSUME NEW c \in Command, EnqueueFails(c) PROVE TypeOK'
    BY <2>5 DEF EnqueueFails, DbFault
  <2>6. ASSUME NEW c \in Command, AckCloud(c) PROVE TypeOK'
    BY <2>6 DEF AckCloud
  <2>7. ASSUME NEW c \in Command, Spawn(c) PROVE TypeOK'
    BY <2>7 DEF Spawn
  <2>8. CASE EnqueueDone
    BY <2>8 DEF EnqueueDone
  <2>9. CASE DrainQuery
    BY <2>9 DEF DrainQuery, DbOk, DbFault, PendingCommands
  <2>10. CASE DrainDone
    BY <2>10 DEF DrainDone
  <2>11. ASSUME NEW c \in Command, WorkerStep(c) PROVE TypeOK'
    <3>1. CASE CheckTerminal(c)
      BY <3>1 DEF CheckTerminal, DbOk, DbFault, goto
    <3>2. CASE SetAcked(c)
      BY <3>2 DEF SetAcked, SetStatus, DbOk, DbFault, goto
    <3>3. CASE SetExecuting(c)
      BY <3>3 DEF SetExecuting, SetStatus, DbOk, DbFault, goto
    <3>4. CASE Dispatch(c)
      BY <3>4 DEF Dispatch, goto
    <3>5. CASE HandlerReturns(c)
      BY <3>5 DEF HandlerReturns, goto
    <3>6. CASE SetDone(c)
      BY <3>6 DEF SetDone, SetStatus, DbOk, DbFault, goto
    <3>7. CASE SetFailed(c)
      BY <3>7 DEF SetFailed, SetStatus, DbOk, DbFault, goto
    <3>8. CASE ReadBack(c)
      BY <3>8 DEF ReadBack, DbOk, DbFault, goto
    <3>9. CASE ReportResult(c)
      BY <3>9 DEF ReportResult, Reported, goto
    <3> QED BY <2>11, <3>1, <3>2, <3>3, <3>4, <3>5, <3>6, <3>7, <3>8, <3>9
            DEF WorkerStep
  <2>12. CASE Crash
    BY <2>12 DEF Crash
  <2>13. CASE UNCHANGED vars
    BY <2>13 DEF vars
  <2> QED
    BY <2>1, <2>2, <2>3, <2>4, <2>5, <2>6, <2>7, <2>8, <2>9, <2>10, <2>11,
       <2>12, <2>13 DEF Next, PollStep
<1>3. QED BY <1>1, <1>2, PTL DEF Spec

(* The inductive invariant.                                                 *)

LEMMA InitInv == Init => LedgerInv
BY CommandAssumption DEF Init, LedgerInv

\* Steps of the poll goroutine.
LEMMA PollInv == TypeOK /\ LedgerInv /\ PollStep => LedgerInv'
<1> SUFFICES ASSUME TypeOK, LedgerInv, PollStep PROVE LedgerInv'
  OBVIOUS
<1> USE CommandAssumption DEF TypeOK, LedgerInv
<1>1. CASE Fetch
  BY <1>1 DEF Fetch
<1>2. ASSUME NEW c \in Command, SkipKnown(c) PROVE LedgerInv'
  BY <1>2 DEF SkipKnown
<1>3. ASSUME NEW c \in Command, Enqueue(c) PROVE LedgerInv'
  <2>1. CASE ledger[c] = "absent"
    <3>1. ledger' = [ledger EXCEPT ![c] = "pending"]
      BY <1>3, <2>1 DEF Enqueue, Insert
    <3> QED BY <1>3, <2>1, <3>1 DEF Enqueue
  <2>2. CASE ledger[c] # "absent"
    BY <1>3, <2>2 DEF Enqueue, Insert
  <2> QED BY <2>1, <2>2
<1>4. ASSUME NEW c \in Command, EnqueueFails(c) PROVE LedgerInv'
  BY <1>4 DEF EnqueueFails
<1>5. ASSUME NEW c \in Command, AckCloud(c) PROVE LedgerInv'
  BY <1>5 DEF AckCloud
<1>6. ASSUME NEW c \in Command, Spawn(c) PROVE LedgerInv'
  BY <1>6 DEF Spawn
<1>7. CASE EnqueueDone
  BY <1>7 DEF EnqueueDone
<1>8. CASE DrainQuery
  BY <1>8 DEF DrainQuery, PendingCommands
<1>9. CASE DrainDone
  BY <1>9 DEF DrainDone, Active
<1> QED
  BY <1>1, <1>2, <1>3, <1>4, <1>5, <1>6, <1>7, <1>8, <1>9 DEF PollStep

\* Steps of the worker of one command.
LEMMA WorkerInv ==
  ASSUME TypeOK, LedgerInv, NEW c \in Command, WorkerStep(c)
  PROVE  LedgerInv'
<1> USE CommandAssumption DEF TypeOK, LedgerInv, goto
<1>1. CASE CheckTerminal(c)
  BY <1>1 DEF CheckTerminal, isTerminal, Terminal
<1>2. CASE SetAcked(c)
  BY <1>2 DEF SetAcked, SetStatus
<1>3. CASE SetExecuting(c)
  BY <1>3 DEF SetExecuting, SetStatus
<1>4. CASE Dispatch(c)
  BY <1>4 DEF Dispatch
<1>5. CASE HandlerReturns(c)
  BY <1>5 DEF HandlerReturns
<1>6. CASE SetDone(c)
  BY <1>6 DEF SetDone, SetStatus
<1>7. CASE SetFailed(c)
  BY <1>7 DEF SetFailed, SetStatus
<1>8. CASE ReadBack(c)
  BY <1>8 DEF ReadBack
<1>9. CASE ReportResult(c)
  BY <1>9 DEF ReportResult, Reported
<1> QED
  BY <1>1, <1>2, <1>3, <1>4, <1>5, <1>6, <1>7, <1>8, <1>9 DEF WorkerStep

LEMMA StepInv == TypeOK /\ LedgerInv /\ [Next]_vars => LedgerInv'
<1> SUFFICES ASSUME TypeOK, LedgerInv, [Next]_vars PROVE LedgerInv'
  OBVIOUS
<1>1. CASE \E c \in Command : Issue(c)
  BY <1>1 DEF Issue, TypeOK, LedgerInv
<1>2. CASE Crash
  BY <1>2, CommandAssumption DEF Crash, TypeOK, LedgerInv
<1>3. CASE UNCHANGED vars
  BY <1>3 DEF vars, LedgerInv
<1> QED
  BY <1>1, <1>2, <1>3, PollInv, WorkerInv DEF Next

\* A row records how far its command got before anything else happens with it:
\* the invariant that carries at-most-once execution through crashes.
THEOREM LedgerInvariant == Spec => []LedgerInv
BY TypeCorrect, InitInv, StepInv, PTL DEF Spec

\* A handler runs at most once per command id, for any number of crashes,
\* redeliveries by the cloud and failing SQL statements.
THEOREM HandlerAtMostOnce == Spec => []AtMostOnce
<1>1. LedgerInv => AtMostOnce
  BY DEF LedgerInv, AtMostOnce
<1> QED BY <1>1, LedgerInvariant, PTL

\* A command the cloud shows as done was run by its handler, successfully, and
\* is done in the node's own table.
THEOREM CloudDoneIsTrue == Spec => []DoneIsTrue
<1>1. LedgerInv => DoneIsTrue
  BY DEF LedgerInv, DoneIsTrue
<1> QED BY <1>1, LedgerInvariant, PTL

-----------------------------------------------------------------------------
(* The lifecycle of a row.                                                  *)

LEMMA StepLifecycle == TypeOK /\ LedgerInv /\ Next => LifecycleStep
<1> SUFFICES ASSUME TypeOK, LedgerInv, Next PROVE LifecycleStep
  OBVIOUS
<1> USE CommandAssumption DEF TypeOK, LifecycleStep, Status
<1>1. CASE UNCHANGED <<ledger, created>>
  BY <1>1
<1>2. ASSUME NEW c \in Command, Enqueue(c) PROVE LifecycleStep
  BY <1>2 DEF Enqueue, Insert
<1>3. ASSUME NEW c \in Command, SetAcked(c) PROVE LifecycleStep
  BY <1>3 DEF LedgerInv, SetAcked, SetStatus
<1>4. ASSUME NEW c \in Command, SetExecuting(c) PROVE LifecycleStep
  BY <1>4 DEF LedgerInv, SetExecuting, SetStatus
<1>5. ASSUME NEW c \in Command, SetDone(c) PROVE LifecycleStep
  BY <1>5 DEF LedgerInv, SetDone, SetStatus
<1>6. ASSUME NEW c \in Command, SetFailed(c) PROVE LifecycleStep
  BY <1>6 DEF LedgerInv, SetFailed, SetStatus
<1> QED
  BY <1>1, <1>2, <1>3, <1>4, <1>5, <1>6
  DEF Next, PollStep, WorkerStep, Issue, Fetch, SkipKnown, EnqueueFails,
      AckCloud, Spawn, EnqueueDone, DrainQuery, DrainDone, CheckTerminal,
      Dispatch, HandlerReturns, ReadBack, ReportResult, Reported, Crash

\* No step moves a row back, skips a stage of the lifecycle or changes its
\* creation time.
THEOREM RowsFollowLifecycle == Spec => Lifecycle
<1>1. TypeOK /\ LedgerInv /\ [Next]_vars => [LifecycleStep]_vars
  BY StepLifecycle
<1> QED
  BY <1>1, TypeCorrect, LedgerInvariant, PTL DEF Spec, Lifecycle

-----------------------------------------------------------------------------
(* The semaphore.                                                           *)

ActiveBounded == IsFiniteSet(Active) /\ Cardinality(Active) <= ExecLimit

\* What a step does to the set of workers.
LEMMA ActiveStep ==
  ASSUME TypeOK, [Next]_vars
  PROVE  \/ Active' = Active
         \/ \E c \in Command : Active' = Active \ {c}
         \/ Active' = {}
         \/ \E c \in Command : /\ Active' = Active \union {c}
                              /\ Cardinality(Active) < ExecLimit
<1> USE DEF TypeOK, Active, goto
<1>1. ASSUME NEW c \in Command, Spawn(c)
      PROVE  Active' = Active \union {c} /\ Cardinality(Active) < ExecLimit
  BY <1>1 DEF Spawn
<1>2. ASSUME NEW c \in Command, ReportResult(c) PROVE Active' = Active \ {c}
  BY <1>2 DEF ReportResult, Reported
<1>3. CASE Crash
  BY <1>3 DEF Crash
<1>4. CASE UNCHANGED worker
  BY <1>4
<1>5. ASSUME NEW c \in Command, NEW pc, pc # "none", worker[c] # "none",
             goto(c, pc)
      PROVE  Active' = Active
  BY <1>5
<1>6. ASSUME NEW c \in Command, WorkerStep(c), ~ReportResult(c)
      PROVE  Active' = Active
  <2>1. worker[c] # "none" /\ \E pc \in WorkerPc \ {"none"} : goto(c, pc)
    BY <1>6 DEF WorkerStep, WorkerPc, CheckTerminal, SetAcked, SetExecuting,
                SetStatus, Dispatch, HandlerReturns, SetDone, SetFailed,
                ReadBack
  <2> QED BY <2>1, <1>5
<1>7. CASE UNCHANGED vars
  BY <1>7 DEF vars
<1>8. CASE PollStep
  BY <1>1, <1>4, <1>8 DEF PollStep, Fetch, SkipKnown, Enqueue, EnqueueFails,
                          AckCloud, EnqueueDone, DrainQuery, DrainDone
<1>9. CASE \E c \in Command : Issue(c)
  BY <1>4, <1>9 DEF Issue
<1> QED BY <1>2, <1>3, <1>6, <1>7, <1>8, <1>9 DEF Next

\* The semaphore holds: never more than ExecLimit workers run, and none outlives
\* the drain that started it.
THEOREM SemaphoreHolds == Spec => []WorkersBounded
<1>1. Init => ActiveBounded
  <2>1. Init => Active = {}
    BY DEF Init, Active
  <2> QED BY <2>1, FS_EmptySet, CommandAssumption DEF ActiveBounded
<1>2. TypeOK /\ ActiveBounded /\ [Next]_vars => ActiveBounded'
  <2> SUFFICES ASSUME TypeOK, ActiveBounded, [Next]_vars PROVE ActiveBounded'
    OBVIOUS
  <2> USE CommandAssumption DEF ActiveBounded
  <2>1. CASE Active' = Active
    BY <2>1
  <2>2. ASSUME NEW c \in Command, Active' = Active \ {c} PROVE ActiveBounded'
    <3>1. Cardinality(Active) \in Nat
      BY FS_CardinalityType
    <3>2. /\ IsFiniteSet(Active \ {c})
          /\ Cardinality(Active \ {c}) \in {Cardinality(Active) - 1,
                                            Cardinality(Active)}
      BY FS_RemoveElement, Zenon
    <3> QED BY <2>2, <3>1, <3>2
  <2>3. CASE Active' = {}
    BY <2>3, FS_EmptySet
  <2>4. ASSUME NEW c \in Command, Active' = Active \union {c},
               Cardinality(Active) < ExecLimit
        PROVE  ActiveBounded'
    <3>1. Cardinality(Active) \in Nat
      BY FS_CardinalityType
    <3>2. /\ IsFiniteSet(Active \union {c})
          /\ Cardinality(Active \union {c}) \in {Cardinality(Active),
                                                 Cardinality(Active) + 1}
      BY FS_AddElement, Zenon
    <3> QED BY <2>4, <3>1, <3>2
  <2> QED BY <2>1, <2>2, <2>3, <2>4, ActiveStep
<1>3. LedgerInv /\ ActiveBounded => WorkersBounded
  BY DEF LedgerInv, ActiveBounded, WorkersBounded, Active
<1> QED BY <1>1, <1>2, <1>3, TypeCorrect, LedgerInvariant, PTL DEF Spec
=============================================================================
