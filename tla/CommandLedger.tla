---------------------------- MODULE CommandLedger ----------------------------
(***************************************************************************)
(* The cloud command pipeline of the node: controlsync/commandpoll.go      *)
(* polls the cloud for pending commands, writes them to the SQLite table   *)
(* command_ledger and drains the table through commands/executor.go, which *)
(* runs one handler per command and records                                *)
(*        pending -> acked -> executing -> done | failed.                  *)
(*                                                                         *)
(* One goroutine (runCommandPoll) alternates fetchAndEnqueue and           *)
(* drainPending; a drain starts one worker goroutine per pending row, at   *)
(* most ExecLimit at a time, and waits for all of them.  The table survives*)
(* a crash of the process, everything else is lost.  Every request to the  *)
(* cloud may be lost, every SQL statement may fail.                        *)
(***************************************************************************)
EXTENDS Naturals, FiniteSets

CONSTANTS
  Command,      \* identifiers of the commands the cloud may issue
  Handled,      \* those whose type has a registered handler
  NoCommand,    \* "no command is being acknowledged"
  ExecLimit,    \* commandExecLimit, the size of drainPending's semaphore
  MaxCrash,     \* bound: process crashes in a behaviour
  MaxDbFault    \* bound: failing SQL statements in a behaviour

ASSUME CommandAssumption ==
  /\ Handled \subseteq Command
  /\ NoCommand \notin Command
  /\ ExecLimit \in Nat \ {0}
  /\ MaxCrash \in Nat
  /\ MaxDbFault \in Nat

VARIABLES
  cloud,      \* status of each command in the cloud's table (external)
  ledger,     \* status column of command_ledger, "absent" without a row
  created,    \* created_at column, in seconds since the first row
  phase,      \* where the poll goroutine is in its tick
  fetched,    \* commands of the response not yet looked at
  acking,     \* command whose row was just written, before the ack PATCH
  queue,      \* rows of PendingCommands not yet given to a worker
  worker,     \* where the worker goroutine of each command is
  seen,       \* status the worker read back, "absent" if none
  runs,       \* history: handler invocations per command
  outcome,    \* history: what the last invocation returned
  crashes,    \* history: crashes so far
  dbFaults    \* history: failed statements so far

vars == <<cloud, ledger, created, phase, fetched, acking, queue, worker,
          seen, runs, outcome, crashes, dbFaults>>

CloudStatus == {"unissued", "pending", "acked", "done", "failed"}

\* pkg/contract/commands: the statuses a row can hold; nothing writes "expired".
Status == {"pending", "acked", "executing", "done", "failed"}

Phase == {"idle", "enqueue", "query", "drain"}

WorkerPc == {"none", "check", "ack", "executing", "lookup", "running",
             "succeeded", "errored", "readback", "report"}

TypeOK ==
  /\ cloud \in [Command -> CloudStatus]
  /\ ledger \in [Command -> Status \union {"absent"}]
  /\ created \in [Command -> Nat]
  /\ phase \in Phase
  /\ fetched \subseteq Command
  /\ acking \in Command \union {NoCommand}
  /\ queue \subseteq Command
  /\ worker \in [Command -> WorkerPc]
  /\ seen \in [Command -> Status \union {"absent"}]
  /\ runs \in [Command -> Nat]
  /\ outcome \in [Command -> {"none", "ok", "error"}]
  /\ crashes \in 0 .. MaxCrash
  /\ dbFaults \in 0 .. MaxDbFault

Terminal == {"done", "failed"}

Active == {c \in Command : worker[c] # "none"}

Init ==
  /\ cloud = [c \in Command |-> "unissued"]
  /\ ledger = [c \in Command |-> "absent"]
  /\ created = [c \in Command |-> 0]
  /\ phase = "idle"
  /\ fetched = {}
  /\ acking = NoCommand
  /\ queue = {}
  /\ worker = [c \in Command |-> "none"]
  /\ seen = [c \in Command |-> "absent"]
  /\ runs = [c \in Command |-> 0]
  /\ outcome = [c \in Command |-> "none"]
  /\ crashes = 0
  /\ dbFaults = 0

-----------------------------------------------------------------------------
(* SQL statements.  DbOk and DbFault are the two ways one can end.          *)

DbOk == UNCHANGED dbFaults

DbFault ==
  /\ dbFaults < MaxDbFault
  /\ dbFaults' = dbFaults + 1

LatestRows == {c \in Command : \A d \in Command : created[d] <= created[c]}

\* created_at is CURRENT_TIMESTAMP: consecutive rows share a second or not.
RowTimes == {created[c] : c \in LatestRows} \union
            {created[c] + 1 : c \in LatestRows}

\* Faulty variant: ON CONFLICT(id) DO UPDATE.
BugUpsert(c) ==
  /\ ledger' = [ledger EXCEPT ![c] = "pending"]
  /\ \E t \in RowTimes : created' = [created EXCEPT ![c] = t]

\* Enqueue: INSERT ... ON CONFLICT(id) DO NOTHING.
Insert(c) ==
  IF ledger[c] = "absent"
    THEN /\ ledger' = [ledger EXCEPT ![c] = "pending"]
         /\ \E t \in RowTimes : created' = [created EXCEPT ![c] = t]
    ELSE UNCHANGED <<ledger, created>>

\* Faulty variant: unfinished rows are drained again after a restart.
BugDrainUnfinished ==
  {c \in Command : ledger[c] \in {"pending", "acked", "executing"}}

PendingCommands == {c \in Command : ledger[c] = "pending"}

\* Faulty variant: a row that exists counts as handled.
BugKnownIsTerminal(c) == ledger[c] # "absent"

isTerminal(c) == ledger[c] \in Terminal

-----------------------------------------------------------------------------
(* The cloud and the poll goroutine.                                        *)

Issue(c) ==
  /\ cloud[c] = "unissued"
  /\ cloud' = [cloud EXCEPT ![c] = "pending"]
  /\ UNCHANGED <<ledger, created, phase, fetched, acking, queue, worker,
                 seen, runs, outcome, crashes, dbFaults>>

\* A tick starts: the GET returns the commands pending in the cloud, or fails.
Fetch ==
  /\ phase = "idle"
  /\ \/ /\ fetched' = {c \in Command : cloud[c] = "pending"}
        /\ phase' = "enqueue"
     \/ /\ fetched' = {}
        /\ phase' = "query"
  /\ UNCHANGED <<cloud, ledger, created, acking, queue, worker, seen, runs,
                 outcome, crashes, dbFaults>>

\* commandExists found the row: the command is skipped without an ack.
SkipKnown(c) ==
  /\ phase = "enqueue" /\ acking = NoCommand
  /\ c \in fetched
  /\ ledger[c] # "absent"
  /\ fetched' = fetched \ {c}
  /\ UNCHANGED <<cloud, ledger, created, phase, acking, queue, worker, seen,
                 runs, outcome, crashes, dbFaults>>

\* commandExists found no row, or failed; Enqueue succeeded.
Enqueue(c) ==
  /\ phase = "enqueue" /\ acking = NoCommand
  /\ c \in fetched
  /\ IF ledger[c] = "absent" THEN DbOk ELSE DbFault
  /\ Insert(c)
  /\ fetched' = fetched \ {c}
  /\ acking' = c
  /\ UNCHANGED <<cloud, phase, queue, worker, seen, runs, outcome, crashes>>

\* Enqueue failed: the command is left for the next tick.
EnqueueFails(c) ==
  /\ phase = "enqueue" /\ acking = NoCommand
  /\ c \in fetched
  /\ DbFault
  /\ fetched' = fetched \ {c}
  /\ UNCHANGED <<cloud, ledger, created, phase, acking, queue, worker, seen,
                 runs, outcome, crashes>>

\* The PATCH of ackCommand is applied or lost; a failure is only logged.
AckCloud(c) ==
  /\ acking = c
  /\ \/ cloud' = [cloud EXCEPT ![c] = "acked"]
     \/ UNCHANGED cloud
  /\ acking' = NoCommand
  /\ UNCHANGED <<ledger, created, phase, fetched, queue, worker, seen, runs,
                 outcome, crashes, dbFaults>>

EnqueueDone ==
  /\ phase = "enqueue" /\ fetched = {} /\ acking = NoCommand
  /\ phase' = "query"
  /\ UNCHANGED <<cloud, ledger, created, fetched, acking, queue, worker,
                 seen, runs, outcome, crashes, dbFaults>>

\* drainPending reads the pending rows; an error ends the tick.
DrainQuery ==
  /\ phase = "query"
  /\ \/ /\ DbOk
        /\ queue' = PendingCommands
        /\ phase' = "drain"
     \/ /\ DbFault
        /\ phase' = "idle"
        /\ UNCHANGED queue
  /\ UNCHANGED <<cloud, ledger, created, fetched, acking, worker, seen, runs,
                 outcome, crashes>>

\* sem <- struct{}{}; go func: the oldest row first.
Spawn(c) ==
  /\ phase = "drain"
  /\ c \in queue
  /\ \A d \in queue : created[c] <= created[d]
  /\ Cardinality(Active) < ExecLimit
  /\ queue' = queue \ {c}
  /\ worker' = [worker EXCEPT ![c] = "check"]
  /\ UNCHANGED <<cloud, ledger, created, phase, fetched, acking, seen, runs,
                 outcome, crashes, dbFaults>>

\* wg.Wait returns.
DrainDone ==
  /\ phase = "drain" /\ queue = {} /\ Active = {}
  /\ phase' = "idle"
  /\ UNCHANGED <<cloud, ledger, created, fetched, acking, queue, worker,
                 seen, runs, outcome, crashes, dbFaults>>

-----------------------------------------------------------------------------
(* A worker goroutine: Execute, read-back, reportResult.                    *)

goto(c, pc) == worker' = [worker EXCEPT ![c] = pc]

\* isTerminal answers false when its query fails.
CheckTerminal(c) ==
  /\ worker[c] = "check"
  /\ \/ /\ DbOk
        /\ goto(c, IF isTerminal(c) THEN "readback" ELSE "ack")
     \/ /\ DbFault
        /\ goto(c, "ack")
  /\ UNCHANGED <<cloud, ledger, created, phase, fetched, acking, queue, seen,
                 runs, outcome, crashes>>

\* setStatus(acked), then setStatus(executing): a failure ends Execute.
SetStatus(c, pc, status, next) ==
  /\ worker[c] = pc
  /\ \/ /\ DbOk
        /\ ledger' = [ledger EXCEPT ![c] = status]
        /\ goto(c, next)
     \/ /\ DbFault
        /\ UNCHANGED ledger
        /\ goto(c, "readback")
  /\ UNCHANGED <<cloud, created, phase, fetched, acking, queue, seen, runs,
                 outcome, crashes>>

SetAcked(c) == SetStatus(c, "ack", "acked", "executing")

SetExecuting(c) == SetStatus(c, "executing", "executing", "lookup")

\* The handler map is consulted; a handler that exists is called.
Dispatch(c) ==
  /\ worker[c] = "lookup"
  /\ IF c \in Handled
       THEN /\ goto(c, "running")
            /\ runs' = [runs EXCEPT ![c] = @ + 1]
       ELSE /\ goto(c, "errored")
            /\ UNCHANGED runs
  /\ UNCHANGED <<cloud, ledger, created, phase, fetched, acking, queue, seen,
                 outcome, crashes, dbFaults>>

HandlerReturns(c) ==
  /\ worker[c] = "running"
  /\ \/ /\ outcome' = [outcome EXCEPT ![c] = "ok"]
        /\ goto(c, "succeeded")
     \/ /\ outcome' = [outcome EXCEPT ![c] = "error"]
        /\ goto(c, "errored")
  /\ UNCHANGED <<cloud, ledger, created, phase, fetched, acking, queue, seen,
                 runs, crashes, dbFaults>>

\* The error of the last setStatus is discarded.
SetDone(c) == SetStatus(c, "succeeded", "done", "readback")

\* Faulty variant: the error paths return without a terminal status.
BugNoFailedStatus(c) == SetStatus(c, "errored", "executing", "readback")

SetFailed(c) == SetStatus(c, "errored", "failed", "readback")

\* A failed read-back leaves the status empty.
ReadBack(c) ==
  /\ worker[c] = "readback"
  /\ \/ /\ DbOk
        /\ seen' = [seen EXCEPT ![c] = ledger[c]]
     \/ /\ DbFault
        /\ UNCHANGED seen
  /\ goto(c, "report")
  /\ UNCHANGED <<cloud, ledger, created, phase, fetched, acking, queue, runs,
                 outcome, crashes>>

Reported(c, status) ==
  /\ worker[c] = "report"
  /\ \/ cloud' = [cloud EXCEPT ![c] = status]
     \/ UNCHANGED cloud
  /\ seen' = [seen EXCEPT ![c] = "absent"]
  /\ UNCHANGED <<ledger, created, phase, fetched, acking, queue, runs,
                 outcome, crashes, dbFaults>>

\* Faulty variant: anything but "failed" is sent as "done".
BugReportOptimist(c) ==
  /\ Reported(c, IF seen[c] = "failed" THEN "failed" ELSE "done")
  /\ goto(c, "none")

\* reportResult: anything but "done" is reported as "failed"; the PATCH is
\* applied, or lost after the retries of the HTTP client, and not tried again.
ReportResult(c) ==
  /\ Reported(c, IF seen[c] = "done" THEN "done" ELSE "failed")
  /\ goto(c, "none")

\* The process stops at any point (a crash, a power cut, the restart command's
\* os.Exit, an OTA update) and starts again; only SQLite survives.
Crash ==
  /\ crashes < MaxCrash
  /\ crashes' = crashes + 1
  /\ phase' = "idle"
  /\ fetched' = {}
  /\ acking' = NoCommand
  /\ queue' = {}
  /\ worker' = [c \in Command |-> "none"]
  /\ seen' = [c \in Command |-> "absent"]
  /\ UNCHANGED <<cloud, ledger, created, runs, outcome, dbFaults>>

-----------------------------------------------------------------------------
PollStep ==
  \/ Fetch
  \/ \E c \in Command : \/ SkipKnown(c)
                        \/ Enqueue(c)
                        \/ EnqueueFails(c)
                        \/ AckCloud(c)
                        \/ Spawn(c)
  \/ EnqueueDone
  \/ DrainQuery
  \/ DrainDone

WorkerStep(c) ==
  \/ CheckTerminal(c)
  \/ SetAcked(c)
  \/ SetExecuting(c)
  \/ Dispatch(c)
  \/ HandlerReturns(c)
  \/ SetDone(c)
  \/ SetFailed(c)
  \/ ReadBack(c)
  \/ ReportResult(c)

Next ==
  \/ \E c \in Command : Issue(c)
  \/ PollStep
  \/ \E c \in Command : WorkerStep(c)
  \/ Crash

\* The ticker keeps firing, a goroutine that can run does run and a handler
\* returns.  A GET that is tried forever succeeds infinitely often: the node
\* is not offline forever.
GetSucceeds == Fetch /\ phase' = "enqueue"

Spec == Init /\ [][Next]_vars

FairSpec ==
  /\ Spec
  /\ WF_vars(PollStep)
  /\ SF_vars(GetSucceeds)
  /\ \A c \in Command : WF_vars(WorkerStep(c))

-----------------------------------------------------------------------------
(* Properties.                                                              *)

\* executor.go marks a command executing in SQLite before it calls the handler,
\* and drains only pending rows: a handler runs at most once per command id,
\* whatever the crashes, lost acks (the cloud sends the command again) and
\* failed statements.
AtMostOnce == \A c \in Command : runs[c] <= 1

\* What the cloud reads as "done" is the truth: the row says done, the handler
\* was called and returned without an error.
DoneIsTrue ==
  \A c \in Command :
    cloud[c] = "done" =>
      ledger[c] = "done" /\ runs[c] = 1 /\ outcome[c] = "ok"

\* The inductive strengthening of AtMostOnce and DoneIsTrue.  A handler has run
\* only behind a row that says so; a worker at a given point holds the row the
\* lifecycle has reached; a queued row is pending and has no worker.
LedgerInv ==
  /\ \A c \in Command :
       /\ ledger[c] \in {"absent", "pending", "acked"} => runs[c] = 0
       /\ runs[c] <= 1
       /\ ledger[c] = "done" => runs[c] = 1 /\ outcome[c] = "ok"
       /\ worker[c] \in {"check", "ack"} => ledger[c] = "pending"
       /\ worker[c] = "executing" => ledger[c] = "acked"
       /\ worker[c] = "lookup" => ledger[c] = "executing" /\ runs[c] = 0
       /\ worker[c] = "running" => ledger[c] = "executing" /\ runs[c] = 1
       /\ worker[c] = "succeeded" =>
            ledger[c] = "executing" /\ runs[c] = 1 /\ outcome[c] = "ok"
       /\ worker[c] = "errored" => ledger[c] = "executing"
       /\ seen[c] = "done" => ledger[c] = "done"
       /\ cloud[c] = "done" => ledger[c] = "done"
       /\ c \in queue => ledger[c] = "pending" /\ worker[c] = "none"
       /\ worker[c] # "none" => ledger[c] # "absent" /\ phase = "drain"
       /\ acking = c => ledger[c] # "absent"
  /\ acking # NoCommand => phase = "enqueue"

\* The lifecycle of the comment on Executor, pending -> acked -> executing ->
\* done | failed, is never left: no step of the poll loop, of two drains or of a
\* restart moves a row back or skips a stage, and created_at never changes.
LifecycleStep ==
  \A c \in Command :
    /\ <<ledger[c], ledger'[c]>> \in
         {<<s, s>> : s \in Status \union {"absent"}}
         \union {<<"absent", "pending">>, <<"pending", "acked">>,
                 <<"acked", "executing">>, <<"executing", "done">>,
                 <<"executing", "failed">>}
    /\ ledger[c] # "absent" => created'[c] = created[c]

Lifecycle == [][LifecycleStep]_vars

\* The semaphore of drainPending: never more than ExecLimit workers, and none
\* left over from an earlier drain when the poll goroutine fetches again.
WorkersBounded ==
  /\ Cardinality(Active) <= ExecLimit
  /\ Active # {} => phase = "drain"

\* As long as the process does not crash and no statement fails, every command the
\* cloud issued ends in a terminal row, whatever acks and reports are lost.
Completes ==
  [](crashes = 0 /\ dbFaults = 0) =>
    \A c \in Command : cloud[c] = "pending" ~> ledger[c] \in Terminal

\* Crashes, failing statements and workers that wait for each other never wedge
\* the pipeline: no row stays pending for ever.
PendingLeaves ==
  \A c \in Command : ledger[c] = "pending" ~> ledger[c] # "pending"

\* migrations.go: "Command ledger (commands received from cloud, tracked to
\* completion)". The code does not keep this: after a crash the drain looks for
\* pending rows only, and an acked row stays (MaxCrash = 1 shows it).
TrackedToCompletion ==
  \A c \in Command : ledger[c] = "acked" ~> ledger[c] \in Terminal
=============================================================================
