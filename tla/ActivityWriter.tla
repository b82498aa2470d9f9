--------------------------- MODULE ActivityWriter ---------------------------
(***************************************************************************)
(* controlsync/activity_writer.go.  The SNI proxy's goroutines put blocked *)
(* names into a bounded channel; one goroutine collects them in a batch    *)
(* and every ten seconds sends the batch to the cloud's activity_log, once.*)
(* On shutdown it empties the channel and sends what it has.               *)
(***************************************************************************)
EXTENDS Naturals, Sequences

CONSTANTS
  Event,     \* the blocked names, each recorded once
  Name,      \* Name[e]: the domain of an event
  Src,       \* Src[e]: the address of the child's device
  BufSize,   \* activityWriterBufSize
  MaxKill    \* bound: ends of the process without a shutdown

ASSUME WriterAssumption ==
  /\ DOMAIN Name = Event
  /\ DOMAIN Src = Event
  /\ BufSize \in Nat \ {0}
  /\ MaxKill \in Nat

VARIABLES
  ch,         \* the channel
  batch,      \* the events taken out of it
  pc,         \* where run() is
  cancelled,  \* the application's context is done
  log,        \* rows of activity_log: how many were made of each event
  end,        \* history: how each event ended, "none" as long as it has not
  recorded,   \* history: events RecordBlock was called for
  late,       \* history: events put into the channel after the last drain
  kills       \* history: ends without a shutdown

vars == <<ch, batch, pc, cancelled, log, end, recorded, late, kills>>

Items(s) == {s[i] : i \in DOMAIN s}

Pc == {"select", "drain", "flush", "finaldrain", "finalflush", "stopped"}

Ends == {"none", "written", "full", "failed", "caught", "killed"}

TypeOK ==
  /\ ch \in Seq(Event) /\ Len(ch) <= BufSize
  /\ batch \in Seq(Event)
  /\ pc \in Pc
  /\ cancelled \in BOOLEAN
  /\ log \in [Event -> Nat]
  /\ end \in [Event -> Ends]
  /\ recorded \subseteq Event
  /\ late \subseteq Event
  /\ kills \in 0 .. MaxKill

Init ==
  /\ ch = <<>>
  /\ batch = <<>>
  /\ pc = "select"
  /\ cancelled = FALSE
  /\ log = [e \in Event |-> 0]
  /\ end = [e \in Event |-> "none"]
  /\ recorded = {}
  /\ late = {}
  /\ kills = 0

Ended(S, how) == [e \in Event |-> IF e \in S THEN how ELSE end[e]]

\* select { case aw.ch <- evt: default: }: with a full channel the new event
\* is the one that is dropped.
Offer(e) ==
  IF Len(ch) < BufSize
    THEN ch' = Append(ch, e) /\ UNCHANGED end
    ELSE end' = Ended({e}, "full") /\ UNCHANGED ch

\* A connection's goroutine records a blocked name, at any time.
RecordBlock(e) ==
  /\ e \notin recorded
  /\ recorded' = recorded \union {e}
  /\ Offer(e)
  /\ late' = IF pc \in {"finalflush", "stopped"} THEN late \union {e} ELSE late
  /\ UNCHANGED <<batch, pc, cancelled, log, kills>>

\* case evt := <-aw.ch, of the outer select or of a drain.
Take ==
  /\ pc \in {"select", "drain", "finaldrain"}
  /\ ch # <<>>
  /\ batch' = Append(batch, Head(ch))
  /\ ch' = Tail(ch)
  /\ UNCHANGED <<pc, cancelled, log, end, recorded, late, kills>>

\* The ticker, or ctx.Done, is chosen: either may be when events wait, too.
Tick ==
  /\ pc = "select"
  /\ pc' = "drain"
  /\ UNCHANGED <<ch, batch, cancelled, log, end, recorded, late, kills>>

\* Faulty variant: what is in the channel when the context is done stays there.
BugNoFinalDrain ==
  /\ pc = "select" /\ cancelled
  /\ pc' = IF batch = <<>> THEN "stopped" ELSE "finalflush"
  /\ UNCHANGED <<ch, batch, cancelled, log, end, recorded, late, kills>>

Done ==
  /\ pc = "select" /\ cancelled
  /\ pc' = "finaldrain"
  /\ UNCHANGED <<ch, batch, cancelled, log, end, recorded, late, kills>>

\* Faulty variant: the ticker collects and does not send.
BugTickNoFlush ==
  /\ pc \in {"drain", "finaldrain"}
  /\ ch = <<>>
  /\ pc' = IF pc = "drain" THEN "select" ELSE "finalflush"
  /\ UNCHANGED <<ch, batch, cancelled, log, end, recorded, late, kills>>

\* The drain finds the channel empty.
Drained ==
  /\ pc \in {"drain", "finaldrain"}
  /\ ch = <<>>
  /\ pc' = CASE pc = "drain" -> IF batch = <<>> THEN "select" ELSE "flush"
             [] OTHER -> IF batch = <<>> THEN "stopped" ELSE "finalflush"
  /\ UNCHANGED <<ch, batch, cancelled, log, end, recorded, late, kills>>

\* Faulty variant: one row per domain.
BugDedupDomain ==
  {batch[i] : i \in {k \in DOMAIN batch :
     \A j \in 1 .. (k - 1) : Name[batch[j]] # Name[batch[k]]}}

\* One row per domain and source address: the first event of each pair.
Dedup ==
  {batch[i] : i \in {k \in DOMAIN batch :
     \A j \in 1 .. (k - 1) :
       <<Name[batch[j]], Src[batch[j]]>> # <<Name[batch[k]], Src[batch[k]]>>}}

\* The POST: a row for each event that is left.
Insert(S) == [e \in Event |-> IF e \in S THEN log[e] + 1 ELSE log[e]]

\* Faulty variant: the batch is not emptied after a flush.
BugBatchStays ==
  /\ UNCHANGED <<log, batch>>
  /\ \/ end' = Ended(Items(batch), "written")
     \/ end' = Ended(Items(batch), "failed")

\* Faulty variant: the batch is kept when the POST fails, and sent again.
BugKeepFailed ==
  /\ log' = Insert(Dedup)
  /\ \/ end' = Ended(Items(batch), "written") /\ batch' = <<>>
     \/ UNCHANGED <<end, batch>>

\* What flush can do: the rows are inserted and the answer arrives or is lost;
\* nothing is inserted (no family id, the POST fails).  A flush of the ticker
\* reads the family id with the application's context: once that is done the
\* lookup fails.  The batch is emptied in every case.
Flush ==
  /\ \/ /\ pc = "flush" => ~cancelled
        /\ log' = Insert(Dedup)
        /\ end' = Ended(Items(batch), "written")
     \/ /\ UNCHANGED log
        /\ end' = Ended(Items(batch),
                        IF pc = "flush" /\ cancelled THEN "caught" ELSE "failed")
  /\ batch' = <<>>

FlushStep ==
  /\ pc \in {"flush", "finalflush"}
  /\ Flush
  /\ pc' = IF pc = "flush" THEN "select" ELSE "stopped"
  /\ UNCHANGED <<ch, cancelled, recorded, late, kills>>

\* SIGTERM: main's context is done.
Shutdown ==
  /\ ~cancelled
  /\ cancelled' = TRUE
  /\ UNCHANGED <<ch, batch, pc, log, end, recorded, late, kills>>

\* os.Exit of the restart command, or a crash; the process starts again.
Kill ==
  /\ kills < MaxKill
  /\ kills' = kills + 1
  /\ end' = Ended(Items(ch) \union Items(batch), "killed")
  /\ ch' = <<>>
  /\ batch' = <<>>
  /\ pc' = "select"
  /\ cancelled' = FALSE
  /\ UNCHANGED <<log, recorded, late>>

Run == Take \/ Tick \/ Done \/ Drained \/ FlushStep

Next == (\E e \in Event : RecordBlock(e)) \/ Run \/ Shutdown \/ Kill

Spec == Init /\ [][Next]_vars

\* run() keeps running, the ticker keeps firing, and a select that can always
\* take the ticker or ctx.Done does so some time: Go chooses at random.
FairSpec ==
  /\ Spec
  /\ WF_vars(Run)
  /\ SF_vars(Tick)
  /\ SF_vars(Done)

-----------------------------------------------------------------------------
(* Properties.                                                              *)

\* The channel and the batch are one store that events enter and leave once.
Fate ==
  [e \in Event |->
     IF e \notin recorded THEN "new"
     ELSE IF end[e] = "written" THEN "written"
     ELSE IF end[e] = "none" THEN "held" ELSE "lost"]

Log == INSTANCE BestEffortLog WITH fate <- Fate

\* The writer implements the best-effort log: through channel, batch, flushes,
\* shutdown and kill an event is settled once, and what is lost stays lost.
ImplementsLog == Log!Spec

\* What waits, the oldest event first.
Waiting == batch \o ch

\* Batch and channel hold exactly the events that have not ended, each of them
\* once; no event has two rows.
HeldOnce ==
  /\ {e \in recorded : end[e] = "none"} = Items(Waiting)
  /\ \A i, j \in DOMAIN Waiting : Waiting[i] = Waiting[j] => i = j
  /\ \A e \in Event : log[e] <= 1

\* activity_writer.go:138-140: "if two kids hit the same domain in the same
\* window, they're separate events and both should log".
EveryChildLogged ==
  \A e \in Event :
    end[e] = "written" =>
      \E r \in Event : log[r] > 0 /\ Name[r] = Name[e] /\ Src[r] = Src[e]

\* A shutdown forgets nothing: when run() has returned, whatever was put into
\* the channel before its last look has ended.
ShutdownFlushes ==
  pc = "stopped" => \A e \in recorded \ late : end[e] # "none"

\* The inductive invariant behind these: an event has a row or an end only if
\* it was recorded, and when run() is past its last look at the channel, what
\* the channel holds came later.
WriterInv ==
  /\ HeldOnce
  /\ EveryChildLogged
  /\ \A e \in Event : log[e] > 0 => end[e] = "written"
  /\ \A e \in Event : end[e] # "none" => e \in recorded
  /\ pc \in {"finalflush", "stopped"} => Items(ch) \subseteq late
  /\ pc = "stopped" => batch = <<>>

\* No event waits for ever, however many others are recorded and however
\* flushes end; and a shutdown comes to its end, so that Stop, which waits for
\* the goroutine, returns.
EventsSettle ==
  /\ \A e \in Event : e \in recorded ~> (end[e] # "none" \/ e \in late)
  /\ cancelled ~> (pc = "stopped" \/ ~cancelled)
=============================================================================
