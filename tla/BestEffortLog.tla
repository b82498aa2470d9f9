---------------------------- MODULE BestEffortLog ----------------------------
(***************************************************************************)
(* What the activity writer promises the filters that record blocked       *)
(* names: an event that is recorded is held, and what is held ends, once   *)
(* and for all, in the cloud or lost.  Nothing is written twice and        *)
(* nothing comes back after it was lost.                                   *)
(***************************************************************************)
CONSTANT Event

VARIABLE fate

Init == fate = [e \in Event |-> "new"]

Record(e, to) ==
  /\ fate[e] = "new"
  /\ fate' = [fate EXCEPT ![e] = to]

Settle(S, to) ==
  /\ \A e \in S : fate[e] = "held"
  /\ fate' = [e \in Event |-> IF e \in S THEN to ELSE fate[e]]

Next ==
  \/ \E e \in Event, to \in {"held", "lost"} : Record(e, to)
  \/ \E S \in SUBSET Event, to \in {"written", "lost"} : Settle(S, to)

Spec == Init /\ [][Next]_fate
=============================================================================
