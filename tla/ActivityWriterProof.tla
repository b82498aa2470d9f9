------------------------- MODULE ActivityWriterProof -------------------------
(* Proofs about ActivityWriter, for every set of events and every size of the *)
(* channel, and that it implements BestEffortLog.                            *)
EXTENDS ActivityWriter, WellFoundedInduction, TLAPS

-----------------------------------------------------------------------------
(* Sequences and the events in them.                                         *)

\* What waits after an event was recorded.
LEMMA AppendItems ==
  ASSUME NEW s \in Seq(Event), NEW e \in Event
  PROVE  /\ Append(s, e) \in Seq(Event)
         /\ Len(Append(s, e)) = Len(s) + 1
         /\ Items(Append(s, e)) = Items(s) \union {e}
<1> DEFINE t == Append(s, e)
<1>1. t \in Seq(Event) /\ Len(t) = Len(s) + 1
  OBVIOUS
<1>2. DOMAIN s = 1 .. Len(s) /\ DOMAIN t = 1 .. (Len(s) + 1) /\ Len(s) \in Nat
  BY <1>1
<1>3. \A i \in 1 .. Len(s) : t[i] = s[i]
  OBVIOUS
<1>4. t[Len(s) + 1] = e
  OBVIOUS
<1> HIDE DEF t
<1>5. Items(t) \subseteq Items(s) \union {e}
  BY <1>2, <1>3, <1>4 DEF Items
<1>6. Items(s) \union {e} \subseteq Items(t)
  BY <1>2, <1>3, <1>4 DEF Items
<1> QED
  BY <1>1, <1>5, <1>6 DEF t

\* Concatenation puts the events of both together.
LEMMA ConcatItems ==
  ASSUME NEW s \in Seq(Event), NEW t \in Seq(Event)
  PROVE  /\ s \o t \in Seq(Event)
         /\ Items(s \o t) = Items(s) \union Items(t)
<1> DEFINE u == s \o t
<1>1. u \in Seq(Event) /\ Len(u) = Len(s) + Len(t)
  OBVIOUS
<1>2. /\ DOMAIN s = 1 .. Len(s) /\ DOMAIN t = 1 .. Len(t)
      /\ DOMAIN u = 1 .. (Len(s) + Len(t))
      /\ Len(s) \in Nat /\ Len(t) \in Nat
  BY <1>1
<1>3. \A i \in 1 .. Len(s) : u[i] = s[i]
  OBVIOUS
<1>4. \A i \in 1 .. Len(t) : u[Len(s) + i] = t[i]
  OBVIOUS
<1> HIDE DEF u
<1>5. Items(u) \subseteq Items(s) \union Items(t)
  <2> SUFFICES ASSUME NEW i \in 1 .. (Len(s) + Len(t))
               PROVE  u[i] \in Items(s) \union Items(t)
    BY <1>2 DEF Items
  <2>1. CASE i <= Len(s)
    <3>1. i \in DOMAIN s /\ u[i] = s[i]
      BY <1>2, <1>3, <2>1
    <3> QED
      BY <3>1 DEF Items
  <2>2. CASE i > Len(s)
    <3>1. i - Len(s) \in 1 .. Len(t) /\ i = Len(s) + (i - Len(s))
      BY <1>2, <2>2
    <3>2. u[i] = t[i - Len(s)] /\ i - Len(s) \in DOMAIN t
      BY <1>2, <1>4, <3>1
    <3> QED
      BY <3>2 DEF Items
  <2> QED
    BY <1>2, <2>1, <2>2
<1>6. Items(s) \subseteq Items(u)
  BY <1>2, <1>3 DEF Items
<1>7. Items(t) \subseteq Items(u)
  <2> SUFFICES ASSUME NEW i \in 1 .. Len(t) PROVE t[i] \in Items(u)
    BY <1>2 DEF Items
  <2>1. Len(s) + i \in DOMAIN u /\ u[Len(s) + i] = t[i]
    BY <1>2, <1>4
  <2> QED
    BY <2>1 DEF Items
<1> QED
  BY <1>1, <1>5, <1>6, <1>7 DEF u

\* Taking the oldest event of the channel into the batch changes nothing of
\* what waits.
LEMMA TakeKeeps ==
  ASSUME NEW s \in Seq(Event), NEW t \in Seq(Event), t # <<>>
  PROVE  /\ Append(s, Head(t)) \in Seq(Event)
         /\ Tail(t) \in Seq(Event)
         /\ Len(Tail(t)) < Len(t)
         /\ Append(s, Head(t)) \o Tail(t) = s \o t
OBVIOUS

\* The empty sequence has no events.
LEMMA EmptyItems ==
  <<>> \in Seq(Event) /\ Len(<<>>) = 0 /\ Items(<<>>) = {}
BY DEF Items

\* A non-empty set of numbers has a least one.
LEMMA LeastOf ==
  ASSUME NEW S, S \subseteq Nat, S # {}
  PROVE  \E m \in S : \A k \in S : m <= k
<1>1. PICK m \in S : \A k \in S : <<k, m>> \notin OpToRel(<, Nat)
  BY NatLessThanWellFounded, WFMin
<1>2. \A k \in S : ~(k < m)
  BY <1>1 DEF OpToRel
<1> QED
  BY <1>2

\* Deduplication leaves events of the batch, and for every event of the batch
\* one of the same name and the same child.
LEMMA DedupCovers ==
  ASSUME batch \in Seq(Event)
  PROVE  /\ Dedup \subseteq Items(batch)
         /\ \A e \in Items(batch) :
              \E r \in Dedup : Name[r] = Name[e] /\ Src[r] = Src[e]
<1>1. Dedup \subseteq Items(batch)
  BY DEF Dedup, Items
<1>2. ASSUME NEW i \in DOMAIN batch
      PROVE  \E r \in Dedup : Name[r] = Name[batch[i]] /\ Src[r] = Src[batch[i]]
  <2> DEFINE S == {j \in DOMAIN batch : Name[batch[j]] = Name[batch[i]]
                                        /\ Src[batch[j]] = Src[batch[i]]}
  <2>1. DOMAIN batch = 1 .. Len(batch) /\ Len(batch) \in Nat
    OBVIOUS
  <2>2. S \subseteq Nat /\ i \in S
    BY <1>2, <2>1
  <2>3. PICK m \in S : \A k \in S : m <= k
    BY <2>2, LeastOf
  <2>4. \A j \in 1 .. (m - 1) : j \in DOMAIN batch /\ j \notin S
    BY <2>1, <2>3
  <2>5. \A j \in 1 .. (m - 1) :
          <<Name[batch[j]], Src[batch[j]]>> # <<Name[batch[m]], Src[batch[m]]>>
    BY <2>3, <2>4
  <2>6. batch[m] \in Dedup
    BY <2>3, <2>5 DEF Dedup
  <2> QED
    BY <2>3, <2>6
<1> QED
  BY <1>1, <1>2 DEF Items

-----------------------------------------------------------------------------
(* Type correctness.                                                         *)

\* Ended keeps the type of the history of ends.
LEMMA EndedType ==
  ASSUME TypeOK, NEW S, NEW how \in Ends
  PROVE  Ended(S, how) \in [Event -> Ends]
BY DEF TypeOK, Ended

\* Every step keeps the types.
LEMMA TypeStep ==
  ASSUME TypeOK, [Next]_vars
  PROVE  TypeOK'
<1> USE WriterAssumption
<1>1. ASSUME NEW e \in Event, RecordBlock(e) PROVE TypeOK'
  <2>1. CASE Len(ch) < BufSize
    <3>1. ch' = Append(ch, e) /\ end' = end
      BY <1>1, <2>1 DEF RecordBlock, Offer
    <3>2. ch' \in Seq(Event) /\ Len(ch') = Len(ch) + 1 /\ Len(ch) \in Nat
      BY <3>1, AppendItems DEF TypeOK
    <3> QED
      BY <1>1, <2>1, <3>1, <3>2 DEF RecordBlock, TypeOK
  <2>2. CASE ~(Len(ch) < BufSize)
    <3>1. ch' = ch /\ end' \in [Event -> Ends]
      BY <1>1, <2>2, EndedType DEF RecordBlock, Offer, Ends
    <3> QED
      BY <1>1, <3>1 DEF RecordBlock, TypeOK
  <2> QED
    BY <2>1, <2>2
<1>2. CASE Take
  <2>1. /\ batch' \in Seq(Event) /\ ch' \in Seq(Event)
        /\ Len(ch') <= BufSize
    BY <1>2, TakeKeeps DEF Take, TypeOK
  <2> QED
    BY <1>2, <2>1 DEF Take, TypeOK
<1>3. CASE Tick
  BY <1>3 DEF Tick, TypeOK, Pc
<1>4. CASE Done
  BY <1>4 DEF Done, TypeOK, Pc
<1>5. CASE Drained
  <2>1. pc' \in Pc
    BY <1>5 DEF Drained, Pc
  <2> QED
    BY <1>5, <2>1 DEF Drained, TypeOK
<1>6. CASE FlushStep
  <2>1. log' \in [Event -> Nat] /\ end' \in [Event -> Ends]
    <3>1. CASE log' = Insert(Dedup) /\ end' = Ended(Items(batch), "written")
      BY <3>1, EndedType DEF Insert, TypeOK, Ends
    <3>2. CASE log' = log /\ end' = Ended(Items(batch),
                IF pc = "flush" /\ cancelled THEN "caught" ELSE "failed")
      BY <3>2, EndedType DEF TypeOK, Ends
    <3> QED
      BY <1>6, <3>1, <3>2 DEF FlushStep, Flush
  <2>2. batch' = <<>> /\ pc' \in Pc
    BY <1>6 DEF FlushStep, Flush, Pc
  <2> QED
    BY <1>6, <2>1, <2>2 DEF FlushStep, TypeOK
<1>7. CASE Shutdown
  BY <1>7 DEF Shutdown, TypeOK
<1>8. CASE Kill
  <2>1. end' \in [Event -> Ends]
    BY <1>8, EndedType DEF Kill, Ends
  <2>2. kills' \in 0 .. MaxKill
    BY <1>8 DEF Kill, TypeOK
  <2>3. ch' \in Seq(Event) /\ Len(ch') <= BufSize /\ batch' \in Seq(Event)
    BY <1>8, EmptyItems DEF Kill
  <2>4. pc' \in Pc /\ cancelled' \in BOOLEAN
    BY <1>8 DEF Kill, Pc
  <2> QED
    BY <1>8, <2>1, <2>2, <2>3, <2>4 DEF Kill, TypeOK
<1>9. CASE UNCHANGED vars
  BY <1>9 DEF vars, TypeOK
<1> QED
  BY <1>1, <1>2, <1>3, <1>4, <1>5, <1>6, <1>7, <1>8, <1>9 DEF Next, Run

\* The variables of the writer stay in their types.
THEOREM TypeCorrect == Spec => []TypeOK
<1>1. Init => TypeOK
  <2> SUFFICES ASSUME Init PROVE TypeOK
    OBVIOUS
  <2>1. ch \in Seq(Event) /\ Len(ch) <= BufSize /\ batch \in Seq(Event)
    BY WriterAssumption, EmptyItems DEF Init
  <2>2. pc \in Pc /\ cancelled \in BOOLEAN
    BY DEF Init, Pc
  <2>3. kills \in 0 .. MaxKill
    BY WriterAssumption DEF Init
  <2> QED
    BY <2>1, <2>2, <2>3 DEF Init, TypeOK, Ends
<1>2. TypeOK /\ [Next]_vars => TypeOK'
  BY TypeStep
<1> QED
  BY <1>1, <1>2, PTL DEF Spec

-----------------------------------------------------------------------------
(* The invariant.                                                            *)

\* The parts of the invariant a step may disturb: what waits, how it ended,
\* and the rows.
Held == {e \in recorded : end[e] = "none"} = Items(Waiting)
Once == \A i, j \in DOMAIN Waiting : Waiting[i] = Waiting[j] => i = j
Rowed ==
  /\ \A e \in Event : log[e] <= 1
  /\ \A e \in Event : log[e] > 0 => end[e] = "written"
  /\ \A e \in Event : end[e] # "none" => e \in recorded
  /\ EveryChildLogged
Past ==
  /\ pc \in {"finalflush", "stopped"} => Items(ch) \subseteq late
  /\ pc = "stopped" => batch = <<>>

\* The invariant is the conjunction of these parts.
LEMMA InvParts == WriterInv <=> Held /\ Once /\ Rowed /\ Past
BY DEF WriterInv, HeldOnce, Held, Once, Rowed, Past

\* What waits is what batch and channel hold.
LEMMA WaitingItems ==
  ASSUME TypeOK
  PROVE  /\ Waiting \in Seq(Event)
         /\ Items(Waiting) = Items(batch) \union Items(ch)
         /\ Items(batch) \subseteq Event /\ Items(ch) \subseteq Event
<1>1. Items(batch) \subseteq Event /\ Items(ch) \subseteq Event
  BY DEF TypeOK, Items
<1> QED
  BY <1>1, ConcatItems DEF TypeOK, Waiting

\* Recording an event keeps the invariant.
LEMMA RecordStep ==
  ASSUME TypeOK, WriterInv, NEW e \in Event, RecordBlock(e)
  PROVE  WriterInv'
<1>1. Held /\ Once /\ Rowed /\ Past
  BY InvParts
<1>2. e \notin Items(Waiting) /\ end[e] = "none"
  BY <1>1 DEF Held, Rowed, RecordBlock
<1>3. CASE Len(ch) < BufSize
  <2>1. ch' = Append(ch, e) /\ UNCHANGED <<batch, end, log, pc>>
    BY <1>3 DEF RecordBlock, Offer
  <2>2. Waiting' = Append(Waiting, e)
    BY <2>1 DEF Waiting, TypeOK
  <2>3. Items(Waiting') = Items(Waiting) \union {e}
    BY <2>2, AppendItems, WaitingItems
  <2>4. Held'
    BY <1>1, <1>2, <2>1, <2>3 DEF Held, RecordBlock
  <2>5. Once'
    <3>1. /\ DOMAIN Waiting' = 1 .. (Len(Waiting) + 1)
          /\ DOMAIN Waiting = 1 .. Len(Waiting) /\ Len(Waiting) \in Nat
          /\ Waiting'[Len(Waiting) + 1] = e
          /\ \A i \in 1 .. Len(Waiting) :
               Waiting'[i] = Waiting[i] /\ Waiting[i] # e
      BY <1>2, <2>2, WaitingItems DEF Items
    <3> QED
      BY <1>1, <3>1 DEF Once
  <2>6. Rowed'
    BY <1>1, <2>1 DEF Rowed, EveryChildLogged, RecordBlock
  <2>7. Past'
    <3>1. Items(ch') = Items(ch) \union {e}
      BY <2>1, AppendItems DEF TypeOK
    <3> QED
      BY <1>1, <2>1, <3>1 DEF Past, RecordBlock
  <2> QED
    BY <2>4, <2>5, <2>6, <2>7, InvParts, PTL
<1>4. CASE ~(Len(ch) < BufSize)
  <2>1. end' = Ended({e}, "full") /\ UNCHANGED <<ch, batch, log, pc>>
    BY <1>4 DEF RecordBlock, Offer
  <2>2. /\ end'[e] = "full"
        /\ \A x \in Event \ {e} : end'[x] = end[x]
        /\ recorded' = recorded \union {e} /\ recorded \subseteq Event
    BY <2>1 DEF Ended, RecordBlock, TypeOK
  <2>3. Waiting' = Waiting
    BY <2>1 DEF Waiting
  <2>4. Held'
    BY <1>1, <1>2, <2>2, <2>3, WaitingItems DEF Held, RecordBlock
  <2>5. Once'
    BY <1>1, <2>3 DEF Once
  <2>6. Rowed'
    <3>1. \A x \in Event : end[x] # "none" => end'[x] = end[x]
      BY <1>2, <2>2
    <3>2. \A x \in Event : end'[x] = "written" => end[x] = "written"
      BY <2>2
    <3>3. EveryChildLogged'
      BY <1>1, <2>1, <3>2 DEF Rowed, EveryChildLogged
    <3>4. \A x \in Event : log'[x] > 0 => end'[x] = "written"
      BY <1>1, <2>1, <3>1 DEF Rowed
    <3>5. \A x \in Event : end'[x] # "none" => x \in recorded'
      BY <1>1, <2>2 DEF Rowed
    <3> QED
      BY <1>1, <2>1, <3>3, <3>4, <3>5 DEF Rowed
  <2>7. Past'
    BY <1>1, <2>1 DEF Past, RecordBlock
  <2> QED
    BY <2>4, <2>5, <2>6, <2>7, InvParts, PTL
<1> QED
  BY <1>3, <1>4

\* The steps that move nothing but run()'s place, or one event from the channel
\* to the batch, keep the invariant.
LEMMA MoveStep ==
  ASSUME TypeOK, WriterInv,
         Take \/ Tick \/ Done \/ Drained \/ Shutdown \/ UNCHANGED vars
  PROVE  WriterInv'
<1>1. Held /\ Once /\ Rowed /\ Past
  BY InvParts
<1>2. UNCHANGED <<Waiting, log, end, recorded, late>>
  <2>1. CASE Take
    <3>1. batch' \o ch' = batch \o ch
      BY <2>1, TakeKeeps DEF Take, TypeOK
    <3> QED
      BY <2>1, <3>1 DEF Take, Waiting
  <2>2. CASE Tick \/ Done \/ Drained \/ Shutdown \/ UNCHANGED vars
    BY <2>2 DEF Tick, Done, Drained, Shutdown, vars, Waiting
  <2> QED
    BY <2>1, <2>2
<1>3. Held' /\ Once'
  BY <1>1, <1>2 DEF Held, Once
<1>4. Rowed'
  BY <1>1, <1>2 DEF Rowed, EveryChildLogged
<1>5. Past'
  <2>1. CASE Take \/ Tick \/ Done
    BY <2>1 DEF Take, Tick, Done, Past
  <2>2. CASE Drained
    <3>1. Items(ch') = {}
      BY <2>2, EmptyItems DEF Drained
    <3>2. pc' = "stopped" => batch' = <<>>
      BY <2>2 DEF Drained
    <3> QED
      BY <3>1, <3>2 DEF Past
  <2>3. CASE Shutdown \/ UNCHANGED vars
    BY <1>1, <2>3 DEF Shutdown, vars, Past
  <2> QED
    BY <2>1, <2>2, <2>3
<1> QED
  BY <1>3, <1>4, <1>5, InvParts, PTL

\* What is behind the batch waits once, as all that waits does, and is not in
\* the batch.
LEMMA BehindBatch ==
  ASSUME TypeOK, Once
  PROVE  /\ \A i, j \in DOMAIN ch : ch[i] = ch[j] => i = j
         /\ Items(batch) \intersect Items(ch) = {}
<1>1. /\ DOMAIN batch = 1 .. Len(batch) /\ DOMAIN ch = 1 .. Len(ch)
      /\ DOMAIN Waiting = 1 .. (Len(batch) + Len(ch))
      /\ Len(batch) \in Nat /\ Len(ch) \in Nat
  BY DEF TypeOK, Waiting
<1>2. \A i \in DOMAIN batch : i \in DOMAIN Waiting /\ Waiting[i] = batch[i]
  BY <1>1 DEF TypeOK, Waiting
<1>3. \A i \in DOMAIN ch : /\ Len(batch) + i \in DOMAIN Waiting
                           /\ Waiting[Len(batch) + i] = ch[i]
  BY <1>1 DEF TypeOK, Waiting
<1>4. ASSUME NEW i \in DOMAIN ch, NEW j \in DOMAIN ch, ch[i] = ch[j]
      PROVE  i = j
  <2>1. Len(batch) + i = Len(batch) + j
    BY <1>3, <1>4 DEF Once
  <2> QED
    BY <1>1, <2>1
<1>5. ASSUME NEW i \in DOMAIN batch, NEW j \in DOMAIN ch, batch[i] = ch[j]
      PROVE  FALSE
  <2>1. i = Len(batch) + j
    BY <1>2, <1>3, <1>5 DEF Once
  <2> QED
    BY <1>1, <2>1
<1> QED
  BY <1>4, <1>5 DEF Items

\* What Ended says of each event.
LEMMA EndedIs ==
  ASSUME NEW S, NEW how, end' = Ended(S, how)
  PROVE  \A e \in Event : /\ e \in S => end'[e] = how
                          /\ e \notin S => end'[e] = end[e]
BY DEF Ended

\* A flush ends the whole batch, and none of it had ended before.
LEMMA FlushEnds ==
  ASSUME TypeOK, WriterInv, FlushStep
  PROVE  /\ \A e \in Items(batch) : e \in Event /\ end[e] = "none" /\ log[e] = 0
         /\ \E how \in {"written", "failed", "caught"} :
              /\ end' = Ended(Items(batch), how)
              /\ \/ how = "written" /\ log' = Insert(Dedup)
                 \/ how # "written" /\ log' = log
<1>1. ASSUME NEW e \in Items(batch)
      PROVE  e \in Event /\ end[e] = "none" /\ log[e] = 0
  <2>1. e \in Event /\ end[e] = "none"
    BY WaitingItems, InvParts DEF Held
  <2>2. log[e] \in Nat /\ ~(log[e] > 0)
    BY <2>1, InvParts DEF Rowed, TypeOK
  <2> QED
    BY <2>1, <2>2
<1>2. \/ log' = Insert(Dedup) /\ end' = Ended(Items(batch), "written")
      \/ log' = log /\ end' = Ended(Items(batch), "caught")
      \/ log' = log /\ end' = Ended(Items(batch), "failed")
  BY DEF FlushStep, Flush
<1> QED
  BY <1>1, <1>2

\* A flush keeps the invariant: its rows are new, and there is one for every
\* child that asked for a name.
LEMMA FlushKeeps ==
  ASSUME TypeOK, WriterInv, FlushStep
  PROVE  WriterInv'
<1>1. Held /\ Once /\ Rowed /\ Past
  BY InvParts
<1>2. /\ UNCHANGED <<ch, recorded, late>> /\ batch' = <<>>
      /\ pc' = "stopped" => pc = "finalflush"
      /\ pc' # "finalflush"
  BY DEF FlushStep, Flush
<1>3. Waiting' = ch
  BY <1>2 DEF Waiting, TypeOK
<1>4. PICK how \in {"written", "failed", "caught"} :
         /\ end' = Ended(Items(batch), how)
         /\ \/ how = "written" /\ log' = Insert(Dedup)
            \/ how # "written" /\ log' = log
  BY FlushEnds
<1>5. /\ \A e \in Items(batch) : e \in Event /\ end[e] = "none" /\ log[e] = 0
      /\ \A e \in Items(batch) : end'[e] = how
      /\ \A e \in Event \ Items(batch) : end'[e] = end[e]
  BY <1>4, FlushEnds, EndedIs
<1>6. Held'
  <2>1. Items(batch) \intersect Items(ch) = {}
    BY <1>1, BehindBatch
  <2>2. {e \in recorded : end'[e] = "none"} = Items(ch)
    <3>1. ASSUME NEW e \in recorded PROVE end'[e] = "none" <=> e \in Items(ch)
      BY <1>1, <1>5, <2>1, WaitingItems DEF Held, TypeOK
    <3>2. Items(ch) \subseteq recorded
      BY <1>1, WaitingItems DEF Held
    <3> QED
      BY <3>1, <3>2
  <2> QED
    BY <1>2, <1>3, <2>2 DEF Held
<1>7. Once'
  BY <1>1, <1>3, BehindBatch DEF Once
<1>8. Rowed'
  <2>1. \A e \in Event : end'[e] # "none" => e \in recorded'
    <3>1. Items(batch) \subseteq recorded
      BY <1>1, WaitingItems DEF Held
    <3> QED
      BY <1>1, <1>2, <1>5, <3>1 DEF Rowed
  <2>2. CASE how = "written" /\ log' = Insert(Dedup)
    <3>1. Dedup \subseteq Items(batch)
      BY DedupCovers DEF TypeOK
    <3>2. /\ \A e \in Dedup : log'[e] = 1
          /\ \A e \in Event \ Dedup : log'[e] = log[e]
      BY <1>5, <2>2, <3>1 DEF Insert
    <3>3. \A e \in Event : log'[e] <= 1
      BY <1>1, <3>2 DEF Rowed
    <3>4. ASSUME NEW e \in Event, log'[e] > 0 PROVE end'[e] = "written"
      <4>1. CASE e \in Items(batch)
        BY <1>5, <2>2, <4>1
      <4>2. CASE e \notin Items(batch)
        BY <1>1, <1>5, <3>1, <3>2, <3>4, <4>2 DEF Rowed
      <4> QED
        BY <4>1, <4>2
    <3>5. ASSUME NEW e \in Event, end'[e] = "written"
          PROVE  \E r \in Event : log'[r] > 0 /\ Name[r] = Name[e] /\ Src[r] = Src[e]
      <4>1. CASE e \in Items(batch)
        <5>1. PICK r \in Dedup : Name[r] = Name[e] /\ Src[r] = Src[e]
          BY <4>1, DedupCovers DEF TypeOK
        <5>2. r \in Event /\ log'[r] > 0
          BY <1>5, <3>1, <3>2
        <5> QED
          BY <5>1, <5>2
      <4>2. CASE e \notin Items(batch)
        <5>1. PICK r \in Event : log[r] > 0 /\ Name[r] = Name[e] /\ Src[r] = Src[e]
          BY <1>1, <1>5, <3>5, <4>2 DEF Rowed, EveryChildLogged
        <5>2. log'[r] > 0
          BY <3>2, <5>1
        <5> QED
          BY <5>1, <5>2
      <4> QED
        BY <4>1, <4>2
    <3> QED
      BY <2>1, <3>3, <3>4, <3>5 DEF Rowed, EveryChildLogged
  <2>3. CASE how # "written" /\ log' = log
    <3>1. \A e \in Event : end'[e] = "written" <=> end[e] = "written"
      BY <1>5, <2>3
    <3> QED
      BY <1>1, <2>1, <2>3, <3>1 DEF Rowed, EveryChildLogged
  <2> QED
    BY <1>4, <2>2, <2>3
<1>9. Past'
  BY <1>1, <1>2 DEF Past
<1> QED
  BY <1>6, <1>7, <1>8, <1>9, InvParts, PTL

\* The end of the process keeps the invariant.
LEMMA KillKeeps ==
  ASSUME TypeOK, WriterInv, Kill
  PROVE  WriterInv'
<1>1. Held /\ Once /\ Rowed /\ Past
  BY InvParts
<1>2. /\ UNCHANGED <<log, recorded>> /\ pc' = "select"
      /\ batch' = <<>> /\ ch' = <<>>
      /\ end' = Ended(Items(Waiting), "killed")
  BY WaitingItems DEF Kill
<1>3. /\ \A e \in Event : e \in Items(Waiting) => end'[e] = "killed"
      /\ \A e \in Event : e \notin Items(Waiting) => end'[e] = end[e]
      /\ \A e \in Items(Waiting) : e \in recorded /\ end[e] = "none" /\ e \in Event
  BY <1>1, <1>2, EndedIs, WaitingItems DEF Held
<1>4. Waiting' = <<>> /\ Items(Waiting') = {}
  <2>1. <<>> \o <<>> = <<>>
    OBVIOUS
  <2> QED
    BY <1>2, <2>1, EmptyItems DEF Waiting
<1>5. Held'
  BY <1>1, <1>2, <1>3, <1>4 DEF Held, TypeOK
<1>6. Once'
  BY <1>4 DEF Once
<1>7. Rowed'
  <2>1. \A e \in Event : end'[e] = "written" <=> end[e] = "written"
    BY <1>3
  <2>2. \A e \in Event : end'[e] # "none" => e \in recorded'
    BY <1>1, <1>2, <1>3 DEF Rowed
  <2> QED
    BY <1>1, <1>2, <2>1, <2>2 DEF Rowed, EveryChildLogged
<1>8. Past'
  BY <1>2 DEF Past
<1> QED
  BY <1>5, <1>6, <1>7, <1>8, InvParts, PTL

\* The inductive invariant holds in every reachable state.
THEOREM WriterInvariant == Spec => []WriterInv
<1>1. Init => WriterInv
  <2> SUFFICES ASSUME Init PROVE WriterInv
    OBVIOUS
  <2>1. Waiting = <<>> /\ Items(Waiting) = {}
    <3>1. <<>> \o <<>> = <<>>
      OBVIOUS
    <3> QED
      BY <3>1, EmptyItems DEF Init, Waiting
  <2>2. Held
    BY <2>1 DEF Init, Held
  <2>3. Once
    BY <2>1 DEF Once
  <2>4. Rowed
    BY DEF Init, Rowed, EveryChildLogged
  <2>5. Past
    BY DEF Init, Past
  <2> QED
    BY <2>2, <2>3, <2>4, <2>5, InvParts
<1>2. TypeOK /\ WriterInv /\ [Next]_vars => WriterInv'
  <2> SUFFICES ASSUME TypeOK, WriterInv, [Next]_vars PROVE WriterInv'
    OBVIOUS
  <2>1. CASE \E e \in Event : RecordBlock(e)
    BY <2>1, RecordStep
  <2>2. CASE Take \/ Tick \/ Done \/ Drained \/ Shutdown \/ UNCHANGED vars
    BY <2>2, MoveStep
  <2>3. CASE FlushStep
    BY <2>3, FlushKeeps
  <2>4. CASE Kill
    BY <2>4, KillKeeps
  <2> QED
    BY <2>1, <2>2, <2>3, <2>4 DEF Next, Run
<1> QED
  BY <1>1, <1>2, TypeCorrect, PTL DEF Spec

\* Channel and batch hold exactly the events that have not ended, once each,
\* and no event gets a second row: for every size of the channel and every
\* order of recordings, flushes and ends of the process.
THEOREM HeldOnceAlways == Spec => []HeldOnce
<1>1. WriterInv => HeldOnce
  BY DEF WriterInv
<1> QED
  BY <1>1, WriterInvariant, PTL

\* When the cloud has taken a batch, each child that asked for a name has its
\* row, whatever deduplication dropped.
THEOREM EveryChildAlways == Spec => []EveryChildLogged
<1>1. WriterInv => EveryChildLogged
  BY DEF WriterInv
<1> QED
  BY <1>1, WriterInvariant, PTL

\* After run() has returned nothing that was recorded before its last look at
\* the channel is left without an end.
THEOREM ShutdownFlushesAlways == Spec => []ShutdownFlushes
<1>1. TypeOK /\ WriterInv => ShutdownFlushes
  <2> SUFFICES ASSUME TypeOK, WriterInv, pc = "stopped",
                      NEW e \in recorded \ late, end[e] = "none"
               PROVE  FALSE
    BY DEF ShutdownFlushes
  <2>1. e \in Items(batch) \union Items(ch)
    BY WaitingItems, InvParts DEF Held
  <2>2. Items(batch) = {}
    BY EmptyItems, InvParts DEF Past
  <2>3. e \in late
    BY <2>1, <2>2, InvParts DEF Past
  <2> QED
    BY <2>3
<1> QED
  BY <1>1, TypeCorrect, WriterInvariant, PTL

-----------------------------------------------------------------------------
(* The writer implements the best-effort log.                                *)

\* What is held is what waits.
LEMMA FateOf ==
  ASSUME TypeOK, WriterInv, NEW e \in Event
  PROVE  /\ Fate[e] = "new" <=> e \notin recorded
         /\ Fate[e] = "held" <=> e \in Items(Waiting)
<1>1. Fate[e] = "new" <=> e \notin recorded
  BY DEF Fate
<1>2. Fate[e] = "held" <=> e \in recorded /\ end[e] = "none"
  BY DEF Fate
<1> QED
  BY <1>1, <1>2, InvParts DEF Held

\* Recording an event is Record of the log: held, or lost on a full channel.
LEMMA RecordRefines ==
  ASSUME TypeOK, WriterInv, NEW e \in Event, RecordBlock(e)
  PROVE  \E to \in {"held", "lost"} : Log!Record(e, to)
<1>1. e \notin recorded /\ recorded' = recorded \union {e} /\ end[e] = "none"
  BY InvParts DEF RecordBlock, Rowed
<1>2. Fate[e] = "new"
  BY <1>1, FateOf
<1>3. CASE end' = end
  <2>1. Fate' = [Fate EXCEPT ![e] = "held"]
    BY <1>1, <1>3 DEF Fate
  <2> QED
    BY <1>2, <2>1 DEF Log!Record
<1>4. CASE end' = Ended({e}, "full")
  <2>1. Fate' = [Fate EXCEPT ![e] = "lost"]
    BY <1>1, <1>4 DEF Fate, Ended
  <2> QED
    BY <1>2, <2>1 DEF Log!Record
<1> QED
  BY <1>3, <1>4 DEF RecordBlock, Offer

\* Ending a set of waiting events is Settle of the log.
LEMMA EndRefines ==
  ASSUME TypeOK, WriterInv, NEW S \in SUBSET Items(Waiting),
         NEW how \in Ends \ {"none"}, end' = Ended(S, how),
         recorded' = recorded
  PROVE  \E to \in {"written", "lost"} : Log!Settle(S, to)
<1> DEFINE to == IF how = "written" THEN "written" ELSE "lost"
<1>1. S \subseteq Event /\ \A e \in S : Fate[e] = "held"
  BY WaitingItems, FateOf
<1>2. S \subseteq recorded
  BY InvParts DEF Held
<1>3. Fate' = [e \in Event |-> IF e \in S THEN to ELSE Fate[e]]
  BY <1>1, <1>2 DEF Fate, Ended, Ends
<1> QED
  BY <1>1, <1>3 DEF Log!Settle

\* Every step of the writer is a step of the log or changes no fate.
LEMMA StepRefines ==
  ASSUME TypeOK, WriterInv, [Next]_vars
  PROVE  [Log!Next]_Fate
<1>1. CASE \E e \in Event : RecordBlock(e)
  BY <1>1, RecordRefines DEF Log!Next
<1>2. CASE Take \/ Tick \/ Done \/ Drained \/ Shutdown \/ UNCHANGED vars
  BY <1>2 DEF Take, Tick, Done, Drained, Shutdown, vars, Fate
<1>3. CASE FlushStep
  <2>1. PICK how \in {"written", "failed", "caught"} :
          end' = Ended(Items(batch), how)
    BY <1>3, FlushEnds
  <2>2. Items(batch) \in SUBSET Items(Waiting) /\ Items(batch) \in SUBSET Event
    BY WaitingItems
  <2>3. recorded' = recorded /\ how \in Ends \ {"none"}
    BY <1>3 DEF FlushStep, Ends
  <2>4. \E to \in {"written", "lost"} : Log!Settle(Items(batch), to)
    BY <2>1, <2>2, <2>3, EndRefines
  <2> QED
    BY <2>2, <2>4 DEF Log!Next
<1>4. CASE Kill
  <2>1. /\ end' = Ended(Items(Waiting), "killed") /\ recorded' = recorded
        /\ Items(Waiting) \in SUBSET Event
    BY <1>4, WaitingItems DEF Kill
  <2>2. "killed" \in Ends \ {"none"}
    BY DEF Ends
  <2>3. \E to \in {"written", "lost"} : Log!Settle(Items(Waiting), to)
    BY <2>1, <2>2, EndRefines
  <2> QED
    BY <2>1, <2>3 DEF Log!Next
<1> QED
  BY <1>1, <1>2, <1>3, <1>4 DEF Next, Run

\* The writer implements the best-effort log: an event is recorded without
\* waiting, settled once, with the batch it is in, and never written after it
\* was lost.
THEOREM WriterImplementsLog == Spec => ImplementsLog
<1>1. Init => Log!Init
  BY DEF Init, Log!Init, Fate
<1>2. TypeOK /\ WriterInv /\ [Next]_vars => [Log!Next]_Fate
  BY StepRefines
<1> QED
  BY <1>1, <1>2, TypeCorrect, WriterInvariant, PTL DEF Spec, ImplementsLog, Log!Spec
=============================================================================
