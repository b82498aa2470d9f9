------------------------- MODULE FirewallChainProof -------------------------
(* Proofs about FirewallChain, for any devices, uplinks and goroutines and   *)
(* any number of changes, restarts and faults.                               *)
EXTENDS FirewallChain, WellFoundedInduction, TLAPS

-----------------------------------------------------------------------------
(* Rules and lists of rules.                                                 *)

\* The rules of FORWARD are different from each other.
LEMMA RulesDiffer ==
  /\ Established # Jump /\ JumpWg # Jump /\ DropQuic # Jump
  /\ \A i : /\ Accept(i) # Jump /\ Accept(i) # Established
            /\ Accept(i) # JumpWg /\ Accept(i) # DropQuic
  /\ \A i, j : Accept(i) = Accept(j) => i = j
BY DEF Established, Jump, JumpWg, DropQuic, Accept

\* A rule inserted at the head: iptables -I.
LEMMA Prepend ==
  ASSUME NEW seq \in Seq(ForwardRule), NEW r \in ForwardRule
  PROVE  LET new == <<r>> \o seq
         IN /\ new \in Seq(ForwardRule)
            /\ Len(new) = Len(seq) + 1
            /\ new[1] = r
            /\ \A k \in 1 .. Len(seq) : new[k + 1] = seq[k]
            /\ \A x : Contains(new, x) <=> x = r \/ Contains(seq, x)
<1> DEFINE new == <<r>> \o seq
<1>1. /\ new \in Seq(ForwardRule) /\ Len(new) = Len(seq) + 1 /\ Len(seq) \in Nat
      /\ new[1] = r
  OBVIOUS
<1>2. \A k \in 1 .. Len(seq) : new[k + 1] = seq[k]
  OBVIOUS
<1> HIDE DEF new
<1>3. ASSUME NEW x, Contains(new, x) PROVE x = r \/ Contains(seq, x)
  <2>1. PICK k \in 1 .. (Len(seq) + 1) : new[k] = x
    BY <1>1, <1>3 DEF Contains
  <2>2. CASE k = 1
    BY <1>1, <2>1, <2>2
  <2>3. CASE k # 1
    <3>1. k - 1 \in 1 .. Len(seq) /\ new[(k - 1) + 1] = x
      BY <1>1, <2>1, <2>3
    <3> QED
      BY <1>2, <3>1 DEF Contains
  <2> QED
    BY <2>2, <2>3
<1>4. ASSUME NEW x, x = r \/ Contains(seq, x) PROVE Contains(new, x)
  <2>1. CASE x = r
    BY <1>1, <2>1 DEF Contains
  <2>2. CASE Contains(seq, x)
    <3>1. PICK k \in 1 .. Len(seq) : seq[k] = x
      BY <2>2 DEF Contains
    <3>2. k + 1 \in 1 .. Len(new) /\ new[k + 1] = x
      BY <1>1, <1>2, <3>1
    <3> QED
      BY <3>2 DEF Contains
  <2> QED
    BY <1>4, <2>1, <2>2
<1> QED
  BY <1>1, <1>2, <1>3, <1>4 DEF new

\* What a goroutine has left of the base rules.
LEMMA BaseShape ==
  ASSUME NEW b \in Base, b # <<>>
  PROVE  /\ Head(b) \in ForwardRule /\ Tail(b) \in Base
         /\ Tail(b) = <<>> => b = <<Jump>>
         /\ Tail(b) = <<Jump>> => \E i \in Uplinks : Head(b) = Accept(i)
         /\ Head(b) = Jump => b = <<Jump>>
         /\ b = <<Jump>> => Head(b) = Jump
<1> DEFINE Goal ==
         /\ Head(b) \in ForwardRule /\ Tail(b) \in Base
         /\ Tail(b) = <<>> => b = <<Jump>>
         /\ Tail(b) = <<Jump>> => \E i \in Uplinks : Head(b) = Accept(i)
         /\ Head(b) = Jump => b = <<Jump>>
         /\ b = <<Jump>> => Head(b) = Jump
<1>1. CASE b = <<Jump>>
  <2>1. Head(<<Jump>>) = Jump /\ Tail(<<Jump>>) = <<>>
    OBVIOUS
  <2>2. <<>> # <<Jump>>
    OBVIOUS
  <2> QED
    BY <1>1, <2>1, <2>2 DEF Base, ForwardRule
<1>2. ASSUME NEW i \in Uplinks, b = <<Accept(i), Jump>> PROVE Goal
  <2>1. /\ Head(<<Accept(i), Jump>>) = Accept(i)
        /\ Tail(<<Accept(i), Jump>>) = <<Jump>>
        /\ <<Accept(i), Jump>> # <<Jump>> /\ <<Jump>> # <<>>
    OBVIOUS
  <2> QED
    BY <1>2, <2>1, RulesDiffer DEF Base, ForwardRule
<1>3. ASSUME NEW i \in Uplinks, b = BaseRules(i) PROVE Goal
  <2>1. b = <<Established, Accept(i), Jump>>
    BY <1>3 DEF BaseRules
  <2>2. /\ Head(<<Established, Accept(i), Jump>>) = Established
        /\ Tail(<<Established, Accept(i), Jump>>) = <<Accept(i), Jump>>
        /\ <<Established, Accept(i), Jump>> # <<Jump>>
        /\ <<Accept(i), Jump>> # <<Jump>> /\ <<Accept(i), Jump>> # <<>>
    OBVIOUS
  <2> QED
    BY <2>1, <2>2, RulesDiffer DEF Base, ForwardRule
<1> QED
  BY <1>1, <1>2, <1>3 DEF Base

\* BuildRules makes rules of one device, and one for what it sends out.
LEMMA RulesOf ==
  ASSUME NEW d \in Devices, NEW state
  PROVE  LET b == BuildRules(d, state)
         IN /\ b \in Seq(Rule)
            /\ \A k \in DOMAIN b : /\ b[k][1] = d
                                   /\ b[k][2] = "out" =>
                                        b[k][3] = IF state \in {"paused", "service_only"}
                                                    THEN "drop" ELSE "accept"
            /\ HasOut(b, d)
<1> DEFINE out(a) == <<d, "out", a>>
           in(a) == <<d, "in", a>>
           two(a) == <<out(a), in(a)>>
           to == <<d, "toGw", "accept">>
           from == <<d, "fromGw", "accept">>
           four == <<to, from, out("drop"), in("drop")>>
<1>1. /\ \A a : /\ out(a)[1] = d /\ out(a)[2] = "out" /\ out(a)[3] = a
               /\ in(a)[1] = d /\ in(a)[2] = "in"
      /\ to[1] = d /\ to[2] = "toGw" /\ from[1] = d /\ from[2] = "fromGw"
  OBVIOUS
<1>2. /\ \A a \in {"accept", "drop"} : out(a) \in Rule /\ in(a) \in Rule
      /\ to \in Rule /\ from \in Rule
  BY DEF Rule
<1> HIDE DEF out, in, to, from
<1>3. ASSUME NEW a \in {"accept", "drop"}
      PROVE  /\ two(a) \in Seq(Rule) /\ DOMAIN two(a) = {1, 2}
             /\ two(a)[1] = out(a) /\ two(a)[2] = in(a)
  BY <1>2
<1>4. /\ four \in Seq(Rule) /\ DOMAIN four = {1, 2, 3, 4}
      /\ four[1] = to /\ four[2] = from /\ four[3] = out("drop")
      /\ four[4] = in("drop")
  BY <1>2
<1> HIDE DEF two, four
<1>5. CASE state = "paused"
  <2>1. BuildRules(d, state) = two("drop")
    BY <1>5 DEF BuildRules, two, out, in
  <2> QED
    BY <1>1, <1>3, <1>5, <2>1 DEF HasOut
<1>6. CASE state = "service_only"
  <2>1. BuildRules(d, state) = four
    BY <1>6 DEF BuildRules, four, to, from, out, in
  <2> QED
    BY <1>1, <1>4, <1>6, <2>1 DEF HasOut
<1>7. CASE state \notin {"paused", "service_only"}
  <2>1. BuildRules(d, state) = two("accept")
    BY <1>7 DEF BuildRules, two, out, in
  <2> QED
    BY <1>1, <1>3, <1>7, <2>1 DEF HasOut
<1> QED
  BY <1>5, <1>6, <1>7

\* The boot puts rules at the head that are not the jump and accept nothing.
LEMMA RestoredIs ==
  ASSUME NEW seq \in Seq(ForwardRule)
  PROVE  /\ InsertIfAbsent(JumpWg, seq) \in Seq(ForwardRule)
         /\ Restored(seq) \in Seq(ForwardRule)
         /\ \A x : x \notin {JumpWg, DropQuic} =>
              (Contains(Restored(seq), x) <=> Contains(seq, x))
<1>1. JumpWg \in ForwardRule /\ DropQuic \in ForwardRule
  BY DEF ForwardRule
<1>2. ASSUME NEW s \in Seq(ForwardRule), NEW r \in ForwardRule
      PROVE  /\ InsertIfAbsent(r, s) \in Seq(ForwardRule)
             /\ \A x : x # r => (Contains(InsertIfAbsent(r, s), x) <=> Contains(s, x))
  BY <1>2, Prepend DEF InsertIfAbsent
<1>3. InsertIfAbsent(JumpWg, seq) \in Seq(ForwardRule)
  BY <1>1, <1>2
<1> QED
  BY <1>1, <1>2, <1>3 DEF Restored

-----------------------------------------------------------------------------
(* Type correctness.                                                         *)

\* The parts of TypeOK.
ListsOK ==
  /\ forward \in Seq(ForwardRule) /\ chain \in Seq(Rule)
  /\ rules \in [Threads -> Seq(Rule)]
InputsOK ==
  /\ uplink \in Uplinks
  /\ policy \in [Devices -> Modes]
  /\ profile \in [Devices -> Profiles \union {NoProfile}]
  /\ view \in [Threads -> [Devices -> Modes \union {"absent"}]]
PlacesOK ==
  /\ pc \in [Threads -> {"idle", "check", "insert", "flush", "append"}]
  /\ job \in [Threads -> {"none", "sync"} \union Devices]
  /\ base \in [Threads -> Base]
  /\ todo \in [Threads -> SUBSET Devices]
  /\ \A t \in Threads :
       /\ pc[t] \in {"check", "insert"} => base[t] # <<>>
       /\ pc[t] # "append" => todo[t] = {} /\ rules[t] = <<>>
       /\ pc[t] = "idle" <=> job[t] = "none"
FlagsOK == synced \in BOOLEAN /\ overlap \in BOOLEAN
CountsOK ==
  /\ changes \in 0 .. MaxChange /\ faults \in 0 .. MaxFault
  /\ boots \in 0 .. MaxFault

\* TypeOK is the conjunction of these parts.
LEMMA TypeParts ==
  TypeOK <=> ListsOK /\ InputsOK /\ PlacesOK /\ FlagsOK /\ CountsOK
BY DEF TypeOK, ListsOK, InputsOK, PlacesOK, FlagsOK, CountsOK

\* A change or a fault is counted within its bound.
LEMMA Counted ==
  ASSUME CountsOK, UNCHANGED boots,
         \/ Change /\ UNCHANGED faults
         \/ Fault /\ UNCHANGED changes
         \/ UNCHANGED <<changes, faults>>
  PROVE  CountsOK'
BY FirewallAssumption DEF CountsOK, Change, Fault

\* A goroutine begins.
LEMMA StartType ==
  ASSUME TypeOK, NEW t \in Threads, NEW work \in Devices \union {"sync"},
         Start(t, work), UNCHANGED <<todo, rules>>
  PROVE  PlacesOK' /\ overlap' \in BOOLEAN
<1>1. BaseRules(uplink) \in Base /\ BaseRules(uplink) # <<>>
  <2>1. BaseRules(uplink) # <<>>
    BY DEF BaseRules
  <2> QED
    BY <2>1 DEF Base, TypeOK
<1>2. work # "none"
  BY FirewallAssumption
<1>3. overlap' \in BOOLEAN
  BY DEF Start
<1> QED
  BY <1>1, <1>2, <1>3 DEF Start, goto, TypeOK, PlacesOK

\* A goroutine has dealt with a base rule.
LEMMA AfterBaseType ==
  ASSUME TypeOK, NEW t \in Threads, pc[t] \in {"check", "insert"},
         AfterBase(t), UNCHANGED <<todo, rules>>
  PROVE  PlacesOK'
<1>1. Tail(base[t]) \in Base
  BY BaseShape DEF TypeOK
<1>2. base' = [base EXCEPT ![t] = Tail(base[t])]
  BY DEF AfterBase
<1>3. pc[t] # "append" /\ job[t] # "none"
  BY DEF TypeOK
<1>4. CASE Tail(base[t]) # <<>>
  <2>1. pc' = [pc EXCEPT ![t] = "check"] /\ job' = job
    BY <1>4 DEF AfterBase, goto
  <2> QED
    BY <1>1, <1>2, <1>3, <1>4, <2>1 DEF TypeOK, PlacesOK
<1>5. CASE Tail(base[t]) = <<>> /\ job[t] = "sync"
  <2>1. pc' = [pc EXCEPT ![t] = "flush"] /\ job' = job
    BY <1>5 DEF AfterBase, goto
  <2> QED
    BY <1>1, <1>2, <1>3, <2>1 DEF TypeOK, PlacesOK
<1>6. CASE Tail(base[t]) = <<>> /\ job[t] # "sync"
  <2>1. pc' = [pc EXCEPT ![t] = "idle"] /\ job' = [job EXCEPT ![t] = "none"]
    BY <1>6 DEF AfterBase, goto
  <2> QED
    BY <1>1, <1>2, <1>3, <2>1 DEF TypeOK, PlacesOK
<1> QED
  BY <1>4, <1>5, <1>6

\* Every step keeps the types.
LEMMA TypeStep ==
  ASSUME TypeOK, [Next]_vars
  PROVE  TypeOK'
<1>0. ListsOK /\ InputsOK /\ PlacesOK /\ FlagsOK /\ CountsOK
  BY TypeParts
<1> USE DEF kernel, history, locals
<1>1. ASSUME NEW t \in Threads, Tick(t) PROVE TypeOK'
  <2>1. PlacesOK' /\ overlap' \in BOOLEAN
    BY <1>1, StartType DEF Tick, Begin
  <2>2. ListsOK' /\ CountsOK'
    BY <1>0, <1>1 DEF Tick, Begin, ListsOK, CountsOK
  <2>3. InputsOK'
    BY <1>0, <1>1 DEF Tick, Begin, InputsOK
  <2>4. FlagsOK'
    BY <1>0, <1>1, <2>1 DEF Tick, FlagsOK
  <2> QED
    BY <2>1, <2>2, <2>3, <2>4, TypeParts, PTL
<1>2. ASSUME NEW t \in Threads, Swap(t) PROVE TypeOK'
  <2>1. PICK modes \in [Devices -> Modes] : policy' = modes /\ Begin(t, modes)
    BY <1>2 DEF Swap
  <2>2. PlacesOK' /\ overlap' \in BOOLEAN
    BY <2>1, StartType DEF Begin
  <2>3. ListsOK'
    BY <1>0, <1>2, <2>1 DEF Swap, Begin, ListsOK
  <2>4. InputsOK'
    BY <1>0, <1>2, <2>1 DEF Swap, Begin, InputsOK
  <2>5. FlagsOK'
    BY <1>0, <1>2, <2>2 DEF Swap, FlagsOK
  <2>6. CountsOK'
    BY <1>0, <1>2, Counted DEF Swap
  <2> QED
    BY <2>2, <2>3, <2>4, <2>5, <2>6, TypeParts, PTL
<1>3. ASSUME NEW t \in Threads, SetRouteProfile(t) PROVE TypeOK'
  <2>1. PlacesOK' /\ overlap' \in BOOLEAN
    BY <1>3, StartType DEF SetRouteProfile, Begin
  <2>2. ListsOK'
    BY <1>0, <1>3 DEF SetRouteProfile, Begin, ListsOK
  <2>3. InputsOK'
    BY <1>0, <1>3 DEF SetRouteProfile, Begin, InputsOK
  <2>4. FlagsOK'
    BY <1>0, <1>3, <2>1 DEF SetRouteProfile, FlagsOK
  <2>5. CountsOK'
    BY <1>0, <1>3, Counted DEF SetRouteProfile
  <2> QED
    BY <2>1, <2>2, <2>3, <2>4, <2>5, TypeParts, PTL
<1>4. ASSUME NEW t \in Threads, NEW d \in Devices, PauseDevice(t, d) PROVE TypeOK'
  <2>1. PlacesOK' /\ overlap' \in BOOLEAN
    BY <1>4, StartType DEF PauseDevice
  <2>2. ListsOK' /\ InputsOK' /\ CountsOK'
    BY <1>0, <1>4 DEF PauseDevice, ListsOK, InputsOK, CountsOK
  <2>3. FlagsOK'
    BY <1>0, <1>4, <2>1 DEF PauseDevice, FlagsOK
  <2> QED
    BY <2>1, <2>2, <2>3, TypeParts, PTL
<1>5. CASE UplinkMoves
  <2>1. ListsOK' /\ FlagsOK'
    BY <1>0, <1>5 DEF UplinkMoves, ListsOK, FlagsOK
  <2>2. InputsOK'
    BY <1>0, <1>5 DEF UplinkMoves, InputsOK
  <2>3. PlacesOK'
    BY <1>0, <1>5 DEF UplinkMoves, PlacesOK
  <2>4. CountsOK'
    BY <1>0, <1>5, Counted DEF UplinkMoves
  <2> QED
    BY <2>1, <2>2, <2>3, <2>4, TypeParts, PTL
<1>6. ASSUME NEW t \in Threads, CheckBase(t) PROVE TypeOK'
  <2>1. ListsOK' /\ InputsOK' /\ FlagsOK'
    BY <1>0, <1>6 DEF CheckBase, ListsOK, InputsOK, FlagsOK
  <2>2. PlacesOK'
    <3>1. CASE AfterBase(t)
      BY <1>6, <3>1, AfterBaseType DEF CheckBase
    <3>2. CASE goto(t, "insert") /\ UNCHANGED <<base, job>>
      BY <1>0, <1>6, <3>2 DEF CheckBase, goto, PlacesOK
    <3> QED
      BY <1>6, <3>1, <3>2 DEF CheckBase
  <2>3. CountsOK'
    BY <1>0, <1>6, Counted DEF CheckBase
  <2> QED
    BY <2>1, <2>2, <2>3, TypeParts, PTL
<1>7. ASSUME NEW t \in Threads, InsertBase(t) PROVE TypeOK'
  <2>1. base[t] \in Base /\ base[t] # <<>>
    BY <1>0, <1>7 DEF InsertBase, PlacesOK
  <2>2. ListsOK'
    <3>1. Head(base[t]) \in ForwardRule
      BY <2>1, BaseShape
    <3>2. <<Head(base[t])>> \o forward \in Seq(ForwardRule)
      BY <1>0, <3>1, Prepend DEF ListsOK
    <3> QED
      BY <1>0, <1>7, <3>2 DEF InsertBase, ListsOK
  <2>3. PlacesOK'
    BY <1>7, AfterBaseType DEF InsertBase
  <2>4. InputsOK' /\ FlagsOK'
    BY <1>0, <1>7 DEF InsertBase, InputsOK, FlagsOK
  <2>5. CountsOK'
    BY <1>0, <1>7, Counted DEF InsertBase
  <2> QED
    BY <2>2, <2>3, <2>4, <2>5, TypeParts, PTL
<1>8. ASSUME NEW t \in Threads, Finish(t), UNCHANGED <<todo, rules>>,
             todo[t] = {}, rules[t] = <<>>, UNCHANGED <<uplink, policy, profile>>
      PROVE  PlacesOK' /\ InputsOK'
  <2>1. PlacesOK'
    BY <1>0, <1>8 DEF Finish, goto, PlacesOK
  <2>2. InputsOK'
    BY <1>0, <1>8 DEF Finish, NoView, InputsOK
  <2> QED
    BY <2>1, <2>2
<1>9. ASSUME NEW t \in Threads, Flush(t) PROVE TypeOK'
  <2>1. ListsOK'
    <3>1. <<>> \in Seq(Rule)
      OBVIOUS
    <3> QED
      BY <1>0, <1>9, <3>1 DEF Flush, ListsOK
  <2>2. FlagsOK'
    BY <1>0, <1>9 DEF Flush, FlagsOK
  <2>3. CountsOK'
    BY <1>0, <1>9, Counted DEF Flush
  <2>4. PlacesOK' /\ InputsOK'
    <3>1. CASE goto(t, "append") /\ UNCHANGED <<job, base, view>>
                 /\ todo' = [todo EXCEPT ![t] = {d \in Devices : view[t][d] # "absent"}]
      <4>1. PlacesOK'
        BY <1>0, <1>9, <3>1 DEF Flush, goto, PlacesOK
      <4>2. InputsOK'
        BY <1>0, <1>9, <3>1 DEF Flush, InputsOK
      <4> QED
        BY <4>1, <4>2
    <3>2. CASE Finish(t) /\ UNCHANGED todo
      BY <1>0, <1>8, <1>9, <3>2 DEF Flush, PlacesOK
    <3> QED
      BY <1>9, <3>1, <3>2 DEF Flush
  <2> QED
    BY <2>1, <2>2, <2>3, <2>4, TypeParts, PTL
<1>10. ASSUME NEW t \in Threads, NextChild(t) PROVE TypeOK'
  <2>1. PICK d \in todo[t] :
          /\ todo' = [todo EXCEPT ![t] = todo[t] \ {d}]
          /\ rules' = [rules EXCEPT ![t] =
                         BuildRules(d, resolveState(d, view[t][d]))]
    BY <1>10 DEF NextChild
  <2>2. d \in Devices /\ BuildRules(d, resolveState(d, view[t][d])) \in Seq(Rule)
    BY <1>0, RulesOf DEF PlacesOK
  <2>3. ListsOK'
    BY <1>0, <1>10, <2>1, <2>2 DEF NextChild, ListsOK
  <2>4. PlacesOK'
    BY <1>0, <1>10, <2>1 DEF NextChild, PlacesOK
  <2>5. InputsOK' /\ FlagsOK' /\ CountsOK'
    BY <1>0, <1>10 DEF NextChild, InputsOK, FlagsOK, CountsOK
  <2> QED
    BY <2>3, <2>4, <2>5, TypeParts, PTL
<1>11. ASSUME NEW t \in Threads, AppendRule(t) PROVE TypeOK'
  <2>1. rules[t] \in Seq(Rule) /\ rules[t] # <<>> /\ chain \in Seq(Rule)
    BY <1>0, <1>11 DEF AppendRule, ListsOK
  <2>2. Append(chain, Head(rules[t])) \in Seq(Rule) /\ Tail(rules[t]) \in Seq(Rule)
    BY <2>1
  <2>3. ListsOK'
    BY <1>0, <1>11, <2>2 DEF AppendRule, ListsOK
  <2>4. PlacesOK'
    BY <1>0, <1>11 DEF AppendRule, PlacesOK, ListsOK
  <2>5. InputsOK' /\ FlagsOK'
    BY <1>0, <1>11 DEF AppendRule, InputsOK, FlagsOK
  <2>6. CountsOK'
    BY <1>0, <1>11, Counted DEF AppendRule
  <2> QED
    BY <2>3, <2>4, <2>5, <2>6, TypeParts, PTL
<1>12. ASSUME NEW t \in Threads, SyncDone(t) PROVE TypeOK'
  <2>1. ListsOK' /\ CountsOK'
    BY <1>0, <1>12 DEF SyncDone, ListsOK, CountsOK
  <2>2. FlagsOK'
    BY <1>0, <1>12 DEF SyncDone, FlagsOK
  <2>3. PlacesOK' /\ InputsOK'
    BY <1>8, <1>12 DEF SyncDone
  <2> QED
    BY <2>1, <2>2, <2>3, TypeParts, PTL
<1>13. CASE Boot
  <2>1. ListsOK'
    <3>1. <<>> \in Seq(Rule) /\ <<>> \in Seq(ForwardRule)
      OBVIOUS
    <3>2. forward' \in Seq(ForwardRule)
      BY <1>0, <1>13, <3>1, RestoredIs DEF Boot, ListsOK
    <3> QED
      BY <1>13, <3>1, <3>2 DEF Boot, ListsOK
  <2>2. InputsOK'
    BY <1>0, <1>13 DEF Boot, NoView, InputsOK
  <2>3. PlacesOK'
    <3>1. <<>> \in Base
      BY DEF Base
    <3> QED
      BY <1>13, <3>1 DEF Boot, PlacesOK
  <2>4. FlagsOK'
    BY <1>0, <1>13 DEF Boot, FlagsOK
  <2>5. CountsOK'
    BY <1>0, <1>13, FirewallAssumption DEF Boot, CountsOK
  <2> QED
    BY <2>1, <2>2, <2>3, <2>4, <2>5, TypeParts, PTL
<1>14. CASE UNCHANGED vars
  BY <1>14 DEF vars, TypeOK
<1> QED
  BY <1>1, <1>2, <1>3, <1>4, <1>5, <1>6, <1>7, <1>9, <1>10, <1>11, <1>12, <1>13,
     <1>14 DEF Next, SyncStep

\* The rules and the goroutines stay in their types.
THEOREM TypeCorrect == Spec => []TypeOK
<1>1. Init => TypeOK
  <2> SUFFICES ASSUME Init PROVE TypeOK
    OBVIOUS
  <2>1. <<>> \in Seq(Rule) /\ <<>> \in Seq(ForwardRule) /\ <<>> \in Base
    BY DEF Base
  <2>2. ListsOK
    BY <2>1, RestoredIs DEF Init, ListsOK
  <2>3. InputsOK
    BY FirewallAssumption DEF Init, InputsOK, NoView
  <2>4. PlacesOK
    BY <2>1 DEF Init, PlacesOK
  <2>5. FlagsOK
    BY DEF Init, FlagsOK
  <2>6. CountsOK
    BY FirewallAssumption DEF Init, CountsOK
  <2> QED
    BY <2>2, <2>3, <2>4, <2>5, <2>6, TypeParts
<1>2. TypeOK /\ [Next]_vars => TypeOK'
  BY TypeStep
<1> QED
  BY <1>1, <1>2, PTL DEF Spec

-----------------------------------------------------------------------------
(* One goroutine at a time.                                                  *)

\* Only a goroutine that begins while another is at work makes them two, and the
\* history remembers it.
LEMMA AloneStep ==
  ASSUME TypeOK, Alone, [Next]_vars
  PROVE  Alone'
<1>1. ASSUME NEW t \in Threads, NEW work, Start(t, work) PROVE Alone'
  BY <1>1 DEF Start, goto, Quiet, Alone, TypeOK
<1>2. ASSUME NEW t \in Threads, SyncStep(t) PROVE Alone'
  <2>1. UNCHANGED overlap /\ pc[t] # "idle"
    BY <1>2 DEF SyncStep, CheckBase, InsertBase, Flush, NextChild, AppendRule, SyncDone
  <2>2. \E label : pc' = [pc EXCEPT ![t] = label]
    <3>1. CASE UNCHANGED pc
      BY <3>1 DEF TypeOK
    <3>2. CASE AfterBase(t)
      BY <3>2 DEF AfterBase, goto
    <3>3. CASE Finish(t)
      BY <3>3 DEF Finish, goto
    <3>4. CASE goto(t, "insert") \/ goto(t, "append")
      BY <3>4 DEF goto
    <3> QED
      BY <1>2, <3>1, <3>2, <3>3, <3>4
         DEF SyncStep, CheckBase, InsertBase, Flush, NextChild, AppendRule, SyncDone
  <2> QED
    BY <2>1, <2>2 DEF Alone, TypeOK
<1>3. CASE UplinkMoves
  BY <1>3 DEF UplinkMoves, Alone
<1>4. CASE Boot
  BY <1>4 DEF Boot, Alone
<1>5. CASE UNCHANGED vars
  BY <1>5 DEF vars, Alone
<1>6. ASSUME NEW t \in Threads, Tick(t) \/ Swap(t) \/ SetRouteProfile(t)
      PROVE  Alone'
  BY <1>1, <1>6 DEF Tick, Swap, SetRouteProfile, Begin
<1>7. ASSUME NEW t \in Threads, NEW d \in Devices, PauseDevice(t, d) PROVE Alone'
  BY <1>1, <1>7 DEF PauseDevice
<1> QED
  BY <1>2, <1>3, <1>4, <1>5, <1>6, <1>7 DEF Next

-----------------------------------------------------------------------------
(* The head of FORWARD.                                                      *)

\* A rule that is absent can be inserted: the jump when an accepting rule is
\* there, the other rules always.
LEMMA Inserted ==
  ASSUME NEW seq \in Seq(ForwardRule), NEW r \in ForwardRule,
         ~Contains(seq, r), Headed(seq),
         r = Jump => \E i \in Uplinks : Contains(seq, Accept(i))
  PROVE  Headed(<<r>> \o seq)
<1> DEFINE new == <<r>> \o seq
<1>1. /\ new \in Seq(ForwardRule) /\ Len(new) = Len(seq) + 1 /\ Len(seq) \in Nat
      /\ new[1] = r /\ DOMAIN new = 1 .. (Len(seq) + 1)
      /\ \A k \in 1 .. Len(seq) : new[k + 1] = seq[k]
  BY Prepend
<1>2. \A x : Contains(new, x) <=> x = r \/ Contains(seq, x)
  BY Prepend
<1> HIDE DEF new
<1> SUFFICES ASSUME Contains(new, Jump)
             PROVE  /\ \E i \in Uplinks : Contains(new, Accept(i))
                    /\ Two(new) \/ Ordered(new)
  BY DEF Headed, new
<1>3. CASE r = Jump
  <2>1. Ordered(new)
    BY <1>1, <1>3 DEF Ordered
  <2> QED
    BY <1>2, <1>3, <2>1
<1>4. CASE r # Jump
  <2>1. Contains(seq, Jump)
    BY <1>2, <1>4
  <2>2. PICK i \in Uplinks : Contains(seq, Accept(i))
    BY <2>1 DEF Headed
  <2>3. Contains(new, Accept(i))
    BY <1>2, <2>2
  <2>4. CASE \E j \in Uplinks : r = Accept(j)
    <3>1. PICK j \in Uplinks : r = Accept(j)
      BY <2>4
    <3>2. i # j /\ Contains(new, Accept(j))
      BY <1>2, <2>2, <3>1
    <3> QED
      BY <2>3, <3>2 DEF Two
  <2>5. CASE ~ \E j \in Uplinks : r = Accept(j)
    <3>1. CASE Two(seq)
      BY <1>2, <2>3, <3>1 DEF Two
    <3>2. CASE Ordered(seq)
      <4>1. ASSUME NEW j \in Uplinks, NEW k \in DOMAIN new, new[k] = Accept(j)
            PROVE  \E m \in 1 .. k : new[m] = Jump
        <5>1. k # 1
          BY <1>1, <2>5, <4>1
        <5>2. k - 1 \in 1 .. Len(seq) /\ new[(k - 1) + 1] = Accept(j)
          BY <1>1, <4>1, <5>1
        <5>3. seq[k - 1] = Accept(j) /\ k - 1 \in DOMAIN seq
          BY <1>1, <5>2
        <5>4. PICK m \in 1 .. (k - 1) : seq[m] = Jump
          BY <3>2, <5>3 DEF Ordered
        <5>5. m + 1 \in 1 .. k /\ m \in 1 .. Len(seq)
          BY <1>1, <5>2, <5>4
        <5>6. new[m + 1] = Jump
          BY <1>1, <5>4, <5>5
        <5> QED
          BY <5>5, <5>6
      <4> QED
        BY <2>3, <4>1 DEF Ordered
    <3> QED
      BY <2>1, <3>1, <3>2 DEF Headed
  <2> QED
    BY <2>3, <2>4, <2>5
<1> QED
  BY <1>3, <1>4

\* The boot keeps the order.
LEMMA RestoredHeaded ==
  ASSUME NEW seq \in Seq(ForwardRule), Headed(seq)
  PROVE  Headed(Restored(seq))
<1>1. /\ JumpWg \in ForwardRule /\ DropQuic \in ForwardRule
      /\ JumpWg # Jump /\ DropQuic # Jump
  BY RulesDiffer DEF ForwardRule
<1>2. ASSUME NEW s \in Seq(ForwardRule), Headed(s),
             NEW r \in ForwardRule, r # Jump
      PROVE  Headed(InsertIfAbsent(r, s))
  BY <1>2, Inserted DEF InsertIfAbsent
<1>3. /\ InsertIfAbsent(JumpWg, seq) \in Seq(ForwardRule)
      /\ Headed(InsertIfAbsent(JumpWg, seq))
  BY <1>1, <1>2, RestoredIs
<1> QED
  BY <1>1, <1>2, <1>3 DEF Restored

\* A reboot leaves no jump.
LEMMA RebootHeaded ==
  /\ Headed(Restored(<<>>))
  /\ ~Contains(Restored(<<>>), Jump)
<1>1. <<>> \in Seq(ForwardRule) /\ ~Contains(<<>>, Jump)
  BY DEF Contains
<1>2. Headed(<<>>)
  BY <1>1 DEF Headed
<1> QED
  BY <1>1, <1>2, RestoredHeaded, RestoredIs, RulesDiffer

\* What HeadInv says of one goroutine, at label l with the base rules b left.
Placed(l, b, seq) ==
  /\ l = "insert" => ~Contains(seq, Head(b))
  /\ l \in {"check", "insert"} /\ b = <<Jump>> =>
       \E i \in Uplinks : Contains(seq, Accept(i))
  /\ l \in {"flush", "append"} => Contains(seq, Jump)

\* HeadInv, goroutine by goroutine.
LEMMA HeadParts ==
  HeadInv <=> (~overlap /\ faults = 0 =>
                 /\ \A t \in Threads : Placed(pc[t], base[t], forward)
                 /\ synced => Contains(forward, Jump)
                 /\ Headed(forward))
BY DEF HeadInv, Placed

\* A goroutine whose base rule is in FORWARD goes on to the next.
LEMMA AfterBasePlaced ==
  ASSUME TypeOK, NEW t \in Threads, pc[t] \in {"check", "insert"}, AfterBase(t),
         NEW seq, Contains(seq, Head(base[t]))
  PROVE  Placed(pc'[t], base'[t], seq)
<1>1. base[t] \in Base /\ base[t] # <<>>
  BY DEF TypeOK
<1>2. base'[t] = Tail(base[t])
  BY DEF AfterBase, TypeOK
<1>3. CASE Tail(base[t]) # <<>>
  <2>1. pc'[t] = "check"
    BY <1>3 DEF AfterBase, goto, TypeOK
  <2>2. Tail(base[t]) = <<Jump>> => \E i \in Uplinks : Head(base[t]) = Accept(i)
    BY <1>1, BaseShape
  <2> QED
    BY <1>2, <2>1, <2>2 DEF Placed
<1>4. CASE Tail(base[t]) = <<>>
  <2>1. pc'[t] \in {"flush", "idle"}
    BY <1>4 DEF AfterBase, goto, TypeOK
  <2>2. Head(base[t]) = Jump
    BY <1>1, <1>4, BaseShape
  <2> QED
    BY <2>1, <2>2 DEF Placed
<1> QED
  BY <1>3, <1>4

\* AfterBase moves one goroutine.
LEMMA AfterBaseOthers ==
  ASSUME TypeOK, NEW t \in Threads, AfterBase(t), NEW u \in Threads, u # t
  PROVE  pc'[u] = pc[u] /\ base'[u] = base[u] /\ job'[u] = job[u]
BY DEF AfterBase, goto, TypeOK

\* A goroutine that begins has all base rules before it.
LEMMA StartPlaced ==
  ASSUME TypeOK, NEW t \in Threads, NEW work, Start(t, work)
  PROVE  /\ ~overlap' => ~overlap
         /\ \A u \in Threads : \/ Placed(pc'[u], base'[u], forward)
                               \/ pc'[u] = pc[u] /\ base'[u] = base[u]
<1>1. pc'[t] = "check" /\ base'[t] = BaseRules(uplink)
  BY DEF Start, goto, TypeOK
<1>2. BaseRules(uplink) # <<Jump>>
  <2>1. <<Established, Accept(uplink), Jump>> # <<Jump>>
    OBVIOUS
  <2> QED
    BY <2>1 DEF BaseRules
<1>3. Placed(pc'[t], base'[t], forward)
  BY <1>1, <1>2 DEF Placed
<1> QED
  BY <1>3 DEF Start, goto, TypeOK

\* Every step keeps what is true of the head of FORWARD.
LEMMA HeadStep ==
  ASSUME TypeOK, Alone, HeadInv, [Next]_vars
  PROVE  HeadInv'
<1> USE DEF kernel, history, locals
<1> DEFINE Clean == ~overlap /\ faults = 0
<1>0. Clean => /\ \A t \in Threads : Placed(pc[t], base[t], forward)
               /\ synced => Contains(forward, Jump)
               /\ Headed(forward)
  BY HeadParts
<1>a. ASSUME Clean' => /\ \A t \in Threads : Placed(pc'[t], base'[t], forward')
                       /\ synced' => Contains(forward', Jump)
                       /\ Headed(forward')
      PROVE  HeadInv'
  BY <1>a DEF HeadInv, Placed
<1>1. ASSUME Clean' => Clean, UNCHANGED <<forward, synced>>,
             \A u \in Threads : \/ Placed(pc'[u], base'[u], forward)
                                \/ pc'[u] = pc[u] /\ base'[u] = base[u]
      PROVE  HeadInv'
  <2> SUFFICES ASSUME Clean'
               PROVE  /\ \A u \in Threads : Placed(pc'[u], base'[u], forward')
                      /\ synced' => Contains(forward', Jump)
                      /\ Headed(forward')
    BY <1>a
  <2> QED
    BY <1>0, <1>1
<1>2. faults' = faults + 1 => faults' # 0
  BY DEF TypeOK
<1>3. ASSUME NEW t \in Threads, NEW work, Start(t, work),
             UNCHANGED <<forward, synced, faults>>
      PROVE  HeadInv'
  BY <1>1, <1>3, StartPlaced
<1>4. ASSUME NEW t \in Threads, CheckBase(t) PROVE HeadInv'
  <2>1. Clean' => Clean
    BY <1>2, <1>4 DEF CheckBase, Fault
  <2>2. CASE Contains(forward, Head(base[t])) /\ AfterBase(t)
    <3>1. \A u \in Threads : \/ Placed(pc'[u], base'[u], forward)
                             \/ pc'[u] = pc[u] /\ base'[u] = base[u]
      BY <1>4, <2>2, AfterBasePlaced, AfterBaseOthers DEF CheckBase
    <3> QED
      BY <1>1, <1>4, <2>1, <3>1 DEF CheckBase
  <2>3. CASE goto(t, "insert") /\ UNCHANGED base /\ ~Contains(forward, Head(base[t]))
    <3>1. Clean => Placed("insert", base[t], forward)
      BY <1>0, <1>4, <2>3 DEF CheckBase, Placed
    <3>2. pc'[t] = "insert" /\ base'[t] = base[t]
      BY <2>3 DEF goto, TypeOK
    <3>3. \A u \in Threads : u # t => pc'[u] = pc[u] /\ base'[u] = base[u]
      BY <2>3 DEF goto, TypeOK
    <3>4. CASE ~Clean
      BY <1>a, <2>1, <3>4
    <3> QED
      BY <1>1, <1>4, <2>1, <3>1, <3>2, <3>3, <3>4 DEF CheckBase
  <2>4. CASE Fault
    <3>1. ~Clean'
      BY <1>2, <2>4 DEF Fault
    <3> QED
      BY <1>a, <3>1
  <2> QED
    BY <1>4, <2>2, <2>3, <2>4 DEF CheckBase
<1>5. ASSUME NEW t \in Threads, InsertBase(t) PROVE HeadInv'
  <2> SUFFICES ASSUME Clean'
               PROVE  /\ \A u \in Threads : Placed(pc'[u], base'[u], forward')
                      /\ synced' => Contains(forward', Jump)
                      /\ Headed(forward')
    BY <1>a
  <2>1. /\ Clean /\ pc[t] = "insert" /\ AfterBase(t) /\ UNCHANGED synced
        /\ forward' = <<Head(base[t])>> \o forward
    BY <1>2, <1>5 DEF InsertBase, Fault
  <2>2. /\ base[t] \in Base /\ base[t] # <<>> /\ forward \in Seq(ForwardRule)
        /\ Head(base[t]) \in ForwardRule
        /\ Head(base[t]) = Jump => base[t] = <<Jump>>
    BY <2>1, BaseShape DEF TypeOK
  <2>3. Placed("insert", base[t], forward) /\ Headed(forward)
    BY <1>0, <2>1
  <2>4. Headed(forward')
    BY <2>1, <2>2, <2>3, Inserted DEF Placed
  <2>5. \A x : Contains(forward', x) <=> x = Head(base[t]) \/ Contains(forward, x)
    BY <2>1, <2>2, Prepend
  <2>6. Placed(pc'[t], base'[t], forward')
    BY <2>1, <2>5, AfterBasePlaced
  <2>7. ASSUME NEW u \in Threads, u # t PROVE Placed(pc'[u], base'[u], forward')
    <3>1. pc'[u] = "idle"
      BY <2>1, <2>7, AfterBaseOthers DEF Alone
    <3> QED
      BY <3>1 DEF Placed
  <2>8. synced' => Contains(forward', Jump)
    BY <1>0, <2>1, <2>5
  <2> QED
    BY <2>4, <2>6, <2>7, <2>8
<1>6. ASSUME NEW t \in Threads, pc[t] \in {"flush", "append"},
             UNCHANGED <<forward, overlap, base>>, Clean' => Clean,
             (synced' = synced) \/ (pc[t] = "append" /\ synced' = TRUE),
             \E l \in {"append", "idle"} : pc' = [pc EXCEPT ![t] = l]
      PROVE  HeadInv'
  <2> SUFFICES ASSUME Clean'
               PROVE  /\ \A u \in Threads : Placed(pc'[u], base'[u], forward')
                      /\ synced' => Contains(forward', Jump)
                      /\ Headed(forward')
    BY <1>a
  <2>1. Contains(forward, Jump)
    BY <1>0, <1>6 DEF Placed
  <2>2. Placed(pc'[t], base'[t], forward)
    BY <1>6, <2>1 DEF Placed, TypeOK
  <2>3. \A u \in Threads : u # t => Placed(pc'[u], base'[u], forward)
    BY <1>0, <1>6 DEF TypeOK
  <2> QED
    BY <1>0, <1>6, <2>1, <2>2, <2>3
<1>7. ASSUME NEW t \in Threads, Flush(t) \/ NextChild(t) \/ AppendRule(t) \/ SyncDone(t)
      PROVE  HeadInv'
  <2>1. /\ pc[t] \in {"flush", "append"} /\ UNCHANGED <<forward, overlap, base>>
        /\ (synced' = synced) \/ (pc[t] = "append" /\ synced' = TRUE)
    BY <1>7 DEF Flush, NextChild, AppendRule, SyncDone, Finish
  <2>2. faults' = faults \/ faults' = faults + 1
    BY <1>7 DEF Flush, NextChild, AppendRule, SyncDone, Fault
  <2>3. Clean' => Clean
    BY <1>2, <2>1, <2>2
  <2>4. \E l \in {"append", "idle"} : pc' = [pc EXCEPT ![t] = l]
    <3>1. CASE pc[t] = "append" /\ UNCHANGED pc
      BY <3>1 DEF TypeOK
    <3>2. CASE goto(t, "append") \/ goto(t, "idle")
      BY <3>2 DEF goto
    <3> QED
      BY <1>7, <3>1, <3>2 DEF Flush, NextChild, AppendRule, SyncDone, Finish
  <2> QED
    BY <1>6, <2>1, <2>3, <2>4
<1>8. CASE UplinkMoves
  BY <1>1, <1>8 DEF UplinkMoves
<1>9. CASE Boot
  <2> SUFFICES ASSUME Clean'
               PROVE  /\ \A u \in Threads : Placed(pc'[u], base'[u], forward')
                      /\ synced' => Contains(forward', Jump)
                      /\ Headed(forward')
    BY <1>a
  <2>1. /\ ~synced' /\ \A u \in Threads : pc'[u] = "idle"
    BY <1>9 DEF Boot
  <2>2. Headed(forward')
    <3>1. CASE forward' = Restored(<<>>)
      BY <3>1, RebootHeaded
    <3>2. CASE forward' = Restored(forward) /\ UNCHANGED overlap
      <4>1. Headed(forward) /\ forward \in Seq(ForwardRule)
        BY <1>0, <1>9, <3>2 DEF Boot, TypeOK
      <4> QED
        BY <3>2, <4>1, RestoredHeaded
    <3> QED
      BY <1>9, <3>1, <3>2 DEF Boot
  <2> QED
    BY <2>1, <2>2 DEF Placed
<1>10. CASE UNCHANGED vars
  BY <1>1, <1>10 DEF vars
<1>11. ASSUME NEW t \in Threads, Tick(t) \/ Swap(t) \/ SetRouteProfile(t)
       PROVE  HeadInv'
  BY <1>3, <1>11 DEF Tick, Swap, SetRouteProfile, Begin
<1>12. ASSUME NEW t \in Threads, NEW d \in Devices, PauseDevice(t, d) PROVE HeadInv'
  BY <1>3, <1>12 DEF PauseDevice
<1> QED
  BY <1>4, <1>5, <1>7, <1>8, <1>9, <1>10, <1>11, <1>12 DEF Next, SyncStep

-----------------------------------------------------------------------------
(* What is in SAFESWITCH.                                                    *)

\* The rules BuildRules makes for a child of the bundle do what the policy wants.
LEMMA BuiltRight ==
  ASSUME NEW d \in Devices, policy[d] # "absent"
  PROVE  LET b == BuildRules(d, resolveState(d, policy[d]))
         IN b \in Seq(Rule) /\ Right(b, Wants) /\ HasOut(b, d)
<1> DEFINE state == resolveState(d, policy[d])
           b == BuildRules(d, state)
<1>1. Wants[d] = IF state \in {"paused", "service_only"} THEN "drop" ELSE "accept"
  BY DEF Wants, Wanted
<1>2. /\ b \in Seq(Rule) /\ HasOut(b, d)
      /\ \A k \in DOMAIN b : /\ b[k][1] = d
                             /\ b[k][2] = "out" =>
                                  b[k][3] = IF state \in {"paused", "service_only"}
                                              THEN "drop" ELSE "accept"
  BY RulesOf
<1> HIDE DEF b, state
<1>3. Right(b, Wants)
  BY <1>1, <1>2 DEF Right
<1> QED
  BY <1>2, <1>3 DEF b, state

\* A rule moved from the list of a goroutine to the end of the chain.
LEMMA Moved ==
  ASSUME NEW c \in Seq(Rule), NEW r \in Seq(Rule), r # <<>>, NEW want,
         Right(c, want), Right(r, want)
  PROVE  /\ Right(Append(c, Head(r)), want) /\ Right(Tail(r), want)
         /\ \A d : HasOut(r, d) \/ HasOut(c, d) =>
              HasOut(Tail(r), d) \/ HasOut(Append(c, Head(r)), d)
<1> DEFINE n == Append(c, Head(r))
           u == Tail(r)
<1>1. /\ Len(c) \in Nat /\ Len(r) \in Nat /\ Len(r) # 0
      /\ DOMAIN c = 1 .. Len(c) /\ DOMAIN r = 1 .. Len(r)
  OBVIOUS
<1>2. /\ DOMAIN n = 1 .. (Len(c) + 1) /\ n[Len(c) + 1] = r[1]
      /\ \A k \in 1 .. Len(c) : n[k] = c[k]
  OBVIOUS
<1>3. /\ DOMAIN u = 1 .. (Len(r) - 1)
      /\ \A k \in 1 .. (Len(r) - 1) : u[k] = r[k + 1]
  BY <1>1
<1> HIDE DEF n, u
<1>4. Right(n, want)
  <2> SUFFICES ASSUME NEW k \in DOMAIN n, n[k][2] = "out"
               PROVE  n[k][3] = want[n[k][1]]
    BY DEF Right
  <2>1. CASE k = Len(c) + 1
    <3>1. n[k] = r[1] /\ 1 \in DOMAIN r
      BY <1>1, <1>2, <2>1
    <3> QED
      BY <3>1 DEF Right
  <2>2. CASE k # Len(c) + 1
    <3>1. k \in DOMAIN c /\ n[k] = c[k]
      BY <1>1, <1>2, <2>2
    <3> QED
      BY <3>1 DEF Right
  <2> QED
    BY <2>1, <2>2
<1>5. Right(u, want)
  <2> SUFFICES ASSUME NEW k \in DOMAIN u, u[k][2] = "out"
               PROVE  u[k][3] = want[u[k][1]]
    BY DEF Right
  <2>1. k + 1 \in DOMAIN r /\ u[k] = r[k + 1]
    BY <1>1, <1>3
  <2> QED
    BY <2>1 DEF Right
<1>6. ASSUME NEW d, HasOut(c, d) PROVE HasOut(n, d)
  <2>1. PICK k \in DOMAIN c : c[k][1] = d /\ c[k][2] = "out"
    BY <1>6 DEF HasOut
  <2>2. k \in DOMAIN n /\ n[k] = c[k]
    BY <1>1, <1>2
  <2> QED
    BY <2>1, <2>2 DEF HasOut
<1>7. ASSUME NEW d, HasOut(r, d) PROVE HasOut(u, d) \/ HasOut(n, d)
  <2>1. PICK k \in DOMAIN r : r[k][1] = d /\ r[k][2] = "out"
    BY <1>7 DEF HasOut
  <2>2. CASE k = 1
    <3>1. Len(c) + 1 \in DOMAIN n /\ n[Len(c) + 1] = r[k]
      BY <1>1, <1>2, <2>2
    <3> QED
      BY <2>1, <3>1 DEF HasOut
  <2>3. CASE k # 1
    <3>1. k - 1 \in 1 .. (Len(r) - 1) /\ (k - 1) + 1 = k
      BY <1>1, <2>3
    <3>2. u[k - 1] = r[k] /\ k - 1 \in DOMAIN u
      BY <1>3, <3>1
    <3> QED
      BY <2>1, <3>2 DEF HasOut
  <2> QED
    BY <2>2, <2>3
<1> QED
  BY <1>4, <1>5, <1>6, <1>7 DEF n, u

\* The parts of ChainInv: of one goroutine, and between two syncs.
Working(t) ==
  /\ job[t] = "sync" => view[t] = policy
  /\ pc[t] \in {"flush", "append"} => job[t] = "sync"
  /\ pc[t] = "append" => Complete(t)
Settled ==
  synced /\ (\A t \in Threads : job[t] # "sync") =>
    /\ Right(chain, Wants)
    /\ \A d \in Devices : policy[d] # "absent" => HasOut(chain, d)

\* ChainInv in these parts.
LEMMA ChainParts ==
  ChainInv <=> (~overlap /\ faults = 0 => (\A t \in Threads : Working(t)) /\ Settled)
BY DEF ChainInv, Working, Settled

\* Every step keeps what is true of the chain.
LEMMA ChainStep ==
  ASSUME TypeOK, Alone, ChainInv, [Next]_vars
  PROVE  ChainInv'
<1> USE DEF kernel, history, locals
<1> DEFINE Clean == ~overlap /\ faults = 0
<1>1. Clean => (\A t \in Threads : Working(t)) /\ Settled
  BY ChainParts
<1>2. ASSUME Clean' => (\A t \in Threads : Working(t)') /\ Settled'
      PROVE  ChainInv'
  BY <1>2 DEF ChainInv, Working, Settled
<1>3. faults' = faults + 1 => faults' # 0
  BY DEF TypeOK
<1>4. UNCHANGED <<policy, profile>> => Wants' = Wants
  BY DEF Wants, Wanted, resolveState
<1>5. ASSUME NEW t \in Threads, NEW work, Start(t, work), work # "none",
             UNCHANGED <<chain, synced, faults>>,
             \/ work = "sync" /\ view'[t] = policy'
             \/ work # "sync" /\ UNCHANGED <<policy, profile>>
      PROVE  ChainInv'
  <2> SUFFICES ASSUME Clean' PROVE (\A u \in Threads : Working(u)') /\ Settled'
    BY <1>2
  <2>1. Clean /\ \A u \in Threads : pc[u] = "idle" /\ job[u] = "none"
    BY <1>5 DEF Start, Quiet, TypeOK
  <2>2. pc'[t] = "check" /\ job'[t] = work
    BY <1>5 DEF Start, goto, TypeOK
  <2>3. \A u \in Threads : u # t => pc'[u] = "idle" /\ job'[u] = "none"
    BY <1>5, <2>1 DEF Start, goto, TypeOK
  <2>4. ASSUME NEW u \in Threads PROVE Working(u)'
    BY <1>5, <2>2, <2>3 DEF Working
  <2>5. Settled'
    <3>1. CASE work = "sync"
      BY <2>2, <3>1 DEF Settled
    <3>2. CASE work # "sync"
      BY <1>1, <1>4, <1>5, <2>1, <3>2 DEF Settled
    <3> QED
      BY <3>1, <3>2
  <2> QED
    BY <2>4, <2>5
<1>6. ASSUME NEW t \in Threads, CheckBase(t) \/ InsertBase(t) PROVE ChainInv'
  <2> SUFFICES ASSUME Clean' PROVE (\A u \in Threads : Working(u)') /\ Settled'
    BY <1>2
  <2>1. /\ UNCHANGED <<chain, policy, profile, view, todo, rules, synced, overlap>>
        /\ pc[t] \in {"check", "insert"}
        /\ AfterBase(t) \/ (goto(t, "insert") /\ UNCHANGED job)
    BY <1>6 DEF CheckBase, InsertBase
  <2>2. faults' = faults \/ faults' = faults + 1
    BY <1>6 DEF CheckBase, InsertBase, Fault
  <2>3. (\A u \in Threads : Working(u)) /\ Settled /\ Wants' = Wants
    BY <1>1, <1>3, <1>4, <2>1, <2>2
  <2>4. /\ \A u \in Threads : u # t => pc'[u] = pc[u] /\ job'[u] = job[u]
        /\ pc'[t] = "flush" => job[t] = "sync"
        /\ job'[t] = job[t] \/ (job[t] # "sync" /\ job'[t] = "none")
    <3>1. CASE AfterBase(t)
      BY <3>1 DEF AfterBase, goto, TypeOK
    <3>2. CASE goto(t, "insert") /\ UNCHANGED job
      BY <3>2 DEF goto, TypeOK
    <3> QED
      BY <2>1, <3>1, <3>2
  <2>5. pc'[t] # "append"
    <3>1. CASE AfterBase(t)
      BY <3>1 DEF AfterBase, goto, TypeOK
    <3>2. CASE goto(t, "insert")
      BY <3>2 DEF goto, TypeOK
    <3> QED
      BY <2>1, <3>1, <3>2
  <2>6. ASSUME NEW u \in Threads PROVE Working(u)'
    <3>1. CASE u = t
      BY <2>1, <2>3, <2>4, <2>5, <3>1 DEF Working
    <3>2. CASE u # t
      BY <2>1, <2>3, <2>4, <3>2 DEF Working, Complete
    <3> QED
      BY <3>1, <3>2
  <2>7. Settled'
    <3>1. (\A u \in Threads : job'[u] # "sync") => \A u \in Threads : job[u] # "sync"
      BY <2>4
    <3> QED
      BY <2>1, <2>3, <3>1 DEF Settled
  <2> QED
    BY <2>6, <2>7
<1>7. ASSUME NEW t \in Threads, pc[t] # "idle", UNCHANGED overlap, Clean',
             NEW u \in Threads, u # t, pc'[u] = pc[u], job'[u] = job[u]
      PROVE  Working(u)' /\ job'[u] = "none"
  <2>1. pc[u] = "idle" /\ job[u] = "none"
    BY <1>7 DEF Alone, TypeOK
  <2> QED
    BY <1>7, <2>1 DEF Working
<1>8. ASSUME NEW t \in Threads, Flush(t) PROVE ChainInv'
  <2> SUFFICES ASSUME Clean' PROVE (\A u \in Threads : Working(u)') /\ Settled'
    BY <1>2
  <2>1. /\ chain' = <<>> /\ goto(t, "append") /\ pc[t] = "flush"
        /\ todo' = [todo EXCEPT ![t] = {d \in Devices : view[t][d] # "absent"}]
        /\ UNCHANGED <<job, view, policy, profile, rules, overlap, faults>>
    BY <1>3, <1>8 DEF Flush, Fault
  <2>2. Working(t) /\ job[t] = "sync" /\ view[t] = policy /\ rules[t] = <<>>
    BY <1>1, <2>1 DEF Working, TypeOK
  <2>3. /\ pc'[t] = "append" /\ job'[t] = "sync" /\ rules'[t] = <<>>
        /\ todo'[t] = {d \in Devices : policy[d] # "absent"}
        /\ \A u \in Threads : u # t => pc'[u] = pc[u] /\ job'[u] = job[u]
    BY <2>1, <2>2 DEF goto, TypeOK
  <2>4. \A want : Right(<<>>, want)
    BY DEF Right
  <2>5. Complete(t)'
    BY <2>1, <2>3, <2>4 DEF Complete
  <2>6. Working(t)'
    BY <2>1, <2>2, <2>3, <2>5 DEF Working
  <2>7. Settled'
    BY <2>3 DEF Settled
  <2> QED
    BY <1>7, <2>1, <2>3, <2>6, <2>7
<1>9. ASSUME NEW t \in Threads, NextChild(t) PROVE ChainInv'
  <2> SUFFICES ASSUME Clean' PROVE (\A u \in Threads : Working(u)') /\ Settled'
    BY <1>2
  <2>1. /\ pc[t] = "append"
        /\ UNCHANGED <<chain, policy, profile, pc, job, view, overlap, faults>>
    BY <1>9 DEF NextChild
  <2>2. Working(t) /\ job[t] = "sync" /\ view[t] = policy /\ Complete(t)
    BY <1>1, <2>1 DEF Working
  <2>3. PICK d \in todo[t] :
          /\ todo' = [todo EXCEPT ![t] = todo[t] \ {d}]
          /\ rules' = [rules EXCEPT ![t] =
                         BuildRules(d, resolveState(d, view[t][d]))]
    BY <1>9 DEF NextChild
  <2>4. d \in Devices /\ policy[d] # "absent"
    BY <2>2 DEF Complete, TypeOK
  <2> DEFINE b == BuildRules(d, resolveState(d, policy[d]))
  <2>5. Right(b, Wants) /\ HasOut(b, d)
    BY <2>4, BuiltRight
  <2>6. todo'[t] = todo[t] \ {d} /\ rules'[t] = b
    BY <2>2, <2>3 DEF TypeOK
  <2> HIDE DEF b
  <2>7. \A e \in Devices : ~HasOut(rules[t], e)
    BY <1>9 DEF NextChild, HasOut
  <2>8. Complete(t)'
    BY <1>4, <2>1, <2>2, <2>5, <2>6, <2>7 DEF Complete
  <2>9. Working(t)'
    BY <2>1, <2>2, <2>8 DEF Working
  <2>10. Settled'
    BY <2>1, <2>2 DEF Settled
  <2> QED
    BY <1>7, <2>1, <2>9, <2>10
<1>10. ASSUME NEW t \in Threads, AppendRule(t) PROVE ChainInv'
  <2> SUFFICES ASSUME Clean' PROVE (\A u \in Threads : Working(u)') /\ Settled'
    BY <1>2
  <2>1. /\ pc[t] = "append" /\ rules[t] # <<>>
        /\ UNCHANGED <<policy, profile, pc, job, view, todo, overlap, faults>>
        /\ chain' = Append(chain, Head(rules[t]))
    BY <1>3, <1>10 DEF AppendRule, Fault
  <2>2. Working(t) /\ job[t] = "sync" /\ view[t] = policy /\ Complete(t)
    BY <1>1, <2>1 DEF Working
  <2>3. rules'[t] = Tail(rules[t]) /\ rules[t] \in Seq(Rule) /\ chain \in Seq(Rule)
    BY <1>10 DEF AppendRule, TypeOK
  <2>4. /\ Right(chain', Wants) /\ Right(rules'[t], Wants)
        /\ \A d : HasOut(rules[t], d) \/ HasOut(chain, d) =>
             HasOut(rules'[t], d) \/ HasOut(chain', d)
    BY <2>1, <2>2, <2>3, Moved DEF Complete
  <2>5. Complete(t)'
    BY <1>4, <2>1, <2>2, <2>4 DEF Complete
  <2>6. Working(t)'
    BY <2>1, <2>2, <2>5 DEF Working
  <2>7. Settled'
    BY <2>1, <2>2 DEF Settled
  <2> QED
    BY <1>7, <2>1, <2>6, <2>7
<1>11. ASSUME NEW t \in Threads, SyncDone(t) PROVE ChainInv'
  <2> SUFFICES ASSUME Clean' PROVE (\A u \in Threads : Working(u)') /\ Settled'
    BY <1>2
  <2>1. /\ pc[t] = "append" /\ rules[t] = <<>> /\ todo[t] = {}
        /\ UNCHANGED <<chain, policy, profile, overlap, faults>>
    BY <1>11 DEF SyncDone
  <2>2. Complete(t) /\ Wants' = Wants
    BY <1>1, <1>4, <2>1 DEF Working
  <2>3. /\ pc'[t] = "idle" /\ job'[t] = "none"
        /\ \A u \in Threads : u # t => pc'[u] = pc[u] /\ job'[u] = job[u]
    BY <1>11 DEF SyncDone, Finish, goto, TypeOK
  <2>4. \A d \in Devices : ~HasOut(rules[t], d)
    BY <2>1 DEF HasOut
  <2>5. Settled'
    BY <2>1, <2>2, <2>4 DEF Settled, Complete
  <2>6. Working(t)'
    BY <2>3 DEF Working
  <2> QED
    BY <1>7, <2>1, <2>3, <2>5, <2>6
<1>12. CASE Boot
  <2>1. ~synced' /\ \A u \in Threads : pc'[u] = "idle" /\ job'[u] = "none"
    BY <1>12 DEF Boot
  <2>2. \A u \in Threads : Working(u)'
    BY <2>1 DEF Working
  <2>3. Settled'
    BY <2>1 DEF Settled
  <2> QED
    BY <1>2, <2>2, <2>3
<1>13. CASE UplinkMoves \/ UNCHANGED vars
  <2>1. UNCHANGED <<chain, policy, profile, pc, job, view, todo, rules, synced,
                    overlap, faults>>
    BY <1>13 DEF UplinkMoves, vars
  <2>2. Wants' = Wants
    BY <1>4, <2>1
  <2>3. ASSUME NEW u \in Threads, Working(u) PROVE Working(u)'
    BY <2>1, <2>2, <2>3 DEF Working, Complete
  <2>4. Settled => Settled'
    BY <2>1, <2>2 DEF Settled
  <2> QED
    BY <1>1, <1>2, <2>1, <2>3, <2>4
<1>14. ASSUME NEW t \in Threads, Tick(t) \/ Swap(t) \/ SetRouteProfile(t)
       PROVE  ChainInv'
  <2>1. /\ Start(t, "sync") /\ view'[t] = policy'
        /\ UNCHANGED <<chain, synced, faults>>
    <3>1. CASE Tick(t) \/ SetRouteProfile(t)
      BY <3>1 DEF Tick, SetRouteProfile, Begin, TypeOK
    <3>2. CASE Swap(t)
      BY <3>2 DEF Swap, Begin, TypeOK
    <3> QED
      BY <1>14, <3>1, <3>2
  <2> QED
    BY <1>5, <2>1
<1>15. ASSUME NEW t \in Threads, NEW d \in Devices, PauseDevice(t, d)
       PROVE  ChainInv'
  <2>1. d # "sync" /\ d # "none"
    BY FirewallAssumption
  <2> QED
    BY <1>5, <1>15, <2>1 DEF PauseDevice
<1> QED
  BY <1>6, <1>8, <1>9, <1>10, <1>11, <1>12, <1>13, <1>14, <1>15 DEF Next, SyncStep

\* The inductive invariant of the firewall.
THEOREM ChainInvariant == Spec => [](TypeOK /\ Alone /\ HeadInv /\ ChainInv)
<1>1. Init => Alone /\ HeadInv /\ ChainInv
  <2> SUFFICES ASSUME Init PROVE Alone /\ HeadInv /\ ChainInv
    OBVIOUS
  <2>1. \A t \in Threads : pc[t] = "idle" /\ job[t] = "none"
    BY DEF Init
  <2>2. Alone
    BY <2>1 DEF Alone
  <2>3. HeadInv
    BY <2>1, RebootHeaded DEF Init, HeadInv
  <2>4. ChainInv
    BY <2>1 DEF Init, ChainInv
  <2> QED
    BY <2>2, <2>3, <2>4
<1>2. TypeOK /\ Alone /\ HeadInv /\ ChainInv /\ [Next]_vars
        => Alone' /\ HeadInv' /\ ChainInv'
  BY AloneStep, HeadStep, ChainStep
<1> QED
  BY <1>1, <1>2, TypeCorrect, PTL DEF Spec

-----------------------------------------------------------------------------
(* What follows for a packet.                                                *)

\* The first of a set of positions.
LEMMA FirstOf ==
  ASSUME NEW S, S \subseteq Nat, S # {}
  PROVE  Min(S) \in S /\ \A k \in S : Min(S) <= k
<1>1. PICK m \in S : \A k \in S : <<k, m>> \notin OpToRel(<, Nat)
  BY NatLessThanWellFounded, WFMin
<1>2. \A k \in S : ~(k < m)
  BY <1>1 DEF OpToRel
<1>3. \E x \in S : \A y \in S : x <= y
  BY <1>2
<1> QED
  BY <1>3 DEF Min

\* With the rules of one uplink only, the jump stands before the rule that
\* accepts.
LEMMA OneUplink ==
  ASSUME TypeOK, HeadInv, synced, ~overlap, faults = 0, SameUplink
  PROVE  Contains(forward, Jump) /\ Ordered(forward)
<1>1. Contains(forward, Jump) /\ (Two(forward) \/ Ordered(forward))
  BY DEF HeadInv, Headed
<1>2. ~Two(forward)
  BY DEF Two, SameUplink
<1> QED
  BY <1>1, <1>2

\* In that state the jump is before the rule that accepts wg0.
LEMMA FirstInState ==
  ASSUME TypeOK, HeadInv
  PROVE  SafeswitchFirst
<1> SUFFICES ASSUME synced, ~overlap, faults = 0, SameUplink PROVE JumpIsFirst
  BY DEF SafeswitchFirst
<1> QED
  BY OneUplink DEF JumpIsFirst, Ordered, TypeOK

\* A chain that has the right rules gives the right verdict.
LEMMA ChainIsRight ==
  ASSUME TypeOK, NEW d \in Devices, Right(chain, Wants), HasOut(chain, d)
  PROVE  ChainVerdict(d) = Wanted(d)
<1> DEFINE I == {k \in 1 .. Len(chain) : chain[k][1] = d /\ chain[k][2] = "out"}
<1>1. DOMAIN chain = 1 .. Len(chain) /\ Len(chain) \in Nat
  BY DEF TypeOK
<1>2. I # {} /\ I \subseteq Nat
  BY <1>1 DEF HasOut
<1>3. Min(I) \in I
  BY <1>2, FirstOf
<1>4. SelectInSeq(chain, LAMBDA r : r[1] = d /\ r[2] = "out") = Min(I)
  BY <1>2 DEF SelectInSeq
<1>5. ChainVerdict(d) = chain[Min(I)][3]
  BY <1>3, <1>4 DEF ChainVerdict
<1>6. chain[Min(I)][3] = Wants[d]
  BY <1>1, <1>3 DEF Right
<1> QED
  BY <1>5, <1>6 DEF Wants

\* A FORWARD chain with the jump before the rule that accepts gives the verdict
\* of SAFESWITCH, if it has one.
LEMMA ForwardIsRight ==
  ASSUME TypeOK, NEW d \in Devices, Contains(forward, Jump), Ordered(forward),
         SameUplink, ChainVerdict(d) # "return"
  PROVE  Verdict(d) = ChainVerdict(d)
<1> DEFINE I == {k \in 1 .. Len(forward) : Decision(forward[k], d) # "return"}
<1>1. DOMAIN forward = 1 .. Len(forward) /\ Len(forward) \in Nat
  BY DEF TypeOK
<1>2. Jump[1] = "jump" /\ JumpWg[1] = "jump"
  BY DEF Jump, JumpWg
<1>3. Decision(Jump, d) = ChainVerdict(d) /\ Decision(JumpWg, d) = ChainVerdict(d)
  BY <1>2 DEF Decision
<1>4. I # {} /\ I \subseteq Nat
  BY <1>1, <1>3 DEF Contains
<1>5. Min(I) \in I /\ \A k \in I : Min(I) <= k
  BY <1>4, FirstOf
<1>6. SelectInSeq(forward, LAMBDA r : Decision(r, d) # "return") = Min(I)
  BY <1>4 DEF SelectInSeq
<1>7. Verdict(d) = Decision(forward[Min(I)], d)
  BY <1>5, <1>6 DEF Verdict
<1> DEFINE m == Min(I)
<1>8. /\ m \in 1 .. Len(forward) /\ Decision(forward[m], d) # "return"
      /\ forward[m] \in ForwardRule
  <2>1. m \in 1 .. Len(forward) /\ Decision(forward[m], d) # "return"
    BY <1>5
  <2> HIDE DEF m
  <2> QED
    BY <1>1, <2>1 DEF TypeOK
<1> HIDE DEF I, m
<1>9. ASSUME NEW i \in Uplinks, forward[m] = Accept(i) PROVE FALSE
  <2>1. PICK j \in 1 .. m : forward[j] = Jump
    BY <1>1, <1>8, <1>9 DEF Ordered
  <2>2. j # m /\ j < m
    BY <1>1, <1>8, <1>9, <2>1, RulesDiffer
  <2>3. j \in I
    BY <1>1, <1>3, <1>8, <2>1, <2>2 DEF I
  <2> QED
    BY <1>1, <1>5, <1>8, <2>2, <2>3 DEF m
<1>10. Decision(Established, d) = "return" /\ Decision(DropQuic, d) = "return"
  BY DEF Decision, Established, DropQuic
<1>11. forward[m] \in {Jump, JumpWg}
  BY <1>8, <1>9, <1>10 DEF ForwardRule
<1> QED
  BY <1>3, <1>7, <1>11 DEF m

\* Between two syncs the packets of a device meet what the policy wants.
LEMMA EnforcedInState ==
  ASSUME TypeOK, HeadInv, ChainInv
  PROVE  Enforced
<1> SUFFICES ASSUME synced, Quiet, ~overlap, faults = 0, SameUplink,
                    NEW d \in Devices, policy[d] # "absent"
             PROVE  Verdict(d) = Wanted(d)
  BY DEF Enforced
<1>1. \A t \in Threads : job[t] # "sync"
  BY DEF Quiet, TypeOK
<1>2. ChainVerdict(d) = Wanted(d)
  BY <1>1, ChainIsRight DEF ChainInv
<1>3. Wanted(d) # "return"
  BY DEF Wanted
<1> QED
  BY <1>2, <1>3, OneUplink, ForwardIsRight

\* As long as syncs have not overlapped, nothing failed and the uplink stayed, the
\* rule that accepts wg0 towards the uplink never stands before the jump to
\* SAFESWITCH once a sync has ended: whatever the goroutines, the order of their
\* commands and the number of restarts.
THEOREM SafeswitchAlwaysFirst == Spec => []SafeswitchFirst
<1>1. TypeOK /\ Alone /\ HeadInv /\ ChainInv => SafeswitchFirst
  BY FirstInState
<1> QED
  BY <1>1, ChainInvariant, PTL

\* In the same circumstances, between two syncs, FORWARD and SAFESWITCH together
\* drop the packets of a device exactly when its stored profile and the active
\* bundle say so, for any number of devices, uplinks and restarts.
THEOREM AlwaysEnforced == Spec => []Enforced
<1>1. TypeOK /\ Alone /\ HeadInv /\ ChainInv => Enforced
  BY EnforcedInState
<1> QED
  BY <1>1, ChainInvariant, PTL
=============================================================================
