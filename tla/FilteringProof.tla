--------------------------- MODULE FilteringProof ---------------------------
(* Proofs about Filtering, for any domains, categories, feeds' contents and  *)
(* policies, and any number of edits, swaps, reloads, faults and restarts.   *)
EXTENDS Filtering, WellFoundedInduction, TLAPS

-----------------------------------------------------------------------------
(* The operators of the table and of the list.                               *)

\* A row is stored with a category, or not at all.
LEMMA StoredType ==
  ASSUME NEW f \in Feed, NEW content \in Content, NEW d \in Domain
  PROVE  Stored(f, content, d) \in Category \union {Blank}
<1>1. content[d] \in Category \union {Blank, Absent}
  BY DEF Content
<1> QED
  BY <1>1, FilteringAssumption DEF Stored, Fallback

\* The transaction of a feed keeps the type of the table.
LEMMA TableType ==
  ASSUME rows \in [Domain -> Row], NEW f \in Feed, NEW content \in Content
  PROVE  InsertOrIgnore(f, content, DeleteSource(f)) \in [Domain -> Row]
<1>1. NoRow \in Row
  BY DEF Row
<1>2. DeleteSource(f) \in [Domain -> Row]
  BY <1>1 DEF DeleteSource
<1>3. ASSUME NEW d \in Domain, Stored(f, content, d) # Blank
      PROVE  [cat |-> Stored(f, content, d), source |-> f] \in Row
  BY <1>3, StoredType DEF Row, Source
<1> QED
  BY <1>2, <1>3 DEF InsertOrIgnore

\* What Load makes of the table is a list.
LEMMA ListingType ==
  ASSUME rows \in [Domain -> Row]
  PROVE  Listing(rows) \in List /\ Listing(rows) # NoList
<1>1. \A d \in Domain : rows[d].cat \in Category \union {Blank}
  BY DEF Row, NoRow
<1> QED
  BY <1>1, FilteringAssumption DEF Listing, List

\* A non-empty set of numbers has a least one.
LEMMA LeastOf ==
  ASSUME NEW S, S \subseteq Nat, S # {}
  PROVE  \E m \in S : \A k \in S : m <= k
<1>1. PICK m \in S : \A k \in S : <<k, m>> \notin OpToRel(<, Nat)
  BY NatLessThanWellFounded, WFMin
<1>2. \A k \in S : ~(k < m)
  BY <1>1 DEF OpToRel
<1> QED
  BY <1>2

\* CategoryFor answers with a category exactly for a name that is blocked.
LEMMA CategoryForIs ==
  ASSUME NEW l \in List, NEW d \in Domain
  PROVE  /\ CategoryFor(l, d) \in Category \union {Blank}
         /\ CategoryFor(l, d) # Blank <=> IsBlocked(l, d)
<1>1. CASE ~IsBlocked(l, d)
  BY <1>1 DEF CategoryFor
<1>2. CASE IsBlocked(l, d)
  <2>1. /\ Walk[d] \in Seq(Domain)
        /\ Listed(l, d) \subseteq Nat
    <3>1. Walk[d] \in Seq(Domain)
      BY FilteringAssumption
    <3>2. DOMAIN Walk[d] \subseteq Nat
      BY <3>1
    <3> QED
      BY <3>1, <3>2 DEF Listed
  <2> DEFINE least == CHOOSE i \in Listed(l, d) : \A j \in Listed(l, d) : i <= j
  <2>2. \E i \in Listed(l, d) : \A j \in Listed(l, d) : i <= j
    BY <1>2, <2>1, LeastOf DEF IsBlocked
  <2>3. least \in Listed(l, d)
    BY <2>2
  <2>4. CategoryFor(l, d) = l[Walk[d][least]]
    BY <1>2 DEF CategoryFor
  <2> HIDE DEF least
  <2>5. Walk[d][least] \in Domain /\ l[Walk[d][least]] # Blank
    BY <2>1, <2>3 DEF Listed
  <2> QED
    BY <1>2, <2>4, <2>5 DEF List
<1> QED
  BY <1>1, <1>2

\* A name blocked for the categories of a device is blocked.
LEMMA InCategories ==
  ASSUME NEW l, NEW d, NEW cats \in SUBSET Category,
         IsBlockedForCategories(l, d, cats)
  PROVE  IsBlocked(l, d)
BY FilteringAssumption DEF IsBlockedForCategories, IsBlocked, Listed

-----------------------------------------------------------------------------
(* Type correctness.                                                         *)

\* A bounded event that happens is counted within its bound.
LEMMA SpendType ==
  ASSUME NEW k \in DOMAIN Bound, Spend(k),
         count \in [DOMAIN Bound -> Nat],
         \A j \in DOMAIN Bound : count[j] <= Bound[j]
  PROVE  /\ count' \in [DOMAIN Bound -> Nat]
         /\ \A j \in DOMAIN Bound : count'[j] <= Bound[j]
<1>1. \A j \in DOMAIN Bound : Bound[j] \in Nat
  <2>1. {MaxEdit, MaxSwap, MaxReload, MaxFault, MaxRestart, MaxAsk} \subseteq Nat
    BY FilteringAssumption
  <2> QED
    BY <2>1 DEF Bound
<1>2. count' = [count EXCEPT ![k] = count[k] + 1] /\ count[k] < Bound[k]
  BY DEF Spend
<1> QED
  BY <1>1, <1>2

\* The names of the bounded events.
LEMMA BoundNames ==
  DOMAIN Bound = {"edit", "swap", "reload", "fault", "restart", "ask"}
BY DEF Bound

\* What a decision in progress consists of.
LEMMA QueryShape ==
  ASSUME query \in Query
  PROVE  /\ query.pc \in {"idle", "paused", "blocked", "category", "cats", "known",
                          "incats", "decided"}
         /\ query.pc = "idle" <=> query = Idle
         /\ query.pc # "idle" => query.via \in Via /\ query.name \in Domain
         /\ query.pc \in {"paused", "blocked", "category", "cats"} =>
              query = [pc |-> query.pc, via |-> query.via, name |-> query.name]
         /\ query.pc = "known" => query.cat \in Category \union {Blank}
         /\ query.pc = "incats" => query.cats \in SUBSET Category
         /\ query.pc = "decided" => query.verdict \in {"block", "pass"}
BY DEF Query, Idle

\* Going on to the next test keeps the connection and the name.
LEMMA GotoShape ==
  ASSUME query \in Query, query.pc \in {"paused", "blocked"},
         NEW p \in {"blocked", "category", "cats"}, Goto(p)
  PROVE  /\ query' = [pc |-> p, via |-> query.via, name |-> query.name]
         /\ query' \in Query
<1>1. query = [pc |-> query.pc, via |-> query.via, name |-> query.name]
  BY QueryShape
<1>2. query' = [pc |-> p, via |-> query.via, name |-> query.name]
  BY <1>1 DEF Goto
<1> QED
  BY <1>2, QueryShape DEF Query

\* A verdict keeps the connection and the name.
LEMMA DecideType ==
  ASSUME query \in Query, query.pc # "idle",
         NEW verdict \in {"block", "pass"}, Decide(verdict)
  PROVE  query' \in Query
BY QueryShape DEF Decide, Query

\* A step of a decision leads to a decision.
LEMMA DecisionType ==
  ASSUME TypeOK, DecisionStep
  PROVE  query' \in Query
<1>0. query \in Query
  BY DEF TypeOK
<1>1. CASE CheckPaused
  <2>1. query.pc = "paused" /\ (Decide("block") \/ Goto("blocked"))
    BY <1>1 DEF CheckPaused, At
  <2> QED
    BY <1>0, <2>1, DecideType, GotoShape
<1>2. CASE CheckBlocked
  <2>1. /\ query.pc = "blocked" /\ query.via \in Via
        /\ \/ Decide("block") \/ Decide("pass") \/ Goto("category") \/ Goto("cats")
    BY <1>0, <1>2, QueryShape
    DEF CheckBlocked, At, ResolverBlocked, SNIBlocked, HandleConnect, HandleHTTP, Via
  <2> QED
    BY <1>0, <2>1, DecideType, GotoShape
<1>3. CASE ReadCategory
  <2>1. CategoryFor(list, query.name) \in Category \union {Blank}
    BY <1>0, <1>3, QueryShape, CategoryForIs DEF ReadCategory, At, TypeOK
  <2> QED
    BY <1>0, <1>3, <2>1, QueryShape DEF ReadCategory, At, Query
<1>4. CASE CheckKnown
  BY <1>0, <1>4, DecideType DEF CheckKnown, At
<1>5. CASE ReadCategories
  <2>1. policy.cats \in SUBSET Category
    BY DEF TypeOK, Policy
  <2> QED
    BY <1>0, <1>5, <2>1, DecideType, QueryShape DEF ReadCategories, At, Query
<1>6. CASE CheckCategories
  BY <1>0, <1>6, DecideType DEF CheckCategories, At
<1> QED
  BY <1>1, <1>2, <1>3, <1>4, <1>5, <1>6 DEF DecisionStep

\* Every step keeps the types, and the sync loop's counter within its bounds.
LEMMA TypeStep ==
  ASSUME TypeOK, SyncInv, [Next]_vars
  PROVE  TypeOK' /\ SyncInv'
<1> DEFINE CountOK == /\ count \in [DOMAIN Bound -> Nat]
                      /\ \A k \in DOMAIN Bound : count[k] <= Bound[k]
           SyncOK == /\ sync \in {"sleep", "fetch", "apply", "reload", "loading"}
                     /\ current \in Feed /\ body \in Content /\ changed \in 0 .. 2
           Tables == rows \in [Domain -> Row] /\ hash \in [Feed -> Content]
                     /\ ignored \in [Feed -> SUBSET Domain]
           Memory == /\ load \in [Loader -> List \union {NoList}] /\ list \in List
                     /\ lists \subseteq List
           Device == /\ policy \in Policy /\ policies \subseteq Policy
                     /\ query \in Query
           Rest == feed \in [Feed -> Content] /\ up \in BOOLEAN
<1>0. CountOK /\ SyncOK /\ Tables /\ Memory /\ Device /\ Rest /\ SyncInv
  BY DEF TypeOK
<1>a. \A k \in {"edit", "swap", "reload", "fault", "restart", "ask"} :
        Spend(k) => CountOK'
  BY <1>0, BoundNames, SpendType
<1>b. NoRows \in Content /\ EmptyList \in List
  BY DEF NoRows, EmptyList, Content, List
<1>c. Listing(rows) \in List
  BY <1>0, ListingType
<1>d. Idle \in Query /\ Unknown \in Policy
  BY DEF Query, Unknown, Policy
<1>e. /\ UNCHANGED count => CountOK'
      /\ UNCHANGED syncVars => SyncOK'
      /\ UNCHANGED tableVars => Tables'
      /\ UNCHANGED <<load, list, lists>> => Memory'
      /\ UNCHANGED <<policy, policies, query>> => Device'
      /\ UNCHANGED <<feed, up>> => Rest'
  BY <1>0 DEF syncVars, tableVars
<1>f. UNCHANGED <<syncVars, load>> => SyncInv'
  BY <1>0 DEF syncVars, SyncInv
<1>q. CountOK' /\ SyncOK' /\ Tables' /\ Memory' /\ Device' /\ Rest' /\ SyncInv'
        => TypeOK' /\ SyncInv'
  BY DEF TypeOK
<1>1. ASSUME NEW f \in Feed, NEW d \in Domain,
             NEW c \in Category \union {Blank, Absent}, EditFeed(f, d, c)
      PROVE  TypeOK' /\ SyncInv'
  <2>1. Rest'
    BY <1>0, <1>1 DEF EditFeed, Content
  <2> HIDE DEF CountOK, SyncOK, Tables, Memory, Device, Rest
  <2> QED
    BY <1>1, <1>a, <1>e, <1>f, <1>q, <2>1 DEF EditFeed, queryVars
<1>2. ASSUME NEW p \in Policies, SwapPolicy(p)
      PROVE  TypeOK' /\ SyncInv'
  <2>1. Device'
    BY <1>0, <1>2, FilteringAssumption DEF SwapPolicy
  <2> HIDE DEF CountOK, SyncOK, Tables, Memory, Device, Rest
  <2> QED
    BY <1>2, <1>a, <1>e, <1>f, <1>q, <2>1 DEF SwapPolicy
<1>3. CASE StartDNS
  <2>1. Rest' /\ Memory'
    BY <1>0, <1>3, <1>c DEF StartDNS, Publish
  <2>2. CountOK'
    BY <1>3, <1>0, <1>a DEF StartDNS
  <2> HIDE DEF CountOK, SyncOK, Tables, Memory, Device, Rest
  <2> QED
    BY <1>3, <1>e, <1>f, <1>q, <2>1, <2>2 DEF StartDNS
<1>4. CASE CommandReload
  <2>1. Memory' /\ load'["sync"] = load["sync"]
    BY <1>0, <1>4, <1>c DEF CommandReload, queryVars, Loader
  <2>2. SyncInv'
    BY <1>0, <1>4, <2>1 DEF CommandReload, syncVars, SyncInv
  <2> HIDE DEF CountOK, SyncOK, Tables, Memory, Device, Rest
  <2> QED
    BY <1>4, <1>a, <1>e, <1>q, <2>1, <2>2 DEF CommandReload, queryVars
<1>5. ASSUME NEW l \in Loader, FinishLoad(l)
      PROVE  TypeOK' /\ SyncInv'
  <2>1. Memory'
    BY <1>0, <1>5 DEF FinishLoad, Publish
  <2>2. CountOK'
    BY <1>5, <1>0, <1>a DEF FinishLoad
  <2>3. SyncOK'
    BY <1>0, <1>5 DEF FinishLoad
  <2>4. SyncInv'
    <3>1. CASE l = "sync"
      <4>1. sync = "loading" /\ sync' = "sleep" /\ load'["sync"] = NoList
        BY <1>0, <1>5, <3>1 DEF FinishLoad, SyncInv
      <4> QED
        BY <1>0, <1>5, <4>1 DEF FinishLoad, SyncInv
    <3>2. CASE l # "sync"
      <4>1. sync' = sync /\ load'["sync"] = load["sync"]
        BY <1>0, <1>5, <3>2 DEF FinishLoad, Loader
      <4> QED
        BY <1>0, <1>5, <4>1 DEF FinishLoad, SyncInv
    <3> QED
      BY <3>1, <3>2
  <2> HIDE DEF CountOK, SyncOK, Tables, Memory, Device, Rest
  <2> QED
    BY <1>5, <1>e, <1>q, <2>1, <2>2, <2>3, <2>4 DEF FinishLoad
<1>6. CASE Wake
  <2>1. SyncOK'
    BY <1>0, <1>6 DEF Wake
  <2>2. SyncInv'
    BY <1>0, <1>6 DEF Wake, SyncInv
  <2> HIDE DEF CountOK, SyncOK, Tables, Memory, Device, Rest
  <2> QED
    BY <1>6, <1>e, <1>q, <2>1, <2>2 DEF Wake, queryVars
<1>7. ASSUME NEW ok \in BOOLEAN, FeedDone(ok), sync \in {"fetch", "apply"},
             UNCHANGED load
      PROVE  SyncOK' /\ SyncInv'
  <2>1. current' \in Feed /\ sync' \in {"fetch", "reload"} /\ body' \in Content
    BY <1>b, <1>7 DEF FeedDone, Feed
  <2>2. /\ changed \in Nat /\ changed <= 1
        /\ current = "threat_feeds" => changed = 0
    BY <1>0, <1>7 DEF SyncInv
  <2>3. changed' \in 0 .. 2 /\ (current = "threat_feeds" => changed' <= 1)
    BY <1>7, <2>2 DEF FeedDone
  <2>4. load["sync"] = NoList
    BY <1>0, <1>7 DEF SyncInv
  <2>5. CASE current = "threat_feeds"
    <3>1. sync' = "fetch" /\ current' = "domain_category_map"
      BY <1>7, <2>5 DEF FeedDone
    <3> QED
      BY <1>7, <2>1, <2>3, <2>4, <2>5, <3>1 DEF SyncInv
  <2>6. CASE current # "threat_feeds"
    <3>1. sync' = "reload"
      BY <1>7, <2>6 DEF FeedDone
    <3> QED
      BY <1>7, <2>1, <2>3, <2>4, <3>1 DEF SyncInv
  <2> QED
    BY <2>5, <2>6
<1>8. CASE Fetch
  <2>1. SyncOK' /\ SyncInv'
    <3>1. CASE FeedDone(FALSE)
      BY <1>7, <1>8, <3>1 DEF Fetch
    <3>2. CASE sync' = "apply" /\ body' = feed[current]
                 /\ UNCHANGED <<current, changed>>
      <4>1. SyncOK'
        BY <1>0, <3>2
      <4>2. SyncInv'
        BY <1>0, <1>8, <3>2 DEF Fetch, SyncInv
      <4> QED
        BY <4>1, <4>2
    <3> QED
      BY <1>8, <3>1, <3>2 DEF Fetch
  <2> HIDE DEF CountOK, SyncOK, Tables, Memory, Device, Rest
  <2> QED
    BY <1>8, <1>e, <1>q, <2>1 DEF Fetch, queryVars
<1>9. CASE Apply
  <2>1. SyncOK' /\ SyncInv'
    <3>1. \E ok \in BOOLEAN : FeedDone(ok)
      BY <1>9 DEF Apply, CompareAndApply
    <3> QED
      BY <1>7, <1>9, <3>1 DEF Apply
  <2>2. Tables'
    <3>1. CASE ApplyFeed(current)
      BY <1>0, <3>1, TableType DEF ApplyFeed
    <3>2. CASE UNCHANGED tableVars
      BY <3>2, <1>e
    <3> QED
      BY <1>9, <3>1, <3>2 DEF Apply, CompareAndApply
  <2>3. CountOK'
    <3> HIDE DEF CountOK
    <3> QED
      BY <1>9, <1>a, <1>e DEF Apply, CompareAndApply
  <2> HIDE DEF CountOK, SyncOK, Tables, Memory, Device, Rest
  <2> QED
    BY <1>9, <1>e, <1>q, <2>1, <2>2, <2>3 DEF Apply, queryVars
<1>10. CASE Reload
  <2>1. SyncOK'
    BY <1>0, <1>10 DEF Reload
  <2>2. SyncInv'
    BY <1>0, <1>10 DEF Reload, SyncInv
  <2>3. Memory'
    BY <1>0, <1>10, <1>c DEF Reload, queryVars
  <2>4. CountOK'
    <3> HIDE DEF CountOK
    <3> QED
      BY <1>10, <1>a, <1>e DEF Reload
  <2> HIDE DEF CountOK, SyncOK, Tables, Memory, Device, Rest
  <2> QED
    BY <1>10, <1>e, <1>q, <2>1, <2>2, <2>3, <2>4 DEF Reload, queryVars
<1>11. CASE Restart
  <2>1. SyncOK' /\ Memory' /\ Device'
    BY <1>0, <1>11, <1>b, <1>d DEF Restart, Feed
  <2>2. SyncInv'
    BY <1>11 DEF Restart, SyncInv, Loader
  <2>3. Rest'
    BY <1>0, <1>11 DEF Restart
  <2> HIDE DEF CountOK, SyncOK, Tables, Memory, Device, Rest
  <2> QED
    BY <1>11, <1>a, <1>e, <1>q, <2>1, <2>2, <2>3 DEF Restart
<1>12. ASSUME NEW via \in Via, NEW d \in Domain, NEW pc \in {"paused", "blocked"},
              Begin(via, d, pc)
       PROVE  TypeOK' /\ SyncInv'
  <2>1. Device' /\ Memory'
    BY <1>0, <1>12 DEF Begin, Query
  <2> HIDE DEF CountOK, SyncOK, Tables, Memory, Device, Rest
  <2> QED
    BY <1>12, <1>a, <1>e, <1>f, <1>q, <2>1 DEF Begin
<1>13. CASE DecisionStep
  <2>1. Device'
    BY <1>0, <1>13, DecisionType DEF DecisionStep
  <2> HIDE DEF CountOK, SyncOK, Tables, Memory, Device, Rest
  <2> QED
    BY <1>13, <1>e, <1>f, <1>q, <2>1 DEF DecisionStep
<1>14. CASE AnswerQuery \/ EndConnection
  <2>1. Device' /\ Memory'
    BY <1>0, <1>14, <1>d DEF AnswerQuery, EndConnection, Finish
  <2> HIDE DEF CountOK, SyncOK, Tables, Memory, Device, Rest
  <2> QED
    BY <1>14, <1>e, <1>f, <1>q, <2>1 DEF AnswerQuery, EndConnection, Finish
<1>15. CASE UNCHANGED vars
  <2> HIDE DEF CountOK, SyncOK, Tables, Memory, Device, Rest
  <2> QED
    BY <1>15, <1>e, <1>f, <1>q DEF vars, syncVars, tableVars
<1> HIDE DEF CountOK, SyncOK, Tables, Memory, Device, Rest
<1>16. ASSUME NEW d \in Domain, AskDNS(d) \/ AskSNI(d)
       PROVE  TypeOK' /\ SyncInv'
  BY <1>12, <1>16 DEF AskDNS, AskSNI, Via
<1>17. ASSUME NEW via \in MITM, NEW d \in Domain, AskMITM(via, d)
       PROVE  TypeOK' /\ SyncInv'
  BY <1>12, <1>17 DEF AskMITM, MITM, Via
<1>18. CASE FinishLoad("command") \/ FinishLoad("sync")
  BY <1>5, <1>18 DEF Loader
<1> QED
  BY <1>1, <1>2, <1>3, <1>4, <1>6, <1>8, <1>9, <1>10, <1>11, <1>13, <1>14,
     <1>15, <1>16, <1>17, <1>18 DEF Next, SyncStep

\* The variables of the filter stay in their types, and the sync loop never
\* counts more feeds than there are.
THEOREM TypeCorrect == Spec => [](TypeOK /\ SyncInv)
<1>1. Init => TypeOK /\ SyncInv
  <2> SUFFICES ASSUME Init PROVE TypeOK /\ SyncInv
    OBVIOUS
  <2>1. feed \in [Feed -> Content] /\ hash \in [Feed -> Content] /\ body \in Content
    BY DEF Init, NoRows, Content
  <2>2. rows \in [Domain -> Row]
    <3>1. Seed \in [Domain -> Category \union {Blank}]
      BY FilteringAssumption
    <3> QED
      BY <3>1 DEF Init, Row, Source, NoRow
  <2>3. /\ sync = "sleep" /\ current \in Feed /\ current = "threat_feeds"
        /\ changed = 0 /\ load \in [Loader -> List \union {NoList}]
        /\ load["sync"] = NoList
    BY DEF Init, Feed, Loader
  <2>4. list \in List /\ lists = {} /\ policies = {} /\ up \in BOOLEAN
    BY DEF Init, EmptyList, List
  <2>5. policy \in Policy /\ query \in Query
    BY DEF Init, Unknown, Policy, Query
  <2>6. ignored \in [Feed -> SUBSET Domain]
    BY DEF Init
  <2>7. /\ count \in [DOMAIN Bound -> Nat]
        /\ \A k \in DOMAIN Bound : count[k] <= Bound[k]
    <3>1. {MaxEdit, MaxSwap, MaxReload, MaxFault, MaxRestart, MaxAsk} \subseteq Nat
      BY FilteringAssumption
    <3> QED
      BY <3>1 DEF Init, Bound
  <2>8. TypeOK
    BY <2>1, <2>2, <2>3, <2>4, <2>5, <2>6, <2>7 DEF TypeOK
  <2>9. SyncInv
    BY <2>3 DEF SyncInv
  <2> QED
    BY <2>8, <2>9
<1>2. TypeOK /\ SyncInv /\ [Next]_vars => TypeOK' /\ SyncInv'
  BY TypeStep
<1> QED
  BY <1>1, <1>2, PTL DEF Spec

-----------------------------------------------------------------------------
(* The table and the hashes.                                                 *)

\* The steps that leave table, hashes and history of ignored rows alone.
Elsewhere == UNCHANGED tableVars

\* Only Apply with a commit writes the table.
LEMMA TableStep ==
  ASSUME [Next]_vars
  PROVE  Elsewhere \/ (sync = "apply" /\ ApplyFeed(current))
<1> USE DEF Elsewhere
<1>1. CASE Apply
  BY <1>1 DEF Apply, CompareAndApply
<1>2. CASE \E f \in Feed, d \in Domain, c \in Category \union {Blank, Absent} :
             EditFeed(f, d, c)
  BY <1>2 DEF EditFeed
<1>3. CASE \E p \in Policies : SwapPolicy(p)
  BY <1>3 DEF SwapPolicy
<1>4. CASE StartDNS \/ CommandReload \/ FinishLoad("command") \/ FinishLoad("sync")
  BY <1>4 DEF StartDNS, CommandReload, FinishLoad
<1>5. CASE Wake \/ Fetch \/ Reload \/ Restart
  BY <1>5 DEF Wake, Fetch, Reload, Restart
<1>6. CASE (\E d \in Domain : AskDNS(d) \/ AskSNI(d))
             \/ (\E via \in MITM, d \in Domain : AskMITM(via, d))
  BY <1>6 DEF AskDNS, AskSNI, AskMITM, Begin
<1>7. CASE DecisionStep \/ AnswerQuery \/ EndConnection
  BY <1>7 DEF DecisionStep, AnswerQuery, EndConnection, Finish
<1>8. CASE UNCHANGED vars
  BY <1>8 DEF vars, tableVars
<1> QED
  BY <1>1, <1>2, <1>3, <1>4, <1>5, <1>6, <1>7, <1>8 DEF Next, SyncStep

\* Where a domain's row comes from after a commit.
LEMMA Committed ==
  ASSUME rows \in [Domain -> Row], ignored \in [Feed -> SUBSET Domain],
         NEW f \in Feed, NEW d \in Domain, ApplyFeed(f)
  PROVE  /\ rows[d].source \notin {f, "none"} => rows'[d] = rows[d]
         /\ rows'[d].source \notin {f, "none"} => rows'[d] = rows[d]
         /\ rows'[d].source = f => /\ rows'[d].cat = Stored(f, body, d)
                                  /\ rows[d].source \in {f, "none"}
         /\ Stored(f, body, d) # Blank =>
              rows'[d].source = f \/ d \in ignored'[f]
<1> DEFINE kept == DeleteSource(f)
<1>0. f # "none" /\ f # "safeswitch-seed"
  BY DEF Feed
<1>1. rows' = InsertOrIgnore(f, body, kept)
  BY DEF ApplyFeed
<1>2. kept[d] = IF rows[d].source = f THEN NoRow ELSE rows[d]
  BY DEF DeleteSource
<1>3. rows'[d] = IF kept[d] = NoRow /\ Stored(f, body, d) # Blank
                   THEN [cat |-> Stored(f, body, d), source |-> f]
                   ELSE kept[d]
  BY <1>1 DEF InsertOrIgnore
<1>4. rows[d] \in Row
  OBVIOUS
<1>5. rows[d].source = "none" <=> rows[d] = NoRow
  BY <1>4 DEF Row, NoRow, Source, Feed
<1>6. NoRow.source = "none"
  BY DEF NoRow
<1>7. Stored(f, body, d) # Blank /\ kept[d] # NoRow => d \in ignored'[f]
  <2>1. ignored' = [ignored EXCEPT ![f] =
          {x \in Domain : Stored(f, body, x) # Blank /\ kept[x] # NoRow}]
    BY DEF ApplyFeed
  <2> QED
    BY <2>1
<1> HIDE DEF kept
<1> QED
  BY <1>0, <1>2, <1>3, <1>5, <1>6, <1>7

\* A commit keeps hash and table in step, also for the feed it is not about.
LEMMA CommitKeeps ==
  ASSUME TypeOK, HashMatchesTable, NEW f \in Feed, ApplyFeed(f)
  PROVE  HashMatchesTable'
<1> SUFFICES ASSUME NEW g \in Feed, NEW d \in Domain
             PROVE  /\ rows'[d].source = g => rows'[d].cat = Stored(g, hash'[g], d)
                    /\ Stored(g, hash'[g], d) # Blank =>
                         rows'[d].source = g \/ d \in ignored'[g]
  BY DEF HashMatchesTable, Stored
<1>1. g # "none" /\ f # "none"
  BY DEF Feed
<1>2. /\ rows \in [Domain -> Row] /\ ignored \in [Feed -> SUBSET Domain]
      /\ hash \in [Feed -> Content]
  BY DEF TypeOK
<1>3. /\ rows[d].source \notin {f, "none"} => rows'[d] = rows[d]
      /\ rows'[d].source \notin {f, "none"} => rows'[d] = rows[d]
      /\ rows'[d].source = f => rows'[d].cat = Stored(f, body, d)
      /\ Stored(f, body, d) # Blank => rows'[d].source = f \/ d \in ignored'[f]
  BY <1>2, Committed
<1>4. /\ hash' = [hash EXCEPT ![f] = body]
      /\ \E S : ignored' = [ignored EXCEPT ![f] = S]
  BY DEF ApplyFeed
<1>5. CASE g = f
  <2>1. hash'[g] = body
    BY <1>2, <1>4, <1>5
  <2> QED
    BY <1>3, <1>5, <2>1
<1>6. CASE g # f
  <2>1. hash'[g] = hash[g] /\ ignored'[g] = ignored[g]
    BY <1>2, <1>4, <1>6
  <2>2. /\ rows[d].source = g => rows[d].cat = Stored(g, hash[g], d)
        /\ Stored(g, hash[g], d) # Blank => rows[d].source = g \/ d \in ignored[g]
    BY DEF HashMatchesTable
  <2> QED
    BY <1>1, <1>3, <1>6, <2>1, <2>2
<1> QED
  BY <1>5, <1>6

\* The stored hash tells the truth about the table, for every content of the
\* feeds and wherever a transaction fails or the process ends.
THEOREM HashMatchesAlways == Spec => []HashMatchesTable
<1>1. Init => HashMatchesTable
  <2> SUFFICES ASSUME Init, NEW f \in Feed, NEW d \in Domain
               PROVE  rows[d].source # f /\ Stored(f, hash[f], d) = Blank
    BY DEF HashMatchesTable
  <2>1. rows[d].source \in {"none", "safeswitch-seed"}
    BY DEF Init, NoRow
  <2>2. hash[f][d] = Absent
    BY DEF Init, NoRows
  <2>3. Stored(f, hash[f], d) = Blank
    <3>1. Blank # Absent
      BY FilteringAssumption
    <3> QED
      BY <2>2, <3>1 DEF Stored
  <2> QED
    BY <2>1, <2>3 DEF Feed
<1>2. TypeOK /\ HashMatchesTable /\ [Next]_vars => HashMatchesTable'
  <2> SUFFICES ASSUME TypeOK, HashMatchesTable, [Next]_vars
               PROVE  HashMatchesTable'
    OBVIOUS
  <2>1. CASE Elsewhere
    BY <2>1 DEF Elsewhere, tableVars, HashMatchesTable, Stored
  <2>2. CASE ApplyFeed(current)
    BY <2>2, CommitKeeps DEF TypeOK
  <2> QED
    BY <2>1, <2>2, TableStep
<1> QED
  BY <1>1, <1>2, TypeCorrect, PTL DEF Spec

\* No step of the program touches a row that was put into the table by hand.
THEOREM SeedsAlwaysSurvive == Spec => SeedsSurvive
<1>1. TypeOK /\ [Next]_vars =>
        [\A d \in Domain :
           rows[d].source = "safeswitch-seed" => rows'[d] = rows[d]]_vars
  <2> SUFFICES ASSUME TypeOK, [Next]_vars, NEW d \in Domain,
                      rows[d].source = "safeswitch-seed"
               PROVE  rows'[d] = rows[d]
    OBVIOUS
  <2>1. CASE Elsewhere
    BY <2>1 DEF Elsewhere, tableVars
  <2>2. CASE ApplyFeed(current)
    <3>1. /\ rows \in [Domain -> Row] /\ ignored \in [Feed -> SUBSET Domain]
          /\ current \in Feed
      BY DEF TypeOK
    <3>2. rows[d].source \notin {current, "none"}
      BY <3>1 DEF Feed
    <3> QED
      BY <2>2, <3>1, <3>2, Committed
  <2> QED
    BY <2>1, <2>2, TableStep
<1> QED
  BY <1>1, TypeCorrect, PTL DEF Spec, SeedsSurvive

-----------------------------------------------------------------------------
(* Decisions.                                                                *)

\* A step that is not one of the decision adds to what was in force during it,
\* and the decision keeps what it has seen.
LEMMA OthersKeep ==
  ASSUME QueryInv, query' = query,
         query.pc # "idle" =>
           /\ lists \subseteq lists' /\ policies \subseteq policies'
           /\ list' \in lists' /\ policy' \in policies'
  PROVE  QueryInv'
<1>1. CASE query.pc = "idle"
  BY <1>1 DEF QueryInv, VerdictIsCurrent
<1>2. CASE query.pc # "idle"
  <2>1. /\ SawListed => SawListed'
        /\ SawUnlisted => SawUnlisted'
        /\ Unpaused => Unpaused'
    BY <1>2 DEF SawListed, SawUnlisted, Unpaused
  <2>2. VerdictIsCurrent'
    BY <1>2 DEF QueryInv, VerdictIsCurrent
  <2> QED
    BY <1>2, <2>1, <2>2 DEF QueryInv
<1> QED
  BY <1>1, <1>2

\* The steps of the cloud, the sync loop, the loaders and the process.
LEMMA OtherSteps ==
  ASSUME TypeOK, QueryInv,
         \/ \E f \in Feed, d \in Domain, c \in Category \union {Blank, Absent} :
              EditFeed(f, d, c)
         \/ \E p \in Policies : SwapPolicy(p)
         \/ StartDNS \/ CommandReload \/ FinishLoad("command") \/ SyncStep
         \/ UNCHANGED vars
  PROVE  QueryInv'
<1>1. query.pc = "idle" <=> query = Idle
  BY QueryShape DEF TypeOK
<1>2. query.pc # "idle" => list \in lists /\ policy \in policies
  BY DEF QueryInv
<1>3. CASE UNCHANGED <<list, policy, query, lists, policies>>
  BY <1>2, <1>3, OthersKeep
<1>4. CASE \E p \in Policies : SwapPolicy(p)
  BY <1>1, <1>2, <1>4, OthersKeep DEF SwapPolicy
<1>5. CASE StartDNS
  BY <1>1, <1>2, <1>5, OthersKeep DEF StartDNS, Publish
<1>6. ASSUME NEW l \in Loader, FinishLoad(l) PROVE QueryInv'
  BY <1>1, <1>2, <1>6, OthersKeep DEF FinishLoad, Publish
<1>7. CASE \/ \E f \in Feed, d \in Domain, c \in Category \union {Blank, Absent} :
                EditFeed(f, d, c)
           \/ CommandReload \/ Wake \/ Fetch \/ Apply \/ Reload \/ UNCHANGED vars
  <2>1. UNCHANGED <<list, policy, query, lists, policies>>
    BY <1>7 DEF EditFeed, CommandReload, Wake, Fetch, Apply, Reload, queryVars, vars
  <2> QED
    BY <1>3, <2>1
<1> QED
  BY <1>4, <1>5, <1>6, <1>7 DEF SyncStep, Loader

\* A verdict that a list, a pause and a set of categories in force give.
LEMMA Justified ==
  ASSUME NEW l \in lists, NEW p \in policies, NEW q \in policies,
         NEW v, Decide(v), UNCHANGED <<lists, policies>>,
         query.pc # "idle",
         list \in lists, policy \in policies, UNCHANGED <<list, policy>>,
         v = Verdict(query.via, l, p.paused, q.cats # {}, query.name)
  PROVE  QueryInv'
<1>1. query' = [pc |-> "decided", via |-> query.via, name |-> query.name,
                verdict |-> v]
  BY DEF Decide
<1>2. /\ query'.pc = "decided" /\ query'.via = query.via
      /\ query'.name = query.name /\ query'.verdict = v
  BY <1>1
<1>3. VerdictIsCurrent'
  BY <1>2 DEF VerdictIsCurrent
<1> QED
  BY <1>2, <1>3 DEF QueryInv

\* What Verdict says in the cases that come up.
LEMMA VerdictIs ==
  ASSUME NEW via \in Via, NEW l, NEW p, NEW cats, NEW d
  PROVE  LET v == Verdict(via, l, p.paused, cats # {}, d)
         IN /\ via \in {"dns", "sni"} /\ p.paused => v = "block"
            /\ via = "dns" /\ IsBlocked(l, d) => v = "block"
            /\ via \in {"dns", "sni"} /\ ~p.paused /\ ~IsBlocked(l, d) => v = "pass"
            /\ via = "sni" /\ IsBlocked(l, d) /\ cats # {} => v = "block"
            /\ via = "sni" /\ IsBlocked(l, d) /\ CategoryFor(l, d) \in Protective
                 => v = "block"
            /\ via = "sni" /\ ~p.paused /\ cats = {}
                 /\ CategoryFor(l, d) \notin Protective => v = "pass"
            /\ via = "connect" =>
                 v = IF IsBlocked(l, d) /\ d \notin Bypass THEN "block" ELSE "pass"
            /\ via = "http" => v = IF IsBlocked(l, d) THEN "block" ELSE "pass"
<1>2. via \in MITM <=> via \in {"connect", "http"}
  BY DEF MITM
<1>3. CASE via = "dns"
  BY <1>2, <1>3 DEF Verdict
<1>4. CASE via = "sni"
  BY <1>2, <1>4 DEF Verdict
<1>5. CASE via = "connect"
  BY <1>2, <1>5 DEF Verdict
<1>6. CASE via = "http"
  BY <1>2, <1>6 DEF Verdict
<1>7. via \in {"dns", "sni", "connect", "http"}
  BY DEF Via
<1> QED
  BY <1>3, <1>4, <1>5, <1>6, <1>7

\* Every step of a decision keeps what the verdict will rest on.
LEMMA DecisionKeeps ==
  ASSUME TypeOK, QueryInv, DecisionStep
  PROVE  QueryInv'
<1>1. query \in Query /\ UNCHANGED <<list, policy, lists, policies>>
  BY DEF TypeOK, DecisionStep
<1>2. ASSUME query.pc # "idle"
      PROVE  list \in lists /\ policy \in policies /\ query.via \in Via
  BY <1>1, <1>2, QueryShape DEF QueryInv
<1>3. CASE CheckPaused
  <2>1. query.pc = "paused" /\ query.via \in {"dns", "sni"}
    BY <1>3 DEF CheckPaused, At, QueryInv
  <2>2. CASE policy.paused
    <3>1. Decide("block")
      BY <1>3, <2>2 DEF CheckPaused
    <3>2. "block" = Verdict(query.via, list,
                   policy.paused, policy.cats # {}, query.name)
      BY <2>1, <2>2 DEF Verdict, MITM
    <3> QED
      BY <1>1, <1>2, <2>1, <3>1, <3>2, Justified
  <2>3. CASE ~policy.paused
    <3>1. query' = [pc |-> "blocked", via |-> query.via, name |-> query.name]
      BY <1>1, <1>3, <2>1, <2>3, GotoShape DEF CheckPaused
    <3>2. Unpaused'
      BY <1>1, <1>2, <2>1, <2>3 DEF Unpaused
    <3> QED
      BY <1>1, <1>2, <2>1, <3>1, <3>2 DEF QueryInv, VerdictIsCurrent
  <2> QED
    BY <2>2, <2>3
<1>4. CASE CheckBlocked
  <2>1. /\ query.pc = "blocked" /\ (query.via \in MITM \/ Unpaused)
        /\ list \in lists /\ policy \in policies /\ query.via \in Via
    BY <1>2, <1>4 DEF CheckBlocked, At, QueryInv
  <2> DEFINE blocked == IsBlocked(list, query.name)
  <2>2. ASSUME Goto("category"), blocked, query.via = "sni" PROVE QueryInv'
    <3>1. query' = [pc |-> "category", via |-> query.via, name |-> query.name]
      BY <1>1, <2>1, <2>2, GotoShape
    <3>2. SawListed' /\ Unpaused'
      BY <1>1, <2>1, <2>2, <3>1 DEF SawListed, Unpaused, MITM
    <3> QED
      BY <1>1, <2>1, <2>2, <3>1, <3>2 DEF QueryInv, VerdictIsCurrent
  <2>3. ASSUME Goto("cats"), ~blocked, query.via \in {"dns", "sni"} PROVE QueryInv'
    <3>1. query' = [pc |-> "cats", via |-> query.via, name |-> query.name]
      BY <1>1, <2>1, <2>3, GotoShape
    <3>2. SawUnlisted' /\ Unpaused'
      BY <1>1, <2>1, <2>3, <3>1 DEF SawUnlisted, Unpaused, MITM
    <3> QED
      BY <1>1, <2>1, <2>3, <3>1, <3>2 DEF QueryInv, VerdictIsCurrent
  <2>4. CASE query.via = "dns"
    <3>1. IF blocked THEN Decide("block") ELSE Goto("cats")
      BY <1>4, <2>4 DEF CheckBlocked, ResolverBlocked
    <3>2. blocked => "block" = Verdict(query.via, list,
                   policy.paused, policy.cats # {}, query.name)
      BY <2>1, <2>4, VerdictIs
    <3> QED
      BY <1>1, <2>1, <2>3, <2>4, <3>1, <3>2, Justified
  <2>5. CASE query.via = "sni"
    <3>1. IF blocked THEN Goto("category") ELSE Goto("cats")
      BY <1>4, <2>5 DEF CheckBlocked, SNIBlocked
    <3> QED
      BY <2>2, <2>3, <2>5, <3>1
  <2>6. CASE query.via \in {"connect", "http"}
    <3>1. PICK v : Decide(v) /\ v = Verdict(query.via, list,
                   policy.paused, policy.cats # {}, query.name)
      <4>1. CASE query.via = "connect"
        BY <1>4, <2>1, <4>1, VerdictIs DEF CheckBlocked, HandleConnect
      <4>2. CASE query.via = "http"
        BY <1>4, <2>1, <4>2, VerdictIs DEF CheckBlocked, HandleHTTP
      <4> QED
        BY <2>6, <4>1, <4>2
    <3> QED
      BY <1>1, <2>1, <3>1, Justified
  <2> QED
    BY <2>1, <2>4, <2>5, <2>6 DEF Via
<1>5. CASE ReadCategory
  <2>1. /\ query.pc = "category" /\ query.via = "sni" /\ SawListed /\ Unpaused
        /\ list \in lists /\ policy \in policies
    BY <1>2, <1>5 DEF ReadCategory, At, QueryInv, MITM
  <2>2. query' = [pc |-> "known", via |-> query.via, name |-> query.name,
                  cat |-> CategoryFor(list, query.name)]
    BY <1>5 DEF ReadCategory
  <2>3. /\ query'.pc = "known" /\ query'.via = "sni" /\ query'.name = query.name
        /\ query'.cat = CategoryFor(list, query.name)
    BY <2>1, <2>2
  <2>4. SawListed' /\ Unpaused'
    BY <1>1, <2>1, <2>3 DEF SawListed, Unpaused
  <2> QED
    BY <1>1, <2>1, <2>3, <2>4 DEF QueryInv, VerdictIsCurrent
<1>6. CASE CheckKnown
  <2>1. /\ query.pc = "known" /\ query.via = "sni" /\ SawListed /\ Unpaused
        /\ list \in lists /\ policy \in policies /\ query.via \in Via
        /\ query.name \in Domain /\ lists \subseteq List
        /\ \E l \in lists : query.cat = CategoryFor(l, query.name)
    BY <1>1, <1>2, <1>6, QueryShape DEF CheckKnown, At, QueryInv, MITM, TypeOK
  <2>2. PICK p \in policies : ~p.paused
    BY <2>1 DEF Unpaused
  <2>3. PICK l1 \in lists : IsBlocked(l1, query.name)
    BY <2>1 DEF SawListed
  <2>4. PICK l2 \in lists : query.cat = CategoryFor(l2, query.name)
    BY <2>1
  <2>5. CASE policy.cats # {}
    <3>1. Decide("block")
      BY <1>6, <2>5 DEF CheckKnown
    <3>2. "block" = Verdict(query.via, l1,
                   p.paused, policy.cats # {}, query.name)
      BY <2>1, <2>3, <2>5, VerdictIs
    <3> QED
      BY <1>1, <2>1, <3>1, <3>2, Justified
  <2>6. CASE policy.cats = {} /\ query.cat \in Protective
    <3>1. Decide("block")
      BY <1>6, <2>6 DEF CheckKnown
    <3>2. query.cat # Blank
      BY <2>6, FilteringAssumption
    <3>3. IsBlocked(l2, query.name)
      BY <2>1, <2>4, <3>2, CategoryForIs
    <3>4. "block" = Verdict(query.via, l2,
                   p.paused, policy.cats # {}, query.name)
      BY <2>1, <2>4, <2>6, <3>3, VerdictIs
    <3> QED
      BY <1>1, <2>1, <3>1, <3>4, Justified
  <2>7. CASE policy.cats = {} /\ query.cat \notin Protective
    <3>1. Decide("pass")
      BY <1>6, <2>7 DEF CheckKnown
    <3>2. "pass" = Verdict(query.via, l2,
                   p.paused, policy.cats # {}, query.name)
      BY <2>1, <2>2, <2>4, <2>7, VerdictIs
    <3> QED
      BY <1>1, <2>1, <3>1, <3>2, Justified
  <2> QED
    BY <2>5, <2>6, <2>7
<1>7. ASSUME query.pc \in {"cats", "incats"}
      PROVE  /\ query.via \in {"dns", "sni"} /\ query.via \in Via
             /\ list \in lists /\ policy \in policies
             /\ SawUnlisted /\ Unpaused
  BY <1>2, <1>7 DEF QueryInv, MITM
<1>8. ASSUME query.pc \in {"cats", "incats"}, Decide("pass") PROVE QueryInv'
  <2>1. PICK p \in policies : ~p.paused
    BY <1>7, <1>8 DEF Unpaused
  <2>2. PICK l \in lists : ~IsBlocked(l, query.name)
    BY <1>7, <1>8 DEF SawUnlisted
  <2>3. "pass" = Verdict(query.via, l,
                   p.paused, policy.cats # {}, query.name)
    BY <1>7, <1>8, <2>1, <2>2, VerdictIs
  <2> QED
    BY <1>1, <1>7, <1>8, <2>3, Justified
<1>9. CASE ReadCategories
  <2>1. query.pc = "cats"
    BY <1>9 DEF ReadCategories, At
  <2>2. CASE policy.cats = {}
    BY <1>8, <1>9, <2>1, <2>2 DEF ReadCategories
  <2>3. CASE policy.cats # {}
    <3>1. query' = [pc |-> "incats", via |-> query.via, name |-> query.name,
                    cats |-> policy.cats]
      BY <1>9, <2>3 DEF ReadCategories
    <3>2. /\ query'.pc = "incats" /\ query'.via = query.via
          /\ query'.name = query.name /\ query'.cats = policy.cats
      BY <3>1
    <3>3. SawUnlisted' /\ Unpaused'
      BY <1>1, <1>7, <2>1, <3>2 DEF SawUnlisted, Unpaused
    <3> QED
      BY <1>1, <1>7, <2>1, <2>3, <3>2, <3>3 DEF QueryInv, VerdictIsCurrent
  <2> QED
    BY <2>2, <2>3
<1>10. CASE CheckCategories
  <2>1. query.pc = "incats" /\ query.cats \in SUBSET Category
    BY <1>1, <1>10, QueryShape DEF CheckCategories, At
  <2>2. PICK q \in policies : query.cats = q.cats /\ q.cats # {}
    BY <2>1 DEF QueryInv
  <2>3. CASE IsBlockedForCategories(list, query.name, query.cats)
    <3>1. Decide("block")
      BY <1>10, <2>3 DEF CheckCategories
    <3>2. IsBlocked(list, query.name)
      BY <2>1, <2>3, InCategories
    <3>3. "block" = Verdict(query.via, list,
                   q.paused, q.cats # {}, query.name)
      BY <1>7, <2>1, <2>2, <3>2, VerdictIs
    <3> QED
      BY <1>1, <1>7, <2>1, <3>1, <3>3, Justified
  <2>4. CASE ~IsBlockedForCategories(list, query.name, query.cats)
    BY <1>8, <1>10, <2>1, <2>4 DEF CheckCategories
  <2> QED
    BY <2>3, <2>4
<1> QED
  BY <1>3, <1>4, <1>5, <1>6, <1>9, <1>10 DEF DecisionStep

\* However often list and policy are replaced while a decision is made, its
\* verdict is that of a list, a pause and a set of categories in force meanwhile.
THEOREM VerdictAlwaysCurrent == Spec => []VerdictIsCurrent
<1>1. Init => QueryInv
  BY DEF Init, Idle, QueryInv, VerdictIsCurrent
<1>2. TypeOK /\ QueryInv /\ [Next]_vars => QueryInv'
  <2> SUFFICES ASSUME TypeOK, QueryInv, [Next]_vars PROVE QueryInv'
    OBVIOUS
  <2>1. ASSUME NEW via, NEW d, NEW pc, Begin(via, d, pc),
               \/ via \in {"dns", "sni"} /\ pc = "paused"
               \/ via \in MITM /\ pc = "blocked"
        PROVE  QueryInv'
    <3>1. /\ query' = [pc |-> pc, via |-> via, name |-> d]
          /\ lists' = {list} /\ policies' = {policy} /\ UNCHANGED <<list, policy>>
      BY <2>1 DEF Begin
    <3>2. query'.pc = pc /\ query'.via = via
      BY <3>1
    <3> QED
      BY <2>1, <3>1, <3>2 DEF QueryInv, VerdictIsCurrent
  <2>2. CASE Restart \/ AnswerQuery \/ EndConnection
    <3>1. query'.pc = "idle"
      BY <2>2 DEF Restart, AnswerQuery, EndConnection, Finish, Idle
    <3> QED
      BY <3>1 DEF QueryInv, VerdictIsCurrent
  <2>3. CASE \E d \in Domain : AskDNS(d) \/ AskSNI(d)
    BY <2>1, <2>3 DEF AskDNS, AskSNI
  <2>4. CASE \E via \in MITM, d \in Domain : AskMITM(via, d)
    BY <2>1, <2>4 DEF AskMITM
  <2>5. CASE DecisionStep
    BY <2>5, DecisionKeeps
  <2> QED
    BY <2>2, <2>3, <2>4, <2>5, OtherSteps DEF Next
<1>3. QueryInv => VerdictIsCurrent
  BY DEF QueryInv
<1> QED
  BY <1>1, <1>2, <1>3, TypeCorrect, PTL DEF Spec
=============================================================================
