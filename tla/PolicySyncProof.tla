-------------------------- MODULE PolicySyncProof ----------------------------
(***************************************************************************)
(* Theorems about PolicySync for any number of workers, revisions, process *)
(* restarts and failing statements.                                        *)
(***************************************************************************)
EXTENDS PolicySync, TLAPS

Pc == {"idle", "compare", "write", "publish", "callback", "done"}

\* The part of TypeOK about the goroutines, on which the swap depends.
LocalsOK ==
  /\ pc \in [Threads -> Pc]
  /\ held \in [Threads -> Bundles]
  /\ \A t \in Threads : held[t] = None <=> pc[t] \in {"idle", "done"}

\* The rest of it.
SharedOK ==
  /\ cloud \in 0 .. MaxRev
  /\ expired \subseteq Rev
  /\ commands \subseteq Rev
  /\ db \in Bundles
  /\ mem \in Bundles
  /\ crashes \in 0 .. MaxCrash
  /\ dbFaults \in 0 .. MaxDbFault

FlagsOK ==
  /\ rows \in BOOLEAN /\ cooling \in BOOLEAN
  /\ overlap \in BOOLEAN /\ raced \in BOOLEAN

LEMMA TypeParts == TypeOK <=> LocalsOK /\ SharedOK /\ FlagsOK
  BY Zenon DEF TypeOK, LocalsOK, SharedOK, FlagsOK, Pc

LEMMA Members == /\ Fetcher \in Threads /\ Enforcement \in Threads
                 /\ Seeder \in Threads
                 /\ \A w \in Workers : w \in Threads
                 /\ Bootstrap \in Bundles /\ None \in Bundles
                 /\ Bootstrap # None
                 /\ \A r \in Rev : /\ Full(r) \in Bundles /\ Full(r) # None
                                  /\ Partial(r) \in Bundles /\ Partial(r) # None
  BY BoundAssumption DEF Threads, Bundles, Bootstrap, None, Rev, Full, Partial

LEMMA LocalsStep ==
  TypeOK /\ [Next]_vars => LocalsOK'
<1> SUFFICES ASSUME TypeOK, [Next]_vars PROVE LocalsOK'
  OBVIOUS
<1> USE TypeParts, Members DEF LocalsOK, Pc
<1>1. ASSUME NEW t \in Threads, GetBundle(t) PROVE LocalsOK'
  <2>1. cloud \in Rev
    BY <1>1, BoundAssumption DEF GetBundle, SharedOK, Rev
  <2> QED BY <1>1, <2>1 DEF GetBundle
<1>2. ASSUME NEW t \in Threads, Return(t) PROVE LocalsOK'
  BY <1>2 DEF Return
<1>3. CASE UNCHANGED <<pc, held>>
  BY <1>3
<1>4. CASE FetchTick
  BY <1>4, <1>1 DEF FetchTick
<1>5. CASE EnforcementPoll
  BY <1>5, <1>1, <1>3 DEF EnforcementPoll
<1>6. ASSUME NEW w \in Workers, UpdatePolicy(w) PROVE LocalsOK'
  BY <1>6 DEF UpdatePolicy, SharedOK
<1>7. CASE SeedCheck
  BY <1>7 DEF SeedCheck
<1>8. ASSUME NEW t \in Threads, SwapStep(t) PROVE LocalsOK'
  <2>1. CASE Compare(t)
    BY <2>1, <1>2 DEF Compare
  <2>2. CASE WriteRow(t)
    BY <2>2, <1>2 DEF WriteRow
  <2>3. CASE Publish(t)
    BY <2>3 DEF Publish
  <2>4. CASE CallbackReturns(t)
    BY <2>4, <1>2 DEF CallbackReturns
  <2> QED BY <1>8, <2>1, <2>2, <2>3, <2>4 DEF SwapStep
<1>9. CASE Restart
  BY <1>9 DEF Restart
<1>10. CASE Edit \/ (\E r \in Rev : Expire(r)) \/ CooldownEnds \/ UNCHANGED vars
  BY <1>10, <1>3 DEF Edit, Expire, CooldownEnds, vars
<1> QED
  BY <1>4, <1>5, <1>6, <1>7, <1>8, <1>9, <1>10 DEF Next

LEMMA SharedStep ==
  TypeOK /\ [Next]_vars => SharedOK'
<1> SUFFICES ASSUME TypeOK, [Next]_vars PROVE SharedOK'
  OBVIOUS
<1> USE TypeParts, BoundAssumption DEF SharedOK, Rev, cloudVars, nodeVars, history
<1>1. CASE Edit
  BY <1>1 DEF Edit
<1>2. ASSUME NEW r \in Rev, Expire(r) PROVE SharedOK'
  BY <1>2 DEF Expire
<1>3. CASE FetchTick \/ EnforcementPoll \/ CooldownEnds \/ SeedCheck
  BY <1>3 DEF FetchTick, EnforcementPoll, CooldownEnds, SeedCheck
<1>4. ASSUME NEW w \in Workers, UpdatePolicy(w) PROVE SharedOK'
  BY <1>4 DEF UpdatePolicy
<1>5. ASSUME NEW t \in Threads, SwapStep(t) PROVE SharedOK'
  <2>1. held[t] \in Bundles
    BY DEF LocalsOK
  <2>2. CASE Compare(t) \/ CallbackReturns(t)
    BY <2>2 DEF Compare, CallbackReturns
  <2>3. CASE WriteRow(t)
    BY <2>1, <2>3 DEF WriteRow
  <2>4. CASE Publish(t)
    BY <2>1, <2>4 DEF Publish
  <2> QED BY <1>5, <2>2, <2>3, <2>4 DEF SwapStep
<1>6. CASE Restart
  BY <1>6 DEF Restart
<1>7. CASE UNCHANGED vars
  BY <1>7 DEF vars
<1> QED
  BY <1>1, <1>2, <1>3, <1>4, <1>5, <1>6, <1>7 DEF Next

LEMMA FlagsStep ==
  TypeOK /\ [Next]_vars => FlagsOK'
<1> SUFFICES ASSUME TypeOK, [Next]_vars PROVE FlagsOK'
  OBVIOUS
<1>1. FlagsOK
  BY TypeParts
<1>2. rows' \in BOOLEAN
  BY <1>1, Zenon DEF FlagsOK, Next, Edit, Expire, FetchTick, EnforcementPoll,
     CooldownEnds, UpdatePolicy, SeedCheck, SwapStep, Compare, WriteRow, Publish,
     CallbackReturns, Restart, cloudVars, vars
<1>3. ASSUME NEW t, Return(t) PROVE cooling' \in BOOLEAN
  BY <1>1, <1>3, Zenon DEF Return, FlagsOK
<1>4. cooling' \in BOOLEAN
  BY <1>1, <1>3, Zenon DEF FlagsOK, Next, Edit, Expire, FetchTick, EnforcementPoll,
     CooldownEnds, UpdatePolicy, SeedCheck, SwapStep, Compare, WriteRow, Publish,
     CallbackReturns, Restart, nodeVars, vars
<1>5. overlap' \in BOOLEAN
  BY <1>1, Zenon DEF FlagsOK, Next, Edit, Expire, FetchTick, EnforcementPoll,
     CooldownEnds, UpdatePolicy, SeedCheck, SwapStep, Compare, WriteRow, Publish,
     CallbackReturns, Restart, nodeVars, vars
<1>6. raced' \in BOOLEAN
  BY <1>1, Zenon DEF FlagsOK, Next, Edit, Expire, FetchTick, EnforcementPoll,
     CooldownEnds, UpdatePolicy, SeedCheck, SwapStep, Compare, WriteRow, Publish,
     CallbackReturns, Restart, nodeVars, vars
<1> QED BY <1>2, <1>4, <1>5, <1>6, Zenon DEF FlagsOK

\* Every value a goroutine holds or publishes is a bundle, and one between two
\* swaps holds none.
THEOREM TypeCorrect == Spec => []TypeOK
<1>1. Init => TypeOK
  <2> SUFFICES ASSUME Init PROVE TypeOK
    OBVIOUS
  <2>1. LocalsOK
    BY Members DEF Init, LocalsOK, Pc
  <2>2. SharedOK
    BY BoundAssumption, Members DEF Init, SharedOK
  <2>3. FlagsOK
    BY Zenon DEF Init, FlagsOK
  <2> QED BY <2>1, <2>2, <2>3, TypeParts
<1>2. TypeOK /\ [Next]_vars => TypeOK'
  <2>1. LocalsOK' /\ SharedOK' /\ FlagsOK' => TypeOK'
    BY TypeParts, PTL
  <2> QED BY <2>1, LocalsStep, SharedStep, FlagsStep
<1> QED BY <1>1, <1>2, PTL DEF Spec

-----------------------------------------------------------------------------
\* Only the seeder swaps the bootstrap bundle in.
Owners ==
  /\ held[Seeder] \in {None, Bootstrap}
  /\ \A t \in Threads \ {Seeder} : held[t] # None => Real(held[t])

\* What MemBacked needs: the row is written before a bundle is published, the row
\* of a policy about to be published is a policy's, and a bootstrap bundle about
\* to be published next to a policy has raced.
Backed ==
  /\ MemBacked
  /\ Publishing # {} => db # None
  /\ Publishing \ {Seeder} # {} => Real(db) \/ raced
  /\ Seeder \in Publishing /\ (Real(mem) \/ Publishing # {Seeder}) => raced

\* What a step does to the row, to the memory and to the swaps in progress.
LEMMA StepShape ==
  ASSUME TypeOK, [Next]_vars
  PROVE  \/ /\ UNCHANGED <<db, mem, overlap, raced>>
            /\ Publishing' = Publishing
            /\ \A t \in Publishing : held'[t] = held[t]
         \/ \E t \in Threads :
              /\ pc[t] = "write" /\ db' = held[t] /\ UNCHANGED <<mem, held>>
              /\ Publishing' = Publishing \union {t}
              /\ overlap' = (overlap \/ Publishing # {})
              /\ raced' = (raced \/ MeetsSeeding(t))
         \/ \E t \in Publishing :
              /\ mem' = held[t] /\ UNCHANGED <<db, held, overlap, raced>>
              /\ Publishing' = Publishing \ {t}
         \/ /\ mem' = db /\ UNCHANGED db /\ overlap' = FALSE
            /\ raced' = FALSE
            /\ Publishing' = {}
<1> USE TypeParts, Members DEF LocalsOK, Publishing, cloudVars, nodeVars, history
<1> DEFINE Quiet == /\ UNCHANGED <<db, mem, overlap, raced>>
                    /\ Publishing' = Publishing
                    /\ \A t \in Publishing : held'[t] = held[t]
<1>1. ASSUME NEW t \in Threads, GetBundle(t)
      PROVE  Publishing' = Publishing /\ \A u \in Publishing : held'[u] = held[u]
  BY <1>1 DEF GetBundle
<1>2. ASSUME NEW t \in Threads, Return(t), pc[t] # "publish"
      PROVE  Publishing' = Publishing /\ \A u \in Publishing : held'[u] = held[u]
  BY <1>2 DEF Return
<1>3. CASE Edit \/ (\E r \in Rev : Expire(r)) \/ CooldownEnds \/ UNCHANGED vars
  <2>1. Quiet
    BY <1>3 DEF Edit, Expire, CooldownEnds, vars
  <2> QED BY <2>1
<1>4. CASE FetchTick \/ EnforcementPoll
  <2>1. Quiet
    BY <1>4, <1>1 DEF FetchTick, EnforcementPoll
  <2> QED BY <2>1
<1>5. ASSUME NEW w \in Workers, UpdatePolicy(w) PROVE Quiet
  BY <1>5 DEF UpdatePolicy
<1>6. CASE SeedCheck
  <2>1. Quiet
    BY <1>6 DEF SeedCheck
  <2> QED BY <2>1
<1>7. ASSUME NEW t \in Threads, Compare(t) \/ CallbackReturns(t) PROVE Quiet
  BY <1>7, <1>2 DEF Compare, CallbackReturns
<1>8. ASSUME NEW t \in Threads, WriteRow(t)
      PROVE  \/ Quiet
             \/ /\ pc[t] = "write" /\ db' = held[t] /\ UNCHANGED <<mem, held>>
                /\ Publishing' = Publishing \union {t}
                /\ overlap' = (overlap \/ Publishing # {})
                /\ raced' = (raced \/ MeetsSeeding(t))
  BY <1>8, <1>2 DEF WriteRow
<1>9. ASSUME NEW t \in Threads, Publish(t)
      PROVE  /\ t \in Publishing
             /\ mem' = held[t] /\ UNCHANGED <<db, held, overlap, raced>>
             /\ Publishing' = Publishing \ {t}
  BY <1>9 DEF Publish
<1>10. CASE Restart
  BY <1>10 DEF Restart
<1>11. CASE \E w \in Workers : UpdatePolicy(w)
  <2>1. Quiet
    BY <1>5, <1>11
  <2> QED BY <2>1
<1>12. CASE \E t \in Threads : SwapStep(t)
  <2>1. PICK t \in Threads : SwapStep(t)
    BY <1>12
  <2>2. CASE Compare(t) \/ CallbackReturns(t)
    <3>1. Quiet
      BY <1>7, <2>2
    <3> QED BY <3>1
  <2>3. CASE WriteRow(t)
    BY <1>8, <2>3
  <2>4. CASE Publish(t)
    BY <1>9, <2>4
  <2> QED BY <2>1, <2>2, <2>3, <2>4 DEF SwapStep
<1> QED BY <1>3, <1>4, <1>6, <1>10, <1>11, <1>12 DEF Next

\* A swap in progress holds a bundle.
LEMMA HeldIsBundle ==
  ASSUME TypeOK, NEW t \in Threads, pc[t] \in {"write", "publish"}
  PROVE  held[t] # None
  BY TypeParts DEF LocalsOK

LEMMA Kinds == /\ ~Real(Bootstrap) /\ ~Real(None)
               /\ \A r \in Rev : Real(Full(r)) /\ Real(Partial(r))
  BY BoundAssumption DEF Real, revision, Bootstrap, None, Full, Partial, Rev

LEMMA OwnersStep == TypeOK /\ Owners /\ [Next]_vars => Owners'
<1> SUFFICES ASSUME TypeOK, Owners, [Next]_vars PROVE Owners'
  OBVIOUS
<1> USE TypeParts, Members, Kinds, ThreadAssumption DEF Owners, LocalsOK
<1>1. ASSUME NEW t \in Threads \ {Seeder}, GetBundle(t) PROVE Owners'
  <2>1. cloud \in Rev
    BY <1>1, BoundAssumption DEF GetBundle, SharedOK, Rev
  <2> QED BY <1>1, <2>1 DEF GetBundle
<1>2. ASSUME NEW t \in Threads, Return(t) PROVE Owners'
  BY <1>2 DEF Return
<1>3. CASE UNCHANGED held
  BY <1>3
<1>4. CASE FetchTick
  BY <1>4, <1>1 DEF FetchTick
<1>5. CASE EnforcementPoll
  BY <1>5, <1>1, <1>3 DEF EnforcementPoll
<1>6. ASSUME NEW w \in Workers, UpdatePolicy(w) PROVE Owners'
  BY <1>6 DEF UpdatePolicy, SharedOK
<1>7. CASE SeedCheck
  BY <1>7 DEF SeedCheck
<1>8. ASSUME NEW t \in Threads, SwapStep(t) PROVE Owners'
  BY <1>8, <1>2, <1>3 DEF SwapStep, Compare, WriteRow, Publish, CallbackReturns
<1>9. CASE Restart
  BY <1>9 DEF Restart
<1>10. CASE Edit \/ (\E r \in Rev : Expire(r)) \/ CooldownEnds \/ UNCHANGED vars
  BY <1>10, <1>3 DEF Edit, Expire, CooldownEnds, vars
<1> QED
  BY <1>4, <1>5, <1>6, <1>7, <1>8, <1>9, <1>10 DEF Next

\* What a goroutine with a swap in progress is about to publish.
LEMMA Swapped ==
  ASSUME TypeOK, Owners, NEW t \in Threads, pc[t] \in {"write", "publish"}
  PROVE  /\ held[t] # None
         /\ t = Seeder => ~Real(held[t])
         /\ t # Seeder => Real(held[t])
  BY HeldIsBundle, Kinds DEF Owners

LEMMA BackedStep == TypeOK /\ Owners /\ Backed /\ [Next]_vars => Backed'
<1> SUFFICES ASSUME TypeOK, Owners, Backed, [Next]_vars PROVE Backed'
  OBVIOUS
<1> USE DEF Backed, MemBacked
<1>1. CASE UNCHANGED <<db, mem, overlap, raced>> /\ Publishing' = Publishing
  BY <1>1 DEF Real, revision
<1>2. ASSUME NEW t \in Threads, pc[t] = "write", db' = held[t],
             UNCHANGED <<mem, held>>, Publishing' = Publishing \union {t},
             raced' = (raced \/ MeetsSeeding(t))
      PROVE  Backed'
  <2>1. CASE t = Seeder
    <3>1. CASE Real(mem) \/ Publishing # {}
      BY <1>2, <2>1, <3>1, Swapped DEF MeetsSeeding, Real, revision
    <3>2. CASE ~Real(mem) /\ Publishing = {}
      BY <1>2, <2>1, <3>2, Swapped DEF Real, revision
    <3> QED BY <3>1, <3>2
  <2>2. CASE t # Seeder
    <3>1. db' # None /\ Real(db')
      BY <1>2, <2>2, Swapped
    <3>2. Seeder \in Publishing' => raced'
      BY <1>2, <2>2 DEF MeetsSeeding
    <3> QED BY <3>1, <3>2, <1>2 DEF Real, revision
  <2> QED BY <2>1, <2>2
<1>3. ASSUME NEW t \in Publishing, mem' = held[t], UNCHANGED <<db, held, raced>>,
             Publishing' = Publishing \ {t}
      PROVE  Backed'
  <2>1. t \in Threads /\ pc[t] = "publish"
    BY DEF Publishing
  <2>2. CASE t = Seeder
    BY <1>3, <2>1, <2>2, Swapped DEF Real, revision
  <2>3. CASE t # Seeder
    BY <1>3, <2>1, <2>3, Swapped DEF Real, revision
  <2> QED BY <2>2, <2>3
<1>4. CASE mem' = db /\ UNCHANGED db /\ Publishing' = {}
  BY <1>4 DEF Real, revision
<1> QED BY StepShape, <1>1, <1>2, <1>3, <1>4

LEMMA BackedAlways == Spec => [](TypeOK /\ Owners /\ Backed)
<1>1. Init => Owners /\ Backed
  BY Members, Kinds DEF Init, Owners, Backed, MemBacked, Publishing
<1> QED BY <1>1, OwnersStep, BackedStep, TypeCorrect, PTL DEF Spec

\* SwapBundle writes the row before the memory: what a restart would load is
\* never missing while a bundle is active, and it is a policy of the cloud while
\* one is active, unless the bootstrap swap has raced with a fetch.
THEOREM PolicyIsStored == Spec => []MemBacked
<1>1. Backed => MemBacked
  BY DEF Backed
<1> QED BY <1>1, BackedAlways, PTL

\* Once the node has a bundle, no swap, failure or restart leaves it without; once
\* it has a policy of the cloud, none puts the bootstrap bundle in its place,
\* unless the bootstrap swap has raced with a fetch.
THEOREM PolicyIsNeverLost == Spec => PolicyNeverLost
<1>1. TypeOK /\ Owners /\ Backed /\ [Next]_vars
        => [/\ mem # None => mem' # None
            /\ Real(mem) => Real(mem') \/ raced]_vars
  <2> SUFFICES ASSUME TypeOK, Owners, Backed, [Next]_vars
               PROVE  /\ mem # None => mem' # None
                      /\ Real(mem) => Real(mem') \/ raced
    OBVIOUS
  <2>1. CASE UNCHANGED mem
    BY <2>1 DEF Real, revision
  <2>2. ASSUME NEW t \in Publishing, mem' = held[t]
        PROVE  mem' # None /\ (Real(mem) => Real(mem') \/ raced)
    <3>1. t \in Threads /\ pc[t] = "publish"
      BY DEF Publishing
    <3> QED BY <2>2, <3>1, Swapped DEF Backed, Real, revision
  <2>3. CASE mem' = db
    BY <2>3 DEF Backed, MemBacked, Real, revision
  <2> QED BY StepShape, <2>1, <2>2, <2>3
<1> QED BY <1>1, BackedAlways, PTL DEF Spec, PolicyNeverLost

\* The row and the memory agree whenever no two swaps have overlapped and none is
\* between its upsert and its assignment.
THEOREM RowIsExact == Spec => []CacheExact
<1>1. Init => CacheExact
  BY DEF Init, CacheExact, Publishing
<1>2. TypeOK /\ CacheExact /\ [Next]_vars => CacheExact'
  <2> SUFFICES ASSUME TypeOK, CacheExact, [Next]_vars, ~overlap'
               PROVE  /\ Publishing' = {} => db' = mem'
                      /\ \A t \in Publishing' : db' = held'[t]
                      /\ \A t, u \in Publishing' : t = u
    BY DEF CacheExact
  <2> QED BY StepShape DEF CacheExact
<1> QED BY <1>1, <1>2, TypeCorrect, PTL DEF Spec
=============================================================================
