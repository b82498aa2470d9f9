----------------------------- MODULE PolicySync ------------------------------
(***************************************************************************)
(* How a policy bundle of the cloud becomes the policy of the node.        *)
(*                                                                         *)
(* policy/runtime.go keeps the active bundle twice, in the SQLite table    *)
(* active_policy_bundle and in memory, and SwapBundle writes the one, then *)
(* the other, then calls onSwap (whose effects on the firewall and the     *)
(* tunnel are the subject of FirewallChain and TunnelSync).  Four kinds of *)
(* goroutine swap without a common lock: the 30-second fetch, the fetch    *)
(* that enforcement rows trigger, the update_policy command (several       *)
(* workers at once) and the seeding of a bootstrap bundle on the first     *)
(* command poll.                                                           *)
(*                                                                         *)
(* A bundle is abstracted to its revision in the cloud, which is what      *)
(* fetchBundle's change detection sees of it (version, child count and     *)
(* expiry), and to whether it is complete: update_policy builds its bundle *)
(* without emergency domains and allowed services.                         *)
(***************************************************************************)
EXTENDS Integers, FiniteSets

CONSTANTS
  Workers,       \* command workers that can run update_policy concurrently
  Fetcher,       \* the goroutine runBundleFetch
  Enforcement,   \* the goroutine runEnforcementSync
  Seeder,        \* seedBootstrapBundle, on the first tick of runCommandPoll
  MaxRev,        \* bound: revisions the cloud publishes
  MaxCrash,      \* bound: process restarts
  MaxDbFault     \* bound: failing SQL upserts

Threads == Workers \union {Fetcher, Enforcement, Seeder}

ASSUME ThreadAssumption ==
  /\ Fetcher \notin Workers \union {Enforcement, Seeder}
  /\ Enforcement \notin Workers \union {Seeder}
  /\ Seeder \notin Workers

ASSUME BoundAssumption == MaxRev \in Nat /\ MaxCrash \in Nat /\ MaxDbFault \in Nat

Rev == 1 .. MaxRev
Full(r) == <<r, "full">>
Partial(r) == <<r, "partial">>
None == Full(-1)
Bootstrap == Full(0)
Bundles == {None, Bootstrap} \union (Rev \X {"full", "partial"})
revision(bundle) == bundle[1]

\* A policy of the cloud: neither none nor the bootstrap bundle.
Real(bundle) == revision(bundle) > 0

VARIABLES
  cloud,      \* latest revision in the cloud, 0 before the first
  expired,    \* revisions whose ExpiresAt has passed
  commands,   \* update_policy commands waiting in the ledger, by revision
  rows,       \* enforcement rows wait in the cloud
  cooling,    \* less than bundleCooldown since enforcementsync's last fetch
  db,         \* the row of active_policy_bundle
  mem,        \* Runtime.active
  pc,         \* where each goroutine is
  held,       \* the bundle each goroutine is swapping in, None between swaps
  overlap,    \* history: two swaps overlapped since the last start
  raced,      \* history: the bootstrap swap met a policy since the last start
  crashes,    \* history
  dbFaults    \* history

vars == <<cloud, expired, commands, rows, cooling, db, mem, pc, held,
          overlap, raced, crashes, dbFaults>>

cloudVars == <<cloud, expired, commands, rows>>
nodeVars == <<cooling, db, mem, overlap, raced>>
history == <<crashes, dbFaults>>

TypeOK ==
  /\ cloud \in 0 .. MaxRev
  /\ expired \subseteq Rev
  /\ commands \subseteq Rev
  /\ rows \in BOOLEAN
  /\ cooling \in BOOLEAN
  /\ db \in Bundles
  /\ mem \in Bundles
  /\ pc \in [Threads -> {"idle", "compare", "write", "publish",
                         "callback", "done"}]
  /\ held \in [Threads -> Bundles]
  /\ \A t \in Threads : held[t] = None <=> pc[t] \in {"idle", "done"}
  /\ overlap \in BOOLEAN
  /\ raced \in BOOLEAN
  /\ crashes \in 0 .. MaxCrash
  /\ dbFaults \in 0 .. MaxDbFault

Init ==
  /\ cloud = 0 /\ expired = {} /\ commands = {} /\ rows = FALSE
  /\ cooling = FALSE
  /\ db = None /\ mem = None
  /\ pc = [t \in Threads |-> "idle"]
  /\ held = [t \in Threads |-> None]
  /\ overlap = FALSE /\ raced = FALSE
  /\ crashes = 0 /\ dbFaults = 0

-----------------------------------------------------------------------------
(* The cloud (external).                                                    *)

\* A parent changes the policy: a new revision, with or without an update_policy
\* command and an enforcement row that announce it.
Edit ==
  /\ cloud < MaxRev
  /\ cloud' = cloud + 1
  /\ commands' \in {commands, commands \union {cloud + 1}}
  /\ rows' \in {rows, TRUE}
  /\ UNCHANGED <<expired, nodeVars, pc, held, history>>

Expire(r) ==
  /\ r <= cloud /\ r \notin expired
  /\ expired' = expired \union {r}
  /\ UNCHANGED <<cloud, commands, rows, nodeVars, pc, held, history>>

-----------------------------------------------------------------------------
(* fetchBundle, by the two goroutines that call it.                         *)

\* The GET answers within its retries.  Before the first revision the response
\* has no version and is dropped.
GetBundle(t) ==
  /\ pc[t] = "idle"
  /\ cloud > 0
  /\ pc' = [pc EXCEPT ![t] = "compare"]
  /\ held' = [held EXCEPT ![t] = Full(cloud)]

FetchTick ==
  /\ GetBundle(Fetcher)
  /\ UNCHANGED <<cloudVars, nodeVars, history>>

\* pollAndEnforce: the cloud hands its rows over and forgets them.  They may be
\* lost with the response, be duplicates, or meet the cooldown; otherwise the
\* bundle is fetched, and a fetch that fails starts the cooldown too.
EnforcementPoll ==
  /\ rows /\ pc[Enforcement] = "idle"
  /\ rows' = FALSE
  /\ \/ UNCHANGED <<pc, held, cooling>>
     \/ ~cooling /\ GetBundle(Enforcement) /\ UNCHANGED cooling
     \/ ~cooling /\ cooling' = TRUE /\ UNCHANGED <<pc, held>>
  /\ UNCHANGED <<cloud, expired, commands, db, mem, overlap, raced, history>>

CooldownEnds ==
  /\ cooling
  /\ cooling' = FALSE
  /\ UNCHANGED <<cloudVars, db, mem, pc, held, overlap, raced, history>>

\* What a goroutine does after its last step: enforcementsync starts the
\* cooldown, the seeder never runs again.
Return(t) ==
  /\ pc' = [pc EXCEPT ![t] = IF t = Seeder THEN "done" ELSE "idle"]
  /\ held' = [held EXCEPT ![t] = None]
  /\ cooling' = (cooling \/ t = Enforcement)

\* Faulty variant: any active bundle will do.
BugKeepsActive(t) == mem # None

\* Change detection: the fetched bundle equals the one in memory.
SameAsActive(t) == revision(mem) = revision(held[t])

\* Expiry protection, then change detection.
Compare(t) ==
  /\ pc[t] = "compare"
  /\ IF revision(held[t]) \in expired \/ SameAsActive(t)
       THEN Return(t)
       ELSE pc' = [pc EXCEPT ![t] = "write"] /\ UNCHANGED <<held, cooling>>
  /\ UNCHANGED <<cloudVars, db, mem, overlap, raced, history>>

-----------------------------------------------------------------------------
(* The other callers of SwapBundle.                                         *)

\* The update_policy handler takes the bundle out of its payload and swaps it
\* in, without looking at expiry or at the active bundle.  Commands are drained
\* by the goroutine that seeds, after it has seeded.
UpdatePolicy(w) ==
  /\ pc[Seeder] = "done" /\ pc[w] = "idle"
  /\ \E r \in commands :
       /\ commands' = commands \ {r}
       /\ held' = [held EXCEPT ![w] = Partial(r)]
  /\ pc' = [pc EXCEPT ![w] = "write"]
  /\ UNCHANGED <<cloud, expired, rows, nodeVars, history>>

\* seedBootstrapBundle: ActiveBundle is asked, then the bundle is swapped in.
SeedCheck ==
  /\ pc[Seeder] = "idle"
  /\ IF mem = None
       THEN /\ pc' = [pc EXCEPT ![Seeder] = "write"]
            /\ held' = [held EXCEPT ![Seeder] = Bootstrap]
       ELSE /\ pc' = [pc EXCEPT ![Seeder] = "done"]
            /\ UNCHANGED held
  /\ UNCHANGED <<cloudVars, nodeVars, history>>

-----------------------------------------------------------------------------
(* SwapBundle.                                                              *)

Publishing == {t \in Threads : pc[t] = "publish"}

\* seedBootstrapBundle's check is stale: its upsert comes after that of a policy
\* that memory has or is about to get, or before a policy's but unpublished.
MeetsSeeding(t) ==
  \/ Seeder \in Publishing
  \/ t = Seeder /\ (Real(mem) \/ Publishing # {})

\* Faulty variants: memory is assigned before the upsert; no upsert at all.
BugMemoryFirst(t) ==
  /\ pc[t] = "write"
  /\ mem' = held[t]
  /\ pc' = [pc EXCEPT ![t] = "publish"]
  /\ UNCHANGED <<cloudVars, held, cooling, db, overlap, raced, history>>
BugRowSkipped(t) ==
  /\ pc[t] = "write"
  /\ pc' = [pc EXCEPT ![t] = "publish"]
  /\ overlap' = (overlap \/ Publishing # {})
  /\ UNCHANGED <<cloudVars, held, cooling, db, mem, raced, history>>

\* The upsert of row 1; a failure returns with memory untouched.
WriteRow(t) ==
  /\ pc[t] = "write"
  /\ \/ /\ db' = held[t]
        /\ pc' = [pc EXCEPT ![t] = "publish"]
        /\ overlap' = (overlap \/ Publishing # {})
        /\ raced' = (raced \/ MeetsSeeding(t))
        /\ UNCHANGED <<held, cooling, dbFaults>>
     \/ /\ dbFaults < MaxDbFault
        /\ dbFaults' = dbFaults + 1
        /\ Return(t)
        /\ UNCHANGED <<db, overlap, raced>>
  /\ UNCHANGED <<cloudVars, mem, crashes>>

\* Under Runtime.mu.
Publish(t) ==
  /\ pc[t] = "publish"
  /\ mem' = held[t]
  /\ pc' = [pc EXCEPT ![t] = "callback"]
  /\ UNCHANGED <<cloudVars, cooling, db, held, overlap, raced, history>>

\* onSwap, and for fetchBundle the TriggerSync after it, have returned.
CallbackReturns(t) ==
  /\ pc[t] = "callback"
  /\ Return(t)
  /\ UNCHANGED <<cloudVars, db, mem, overlap, raced, history>>

-----------------------------------------------------------------------------
\* Faulty variant: loadActive is not called.
BugRestartEmpty ==
  /\ crashes < MaxCrash
  /\ crashes' = crashes + 1
  /\ mem' = None
  /\ cooling' = FALSE
  /\ overlap' = FALSE /\ raced' = FALSE
  /\ pc' = [t \in Threads |-> "idle"]
  /\ held' = [t \in Threads |-> None]
  /\ UNCHANGED <<cloudVars, db, dbFaults>>

\* The process stops and starts: loadActive reads the row back, every goroutine
\* starts over.
Restart ==
  /\ crashes < MaxCrash
  /\ crashes' = crashes + 1
  /\ mem' = db
  /\ cooling' = FALSE
  /\ overlap' = FALSE /\ raced' = FALSE
  /\ pc' = [t \in Threads |-> "idle"]
  /\ held' = [t \in Threads |-> None]
  /\ UNCHANGED <<cloudVars, db, dbFaults>>

SwapStep(t) ==
  \/ Compare(t)
  \/ WriteRow(t)
  \/ Publish(t)
  \/ CallbackReturns(t)

Next ==
  \/ Edit
  \/ \E r \in Rev : Expire(r)
  \/ FetchTick
  \/ EnforcementPoll
  \/ CooldownEnds
  \/ \E w \in Workers : UpdatePolicy(w)
  \/ SeedCheck
  \/ \E t \in Threads : SwapStep(t)
  \/ Restart

Spec == Init /\ [][Next]_vars

\* Tickers fire, goroutines that can run do run, and the node is not offline for
\* ever: its periodic GET succeeds again and again.
FairSpec ==
  /\ Spec
  /\ WF_vars(FetchTick)
  /\ WF_vars(SeedCheck)
  /\ \A w \in Workers : WF_vars(UpdatePolicy(w))
  /\ \A t \in Threads : WF_vars(SwapStep(t))

-----------------------------------------------------------------------------
(* Properties.                                                              *)

\* SwapBundle stores a bundle before it publishes it, so a restart brings one
\* back; and what backs a policy of the cloud is a policy of the cloud, never the
\* bootstrap bundle, unless the bootstrap swap raced with the first fetch.
MemBacked ==
  /\ mem # None => db # None
  /\ Real(mem) => Real(db) \/ raced

\* From the first swap on the node always has a bundle, and no swap, failure or
\* restart takes a policy of the cloud away from it, except after that race.
PolicyNeverLost ==
  [][/\ mem # None => mem' # None
     /\ Real(mem) => Real(mem') \/ raced]_vars

\* bundlesync.go: the bootstrap bundle is a "safe startup fallback", so it never
\* takes the place of a policy.  The code does not keep this: the check of ActiveBundle and
\* the swap are two steps, and the first fetch can come between them.
FallbackOnly == [][Real(mem) => Real(mem')]_vars

\* Apart from swaps that overlapped, the row and the memory differ only while
\* the one swap between its upsert and its assignment is under way, and then the
\* row is the bundle about to be published.
CacheExact ==
  ~overlap =>
    /\ Publishing = {} => db = mem
    /\ \A t \in Publishing : db = held[t]
    /\ \A t, u \in Publishing : t = u

\* bundlesync.go, runBundleFetch: "this ensures the bundle is always current".
\* Whatever stale response, late command or bootstrap bundle was swapped in, the
\* node ends on the latest revision of the cloud, unless that has expired.
Converges == <>[](revision(mem) = cloud \/ cloud = 0 \/ cloud \in expired)

\* migrations.go: active_policy_bundle is the "Policy bundle cache" of the active
\* bundle: once the node is on the cloud's current revision, so is the row. The code
\* does not keep this: two swaps that overlap can publish in one order and write in
\* the other, and the change detection then leaves it so.
CacheAgrees ==
  <>[](revision(mem) = cloud /\ cloud \notin expired => revision(db) = cloud)
=============================================================================
