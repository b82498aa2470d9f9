------------------------------ MODULE Filtering ------------------------------
(***************************************************************************)
(* The domain filter of a home node.  controlsync/blocklistsync.go copies  *)
(* two feeds of the cloud into the SQLite table dns_blocklist;             *)
(* dns/blocklist.go loads the table into memory; the DNS resolver, the SNI *)
(* proxy and the MITM proxy ask the list in memory, and the active policy, *)
(* whether a name may pass.                                                *)
(*                                                                         *)
(* Goroutines: the sync loop, the workers that run the command             *)
(* reload_dns_profile, and one goroutine per query or connection.  The     *)
(* list has a lock, but a decision takes it several times and a load reads *)
(* the table before it takes it.                                           *)
(***************************************************************************)
EXTENDS Naturals, Sequences

CONSTANTS
  Domain,       \* normalised domain names
  Walk,         \* Walk[d]: d, its parent, the parent's parent, ...
  Category,     \* categories of the rows
  Protective,   \* protectiveCategories of the SNI proxy
  Malware,      \* the fallback category of threat_feeds
  Blank,        \* the empty string: no category, not listed
  Absent,       \* a feed has no row for a domain
  Seed,         \* rows put into the table by hand
  Bypass,       \* names the MITM proxy never intercepts
  NoList,       \* this loader is not loading
  Policies,     \* policies the device may be under
  MaxEdit,      \* bound: changes of the feeds in the cloud
  MaxSwap,      \* bound: changes of the device's policy
  MaxReload,    \* bound: reload_dns_profile commands
  MaxFault,     \* bound: failing SQL statements
  MaxRestart,   \* bound: restarts of the process
  MaxAsk,       \* bound: decisions
  MaxEvent      \* bound: all of these together

Feed == {"threat_feeds", "domain_category_map"}
Source == Feed \union {"safeswitch-seed"}
Loader == {"sync", "command"}
Via == {"dns", "sni", "connect", "http"}

\* The two entries of the MITM proxy, for TLS tunnels and for plain HTTP.
MITM == {"connect", "http"}

NoRow == [cat |-> Blank, source |-> "none"]
Row == [cat : Category, source : Source] \union {NoRow}
List == [Domain -> Category \union {Blank}]
Content == [Domain -> Category \union {Blank, Absent}]

\* What the bundle says of a device: whether it has a row, and then its pause and its
\* blocked categories.
Policy == {p \in [row : BOOLEAN, paused : BOOLEAN, cats : SUBSET Category] :
             ~p.row => ~p.paused /\ p.cats = {}}

ASSUME FilteringAssumption ==
  /\ Domain # {}
  /\ Walk \in [Domain -> Seq(Domain)]
  /\ \A d \in Domain : Len(Walk[d]) > 0 /\ Walk[d][1] = d
  /\ Protective \subseteq Category
  /\ Malware \in Category
  /\ Blank \notin Category /\ Absent \notin Category /\ Blank # Absent
  /\ Seed \in [Domain -> Category \union {Blank}]
  /\ Bypass \subseteq Domain
  /\ NoList \notin List
  /\ Policies \subseteq Policy
  /\ {MaxEdit, MaxSwap, MaxReload, MaxFault, MaxRestart, MaxAsk,
      MaxEvent} \subseteq Nat

VARIABLES
  feed,      \* rows of each feed in the cloud (external)
  rows,      \* the table dns_blocklist, one row per domain
  hash,      \* the content whose hash tunnel_config holds for each feed; no
             \* hash counts as that of a feed without rows
  sync,      \* where the sync loop is
  current,   \* the feed it works on
  body,      \* the answer of the current GET
  changed,   \* feeds of this cycle that ended without an error
  load,      \* table contents a loader has read and not yet published
  list,      \* the list in memory
  up,        \* dns.Server.Start has returned
  policy,    \* the active policy of the device that asks
  query,     \* the decision in progress
  lists,     \* history: lists in memory since the decision began
  policies,  \* history: policies active since the decision began
  ignored,   \* history: rows that INSERT OR IGNORE left out, per feed
  count      \* history: how often each bounded event has happened

vars == <<feed, rows, hash, sync, current, body, changed, load, list, up, policy,
          query, lists, policies, ignored, count>>

tableVars == <<rows, hash, ignored>>
syncVars == <<sync, current, body, changed>>
queryVars == <<query, lists, policies>>

Unknown == [row |-> FALSE, paused |-> FALSE, cats |-> {}]
NoRows == [d \in Domain |-> Absent]
EmptyList == [d \in Domain |-> Blank]
Idle == [pc |-> "idle"]

Bound == [edit |-> MaxEdit, swap |-> MaxSwap, reload |-> MaxReload,
          fault |-> MaxFault, restart |-> MaxRestart, ask |-> MaxAsk]

Spend(k) ==
  /\ count[k] < Bound[k]
  /\ count.edit + count.swap + count.reload + count.fault + count.restart
       + count.ask < MaxEvent
  /\ count' = [count EXCEPT ![k] = @ + 1]

-----------------------------------------------------------------------------
(* The table.                                                               *)

Fallback(f) == IF f = "threat_feeds" THEN Malware ELSE Blank

\* The category a feed's row is stored with; Blank if the row is skipped.
Stored(f, content, d) ==
  CASE content[d] = Absent -> Blank
    [] content[d] = Blank -> Fallback(f)
    [] OTHER -> content[d]

\* Faulty variant: every row is deleted, not only the feed's.
BugDeleteAll(f) == [d \in Domain |-> NoRow]

\* DELETE FROM dns_blocklist WHERE source = f.
DeleteSource(f) ==
  [d \in Domain |-> IF rows[d].source = f THEN NoRow ELSE rows[d]]

\* INSERT OR IGNORE: the primary key is the domain alone.
InsertOrIgnore(f, content, table) ==
  [d \in Domain |->
     IF table[d] = NoRow /\ Stored(f, content, d) # Blank
       THEN [cat |-> Stored(f, content, d), source |-> f]
       ELSE table[d]]

\* What Load makes of the table.
Listing(table) == [d \in Domain |-> table[d].cat]

-----------------------------------------------------------------------------
(* Reading the list: each of these holds the read lock once.               *)

Listed(l, d) == {i \in DOMAIN Walk[d] : l[Walk[d][i]] # Blank}

IsBlocked(l, d) == Listed(l, d) # {}

IsBlockedForCategories(l, d, cats) ==
  \E i \in DOMAIN Walk[d] : l[Walk[d][i]] \in cats

\* The row of the closest listed parent; Blank if there is none.
CategoryFor(l, d) ==
  IF IsBlocked(l, d)
    THEN LET i == CHOOSE i \in Listed(l, d) : \A j \in Listed(l, d) : i <= j
         IN l[Walk[d][i]]
    ELSE Blank

-----------------------------------------------------------------------------
Init ==
  /\ feed = [f \in Feed |-> NoRows]
  /\ rows = [d \in Domain |-> IF Seed[d] = Blank THEN NoRow
                ELSE [cat |-> Seed[d], source |-> "safeswitch-seed"]]
  /\ hash = [f \in Feed |-> NoRows]
  /\ sync = "sleep"
  /\ current = "threat_feeds"
  /\ body = NoRows
  /\ changed = 0
  /\ load = [l \in Loader |-> NoList]
  /\ list = EmptyList
  /\ up = FALSE
  /\ policy = Unknown
  /\ query = Idle
  /\ lists = {}
  /\ policies = {}
  /\ ignored = [f \in Feed |-> {}]
  /\ count = [k \in DOMAIN Bound |-> 0]

\* The cloud changes a row of a feed.
EditFeed(f, d, c) ==
  /\ feed[f][d] # c
  /\ Spend("edit")
  /\ feed' = [feed EXCEPT ![f][d] = c]
  /\ UNCHANGED <<tableVars, syncVars, load, list, up, policy, queryVars>>

\* SwapBundle makes another bundle active: the device is paused, has blocked
\* categories, or is not in the bundle.
SwapPolicy(p) ==
  /\ policy # p
  /\ Spend("swap")
  /\ policy' = p
  /\ policies' = IF query = Idle THEN {} ELSE policies \union {p}
  /\ UNCHANGED <<feed, tableVars, syncVars, load, list, up, query, lists>>

-----------------------------------------------------------------------------
(* Loading.  Load reads the rows, then publishes them under the lock.       *)

Publish(l) ==
  /\ list' = l
  /\ lists' = IF query = Idle THEN {} ELSE lists \union {l}

\* dns.Server.Start: a failing load leaves the list empty and is only logged.
StartDNS ==
  /\ ~up
  /\ up' = TRUE
  /\ \/ Publish(Listing(rows)) /\ UNCHANGED count
     \/ Spend("fault") /\ UNCHANGED <<list, lists>>
  /\ UNCHANGED <<feed, tableVars, syncVars, load, policy, query, policies>>

\* The command reload_dns_profile reaches the SELECT of Load.
CommandReload ==
  /\ up
  /\ load["command"] = NoList
  /\ Spend("reload")
  /\ load' = [load EXCEPT !["command"] = Listing(rows)]
  /\ UNCHANGED <<feed, tableVars, syncVars, list, up, policy, queryVars>>

\* A loader takes the lock and replaces the four maps; or rows.Err is set
\* and Load returns without touching them.
FinishLoad(l) ==
  /\ load[l] # NoList
  /\ load' = [load EXCEPT ![l] = NoList]
  /\ \/ Publish(load[l]) /\ UNCHANGED count
     \/ Spend("fault") /\ UNCHANGED <<list, lists>>
  /\ sync' = IF l = "sync" THEN "sleep" ELSE sync
  /\ UNCHANGED <<feed, tableVars, current, body, changed, up, policy, query,
                 policies>>

-----------------------------------------------------------------------------
(* The sync loop: threat_feeds, then domain_category_map, then one reload.  *)

\* The timer fires, at the earliest 15 seconds after the start.
Wake ==
  /\ up
  /\ sync = "sleep"
  /\ sync' = "fetch"
  /\ UNCHANGED <<feed, tableVars, current, body, changed, load, list, up,
                 policy, queryVars, count>>

\* syncBlocklistSource returns: ok tells whether without an error.
FeedDone(ok) ==
  /\ IF current = "threat_feeds"
       THEN sync' = "fetch" /\ current' = "domain_category_map"
       ELSE sync' = "reload" /\ current' = "threat_feeds"
  /\ changed' = IF ok THEN changed + 1 ELSE changed
  /\ body' = NoRows

\* getREST answers with the rows of the feed; or it fails, times out or
\* answers with something else, and the feed is left for the next cycle.
Fetch ==
  /\ sync = "fetch"
  /\ \/ /\ sync' = "apply"
        /\ body' = feed[current]
        /\ UNCHANGED <<current, changed>>
     \/ FeedDone(FALSE)
  /\ UNCHANGED <<feed, tableVars, load, list, up, policy, queryVars, count>>

\* applyBlocklistSource: delete, insert and the new hash in one transaction.
ApplyFeed(f) ==
  LET kept == DeleteSource(f)
  IN /\ rows' = InsertOrIgnore(f, body, kept)
     /\ hash' = [hash EXCEPT ![f] = body]
     /\ ignored' = [ignored EXCEPT ![f] =
          {d \in Domain : Stored(f, body, d) # Blank /\ kept[d] # NoRow}]

\* Faulty variant: a feed that has not moved does not count as changed.
BugCountApplied ==
  /\ FeedDone(hash[current] # body)
  /\ IF hash[current] = body THEN UNCHANGED tableVars ELSE ApplyFeed(current)
  /\ UNCHANGED count

\* Faulty variant: the hash is written outside the transaction.
BugHashOutside ==
  /\ \/ UNCHANGED count /\ ApplyFeed(current)
     \/ /\ Spend("fault")
        /\ hash' = [hash EXCEPT ![current] = body]
        /\ UNCHANGED <<rows, ignored>>
  /\ FeedDone(TRUE)

\* The rest of syncBlocklistSource: nothing if the hash is the stored one;
\* otherwise the transaction commits, or is rolled back.  A hash that cannot
\* be read counts as none.
CompareAndApply ==
  \/ /\ hash[current] = body
     /\ FeedDone(TRUE)
     /\ UNCHANGED <<tableVars, count>>
  \/ /\ IF hash[current] = body THEN Spend("fault") ELSE UNCHANGED count
     /\ ApplyFeed(current)
     /\ FeedDone(TRUE)
  \/ /\ hash[current] # body
     /\ Spend("fault")
     /\ FeedDone(FALSE)
     /\ UNCHANGED tableVars

Apply ==
  /\ sync = "apply"
  /\ CompareAndApply
  /\ UNCHANGED <<feed, load, list, up, policy, queryVars>>

\* Reload if a feed ended without an error: Load reads the table, or fails.
Reload ==
  /\ sync = "reload"
  /\ \/ /\ changed > 0
        /\ sync' = "loading"
        /\ load' = [load EXCEPT !["sync"] = Listing(rows)]
        /\ UNCHANGED count
     \/ /\ IF changed > 0 THEN Spend("fault") ELSE UNCHANGED count
        /\ sync' = "sleep"
        /\ UNCHANGED load
  /\ changed' = 0
  /\ UNCHANGED <<feed, tableVars, current, body, list, up, policy, queryVars>>

\* The process stops and starts again: memory is lost, the SNI proxy listens
\* before the list and the policy are loaded.
Restart ==
  /\ Spend("restart")
  /\ sync' = "sleep"
  /\ current' = "threat_feeds" /\ body' = NoRows /\ changed' = 0
  /\ load' = [l \in Loader |-> NoList]
  /\ list' = EmptyList
  /\ up' = FALSE
  /\ policy' = Unknown
  /\ query' = Idle
  /\ lists' = {} /\ policies' = {}
  /\ UNCHANGED <<feed, tableVars>>

-----------------------------------------------------------------------------
(* A decision.  Every step reads the list or the policy once.               *)

Begin(via, d, pc) ==
  /\ query = Idle
  /\ Spend("ask")
  /\ query' = [pc |-> pc, via |-> via, name |-> d]
  /\ lists' = {list}
  /\ policies' = {policy}
  /\ UNCHANGED <<feed, tableVars, syncVars, load, list, up, policy>>

\* A query that parses; the server listens once Start has returned.
AskDNS(d) == up /\ Begin("dns", d, "paused")

\* A connection whose first record holds a server name.  One without is
\* spliced or closed, and no list is asked.
AskSNI(d) == Begin("sni", d, "paused")

\* A CONNECT, or a plain request; the MITM proxy has no policy.
AskMITM(via, d) == Begin(via, d, "blocked")

At(pc) == query.pc = pc

Decide(verdict) ==
  query' = [pc |-> "decided", via |-> query.via, name |-> query.name,
            verdict |-> verdict]

Goto(pc) == query' = [query EXCEPT !.pc = pc]

CheckPaused ==
  /\ At("paused")
  /\ IF policy.paused THEN Decide("block") ELSE Goto("blocked")

\* The baseline: every listed name, whatever its category.
ResolverBlocked(blocked) == IF blocked THEN Decide("block") ELSE Goto("cats")

\* The SNI proxy looks at the category before it blocks.
SNIBlocked(blocked) == Goto(IF blocked THEN "category" ELSE "cats")

\* The names ShouldBypass finds are tunnelled as they are.
HandleConnect(blocked) ==
  Decide(IF blocked /\ query.name \notin Bypass THEN "block" ELSE "pass")

HandleHTTP(blocked) == Decide(IF blocked THEN "block" ELSE "pass")

CheckBlocked ==
  /\ At("blocked")
  /\ LET blocked == IsBlocked(list, query.name)
     IN CASE query.via = "dns" -> ResolverBlocked(blocked)
          [] query.via = "sni" -> SNIBlocked(blocked)
          [] query.via = "connect" -> HandleConnect(blocked)
          [] query.via = "http" -> HandleHTTP(blocked)

\* SNI proxy: CategoryFor takes the lock again.
ReadCategory ==
  /\ At("category")
  /\ query' = [pc |-> "known", via |-> query.via, name |-> query.name,
               cat |-> CategoryFor(list, query.name)]

\* Faulty variant: a name without a category counts as protective.
BugBlankProtective ==
  /\ At("known")
  /\ Decide(IF policy.cats # {} \/ query.cat \in Protective \union {Blank}
              THEN "block" ELSE "pass")

\* SNI proxy: a device without blocked categories is taken for an unknown one, with a
\* row in the bundle or not, and for it only the protective categories block.
CheckKnown ==
  /\ At("known")
  /\ Decide(IF policy.cats # {} \/ query.cat \in Protective
              THEN "block" ELSE "pass")

\* BlockedCategoriesForIP, and then, for a device that has any,
\* IsBlockedForCategories.
ReadCategories ==
  /\ At("cats")
  /\ IF policy.cats = {}
       THEN Decide("pass")
       ELSE query' = [pc |-> "incats", via |-> query.via, name |-> query.name,
                      cats |-> policy.cats]

CheckCategories ==
  /\ At("incats")
  /\ Decide(IF IsBlockedForCategories(list, query.name, query.cats)
              THEN "block" ELSE "pass")

DecisionStep ==
  /\ \/ CheckPaused
     \/ CheckBlocked
     \/ ReadCategory
     \/ CheckKnown
     \/ ReadCategories
     \/ CheckCategories
  /\ UNCHANGED <<feed, tableVars, syncVars, load, list, up, policy, lists,
                 policies, count>>

Finish ==
  /\ query' = Idle
  /\ lists' = {} /\ policies' = {}
  /\ UNCHANGED <<feed, tableVars, syncVars, load, list, up, policy, count>>

\* The resolver answers with the sinkhole or NXDOMAIN, with what one of the
\* upstreams said, or with SERVFAIL.
AnswerQuery == At("decided") /\ query.via = "dns" /\ Finish

\* A proxy resets the connection or shows the block page, or splices it to where
\* it was going.
EndConnection == At("decided") /\ query.via # "dns" /\ Finish

-----------------------------------------------------------------------------
SyncStep == Wake \/ Fetch \/ Apply \/ Reload \/ FinishLoad("sync")

Next ==
  \/ \E f \in Feed, d \in Domain, c \in Category \union {Blank, Absent} :
       EditFeed(f, d, c)
  \/ \E p \in Policies : SwapPolicy(p)
  \/ StartDNS
  \/ CommandReload
  \/ FinishLoad("command")
  \/ SyncStep
  \/ Restart
  \/ \E d \in Domain : AskDNS(d) \/ AskSNI(d)
  \/ \E via \in MITM, d \in Domain : AskMITM(via, d)
  \/ DecisionStep
  \/ AnswerQuery
  \/ EndConnection

Spec == Init /\ [][Next]_vars

\* The process comes up, its timers fire and its goroutines run; a GET that is
\* tried for ever succeeds again and again.
GetSucceeds(f) == Fetch /\ current = f /\ sync' = "apply"

FairSpec ==
  /\ Spec
  /\ WF_vars(StartDNS)
  /\ WF_vars(SyncStep)
  /\ WF_vars(FinishLoad("command"))
  /\ \A f \in Feed : SF_vars(GetSucceeds(f))

-----------------------------------------------------------------------------
(* Properties.                                                              *)

Query ==
  {Idle}
  \union [pc : {"paused", "blocked", "category", "cats"}, via : Via,
          name : Domain]
  \union [pc : {"known"}, via : Via, name : Domain,
          cat : Category \union {Blank}]
  \union [pc : {"incats"}, via : Via, name : Domain, cats : SUBSET Category]
  \union [pc : {"decided"}, via : Via, name : Domain,
          verdict : {"block", "pass"}]

TypeOK ==
  /\ feed \in [Feed -> Content]
  /\ rows \in [Domain -> Row]
  /\ hash \in [Feed -> Content]
  /\ sync \in {"sleep", "fetch", "apply", "reload", "loading"}
  /\ current \in Feed
  /\ body \in Content
  /\ changed \in 0 .. 2
  /\ load \in [Loader -> List \union {NoList}]
  /\ list \in List
  /\ up \in BOOLEAN
  /\ policy \in Policy
  /\ query \in Query
  /\ lists \subseteq List
  /\ policies \subseteq Policy
  /\ ignored \in [Feed -> SUBSET Domain]
  /\ count \in [DOMAIN Bound -> Nat]
  /\ \A k \in DOMAIN Bound : count[k] <= Bound[k]

\* Where the sync loop may be with which count of feeds, and with a load of its
\* own: the counter never passes the number of feeds.
SyncInv ==
  /\ changed <= CASE sync = "reload" -> 2
                  [] sync # "reload" /\ current = "threat_feeds" -> 0
                  [] OTHER -> 1
  /\ load["sync"] # NoList => sync = "loading"

\* The stored hash tells the truth about the table: a row of a feed is in the
\* content whose hash is stored, and that content is in the table row by row,
\* except the rows left out because another source held the domain.  Without
\* this a feed that has not moved would never be repaired.
HashMatchesTable ==
  \A f \in Feed, d \in Domain :
    /\ rows[d].source = f => rows[d].cat = Stored(f, hash[f], d)
    /\ Stored(f, hash[f], d) # Blank =>
         rows[d].source = f \/ d \in ignored[f]

\* blocklistsync.go:24, "critical: manual safeswitch-seed rows survive all
\* syncs": whatever the feeds list and drop, and whatever fails.
SeedsSurvive ==
  [][\A d \in Domain :
       rows[d].source = "safeswitch-seed" => rows'[d] = rows[d]]_vars

\* What a filter decides if nothing changes under it: a closed form. The SNI proxy
\* blocks for unknown devices the protective categories only.
Verdict(via, l, paused, known, d) ==
  LET stops == CASE via = "connect" -> d \notin Bypass
                 [] via \in {"dns", "http"} -> TRUE
                 [] OTHER -> known \/ CategoryFor(l, d) \in Protective
  IN IF \/ via \notin MITM /\ paused
        \/ IsBlocked(l, d) /\ stops
       THEN "block" ELSE "pass"

\* A decision reads the list up to three times and the policy up to twice, and
\* both may be replaced in between, any number of times.  Its verdict is
\* nevertheless that of one list in force at some time during the decision, of
\* the pause of one policy and the categories of one: known are, as in the code,
\* the devices with blocked categories, which are not all those SniMirrorsDns means.
VerdictIsCurrent ==
  query.pc = "decided" =>
    \E l \in lists, p, q \in policies :
      query.verdict = Verdict(query.via, l, p.paused, q.cats # {}, query.name)

\* The same with one policy for both.  The code does not keep this:
\* sniproxy.go:177 asks for the pause and sniproxy.go:187 for the categories, and
\* SwapBundle may run in between.  When a bundle pauses a device and empties its
\* blocked categories, a connection in between passes a listed name that the
\* bundle before and the bundle after both stop.
VerdictOfOnePolicy ==
  query.pc = "decided" =>
    \E l \in lists, p \in policies :
      query.verdict = Verdict(query.via, l, p.paused, p.cats # {}, query.name)

\* sniproxy.go:9, "Enforcement model mirrors internal/dns/resolver.go exactly so DNS
\* and SNI never drift", except for "devices on wg0 with no row in the policy bundle".
\* The code does not keep this: a device that has a row and no blocked categories
\* passes by SNI a listed name that the resolver blocks.
SniMirrorsDns ==
  query.pc = "decided" /\ query.via = "sni" =>
    \E l \in lists, p, q \in policies :
      query.verdict = Verdict("sni", l, p.paused, q.row, query.name)

\* What a decision in progress has seen, for the verdict to come: a policy that
\* is not paused; a list with, or without, the name; a category, or the
\* categories of a policy.
Unpaused == \E p \in policies : ~p.paused
SawListed == \E l \in lists : IsBlocked(l, query.name)
SawUnlisted == \E l \in lists : ~IsBlocked(l, query.name)

QueryInv ==
  /\ query.pc # "idle" => list \in lists /\ policy \in policies
  /\ query.pc \in {"paused", "cats", "incats"} => query.via \in {"dns", "sni"}
  /\ query.pc \in {"category", "known"} => query.via = "sni" /\ SawListed
  /\ query.pc \in {"cats", "incats"} => SawUnlisted
  /\ query.pc \in {"blocked", "category", "known", "cats", "incats"} =>
       query.via \in MITM \/ Unpaused
  /\ query.pc = "known" => \E l \in lists : query.cat = CategoryFor(l, query.name)
  /\ query.pc = "incats" => \E q \in policies : query.cats = q.cats /\ q.cats # {}
  /\ VerdictIsCurrent

\* Whatever order loads read and publish in, and whatever fails, once the feeds
\* rest their content has been applied, up to the rows HashMatchesTable excuses, and
\* the list in memory is the table.
ListSettles ==
  <>[](/\ \A f \in Feed : hash[f] = feed[f]
       /\ list = Listing(rows))

\* blocklistsync.go:22-24, "one row in dns_blocklist per (domain, source) pair.
\* Keeping sources separate lets us replace one feed without disturbing the
\* others": what a feed lists is in the table, also after another feed moved. The
\* code does not keep this: the primary key is the domain alone, so a domain that
\* two feeds list has one row, and goes when the feed that owns it drops it.
SourcesIndependent ==
  \A f \in Feed, d \in Domain :
    Stored(f, hash[f], d) # Blank => rows[d] # NoRow
=============================================================================
