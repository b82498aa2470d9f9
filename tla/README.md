# Specifications of the SafeSwitch node and relay

TLA+ models of the SafeSwitch router software (Go, `src/`): the node daemon that
runs in a family's home and the relay that runs on a VPS. TLC checks the models on
small instances; TLAPS proves the central safety properties for all values of the
constants. `PROJECT.json` lists the runs, the source lines behind every
definition, the deliberately broken variants and the findings.

## The system

A **node** is one process. A supervisor starts its services; each service runs its
own goroutines and they meet in a SQLite database, in a few in-memory structures and
in the kernel (wg0, netfilter).

| Component | State it keeps | Operations | Interacts with |
|---|---|---|---|
| Command ledger and executor (`controlsync/commandpoll.go`, `commands/`) | `command_ledger` rows, eight-slot semaphore | poll (GET), insert, PATCH acked, drain, execute, PATCH result | cloud; handlers call policy, tunnel, firewall |
| Policy runtime and bundle sync (`policy/runtime.go`, `controlsync/bundlesync.go`, `enforcementsync.go`) | active bundle in memory and in `active_policy_bundle` | fetch every 30 s, `update_policy`, enforcement rows with a cooldown, bootstrap seed, load at start | callbacks to tunnel and firewall after a swap |
| Tunnel manager (`tunnel/`) | `tunnel_peers`, `wg0.conf`, peers on wg0 | sync (60 s ticker, swap, fetch), AddPeer, RemovePeer, diff, syncconf fallback | kernel; bundle |
| Firewall enforcer and boot restore (`firewall/`, `app/iptables_restore.go`) | FORWARD and SAFESWITCH chains, route profiles | Sync (ticker, swap, profile command), PauseDevice, restore | kernel; bundle; default route |
| Failsafe enforcer and heartbeat (`enforcer/`, `controlsync/heartbeat.go`) | failsafe state in memory, bundle expiry in SQLite | heartbeat, enter, stay, leave | cloud; policy; clock |
| DNS resolver, SNI proxy, MITM proxy, blocklists (`dns/`, `sniproxy/`, `src/mitm/`, `controlsync/blocklistsync.go`) | `dns_blocklist`, the hash of each feed, the list in memory | decide about a name, sync two feeds, load the list, `reload_dns_profile` | policy; cloud; one goroutine per query |
| Activity writer (`controlsync/activity_writer.go`) | a bounded channel, a batch | record, collect, flush every 10 s, final flush | filters; cloud |
| UPnP mapper, DDNS updater (`upnp/`, `app/ddns_updater.go`) | lease at the router, last known address | map, renew, release; detect, compare, write | home router; address services; cloud |
| Sinkhole, presence, health, OTA, local API | certificates, tables, samples | input and output | clients; cloud |

The **relay** connects children outside the home with their node.

| Component | State it keeps | Operations | Interacts with |
|---|---|---|---|
| Broker and node registry (`relay/broker.go`, `registry.go`, `handler.go`) | node connections, health entries, legacy device sessions | register, unregister, health, janitor sweep, notification of the cloud | node websocket; cloud |
| UDP bridge and fallback resolver (`relay/relay_udp_bridge.go`, `fallback.go`) | degraded flag, one socket per child | route a packet, enter and leave fallback, reply loops | registry; terminator |
| Relay client on the home node (`relay/client.go`, `service.go`) | one session at a time, a send channel, the reconnect delay | dial, unpack frames for WireGuard, pack answers, ping, give up, wait | broker's websocket; local WireGuard |
| Terminator (`terminator/`) | per-family WireGuard endpoint | EnsureFamily, idle teardown | family config; bridge |

What is hard about it:

* goroutines that read, decide and write in separate steps with no common lock:
  bundle swaps, wg0 syncs, iptables syncs, the relay's degraded flag;
* a command is spread over the cloud, a row and a handler, with retries on both
  sides and a process that can die between any two statements;
* kernel state outlives the process, memory does not, SQLite does;
* errors are mostly logged, and the repair is left to the next tick;
* health and lockdown are functions of a clock that passes between two looks at it;
* sockets and endpoints are cached and outlive what they lead to;
* a decision takes a lock several times, and a policy swap or a reload fits between;
* channels are closed by one goroutine and sent on by others; a panic takes a lock or
  the process with it;
* pings and traffic share bounded channels, and both ends of a connection give up on
  their own clocks.

For each component, what makes it correct: a command runs at most once and its
outcome is known (ledger); the node always has a policy and ends on the latest one
(policy); wg0 ends equal to the bundle and unaffected peers are not disturbed
(tunnel); SAFESWITCH is what decides about a packet and holds the policy (firewall);
lockdown when the policy has run out and the cloud is away, and not otherwise (failsafe);
children are served and the cloud knows who is degraded (relay); a verdict uses
a list and policies in force while it was made, and table and list follow the feeds
(filter); an event is written once or lost once (activity); a live connection is kept and
a lost one replaced (relay path); the mapping has no gaps and the address in the cloud is
right (endpoint).

## Modules

| Module | Models | Proof |
|---|---|---|
| `CommandLedger` | poll, ledger, drain, workers, reports, crash | `CommandLedgerProof` |
| `PolicySync` | `SwapBundle` and its four kinds of caller | `PolicySyncProof` |
| `TunnelSync` (run as `MCTunnelSync`) | sync, AddPeer, RemovePeer, diff | `TunnelsProof` |
| `Failsafe` | heartbeat result, expiry, lockdown | `ReachProof` |
| `FirewallChain` | Sync command by command, restore at boot | `FirewallChainProof` |
| `RelayFallback` | registry, bridge, janitor, endpoint, notices | `TunnelsProof` |
| `RelaySessions` (run as `MCRelaySessions`) | device sessions, channel closes, panics, the broker's lock | `RelayConnectionsProof` |
| `RelayPath` | bridge, broker and relay client: frames, tags, pings, deadlines, reconnects | `RelayConnectionsProof` |
| `Filtering` (run as `MCFiltering`) | feeds, table, list in memory, the decision of DNS, SNI and MITM | `FilteringProof` |
| `ActivityWriter` (run as `MCActivityWriter`) | channel, batch, flushes, shutdown | `ActivityWriterProof` |
| `BestEffortLog` | the abstract specification that `ActivityWriter` implements | |
| `EndpointUpkeep` | UPnP lease and DDNS row | `ReachProof` |

The `MC` modules only define constants that are functions or records (bundles, names,
seeds) and a symmetry set; the other modules take their constants from the cfg file. A step of a model is the longest piece of a handler that no other
goroutine can observe half done: one SQL statement, one command, one request or one
locked section.

### CommandLedger

`ledger`, `created`: the rows. `cloud`: the status column of the cloud. `phase`,
`fetched`, `acking`, `queue`: the poll goroutine. `worker`: where each command's
goroutine in the drain is. `runs`, `outcome`: what handlers did. `Fetch` to `DrainDone`
are `fetchAndEnqueue` and `drainPending`; `CheckTerminal` to `SetFailed` are
`Executor.Execute`, `ReadBack` and `ReportResult` what follows it. `doWithRetry` repeats a request up to four times, so a request has three
outcomes: answered, applied though the answer was lost, not applied. `Crash` keeps
the rows and the cloud. `restart` exits the process and is one of the places a crash
can happen at.

### PolicySync

`cloud` is the revision at the endpoint, `db` the row, `mem` the published bundle.
Every caller of `SwapBundle` is a thread that holds a bundle, compares, writes the
row, publishes, and runs the callbacks. A bundle is the bootstrap bundle or a
revision, complete (from the endpoint) or partial (built by `update_policy`). An
`update_policy` command carries the version and the expiry of the endpoint's bundle
of that revision, because the cloud creates both from one row. `Expire` lets a
revision run out. Rows of the enforcement table are handed over once (the endpoint
marks them; external). `overlap` records that two swaps overlapped, `raced` that the
bootstrap swap met a policy between its check and its end; both since the last start.
`MemBacked` and `PolicyNeverLost` say of any bundle that one is there, and of a policy of
the cloud (`Real`) that it is not replaced by the bootstrap bundle unless `raced`;
`CacheExact` holds unless `overlap`.

### TunnelSync

`table` is `tunnel_peers`, `conf` wg0.conf, `wg` the interface (`Bare` is a peer without
an allowed address, which the kernel leaves when its address moves to another peer).
Each thread runs the sync: upsert the peers of the bundle, delete the rows it does not
have, load the list, write the file, read the live peers, apply the difference, remove
orphans. The file is written as the code does it, without a lock: open and empty the one
`wg0.conf.tmp` (`tmp`), write it, rename it, in three steps (`OpenTmp`, `WriteTmp`,
`RenameTmp`, `RenameFails`). A goroutine whose open file another has renamed goes on writing
to wg0.conf itself, or to a file that is no longer there; a write over a longer text leaves
the end of that text (`Overwritten`). `torn` records that wg0.conf is not what the sync that
renamed it had written. Only `syncconfFallback` reads the file (`ReadConf`, `Syncconf`);
`UnaffectedStay` exempts the step that reads a torn one. Addresses are numbers;
`ORDER BY` compares them as text, which is the same order for the few addresses used.
A reboot, which also clears wg0, is not modelled here; a restart of the process is.

### Failsafe

`now` is a bounded clock. `HeartbeatStart` and `HeartbeatEnd` are two steps because
the clock, the cloud and the bundle may change while the request is under way.
`stored` is the persisted bundle expiry; `Seed` is the bootstrap bundle, whose expiry is
persisted like that of a policy. `Grace` is what `failsafe_grace_seconds` holds; nothing in the
repository writes that key, so it may be any natural, zero included. `HeartbeatEnd` reads
expiry and grace with queries that may fail; a failure reads as no expiry or no grace.
`NoFalseLockdown` relates the lockdown to the bundle in memory, not to the values the decision
was made with. It exempts a bundle swapped in since the last heartbeat began (`renewed`), a
heartbeat with a failing statement (`faulty`) and a bundle without an expiry, for which the
code leaves the expiry of an earlier bundle stored.

### FirewallChain

`forward` and `chain` are the two chains as sequences of rules. A thread in `Sync`
executes one iptables command per step, on the policy it read. `Verdict` evaluates a
packet rule by rule the way netfilter does. Assumed: the policy of FORWARD is ACCEPT
and no saved rule set is loaded at boot (external). `wgconf.go:398` mentions one,
`/etc/iptables/rules.v4` loaded by netfilter-persistent; it is not in the repository, and a
rule in it that accepts packets of wg0 above the jump would void `SafeswitchFirst` and
`Enforced`. The nat and
mangle tables do not filter and are left out. A sync that overlaps another sets
`overlap`, a move of the uplink shows in `SameUplink`; the two safety invariants hold
as long as neither happened. What happens otherwise is described under "What the code
does not keep".

### RelayFallback

Handlers of node connections, the bridge's read loop, the janitor, and one goroutine
per notification. `EnsureFamily` is called by the bridge's loop alone, which is one
goroutine. Nobody calls `Touch`. The read deadline of a node connection (25 s) is
shorter than the staleness threshold (60 s), so that a silent connection is
unregistered before it counts as stale. A call that fails (a notification, the fetch of
the family's config) may fail any number of times. The flag is flipped under its lock and
the notification started after the lock is released, in a step of its own (`SweepTell`,
`BridgeTell`); `crossed` records an outage that began when the janitor had yet to start the
notification of the recovery before. The port of a new endpoint is any of `Ports`: the
family's config comes from the cloud and may name one, and otherwise the kernel picks one, an
old one perhaps; `reused` records that a socket of an earlier endpoint leads to it. Which of two reordered notifications wins is
decided by the edge function; `Post` delivers them in any order.

### RelaySessions

One handler, one writer and one ping goroutine per websocket. `sessions` pairs a device
connection with a node connection; only the tear-down of a session closes channels,
although three comments say that a disconnect does (`DisconnectCloses` below).
`OnlyOwnClose` says that a tear-down stays within its node or device; the mutex and the process
are shared by all, so a panic concerns everybody. Go
panics on a send to a closed channel and on a second close: `net/http` recovers the panic
of a handler (its deferred Unregister still runs), a panic of the bridge or of a ping
goroutine ends the process (`crashed`), a panic inside `UnregisterNode` leaves the
mutex held (`locked`), and from then on `Lockable` is false for everybody. The look at a
table and the send that follows are two steps.

### RelayPath

One home node and its connections in the order they were made. A datagram of a child is
wrapped with its address as tag, sent by the broker, unpacked for WireGuard, answered,
wrapped again and delivered by tag. `Cap` bounds the channels; what does not fit is
dropped, pings included. A tick is 5 seconds (pings every 3 ticks, deadlines of 5 at the broker and 8 at the client),
time passes only when nothing is due. `Cut` is a connection that stops delivering without
either end noticing, `Lose` one that the end notices; a process may end (`Quit`,
`BrokerDies`) and start again. Fallback and channel closes belong to the two modules
above and are left out here.

### Filtering

`rows` is `dns_blocklist` with one row per domain, as its primary key has it; `hash` is the
content whose hash is stored. A cycle of the sync fetches a feed, compares, deletes and
inserts in one transaction together with the hash, and at the end reloads the list.
`FinishLoad` publishes what a loader read earlier, so that the loads of the sync and of the
command can cross. A query (`AskDNS`, `AskSNI`, `AskMITM`) reads policy and list in the
separate steps of the code; `lists` and `policies` remember what was in force meanwhile.
`Verdict` is the decision in closed form, the reference the steps are compared with:
`VerdictIsCurrent` lets it take the pause of one policy and the categories of another, as an
SNI decision does. A policy says of the device that asks whether it has a row in the bundle,
whether it is paused and which categories it blocks. To the SNI proxy a device is known if it
blocks some category, and `VerdictIsCurrent` takes that from the code; that the header of
`sniproxy.go` means something else is `SniMirrorsDns` below.

### ActivityWriter and BestEffortLog

`ch` and `batch` are sequences of events, `pc` is the place in `run()`. The ticker, the
channel and the context compete in one select. A flush removes duplicates (same name and
same child), sends once and drops the batch whatever the answer. `BestEffortLog` is the
promise: an event is new, held, then written or lost, once. The refinement mapping takes
events that have not ended, wherever they are, as held.

### EndpointUpkeep

A tick is 15 minutes: a lease lasts 4, a renewal comes after 3. A request to the router or
the cloud takes effect or not, and its answer may be lost either way. The address is one
that two of three services agree on, or else any of the answers; at most one of them is
wrong or silent, more only as a bounded fault. The look at the LAN address and the request
that uses it are one step. A request that `Stop` cancels is assumed not to take effect after
the delete, and a PATCH that succeeds to have changed the row. `disturbed`, `leaked` and `drifted` record the events after which the
code makes no promise.

## Runs that pass

| Run | Bounds | Shows |
|---|---|---|
| `ledger` | 2 commands (one without handler), 1 slot, 2 crashes, 1 failing statement; 59 thousand states | `AtMostOnce`, `DoneIsTrue`, `Lifecycle`; `Completes` (nothing is left undone while nothing crashes), `PendingLeaves` (never wedged) |
| `policy` | 1 command worker and the three loops, 2 revisions, 1 restart, 1 failing upsert; 866 thousand | `MemBacked`, `PolicyNeverLost`, `CacheExact`, `Converges` |
| `tunnel` | 2 peers (one that no bundle moves), 2 threads, an enrolment or a removal, 2 bundles, 2 swaps, 1 fault or restart; 1.1 million | `UnaffectedStay`, `Settles`, `TunnelTypeOK` |
| `failsafe` | clock to 5, lifetimes 0 to 2, grace 1, 1 restart, 1 half of a heartbeat with failing statements; 223 thousand | `NoFalseLockdown`, `Locks`, `Recovers` |
| `firewall` | 1 device, 2 uplinks, 2 modes, 2 threads, 1 change, 1 failing command or boot; 1.1 million | `SafeswitchFirst`, `Enforced`, `ChainSettles` |
| `relay` | 1 node that connects once, 2 children, 2 ports, any number of endpoints; 1.7 million | `CloudWarned`, `RepliesDelivered`, `FallbackSettles` |
| `sessions` | 2 nodes, 2 devices, 2 connections of each kind; 340 thousand | `SessionsOpen`, `LockedByTwo` (the only way to lose the mutex), `OnlyOwnClose` |
| `path` | 1 child, channels of 1, 1 datagram, 2 faults, 1 process end; 229 thousand | `KeptAlive`, `NoLateUnregister`, `ReadersEnd`, `Reconnects` |
| `filter` | 2 names (one below the other), 2 categories, 1 seed, 3 edits, 2 swaps, 1 reload, 1 fault, 1 restart, 1 decision, 3 of these together; 540 thousand | `HashMatchesTable`, `SeedsSurvive`, `VerdictIsCurrent`, `ListSettles` |
| `activity` | 4 events (two names, two children), channel of 2, 1 kill; 55 thousand | `ImplementsLog`, `HeldOnce`, `EveryChildLogged`, `ShutdownFlushes`, `EventsSettle` |
| `endpoint` | 2 addresses on each side, 2 faults, 2 moves, 1 reboot of the router, 1 restart; 94 thousand | `LeaseCovered`, `StoppedIsUnmapped`, `EndpointSettles` |

The inductive invariants of the proofs were checked with the constants of the runs first.

**Why the bounds are enough to be interesting.** Every race found is between two
goroutines, so two threads show it; the ledger's slot is full as soon as one of two
commands runs, and the proofs cover any number of commands and slots. Two revisions
make a stale one possible, two bundles make an address free. One crash, placed
anywhere, meets every state a first life can leave. Faults are bounded because the
liveness properties speak of what happens after the last. Two children are needed for
a second endpoint, since a child's socket is never dialled again, and two ports for one that
is new and one that is not; a node that comes and goes once makes an outage, a recovery and an
outage again. Two sessions on one node
connection make the double close, and two connections of a node the late handler. A
channel of one is full after one frame. Two names in a parent relation exercise the suffix
walk; three events in all are enough for an edit, a reload and a swap around one decision.

**Fairness.** Weak fairness for tickers and for goroutines inside a handler: Go's
scheduler is preemptive, commands and requests carry timeouts. No fairness for the
cloud, for crashes, faults, edits, node connections or idle timers. These
assumptions go beyond the scheduler and belong to the environment: a GET of the
command poll that is tried for ever succeeds infinitely often (strong fairness in
`CommandLedger`), the periodic GET of the bundle succeeds likewise (`PolicySync`),
in `RelayFallback!FairSpec` some child keeps sending (that the family's config can be fetched
is a premise of `FallbackServes` alone), and the GET of a feed that is tried for ever succeeds again and
again (`Filtering`). In `ActivityWriter` the ticker and the context have strong fairness,
because a Go select chooses at random among the cases that are ready. In `RelayPath` and
`EndpointUpkeep` time passes, requests end and what is sent on an intact connection
arrives; a home node that stopped may stay so.

Deadlock is checked except in three runs, whose systems may stop: the events of the
activity writer are finite and it ends with its process; the connections of
`RelaySessions` are used once each and a lost mutex or process is an end; the bounded
world of `Filtering` comes to rest when nothing changes any more.

## The run that shows a disagreement

`path_replies` (`RepliesGoHome`): one datagram of a child and the answer to it.
`relay_udp_bridge.go:34` says that the reply goes from the home node to the child by
`DeliverToClient`. The relay client strips the tag of the child from each frame and tags every
answer with the address it was read from, that of the local WireGuard, so the bridge on
the VPS sends the answer to its own socket. The trace has seven states. "findings" in
`PROJECT.json` has the lines.

## What the code does not keep

These statements of comments are defined beside the properties and refuted by TLC
with the constants given; the models contain the behaviour as the code has it, and the
properties of the runs are stated so that they say what is left.

| Property | Statement | What happens | Constants that show it |
|---|---|---|---|
| `CommandLedger!TrackedToCompletion` | `store/migrations.go`: commands are tracked to completion | a crash after the row left pending strands it | `MaxCrash = 1`, `MaxDbFault = 0`, `FairSpec` |
| `PolicySync!CacheAgrees` | the row is the cache of the active bundle | overlapping swaps can cross, and the change detection keeps them so | `MaxCrash = 0`, `MaxDbFault = 0`, `FairSpec` |
| `PolicySync!FallbackOnly` | `bundlesync.go:100`: the bootstrap bundle is a safe startup fallback | the check for an active bundle and the swap are two steps; the first fetch comes between, and the bootstrap bundle replaces the policy in row or memory until the next fetch | those of `policy` (9 states) |
| `TunnelSync!UnaffectedAlways` | `wgconf.go:363`: wg0.conf is written atomically; `Apply`: unaffected peers are never dropped | overlapping syncs share `wg0.conf.tmp`, an emptied one is renamed, and a sync that cannot read the live peers makes wg0 that file | those of `tunnel` (23 states) |
| `Failsafe!GraceIsGranted` | `heartbeat.go`: the lockdown waits for the stored grace period | a query that fails reads as no grace, or as no bundle ever | those of `failsafe` (4 states) |
| `Failsafe!NoBundleLocks` | a node that never had a policy locks when the cloud is away | the bootstrap bundle's expiry prevents it for a day | `MaxTime = 4`, `Lifetimes = {2}`, no restart, no fault |
| `FirewallChain!PausedIsCutOff` | SAFESWITCH is evaluated first | two overlapping first syncs leave an accepting rule above the jump for good | one uplink, modes split_tunnel and paused, no change, no fault |
| `RelayFallback!FallbackServes` | traffic keeps flowing in fallback | after an idle teardown a child's cached socket leads nowhere | those of `relay`, `FairSpec` |
| `RelayFallback!AlwaysWarned` | `relay_udp_bridge.go:203`: the notification lets the parent app show "running on backup" | the janitor leaves fallback, the bridge enters it and says so, then the janitor announces the recovery | those of `relay` (14 states) |
| `RelayFallback!RepliesAlways` | `relay_udp_bridge.go`: replies are routed back to the child | an endpoint that comes up on its old port is reached by a socket whose reply loop has ended | those of `relay` (13 states) |
| `RelaySessions!DisconnectCloses` | `broker.go:55-58`, `registry.go:71-74` and `:90-92`: `UnregisterNode` closes a connection's Send channel on disconnect | it closes the channels of sessions only; the writer of a node connection without one is ended by its context | those of `sessions` (6 states) |
| `RelaySessions!TeardownComplete` | `broker.go:167`: unregistering tears down the sessions rooted on the node | a second session on one connection panics, stays, and leaves the broker locked | those of `sessions` |
| `Filtering!SourcesIndependent` | `blocklistsync.go:22`: a row per domain and source, so that feeds do not disturb each other | the primary key is the domain; a name two feeds list goes when the one that owns the row drops it | those of `filter` |
| `Filtering!VerdictOfOnePolicy` | a decision follows one bundle | `sniproxy.go:177` asks for the pause and `:187` for the categories; a bundle that pauses a device and empties its categories can fall between, and a listed name passes that both bundles stop | those of `filter` |
| `Filtering!SniMirrorsDns` | `sniproxy.go:9-19`: SNI mirrors the DNS resolver exactly, except for devices without a row in the bundle | a device with a row and no blocked categories counts as unknown, and a listed name that DNS blocks passes by SNI | those of `filter` (8 states) |
| `EndpointUpkeep!MappedIsActive` | `upnp/service.go:108`: true if a mapping is active | a router that reboots or an expired lease leaves the flag set | those of `endpoint` |

Further differences between comments and code that the models contain:

* `drainPending` runs up to eight commands at once, `executor.go:128` promises the
  order received; a report that fails is not repeated; after a failed UPDATE the report
  carries a status that is not final (`CommandLedger`).
* A partial bundle of `update_policy` is kept by the change detection (`PolicySync`).
* When two peers trade addresses one pass of the diff leaves one of them out; an
  enrolment can replace a row of the bundle; a peer without addresses is never removed
  from wg0 (`TunnelSync`).
* A bundle without an expiry leaves the expiry of the one before it stored (`Failsafe`).
* After an uplink change the accepting rule stands above the jump; base rules can be
  there twice; the QUIC rule of the restore ends below the accepting one; a restart
  restores no device rules; `pause_device` adds no rule that iptables accepts
  (`FirewallChain`).
* The bridge leaves fallback without a notification; `LastSeen` never advances; a family
  whose nodes are all gone is not swept (`RelayFallback`).
* The reconnect delay grows with every session that ends and is never reset; after a
  connection that the client lost but the broker did not, the old handler unregisters the
  new connection; `clientAddrs` is written and read without a lock, which Go may answer
  by ending the process (`RelayPath`, where `abrupt` and `BrokerDies` stand for the last two).
* `activity_writer.go:16` says that the oldest events are dropped when the channel is full;
  `RecordBlock` drops the one it is called with, the newest. A ticker flush that runs after
  the context is done loses its batch (`ActivityWriter`).
* `upnp/service.go:3` says that the mapping is renewed every hour; `renewEvery` is 45
  minutes. When the answer to a write is lost and the address moves back, the updater sees no
  change and the row stays wrong; a single answering service is believed
  (`EndpointUpkeep`).

## Faulty variants

Operators named `Bug…` are variants of a definition with a plausible mistake (a
dropped guard, a missing flush, a wrong constant). No specification uses them.
"mutants" in `PROJECT.json` says which definition each replaces and which property
then fails, so that every property is known to depend on the code it is about.

## Proofs

All theorems are of the form `Spec => []P` or `Spec => [][A]_vars` and hold for every
value of the constants that satisfies the module's ASSUME. Three proof modules extend
two components each; in `TunnelSync`, `RelayPath` and `EndpointUpkeep` the names that
every specification has carry a prefix for that reason (`PathSpec`, `TunnelTypeOK`).

* **CommandLedgerProof** (assumes naturals as bounds and a positive `ExecLimit`; the
  set of commands may be infinite). `LedgerInv` ties
  the point a worker has reached to the row it holds and to the number of times the
  handler ran; without it a worker about to call the handler might hold a row that was
  executed before. The proof goes action by action, poll goroutine and workers apart.
  From it: `HandlerAtMostOnce`, `CloudDoneIsTrue`, `RowsFollowLifecycle`.
  `SemaphoreHolds` counts the active workers with the cardinality theorems.
* **PolicySyncProof.** `Owners`: only the seeder swaps the bootstrap bundle in. `Backed` adds
  to `MemBacked` that the row is there whenever a thread is past its write, that it is a
  policy's if the thread is not the seeder, and that a seeder past its write beside a policy has
  raced; without the last part publishing the bootstrap bundle might lose a policy unnoticed.
  `StepShape` says which of four things a step can do to row, memory and thread, and the
  invariant is shown for the four. From it: `PolicyIsStored`, `PolicyIsNeverLost`,
  `RowIsExact`.
* **ReachProof**, `Failsafe` (any grace, lifetimes, restarts and failing statements).
  `FailsafeInv` adds to `NoFalseLockdown` that a heartbeat under way has stored the expiry of
  the bundle in memory (`StoredIsActive`), without which the decision says nothing about that
  bundle, and the order of the times of an outage. From it: `OfflineIsKnown`,
  `LockdownIsJustified`.
* **ReachProof**, `EndpointUpkeep` (any addresses, any number of moves, reboots, restarts
  and faults). `LeaseInv`: a call of `tryMap` is over before time passes, and while nothing
  was disturbed the lease that is left and the time since the last success together
  span a lease, so the renewal comes first; `LeaseCovered` alone says nothing of the lease.
  `EntryInv`: an entry on the router that is not leaked is one the service knows of or
  waits for, so Stop deletes it. From them: `LeaseAlwaysCovered`, `StopAlwaysUnmaps`.
* **TunnelsProof**, `RelayFallback` (any nodes, children, ports and connections).
  `RepliesAreDelivered` is inductive given type correctness. `CloudIsWarned` needs `WarnInv`: a
  notification of a recovery that is yet to start while the family is degraded has crossed.
* **TunnelsProof**, `TunnelSync` (any keys, addresses, bundles, commands and goroutines).
  `SyncInv`: a sync upserts only children of the one bundle it works from, deletes only
  other rows, prunes only what it did not load, and an enrolment is for the key of its
  command; a wg0.conf that is not torn is no longer written to, and a file gives an address to
  one peer. `PlaceInv`: an unaffected peer is in table, wg0.conf, its temporary file, wg0 and in
  every list a sync has loaded or seen either absent or at the one address it can have; without it a stale
  `liveByKey` might take the peer for the holder of another peer's address and remove it.
  `UpsertIs` is the lemma about INSERT OR REPLACE. From them: `TunnelTypeCorrect` (an
  address belongs to one peer, in the table and on wg0) and the action property
  `UnaffectedAlwaysStay`. The proof attempt showed that a peer which a command names is not
  unaffected, whatever the bundles say: an add_peer whose look-up fails moves a peer that
  has a row. `Stable` leaves those keys out.
* **ActivityWriterProof** (any events, names and children, any size of channel and batch).
  `WriterInv` adds to the properties that a row in the log and an end belong to a recorded
  event, and that once `run()` is past its last look the channel holds only later events;
  without the last part a shutdown might forget one. Channel and batch are sequences:
  lemmas say what an append, a head and an emptied batch do to the set of their items.
  From it: `HeldOnceAlways`, `EveryChildAlways`, `ShutdownFlushesAlways`.
  `WriterImplementsLog` is the refinement: every step, under the mapping `Fate`, is a
  `Record`, a `Settle` or a stutter of `BestEffortLog`.
* **RelayConnectionsProof**, `RelaySessions` (any nodes, devices and connections). `SessionsInv` says that
  nothing refers to a connection that has not come yet, that the broker's maps name their own
  nodes and devices, and that while the mutex works no node connection in the map is
  closed; the three properties are not inductive alone, because a session made of a closed
  connection would break them. The tear-down is shown apart for connections with none,
  one and more sessions. From it: `SessionsOpenAlways`, `LockedByTwoAlways`. `OwnGone` adds
  whose handler has ended when a channel is closed; from it `OnlyOwnCloseAlways`.
* **RelayConnectionsProof**, `RelayPath` (channels of any capacity, any number of children,
  sessions, faults and restarts). `LiveInv`: an intact connection has both its ends, and
  each has heard the other since the last pings or has a frame before it, because what
  makes a full channel drop a ping is a frame that will be read (`OfferIs`); so neither
  clock passes the ping interval. `LateInv`: on a cut connection the client's silence is at
  most one ping interval longer than the broker's, which is the difference of the two
  deadlines, and a handler that outlives its session is due before the client dials again.
  From them: `KeptAliveAlways`, `NeverLateUnregister`.
* **FilteringProof** (any names, suffix walks, categories, seeds and bundles). `SyncInv`
  bounds the count of changed feeds by the place of the loop. `HashMatchesTable` is
  inductive given that; `SeedsAlwaysSurvive` looks at the two steps that write the table.
  `QueryInv` records, for every place a decision can be at, what it has already seen (an
  unpaused policy, a list with or without the name, a category), which is what the verdict at
  the end is made of; from it `VerdictAlwaysCurrent`.
* **FirewallChainProof** (any devices, modes, uplinks and goroutines, any number of
  changes, restarts and faults). Three parts, the second and third under "no overlap, no
  fault": `Alone` (one goroutine at a time is in there), `HeadInv` (a base rule is inserted
  only where it is absent, so the first jump goes in above the accepting rule, and an
  accepting rule goes in above a jump only beside one of another uplink) and `ChainInv`
  (what is in SAFESWITCH or about to be appended is right, and every child of the bundle
  has a rule, is next or is still to come). `Inserted` is the lemma about a rule put at the
  head, `Moved` the one about a rule taken from the goroutine's list to the chain. From
  them: `SafeswitchAlwaysFirst`, and `AlwaysEnforced`, which evaluates both chains to the
  first rule that decides.

Only model-checked: liveness (the prover has no ENABLED) and the refutations.

## Not modelled, and why

* Superseded top-level copies of packages, enrollment, localclock, OTA, safe search, ECS
  stripping, the NRD list and its sync: nothing calls them in this version.
* Block pages, certificates, LuCI page, local API, presence tables, health samples,
  identity files, wire formats: input and output with no protocol of their own.
* The terminator's packet filter, and the family config cache, which has one caller.
* wireguard-go, SQLite, iptables, netfilter, the home router, the cloud's edge functions:
  external, modelled by how the code uses them.

## Plan

Done: `CommandLedger`, `PolicySync`, `TunnelSync`, `Failsafe`, `FirewallChain`,
`RelayFallback`, `RelaySessions`, `RelayPath`, `Filtering`, `ActivityWriter` with
`BestEffortLog`, `EndpointUpkeep`, each with its run; proofs about all of them.

Next, in this order:

1. An abstract specification of "the kernel follows the policy" that `FirewallChain`
   implements between syncs.
