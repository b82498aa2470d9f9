----------------------------- MODULE TunnelSync ------------------------------
(***************************************************************************)
(* WireGuard peers: tunnel/manager.go reconciles the SQLite table          *)
(* tunnel_peers with the active policy bundle and tunnel/wgconf.go applies *)
(* the table to the kernel interface wg0 by a diff, one `wg set` at a time.*)
(*                                                                         *)
(* Manager.sync takes no lock.  It is run by the 60-second ticker, by      *)
(* onSwap and fetchBundle after a bundle swap and by the add_peer and      *)
(* remove_peer command workers, so its statements and commands interleave. *)
(* The table and the interface outlive the process.                        *)
(*                                                                         *)
(* A bundle is the map from public key to tunnel address of its children;  *)
(* an address is its last octet.                                           *)
(***************************************************************************)
EXTENDS Integers, FiniteSets

CONSTANTS
  Keys,        \* public keys
  MaxIP,       \* addresses are 1 .. MaxIP; allocateIP searches them upwards
  Bundles,     \* the bundles the cloud may send, functions in [Keys -> Address]
  Threads,     \* goroutines that may run sync at the same time
  AddKeys,     \* keys of add_peer commands
  RemoveKeys,  \* keys of remove_peer commands
  MaxCommand,  \* bound: add_peer and remove_peer commands that are run
  MaxSwap,     \* bound: bundle swaps
  MaxFault     \* bound: failing SQL statements and commands, process restarts

NoIP == 0
Address == 0 .. MaxIP
Bare == -1       \* a peer of wg0 without allowed-ips, shown as "(none)"
Gone == 0        \* no such peer on wg0

Members(m) == {k \in Keys : m[k] # NoIP}

Injective(m) == \A j, k \in Members(m) : m[j] = m[k] => j = k

PeerMap == {m \in [Keys -> Address] : Injective(m)}

ASSUME TunnelAssumption ==
  /\ MaxIP \in Nat /\ MaxCommand \in Nat /\ MaxSwap \in Nat /\ MaxFault \in Nat
  /\ AddKeys \subseteq Keys /\ RemoveKeys \subseteq Keys
  /\ \A b \in Bundles : b \in [Keys -> Address] /\ Injective(b)

NoPeers == [k \in Keys |-> NoIP]

\* Peers with at most one address each, on wg0 or in a file.
Listing == [Keys -> Address \union {Bare}]

OneHolder(m) == \A j, k \in Keys : m[j] = m[k] /\ m[j] > 0 => j = k

\* The bundle in memory: absent, bootstrap-local, or one from the cloud.
Active == {<<"none", NoPeers>>, <<"bootstrap", NoPeers>>}
          \union {<<"cloud", b>> : b \in Bundles}

VARIABLES
  bundle,    \* the active bundle (policy.ActiveBundle)
  table,     \* tunnel_peers, NoIP without a row
  wg,        \* allowed-ips of each peer of wg0
  conf,      \* the peers in wg0.conf
  tmp,       \* wg0.conf.tmp: {} if there is none, else {its peers}
  torn,      \* history: wg0.conf is not what the sync that renamed it had written
  adds,      \* add_peer commands not yet run
  removes,   \* remove_peer commands not yet run
  pc,        \* where each goroutine is
  arg,       \* the peer an AddPeer is about to insert
  view,      \* children of the bundle a sync works from
  todo,      \* keys the current loop of a sync still has to visit
  desired,   \* the peers a sync loaded from the table
  live,      \* liveByKey: the peers a sync saw on wg0 and has not removed
  swaps, faults  \* history

files == <<conf, tmp, torn>>
tunnelVars == <<bundle, table, wg, files, adds, removes, pc, arg, view, todo, desired,
                live, swaps, faults>>
locals == <<arg, view, todo, desired, live>>
history == <<swaps, faults>>

\* Where a sync is inside writeConf.  Its open file may be wg0.conf.tmp still, may
\* have become wg0.conf by another sync's rename, or been replaced there.
Writing == {"write", "writeconf", "writelost", "rename"}

Labels == {"idle", "alloc", "insert", "sync", "upsert", "delete", "load", "apply",
           "live", "syncconf", "diff", "prune"} \union Writing

\* One type invariant; the table's two unique columns and wg0's rule that an
\* address belongs to one peer are part of it.
TunnelTypeOK ==
  /\ bundle \in Active
  /\ table \in [Keys -> Address] /\ Injective(table)
  /\ wg \in Listing
  /\ OneHolder(wg)
  /\ conf \in Listing
  /\ tmp \subseteq Listing
  /\ torn \in BOOLEAN
  /\ adds \subseteq AddKeys /\ removes \subseteq RemoveKeys
  /\ pc \in [Threads -> Labels]
  /\ arg \in [Threads -> (Keys \X Address) \union {<<>>}]
  /\ view \in [Threads -> [Keys -> Address]]
  /\ todo \in [Threads -> SUBSET Keys]
  /\ desired \in [Threads -> [Keys -> Address]]
  /\ \A t \in Threads : Injective(desired[t])
  /\ live \in [Threads -> Listing]
  /\ swaps \in 0 .. MaxSwap /\ faults \in 0 .. MaxFault

TunnelInit ==
  /\ bundle = <<"none", NoPeers>>
  /\ table = NoPeers
  /\ wg = [k \in Keys |-> Gone]
  /\ conf = NoPeers /\ tmp = {} /\ torn = FALSE
  /\ adds = AddKeys /\ removes = RemoveKeys
  /\ pc = [t \in Threads |-> "idle"]
  /\ arg = [t \in Threads |-> <<>>]
  /\ view = [t \in Threads |-> NoPeers]
  /\ todo = [t \in Threads |-> {}]
  /\ desired = [t \in Threads |-> NoPeers]
  /\ live = [t \in Threads |-> NoPeers]
  /\ swaps = 0 /\ faults = 0

Fault ==
  /\ faults < MaxFault
  /\ faults' = faults + 1

goto(t, label) == pc' = [pc EXCEPT ![t] = label]

-----------------------------------------------------------------------------
(* What starts a sync.                                                      *)

\* SwapBundle publishes a bundle and its callback calls TriggerSync.
Swap(t, b) ==
  /\ pc[t] = "idle" /\ swaps < MaxSwap
  /\ b # bundle /\ b[1] # "none"
  /\ bundle' = b
  /\ swaps' = swaps + 1
  /\ goto(t, "sync")
  /\ UNCHANGED <<table, wg, files, adds, removes, locals, faults>>

\* The sync ticker, or the sync of Manager.Start.
Tick(t) ==
  /\ pc[t] = "idle"
  /\ goto(t, "sync")
  /\ UNCHANGED <<bundle, files, table, wg, adds, removes, locals, history>>

\* Faulty variant: only a row of the same key is replaced.
BugUpsertByKey(k, ip) == table' = [table EXCEPT ![k] = ip]

\* INSERT OR REPLACE: rows with the same key or the same address go.
Upsert(k, ip) ==
  table' = [j \in Keys |-> IF j = k THEN ip
                           ELSE IF table[j] = ip THEN NoIP ELSE table[j]]

CommandsLeft ==
  Cardinality(AddKeys \ adds) + Cardinality(RemoveKeys \ removes) < MaxCommand

\* add_peer for a key that has a row changes nothing; a query that fails is
\* taken for no row.
AddPeer(t, k) ==
  /\ pc[t] = "idle" /\ k \in adds /\ CommandsLeft
  /\ adds' = adds \ {k}
  /\ \/ /\ table[k] # NoIP
        /\ UNCHANGED <<pc, arg, faults>>
     \/ /\ IF table[k] = NoIP THEN UNCHANGED faults ELSE Fault
        /\ goto(t, "alloc") /\ arg' = [arg EXCEPT ![t] = <<k, NoIP>>]
  /\ UNCHANGED <<bundle, files, table, wg, removes, view, todo, desired, live, swaps>>

FreeIPs == {ip \in 1 .. MaxIP : \A k \in Keys : table[k] # ip}

\* allocateIP: the lowest free address, or "tunnel subnet exhausted".
AllocateIP(t) ==
  /\ pc[t] = "alloc"
  /\ IF FreeIPs = {}
       THEN goto(t, "idle") /\ arg' = [arg EXCEPT ![t] = <<>>]
       ELSE \E ip \in FreeIPs :
              /\ \A other \in FreeIPs : ip <= other
              /\ arg' = [arg EXCEPT ![t] = <<arg[t][1], ip>>]
              /\ goto(t, "insert")
  /\ UNCHANGED <<bundle, files, table, wg, adds, removes, view, todo, desired, live,
                 history>>

InsertPeer(t) ==
  /\ pc[t] = "insert"
  /\ Upsert(arg[t][1], arg[t][2])
  /\ arg' = [arg EXCEPT ![t] = <<>>]
  /\ goto(t, "sync")
  /\ UNCHANGED <<bundle, files, wg, adds, removes, view, todo, desired, live, history>>

RemovePeer(t, k) ==
  /\ pc[t] = "idle" /\ k \in removes /\ CommandsLeft
  /\ removes' = removes \ {k}
  /\ table' = [table EXCEPT ![k] = NoIP]
  /\ goto(t, "sync")
  /\ UNCHANGED <<bundle, files, wg, adds, locals, history>>

-----------------------------------------------------------------------------
(* sync: the table follows the bundle.                                      *)

\* Faulty variant: an empty bootstrap bundle is taken for the truth.
BugBootstrapIsReal(t) ==
  /\ pc[t] = "sync"
  /\ view' = [view EXCEPT ![t] = bundle[2]]
  /\ todo' = [todo EXCEPT ![t] = Members(bundle[2])]
  /\ goto(t, "upsert")
  /\ UNCHANGED <<bundle, files, table, wg, adds, removes, arg, desired, live, history>>

\* Without a bundle nothing is done; a bootstrap-local bundle leaves the table
\* alone.
ReadBundle(t) ==
  /\ pc[t] = "sync"
  /\ CASE bundle[1] = "none"      -> goto(t, "idle") /\ UNCHANGED <<view, todo>>
       [] bundle[1] = "bootstrap" -> goto(t, "load") /\ UNCHANGED <<view, todo>>
       [] OTHER -> /\ view' = [view EXCEPT ![t] = bundle[2]]
                   /\ todo' = [todo EXCEPT ![t] = Members(bundle[2])]
                   /\ goto(t, "upsert")
  /\ UNCHANGED <<bundle, files, table, wg, adds, removes, arg, desired, live, history>>

UpsertChild(t) ==
  /\ pc[t] = "upsert"
  /\ \E k \in todo[t] :
       /\ Upsert(k, view[t][k])
       /\ todo' = [todo EXCEPT ![t] = @ \ {k}]
  /\ UNCHANGED <<bundle, files, wg, adds, removes, pc, arg, view, desired, live,
                 history>>

QueryOrphans(t) ==
  /\ pc[t] = "upsert" /\ todo[t] = {}
  /\ todo' = [todo EXCEPT ![t] = Members(table) \ Members(view[t])]
  /\ goto(t, "delete")
  /\ UNCHANGED <<bundle, files, table, wg, adds, removes, arg, view, desired, live,
                 history>>

DeleteOrphan(t) ==
  /\ pc[t] = "delete"
  /\ \E k \in todo[t] :
       /\ table' = [table EXCEPT ![k] = NoIP]
       /\ todo' = [todo EXCEPT ![t] = @ \ {k}]
  /\ UNCHANGED <<bundle, files, wg, adds, removes, pc, arg, view, desired, live,
                 history>>

\* The view is not used after the load.
LoadPeers(t) ==
  /\ pc[t] = "load" \/ (pc[t] = "delete" /\ todo[t] = {})
  /\ desired' = [desired EXCEPT ![t] = table]
  /\ view' = [view EXCEPT ![t] = NoPeers]
  /\ goto(t, "apply")
  /\ UNCHANGED <<bundle, files, table, wg, adds, removes, arg, todo, live, history>>

-----------------------------------------------------------------------------
(* Apply and syncPeersDiff: wg0 follows the peers that were loaded.         *)

\* writeConf opens the one wg0.conf.tmp, empty.
OpenTmp(t) ==
  /\ pc[t] = "apply"
  /\ tmp' = {NoPeers}
  /\ goto(t, "write")
  /\ UNCHANGED <<bundle, table, wg, conf, torn, adds, removes, locals, history>>

\* A file of the peers old, written from its beginning with the peers new: the end
\* of a longer text stays.  Of two entries with one address the last has it.
Overwritten(old, new) ==
  {[k \in Keys |-> IF k \in tail THEN old[k]
                   ELSE IF \E j \in tail : old[j] = new[k] THEN Bare ELSE new[k]] :
     tail \in SUBSET {k \in Keys : old[k] > 0}}

WriteTmp(t) ==
  /\ \/ /\ pc[t] = "write"
        /\ \E old \in tmp : \E m \in Overwritten(old, desired[t]) : tmp' = {m}
        /\ UNCHANGED conf
     \/ /\ pc[t] = "writeconf"
        /\ conf' \in Overwritten(conf, desired[t])
        /\ UNCHANGED tmp
     \/ pc[t] = "writelost" /\ UNCHANGED <<conf, tmp>>
  /\ goto(t, "rename")
  /\ UNCHANGED <<bundle, table, wg, torn, adds, removes, locals, history>>

\* The rename publishes whatever wg0.conf.tmp holds, and may yet be written to it.
RenameTmp(t) ==
  /\ pc[t] = "rename"
  /\ \E m \in tmp : conf' = m
  /\ tmp' = {}
  /\ torn' = (tmp # {desired[t]} \/ \E u \in Threads : pc[u] = "write")
  /\ pc' = [u \in Threads |-> IF u = t THEN "live"
                              ELSE CASE pc[u] = "write" -> "writeconf"
                                     [] pc[u] = "writeconf" -> "writelost"
                                     [] OTHER -> pc[u]]
  /\ UNCHANGED <<bundle, table, wg, adds, removes, locals, history>>

\* readLivePeers does not see peers without allowed-ips.
ReadLive(t) ==
  /\ pc[t] = "live"
  /\ live' = [live EXCEPT ![t] = [k \in Keys |-> IF wg[k] = Bare THEN NoIP
                                                                 ELSE wg[k]]]
  /\ todo' = [todo EXCEPT ![t] = Members(desired[t])]
  /\ goto(t, "diff")
  /\ UNCHANGED <<bundle, files, table, wg, adds, removes, arg, view, desired, history>>

\* The next desired peer, in the order of the addresses.
NextDesired(t, k) ==
  /\ pc[t] = "diff" /\ k \in todo[t]
  /\ \A j \in todo[t] : desired[t][k] <= desired[t][j]

\* Peers that seem to hold the address of k on wg0.
Holders(t, k) == {j \in Members(live[t]) : live[t][j] = desired[t][k]} \ {k}

KeepPeer(t, k) ==
  /\ NextDesired(t, k)
  /\ live[t][k] = desired[t][k]
  /\ todo' = [todo EXCEPT ![t] = @ \ {k}]
  /\ UNCHANGED <<bundle, files, table, wg, adds, removes, pc, arg, view, desired,
                 live, history>>

\* wg set wg0 peer j remove, for the holder of the address.
RemoveHolder(t, k) ==
  /\ NextDesired(t, k)
  /\ live[t][k] # desired[t][k]
  /\ \E j \in Holders(t, k) :
       /\ wg' = [wg EXCEPT ![j] = Gone]
       /\ live' = [live EXCEPT ![t][j] = NoIP]
  /\ UNCHANGED <<bundle, files, table, adds, removes, pc, arg, view, todo, desired,
                 history>>

\* wg set wg0 peer k allowed-ips ip: the kernel takes the address from any peer
\* that has it.  liveByKey is not updated.
SetPeer(t, k) ==
  /\ NextDesired(t, k)
  /\ live[t][k] # desired[t][k]
  /\ Holders(t, k) = {}
  /\ wg' = [j \in Keys |-> IF j = k THEN desired[t][k]
                           ELSE IF wg[j] = desired[t][k] THEN Bare ELSE wg[j]]
  /\ todo' = [todo EXCEPT ![t] = @ \ {k}]
  /\ UNCHANGED <<bundle, files, table, adds, removes, pc, arg, view, desired, live,
                 history>>

\* The end of a sync: its local variables are dead.
Finish(t) ==
  /\ goto(t, "idle")
  /\ view' = [view EXCEPT ![t] = NoPeers]
  /\ todo' = [todo EXCEPT ![t] = {}]
  /\ desired' = [desired EXCEPT ![t] = NoPeers]
  /\ live' = [live EXCEPT ![t] = NoPeers]

DiffDone(t) ==
  /\ pc[t] = "diff" /\ todo[t] = {}
  /\ LET orphans == Members(live[t]) \ Members(desired[t])
     IN IF orphans = {}
          THEN Finish(t)
          ELSE /\ todo' = [todo EXCEPT ![t] = orphans]
               /\ goto(t, "prune")
               /\ UNCHANGED <<view, desired, live>>
  /\ UNCHANGED <<bundle, files, table, wg, adds, removes, arg, history>>

\* Faulty variant: peers that are no longer wanted stay on wg0.
BugNoPrune(t) ==
  /\ pc[t] = "prune"
  /\ Finish(t)
  /\ UNCHANGED <<bundle, files, table, wg, adds, removes, arg, history>>

RemoveOrphan(t) ==
  /\ pc[t] = "prune"
  /\ \E k \in todo[t] :
       /\ wg' = [wg EXCEPT ![k] = Gone]
       /\ IF todo[t] = {k}
            THEN Finish(t)
            ELSE /\ todo' = [todo EXCEPT ![t] = @ \ {k}]
                 /\ UNCHANGED <<pc, view, desired, live>>
  /\ UNCHANGED <<bundle, files, table, adds, removes, arg, history>>

-----------------------------------------------------------------------------
\* The rename finds no wg0.conf.tmp, another sync having renamed it: Apply fails.
RenameFails(t) ==
  /\ pc[t] = "rename" /\ tmp = {}
  /\ Finish(t)
  /\ UNCHANGED <<bundle, table, wg, files, adds, removes, arg, history>>

\* readLivePeers fails: syncconfFallback reads wg0.conf,
ReadConf(t) ==
  /\ Fault
  /\ pc[t] = "live"
  /\ live' = [live EXCEPT ![t] = conf]
  /\ goto(t, "syncconf")
  /\ UNCHANGED <<bundle, table, wg, files, adds, removes, arg, view, todo, desired,
                 swaps>>

\* and makes wg0 what it read.
Syncconf(t) ==
  /\ pc[t] = "syncconf"
  /\ wg' = live[t]
  /\ Finish(t)
  /\ UNCHANGED <<bundle, table, files, adds, removes, arg, history>>

\* An upsert or delete of the reconcile fails; its error is discarded.
StatementFails(t) ==
  /\ Fault
  /\ pc[t] \in {"upsert", "delete"}
  /\ \E k \in todo[t] : todo' = [todo EXCEPT ![t] = @ \ {k}]
  /\ UNCHANGED <<bundle, table, wg, files, adds, removes, pc, arg, view, desired,
                 live, swaps>>

\* Anything else fails: AddPeer or the sync returns, the diff half applied.
SyncFails(t) ==
  /\ Fault
  /\ \/ pc[t] \in {"alloc", "insert", "load", "apply", "live", "syncconf"} \union Writing
     \/ pc[t] \in {"upsert", "delete"} /\ todo[t] = {}
     \/ pc[t] \in {"diff", "prune"} /\ todo[t] # {}
  /\ Finish(t)
  /\ arg' = [arg EXCEPT ![t] = <<>>]
  /\ UNCHANGED <<bundle, table, wg, files, adds, removes, swaps>>

\* The process stops; the table, the interface and the stored bundle stay.
Restart ==
  /\ Fault
  /\ pc' = [t \in Threads |-> "idle"]
  /\ arg' = [t \in Threads |-> <<>>]
  /\ view' = [t \in Threads |-> NoPeers]
  /\ todo' = [t \in Threads |-> {}]
  /\ desired' = [t \in Threads |-> NoPeers]
  /\ live' = [t \in Threads |-> NoPeers]
  /\ UNCHANGED <<bundle, files, table, wg, adds, removes, swaps>>

SyncStep(t) ==
  \/ AllocateIP(t)
  \/ InsertPeer(t)
  \/ ReadBundle(t)
  \/ UpsertChild(t)
  \/ QueryOrphans(t)
  \/ DeleteOrphan(t)
  \/ LoadPeers(t)
  \/ OpenTmp(t) \/ WriteTmp(t) \/ RenameTmp(t) \/ RenameFails(t)
  \/ ReadLive(t) \/ Syncconf(t)
  \/ \E k \in Keys : KeepPeer(t, k) \/ RemoveHolder(t, k) \/ SetPeer(t, k)
  \/ DiffDone(t)
  \/ RemoveOrphan(t)

TunnelNext ==
  \/ \E t \in Threads :
       \/ \E b \in Active : Swap(t, b)
       \/ Tick(t)
       \/ \E k \in Keys : AddPeer(t, k) \/ RemovePeer(t, k)
       \/ SyncStep(t)
       \/ ReadConf(t) \/ StatementFails(t) \/ SyncFails(t)
  \/ Restart

TunnelSpec == TunnelInit /\ [][TunnelNext]_tunnelVars

\* The ticker fires again and again; a goroutine inside a sync gets on with it.
FairTunnelSpec ==
  /\ TunnelSpec
  /\ \A t \in Threads : WF_tunnelVars(Tick(t) \/ SyncStep(t))

-----------------------------------------------------------------------------
(* Properties.                                                              *)

\* Keys that every bundle of the cloud puts at the same address and no command is
\* about.
Stable == {k \in Keys \ (AddKeys \union RemoveKeys) :
             /\ \E b \in Bundles : b[k] # NoIP
             /\ \A b, c \in Bundles : b[k] = c[k]}

\* Peer k is where every bundle wants it: in the table, on wg0, in the list of every
\* sync that already loaded or read one, in wg0.conf if a sync may still read it there
\* and no overlapping ones have written it, and no enrolment was promised its address
\* before it had a row.
Established(k) ==
  \A b \in Bundles :
    /\ table[k] = b[k] /\ wg[k] = b[k]
    /\ \A t \in Threads :
         /\ pc[t] \in {"apply", "live", "diff", "prune"} \union Writing =>
              desired[t][k] = b[k]
         /\ pc[t] = "live" /\ ~torn => conf[k] = b[k]
         /\ pc[t] = "syncconf" => live[t][k] = b[k]
         /\ pc[t] = "insert" => arg[t][2] # b[k]

\* A sync falls back to a wg0.conf that overlapping syncs have written.
ReadsTorn == torn /\ \E t \in Threads : ReadConf(t)

\* wgconf.go, Apply: "a bundle swap or re-enrollment never drops unaffected
\* peers".  Whatever syncs of different bundles, a bootstrap bundle included,
\* interleave, fail half-way or are cut off by a restart, a peer no bundle moves
\* keeps its row and its place on wg0, unless a sync falls back to a wg0.conf that
\* two syncs have written at once.
UnaffectedStay ==
  [][\A k \in Stable : Established(k) => Established(k)' \/ ReadsTorn]_tunnelVars

\* The same without that exception. The code does not keep it: writeConf "atomically
\* writes wg0.conf" (wgconf.go) only if one sync does so at a time.
UnaffectedAlways == [][\A k \in Stable : Established(k) => Established(k)']_tunnelVars

\* The inductive invariant behind it.  A sync reconciles the table with one bundle,
\* visits only its children and deletes only other rows, and prunes only what it did
\* not load; an enrolment is for the key of its command; a wg0.conf that is not torn
\* is no longer written to; an address belongs to one entry of a file.
SyncInv ==
  /\ OneHolder(conf) /\ \A m \in tmp : OneHolder(m)
  /\ \A t \in Threads :
       /\ pc[t] \in {"upsert", "delete"} => view[t] \in Bundles
       /\ pc[t] = "upsert" => todo[t] \subseteq Members(view[t])
       /\ pc[t] = "delete" => todo[t] \intersect Members(view[t]) = {}
       /\ pc[t] = "prune" => todo[t] \intersect Members(desired[t]) = {}
       /\ pc[t] \in {"alloc", "insert"} => arg[t] \in AddKeys \X Address
       /\ pc[t] = "writeconf" => torn
       /\ pc[t] = "syncconf" => OneHolder(live[t])

\* So an unaffected peer is nowhere at an address of its past: what a sync saw of it
\* on wg0 is never held against another peer.
PlaceInv ==
  \A k \in Stable, b \in Bundles :
    /\ table[k] \in {NoIP, b[k]} /\ wg[k] \in {Gone, Bare, b[k]}
    /\ conf[k] \in {NoIP, Bare, b[k]}
    /\ \A m \in tmp : m[k] \in {NoIP, Bare, b[k]}
    /\ \A t \in Threads : /\ desired[t][k] \in {NoIP, b[k]}
                          /\ live[t][k] \in {NoIP, Bare, b[k]}

\* When swaps and commands have stopped, the 60-second sync brings the table to
\* the active bundle and wg0 to the table, whatever was left behind by
\* interleaved or half-applied syncs.
Settled ==
  bundle[1] = "cloud" =>
    /\ table = bundle[2]
    /\ \A k \in Keys : wg[k] = bundle[2][k] \/ (wg[k] = Bare /\ table[k] = NoIP)

Settles == []<>Settled
=============================================================================
