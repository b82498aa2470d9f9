---------------------------- MODULE FirewallChain ----------------------------
(***************************************************************************)
(* The iptables rules that enforce the policy: firewall/enforcer.go keeps  *)
(* three base rules at the head of FORWARD and rebuilds the chain          *)
(* SAFESWITCH, which holds the rules of each device, by a flush and one    *)
(* append per rule; app/iptables_restore.go prepares both at startup.      *)
(*                                                                         *)
(* Sync takes no lock.  It is run by the 30-second ticker, by onSwap after *)
(* a bundle swap and by the workers of set_route_profile and               *)
(* unpause_device, so its iptables commands interleave.  The kernel's      *)
(* rules outlive the process and are lost in a reboot.                     *)
(*                                                                         *)
(* Addresses are resolved (resolveIP): a device stands for its tunnel      *)
(* address.  The nat and mangle rules do not filter and are left out.      *)
(***************************************************************************)
EXTENDS Integers, Sequences, SequencesExt

CONSTANTS
  Devices,   \* enrolled devices
  Modes,     \* modes a bundle gives a device; "absent" if it has no child for it
  Profiles,  \* profiles of set_route_profile
  Uplinks,   \* upstream interfaces natIface may find
  FirstUplink,  \* the one at the first start
  Threads,   \* goroutines that may be in Sync or PauseDevice at the same time
  Ticker,    \* the one of Enforcer.Start
  MaxChange, \* bound: changes of policy, profile and uplink
  MaxFault   \* bound: failing commands, restarts and reboots

ASSUME FirewallAssumption ==
  /\ Ticker \in Threads /\ FirstUplink \in Uplinks
  /\ Devices \intersect {"none", "sync"} = {}
  /\ Modes \subseteq {"absent", "full_tunnel", "split_tunnel", "paused"}
  /\ Profiles \subseteq {"full_tunnel", "split_tunnel", "service_only"}
  /\ MaxChange \in Nat /\ MaxFault \in Nat

NoProfile == "split_tunnel"   \* what RouteProfileForMAC answers without a row

VARIABLES
  forward,   \* the FORWARD chain, first rule first
  chain,     \* the SAFESWITCH chain
  uplink,    \* the interface of the default route
  policy,    \* mode of each device in the active bundle
  profile,   \* device_route_profiles
  pc,        \* where each goroutine is
  job,       \* what it is doing: "sync", or the device of a pause_device
  base,      \* base rules it still has to look at, with the uplink it found
  view,      \* the children bundleProvider gave it
  todo,      \* devices of the view it has not appended yet
  rules,     \* rules of the current device it has not appended yet
  synced,    \* history: a sync has ended since the process started
  overlap,   \* history: two goroutines were in here at once since the reboot
  changes, faults, boots  \* history

vars == <<forward, chain, uplink, policy, profile, pc, job, base, view, todo,
          rules, synced, overlap, changes, faults, boots>>
kernel == <<forward, chain, uplink>>
history == <<changes, faults, boots>>
locals == <<job, base, view, todo, rules>>

-----------------------------------------------------------------------------
(* Rules.                                                                   *)

Established == <<"established", "any">>
Accept(i) == <<"accept", i>>        \* -i wg0 -o i -j ACCEPT
Jump == <<"jump", "any">>           \* -j SAFESWITCH
JumpWg == <<"jump", "wg0">>         \* -i wg0 -j SAFESWITCH, by applyBaseChain
DropQuic == <<"quic", "wg0">>       \* -i wg0 -p udp --dport 443 -j DROP

\* Faulty variant: the jump is inserted before the rule that accepts wg0.
BugJumpFirst(i) == <<Established, Jump, Accept(i)>>

\* EnsureForwardJump.
BaseRules(i) == <<Established, Accept(i), Jump>>

\* BuildRules; "out" and "in" are -s and -d the device, "toGw" and "fromGw" are
\* limited to the gateway.
BuildRules(d, state) ==
  CASE state = "paused" ->
         <<<<d, "out", "drop">>, <<d, "in", "drop">>>>
    [] state = "service_only" ->
         <<<<d, "toGw", "accept">>, <<d, "fromGw", "accept">>,
           <<d, "out", "drop">>, <<d, "in", "drop">>>>
    [] OTHER ->
         <<<<d, "out", "accept">>, <<d, "in", "accept">>>>

\* resolveState: a stored full_tunnel or service_only profile comes first, then
\* the pause of the bundle, then its mode.
resolveState(d, mode) ==
  CASE profile[d] \in {"full_tunnel", "service_only"} -> profile[d]
    [] mode = "paused"      -> "paused"
    [] mode = "full_tunnel" -> "full_tunnel"
    [] OTHER                -> "full_access"

Rule == Devices \X {"out", "in", "toGw", "fromGw"} \X {"accept", "drop"}

Fault ==
  /\ faults + boots < MaxFault
  /\ faults' = faults + 1

Change ==
  /\ changes < MaxChange
  /\ changes' = changes + 1

goto(t, label) == pc' = [pc EXCEPT ![t] = label]

\* restoreIptablesOnBoot: SAFESWITCH is created and flushed, the jump and the QUIC
\* rule are inserted if absent.  restoreDeviceRules queries tables that the node's
\* database does not have and restores nothing.
InsertIfAbsent(rule, seq) == IF Contains(seq, rule) THEN seq ELSE <<rule>> \o seq
Restored(seq) == InsertIfAbsent(DropQuic, InsertIfAbsent(JumpWg, seq))

ForwardRule ==
  {Established, Jump, JumpWg, DropQuic} \union {Accept(i) : i \in Uplinks}

\* What is left of BaseRules.
Base ==
  {<<>>, <<Jump>>} \union {<<Accept(i), Jump>> : i \in Uplinks}
    \union {BaseRules(i) : i \in Uplinks}

TypeOK ==
  /\ forward \in Seq(ForwardRule)
  /\ chain \in Seq(Rule)
  /\ uplink \in Uplinks
  /\ policy \in [Devices -> Modes]
  /\ profile \in [Devices -> Profiles \union {NoProfile}]
  /\ pc \in [Threads -> {"idle", "check", "insert", "flush", "append"}]
  /\ job \in [Threads -> {"none", "sync"} \union Devices]
  /\ base \in [Threads -> Base]
  /\ view \in [Threads -> [Devices -> Modes \union {"absent"}]]
  /\ todo \in [Threads -> SUBSET Devices]
  /\ rules \in [Threads -> Seq(Rule)]
  /\ \A t \in Threads :
       /\ pc[t] \in {"check", "insert"} => base[t] # <<>>
       /\ pc[t] # "append" => todo[t] = {} /\ rules[t] = <<>>
       /\ pc[t] = "idle" <=> job[t] = "none"
  /\ synced \in BOOLEAN /\ overlap \in BOOLEAN
  /\ changes \in 0 .. MaxChange /\ faults \in 0 .. MaxFault
  /\ boots \in 0 .. MaxFault

NoView == [d \in Devices |-> "absent"]

Init ==
  /\ forward = Restored(<<>>)
  /\ chain = <<>>
  /\ uplink = FirstUplink
  /\ policy \in [Devices -> Modes]      \* loaded from SQLite
  /\ profile = [d \in Devices |-> NoProfile]
  /\ pc = [t \in Threads |-> "idle"]
  /\ job = [t \in Threads |-> "none"]
  /\ base = [t \in Threads |-> <<>>]
  /\ view = [t \in Threads |-> NoView]
  /\ todo = [t \in Threads |-> {}]
  /\ rules = [t \in Threads |-> <<>>]
  /\ synced = FALSE /\ overlap = FALSE
  /\ changes = 0 /\ faults = 0 /\ boots = 0

-----------------------------------------------------------------------------
(* What starts a goroutine's work.                                          *)

Quiet == \A t \in Threads : pc[t] = "idle"

Start(t, work) ==
  /\ pc[t] = "idle"
  /\ goto(t, "check")
  /\ job' = [job EXCEPT ![t] = work]
  /\ base' = [base EXCEPT ![t] = BaseRules(uplink)]
  /\ overlap' = (overlap \/ ~Quiet)

\* bundleProvider has been called and Sync begins.
Begin(t, modes) ==
  /\ Start(t, "sync")
  /\ view' = [view EXCEPT ![t] = modes]
  /\ UNCHANGED <<todo, rules>>

\* The ticker; for another goroutine, UnpauseDevice, which is a SyncFromBundle.
Tick(t) ==
  /\ Begin(t, policy)
  /\ UNCHANGED <<kernel, policy, profile, synced, history>>

\* onSwap, after a bundle was published.
Swap(t) ==
  /\ Change
  /\ \E modes \in [Devices -> Modes] \ {policy} :
       policy' = modes /\ Begin(t, modes)
  /\ UNCHANGED <<kernel, profile, synced, faults, boots>>

\* set_route_profile: the row is written, then the firewall synced.
SetRouteProfile(t) ==
  /\ Change
  /\ \E d \in Devices, p \in Profiles :
       p # profile[d] /\ profile' = [profile EXCEPT ![d] = p]
  /\ Begin(t, policy)
  /\ UNCHANGED <<kernel, policy, synced, faults, boots>>

\* PauseDevice: the base rules, then the rules of BuildRules for a MAC, which
\* iptables refuses as an address; the errors are only logged.
PauseDevice(t, d) ==
  /\ Start(t, d)
  /\ UNCHANGED <<kernel, policy, profile, view, todo, rules, synced, history>>

\* The default route moves to another interface.
UplinkMoves ==
  /\ Change
  /\ uplink' \in Uplinks \ {uplink}
  /\ UNCHANGED <<forward, chain, policy, profile, pc, locals, synced, overlap,
                 faults, boots>>

-----------------------------------------------------------------------------
(* Sync.                                                                    *)

\* Where a goroutine goes when it has dealt with a base rule.
AfterBase(t) ==
  /\ base' = [base EXCEPT ![t] = Tail(@)]
  /\ IF Tail(base[t]) # <<>>
       THEN goto(t, "check") /\ UNCHANGED job
       ELSE IF job[t] = "sync"
         THEN goto(t, "flush") /\ UNCHANGED job
         ELSE goto(t, "idle") /\ job' = [job EXCEPT ![t] = "none"]

\* iptables -C: a command that fails for another reason is taken for an absent
\* rule.
CheckBase(t) ==
  /\ pc[t] = "check"
  /\ \/ /\ Contains(forward, Head(base[t]))
        /\ AfterBase(t) /\ UNCHANGED faults
     \/ /\ IF Contains(forward, Head(base[t])) THEN Fault ELSE UNCHANGED faults
        /\ goto(t, "insert") /\ UNCHANGED <<base, job>>
  /\ UNCHANGED <<kernel, policy, profile, view, todo, rules, synced, overlap,
                 changes, boots>>

\* iptables -I FORWARD 1; its error is discarded.
InsertBase(t) ==
  /\ pc[t] = "insert"
  /\ \/ forward' = <<Head(base[t])>> \o forward /\ UNCHANGED faults
     \/ Fault /\ UNCHANGED forward
  /\ AfterBase(t)
  /\ UNCHANGED <<chain, uplink, policy, profile, view, todo, rules, synced,
                 overlap, changes, boots>>

\* The end of a sync.
Finish(t) ==
  /\ goto(t, "idle")
  /\ job' = [job EXCEPT ![t] = "none"]
  /\ view' = [view EXCEPT ![t] = NoView]
  /\ UNCHANGED base

\* Faulty variant: the old rules stay in front.
BugNoFlush(t) ==
  /\ pc[t] = "flush"
  /\ todo' = [todo EXCEPT ![t] = {d \in Devices : view[t][d] # "absent"}]
  /\ goto(t, "append")
  /\ UNCHANGED <<kernel, policy, profile, job, base, view, rules, synced,
                 overlap, history>>

\* Faulty variant: with no children in the bundle there is nothing to do.
BugNoChildren(t) ==
  /\ pc[t] = "flush"
  /\ IF \A d \in Devices : view[t][d] = "absent"
       THEN Finish(t) /\ UNCHANGED <<chain, todo>>
       ELSE /\ chain' = <<>>
            /\ todo' = [todo EXCEPT ![t] = {d \in Devices : view[t][d] # "absent"}]
            /\ goto(t, "append")
            /\ UNCHANGED <<job, base, view>>
  /\ UNCHANGED <<forward, uplink, policy, profile, rules, synced, overlap, history>>

\* A flush that fails ends the sync.
Flush(t) ==
  /\ pc[t] = "flush"
  /\ \/ /\ chain' = <<>>
        /\ todo' = [todo EXCEPT ![t] = {d \in Devices : view[t][d] # "absent"}]
        /\ goto(t, "append")
        /\ UNCHANGED <<job, base, view, faults>>
     \/ /\ Fault
        /\ Finish(t)
        /\ UNCHANGED <<chain, todo>>
  /\ UNCHANGED <<forward, uplink, policy, profile, rules, synced, overlap,
                 changes, boots>>

NextChild(t) ==
  /\ pc[t] = "append" /\ rules[t] = <<>>
  /\ \E d \in todo[t] :
       /\ todo' = [todo EXCEPT ![t] = @ \ {d}]
       /\ rules' = [rules EXCEPT ![t] =
                      BuildRules(d, resolveState(d, view[t][d]))]
  /\ UNCHANGED <<kernel, policy, profile, pc, job, base, view, synced, overlap,
                 history>>

\* A rule that fails is only logged.
AppendRule(t) ==
  /\ pc[t] = "append" /\ rules[t] # <<>>
  /\ \/ chain' = Append(chain, Head(rules[t])) /\ UNCHANGED faults
     \/ Fault /\ UNCHANGED chain
  /\ rules' = [rules EXCEPT ![t] = Tail(@)]
  /\ UNCHANGED <<forward, uplink, policy, profile, pc, job, base, view, todo,
                 synced, overlap, changes, boots>>

SyncDone(t) ==
  /\ pc[t] = "append" /\ rules[t] = <<>> /\ todo[t] = {}
  /\ Finish(t)
  /\ synced' = TRUE
  /\ UNCHANGED <<kernel, policy, profile, todo, rules, overlap, history>>

\* The process starts again; in a reboot the kernel has forgotten the rules.
Boot ==
  /\ faults + boots < MaxFault
  /\ boots' = boots + 1
  /\ \/ forward' = Restored(forward) /\ UNCHANGED overlap
     \/ forward' = Restored(<<>>) /\ overlap' = FALSE
  /\ chain' = <<>>
  /\ pc' = [t \in Threads |-> "idle"]
  /\ job' = [t \in Threads |-> "none"]
  /\ base' = [t \in Threads |-> <<>>]
  /\ view' = [t \in Threads |-> NoView]
  /\ todo' = [t \in Threads |-> {}]
  /\ rules' = [t \in Threads |-> <<>>]
  /\ synced' = FALSE
  /\ UNCHANGED <<uplink, policy, profile, changes, faults>>

SyncStep(t) ==
  \/ CheckBase(t)
  \/ InsertBase(t)
  \/ Flush(t)
  \/ NextChild(t)
  \/ AppendRule(t)
  \/ SyncDone(t)

Next ==
  \/ \E t \in Threads :
       \/ Tick(t) \/ SyncStep(t)
       \/ /\ t # Ticker
          /\ \/ Swap(t) \/ SetRouteProfile(t)
             \/ \E d \in Devices : PauseDevice(t, d)
  \/ UplinkMoves
  \/ Boot

Spec == Init /\ [][Next]_vars

\* The ticker fires for ever; a goroutine inside Sync gets on with it.
FairSpec ==
  /\ Spec
  /\ WF_vars(Tick(Ticker))
  /\ \A t \in Threads : WF_vars(SyncStep(t))

-----------------------------------------------------------------------------
(* What the kernel does with a packet.                                      *)

\* SAFESWITCH on a new packet of d to the Internet: its first matching rule.
ChainVerdict(d) ==
  LET i == SelectInSeq(chain, LAMBDA r : r[1] = d /\ r[2] = "out")
  IN IF i = 0 THEN "return" ELSE chain[i][3]

\* What one rule of FORWARD decides about it, if it is no QUIC packet.
Decision(rule, d) ==
  CASE rule[1] = "accept" -> IF rule[2] = uplink THEN "accept" ELSE "return"
    [] rule[1] = "jump"   -> ChainVerdict(d)
    [] OTHER              -> "return"

\* The first rule that decides; the policy of FORWARD is to accept.
Verdict(d) ==
  LET i == SelectInSeq(forward, LAMBDA r : Decision(r, d) # "return")
  IN IF i = 0 THEN "accept" ELSE Decision(forward[i], d)

\* What the rules of a device should do to it.
Wanted(d) ==
  CASE policy[d] = "absent" -> "return"
    [] resolveState(d, policy[d]) \in {"paused", "service_only"} -> "drop"
    [] OTHER -> "accept"

-----------------------------------------------------------------------------
(* Properties.                                                              *)

\* FORWARD has no rule of an earlier uplink.
SameUplink == \A i \in Uplinks \ {uplink} : ~Contains(forward, Accept(i))

\* As long as syncs have not overlapped, nothing failed and the uplink stayed,
\* between two syncs a device is cut off exactly when its stored profile and the
\* active bundle say so: no order of swaps, profile changes, pauses and restarts
\* leaves it with older rules.
Enforced ==
  synced /\ Quiet /\ ~overlap /\ faults = 0 /\ SameUplink =>
    \A d \in Devices : policy[d] # "absent" => Verdict(d) = Wanted(d)

JumpIsFirst ==
  \A i \in DOMAIN forward :
    forward[i] = Accept(uplink) => \E j \in 1 .. i : forward[j] = Jump

\* In the same circumstances the rule that accepts wg0 towards the uplink never
\* stands before the jump, at no point of a later sync, and after a restart that
\* finds the kernel's rules half built.
SafeswitchFirst ==
  synced /\ ~overlap /\ faults = 0 /\ SameUplink => JumpIsFirst

\* The inductive invariant behind both, in parts.  One goroutine at a time is in
\* here, unless the history says otherwise.
Alone ==
  ~overlap =>
    \A t, u \in Threads : pc[t] # "idle" /\ pc[u] # "idle" => t = u

\* As long as that is so and nothing failed, a base rule is inserted only where
\* it is absent, and in the order of BaseRules.  So the first jump goes in above
\* an accepting rule, and an accepting rule goes in above a jump only when there
\* is one of another uplink.
Two(seq) == \E i, j \in Uplinks :
              i # j /\ Contains(seq, Accept(i)) /\ Contains(seq, Accept(j))

Ordered(seq) ==
  \A i \in Uplinks, k \in DOMAIN seq :
    seq[k] = Accept(i) => \E j \in 1 .. k : seq[j] = Jump

Headed(seq) ==
  Contains(seq, Jump) =>
    /\ \E i \in Uplinks : Contains(seq, Accept(i))
    /\ Two(seq) \/ Ordered(seq)

HeadInv ==
  ~overlap /\ faults = 0 =>
    /\ \A t \in Threads :
         /\ pc[t] = "insert" => ~Contains(forward, Head(base[t]))
         /\ pc[t] \in {"check", "insert"} /\ base[t] = <<Jump>> =>
              \E i \in Uplinks : Contains(forward, Accept(i))
         /\ pc[t] \in {"flush", "append"} => Contains(forward, Jump)
    /\ synced => Contains(forward, Jump)
    /\ Headed(forward)

\* What is in the chain, or about to be appended, is what the policy wants, and
\* every child of the bundle has a rule, is next, or is still to come.
Wants == [d \in Devices |-> Wanted(d)]

Right(seq, want) ==
  \A k \in DOMAIN seq : seq[k][2] = "out" => seq[k][3] = want[seq[k][1]]

HasOut(seq, d) == \E k \in DOMAIN seq : seq[k][1] = d /\ seq[k][2] = "out"

Complete(t) ==
  /\ Right(chain, Wants) /\ Right(rules[t], Wants)
  /\ \A d \in todo[t] : policy[d] # "absent"
  /\ \A d \in Devices : policy[d] # "absent" =>
       d \in todo[t] \/ HasOut(rules[t], d) \/ HasOut(chain, d)

ChainInv ==
  ~overlap /\ faults = 0 =>
    /\ \A t \in Threads :
         /\ job[t] = "sync" => view[t] = policy
         /\ pc[t] \in {"flush", "append"} => job[t] = "sync"
         /\ pc[t] = "append" => Complete(t)
    /\ synced /\ (\A t \in Threads : job[t] # "sync") =>
         /\ Right(chain, Wants)
         /\ \A d \in Devices : policy[d] # "absent" => HasOut(chain, d)

\* Whatever syncs of different bundles and profiles interleave and whatever
\* commands fail, the next ticks bring SAFESWITCH to the policy.
ChainSettles == []<>(\A d \in Devices : ChainVerdict(d) = Wanted(d))

\* rules.go, InsertForwardJump: "so SAFESWITCH is evaluated first": the ticks cut a
\* device off that should be. The code does not keep this: two first syncs that
\* overlap can leave the accepting rule above the jump, and later ones find both.
PausedIsCutOff ==
  []<>(\A d \in Devices : Wanted(d) = "drop" => Verdict(d) = "drop")
=============================================================================
