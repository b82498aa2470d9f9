---------------------------- MODULE EndpointUpkeep ----------------------------
(***************************************************************************)
(* How a home node stays reachable from outside.  upnp/service.go asks the *)
(* router for a port mapping with a lease and renews it; the goroutine of  *)
(* app/ddns_updater.go finds the public address and writes it to the       *)
(* node's row in the cloud.                                                *)
(*                                                                         *)
(* The router, the address services and the cloud are external.  A request *)
(* takes effect when it arrives or not at all; its answer may be lost.     *)
(* One tick of the clock is 15 minutes, and what the node does on a timer  *)
(* takes no time on that scale.                                            *)
(***************************************************************************)
EXTENDS Naturals, FiniteSets

CONSTANTS
  Lan,         \* addresses the node may have in the home network
  Wan,         \* public addresses
  None,        \* no address
  MaxFault,    \* bound: requests that fail or whose answer is lost
  MaxMove,     \* bound: changes of an address
  MaxReboot,   \* bound: losses of the router's table
  MaxProcess   \* bound: starts of the process after the first

ASSUME EndpointAssumption ==
  /\ Lan # {} /\ Wan # {}
  /\ None \notin Lan \union Wan
  /\ {MaxFault, MaxMove, MaxReboot, MaxProcess} \subseteq Nat

VARIABLES
  lan,        \* the node's address in the home network
  forward,    \* the router's entry for the port: where it leads, or None
  lease,      \* ticks until the router drops the entry; an entry made without
              \* a duration stays
  phase,      \* what the UPnP service does
  trying,     \* how far tryMap is
  since,      \* ticks since the renewal timer fired
  mapped,     \* Service.mapped
  wan,        \* the public address
  published,  \* public_ip in the node's row in the cloud
  lastKnown,  \* lastKnownIP of the updater
  found,      \* the address the updater is about to write, or None
  disturbed,  \* history: a renewal failed, or the router or the address
              \* changed, since the router took the last request
  leaked,     \* history: an entry was made that the service does not know of
              \* or failed to delete
  drifted,    \* history: a write whose answer was lost is the last one made
  count       \* history: how often each bounded event has happened

upkeepVars == <<lan, forward, lease, phase, trying, since, mapped, wan, published,
                lastKnown, found, disturbed, leaked, drifted, count>>

routerVars == <<forward, lease>>
upnpVars == <<phase, trying, since, mapped>>
ddnsVars == <<published, lastKnown, found, drifted>>

Bound == [fault |-> MaxFault, move |-> MaxMove, reboot |-> MaxReboot,
          restart |-> MaxProcess]

Spend(k) ==
  /\ count[k] < Bound[k]
  /\ count' = [count EXCEPT ![k] = @ + 1]

\* Faulty variant: the timer is as long as the lease.
BugRenewEvery == 4

\* renewEvery, 45 minutes.
RenewEvery == 3

\* mappingDuration, 3600 seconds.
MappingDuration == 4

Alive == phase \in {"starting", "running", "unavailable"}

-----------------------------------------------------------------------------
(* The UPnP service.                                                        *)

\* A call of tryMap ends without success: Start gives up for good, the renewal
\* loop waits for its next tick.  discover, getControlURL, lanIP or the SOAP
\* call failed; once the context is cancelled they all do.
GiveUp ==
  /\ trying' = "no"
  /\ phase' = IF phase = "starting" THEN "unavailable" ELSE phase
  /\ disturbed' = TRUE
  /\ IF phase = "stopping" THEN UNCHANGED count ELSE Spend("fault")

\* Faulty variant: a failed renewal counts as the loss of the mapping.
BugForgetMapping ==
  /\ trying = "begin"
  /\ GiveUp
  /\ mapped' = FALSE
  /\ UNCHANGED <<lan, routerVars, since, wan, ddnsVars, leaked>>

TryFails ==
  /\ trying = "begin"
  /\ GiveUp
  /\ UNCHANGED <<lan, routerVars, since, mapped, wan, ddnsVars, leaked>>

\* AddPortMapping reaches the router.
AddMapping ==
  /\ trying = "begin"
  /\ phase # "stopping"
  /\ forward' = lan
  /\ lease' = MappingDuration
  /\ trying' = "added"
  /\ disturbed' = FALSE
  /\ UNCHANGED <<lan, phase, since, mapped, wan, ddnsVars, leaked, count>>

\* The answer arrives; getExternalIP only informs.
Mapped ==
  /\ trying = "added"
  /\ trying' = "no"
  /\ phase' = IF phase = "starting" THEN "running" ELSE phase
  /\ mapped' = TRUE
  /\ leaked' = FALSE
  /\ UNCHANGED <<lan, routerVars, since, wan, ddnsVars, disturbed, count>>

\* The answer is lost or the context is cancelled.
AnswerLost ==
  /\ trying = "added"
  /\ GiveUp
  /\ leaked' = (leaked \/ ~mapped)
  /\ UNCHANGED <<lan, routerVars, since, mapped, wan, ddnsVars>>

\* The timer of the renewal loop.
Renew ==
  /\ phase = "running"
  /\ trying = "no"
  /\ since >= RenewEvery
  /\ trying' = "begin"
  /\ since' = 0
  /\ UNCHANGED <<lan, routerVars, phase, mapped, wan, ddnsVars, disturbed,
                 leaked, count>>

\* Stop cancels the context and waits for the loop.
Stop ==
  /\ phase \in {"running", "unavailable"}
  /\ Spend("restart")
  /\ phase' = "stopping"
  /\ UNCHANGED <<lan, routerVars, trying, since, mapped, wan, ddnsVars,
                 disturbed, leaked>>

\* release: the entry is deleted, unless there is none to delete.
Release ==
  /\ phase = "stopping"
  /\ trying = "no"
  /\ forward' = IF mapped THEN None ELSE forward
  /\ lease' = IF mapped THEN 0 ELSE lease
  /\ mapped' = FALSE
  /\ phase' = "stopped"
  /\ found' = None
  /\ UNCHANGED <<lan, trying, since, wan, published, lastKnown, drifted,
                 disturbed, leaked, count>>

ReleaseFails ==
  /\ phase = "stopping"
  /\ trying = "no"
  /\ mapped
  /\ Spend("fault")
  /\ leaked' = TRUE
  /\ mapped' = FALSE
  /\ phase' = "stopped"
  /\ found' = None
  /\ UNCHANGED <<lan, routerVars, trying, since, wan, published, lastKnown,
                 drifted, disturbed>>

\* The process ends without Stop.
Kill ==
  /\ Alive
  /\ Spend("restart")
  /\ phase' = "stopped"
  /\ trying' = "no"
  /\ mapped' = FALSE
  /\ leaked' = TRUE
  /\ found' = None
  /\ UNCHANGED <<lan, routerVars, since, wan, published, lastKnown, drifted,
                 disturbed>>

\* A new process: Start calls tryMap, and the updater knows no address.
Start ==
  /\ phase = "stopped"
  /\ phase' = "starting"
  /\ trying' = "begin"
  /\ since' = 0
  /\ lastKnown' = None
  /\ UNCHANGED <<lan, routerVars, mapped, wan, published, found, drifted,
                 disturbed, leaked, count>>

-----------------------------------------------------------------------------
(* The updater: every 5 minutes, and at once when the process starts.       *)

\* What three sources said; one that failed said None.
Answers == [1..3 -> Wan \union {None}]

Votes(answers, ip) == Cardinality({i \in 1..3 : answers[i] = ip})

\* Faulty variant: no count, any answer will do.
BugAnyAnswer(answers) == {answers[i] : i \in 1..3} \ {None}

\* detectPublicIP: an address two sources agree on, or else any of the answers.
DetectPublicIP(answers) ==
  LET agreed == {ip \in Wan : Votes(answers, ip) >= 2}
  IN IF agreed # {} THEN agreed ELSE {answers[i] : i \in 1..3} \ {None}

\* At most one source is wrong or silent, unless something fails.
Check(answers) ==
  /\ Alive
  /\ found = None
  /\ IF Votes(answers, wan) >= 2 THEN UNCHANGED count ELSE Spend("fault")
  /\ \E ip \in DetectPublicIP(answers) :
       found' = IF ip = lastKnown THEN None ELSE ip
  /\ UNCHANGED <<lan, routerVars, upnpVars, wan, published, lastKnown, drifted,
                 disturbed, leaked>>

\* updateNodeEndpoint fails and the row is as it was: the next check tries
\* again.
PatchFails ==
  /\ phase # "stopped"
  /\ found # None
  /\ Spend("fault")
  /\ found' = None
  /\ UNCHANGED <<lan, routerVars, upnpVars, wan, published, lastKnown, drifted,
                 disturbed, leaked>>

Patch ==
  /\ phase # "stopped"
  /\ found # None
  /\ published' = found
  /\ lastKnown' = found
  /\ drifted' = FALSE
  /\ found' = None
  /\ UNCHANGED <<lan, routerVars, upnpVars, wan, disturbed, leaked, count>>

\* The row changes, the answer is lost.
PatchUnanswered ==
  /\ phase # "stopped"
  /\ found # None
  /\ Spend("fault")
  /\ published' = found
  /\ drifted' = TRUE
  /\ found' = None
  /\ UNCHANGED <<lan, routerVars, upnpVars, wan, lastKnown, disturbed, leaked>>

-----------------------------------------------------------------------------
(* The world outside.                                                       *)

\* A timer that is due fires, and a call that is under way ends, first.
Tick ==
  /\ trying = "no"
  /\ phase \notin {"starting", "stopping"}
  /\ phase = "running" => since < RenewEvery
  /\ since' = IF phase = "running" THEN since + 1 ELSE 0
  /\ lease' = IF lease = 0 THEN 0 ELSE lease - 1
  /\ forward' = IF lease = 1 THEN None ELSE forward
  /\ leaked' = (leaked /\ lease > 1)
  /\ UNCHANGED <<lan, phase, trying, mapped, wan, ddnsVars, disturbed, count>>

Reboot ==
  /\ Spend("reboot")
  /\ forward' = None
  /\ lease' = 0
  /\ disturbed' = TRUE
  /\ UNCHANGED <<lan, upnpVars, wan, ddnsVars, leaked>>

MoveLan(a) ==
  /\ trying = "no"
  /\ a # lan
  /\ Spend("move")
  /\ lan' = a
  /\ disturbed' = TRUE
  /\ UNCHANGED <<routerVars, upnpVars, wan, ddnsVars, leaked>>

MoveWan(ip) ==
  /\ ip # wan
  /\ Spend("move")
  /\ wan' = ip
  /\ UNCHANGED <<lan, routerVars, upnpVars, ddnsVars, disturbed, leaked>>

-----------------------------------------------------------------------------
UpkeepInit ==
  /\ lan \in Lan
  /\ wan \in Wan
  /\ forward = None
  /\ lease = 0
  /\ phase = "starting"
  /\ trying = "begin"
  /\ since = 0
  /\ mapped = FALSE
  /\ published = None
  /\ lastKnown = None
  /\ found = None
  /\ disturbed = FALSE
  /\ leaked = FALSE
  /\ drifted = FALSE
  /\ count = [k \in DOMAIN Bound |-> 0]

TryMap == TryFails \/ AddMapping \/ Mapped \/ AnswerLost

Write == PatchFails \/ Patch \/ PatchUnanswered

UpkeepNext ==
  \/ TryMap \/ Renew \/ Stop \/ Release \/ ReleaseFails \/ Kill \/ Start
  \/ \E answers \in Answers : Check(answers)
  \/ Write
  \/ Tick \/ Reboot
  \/ \E a \in Lan : MoveLan(a)
  \/ \E ip \in Wan : MoveWan(ip)

\* Requests end, timers fire and time passes; a node that went down may stay so.
Fairness ==
  /\ WF_upkeepVars(TryMap)
  /\ WF_upkeepVars(Renew)
  /\ WF_upkeepVars(Release)
  /\ WF_upkeepVars(\E answers \in Answers : Check(answers))
  /\ WF_upkeepVars(Write)
  /\ WF_upkeepVars(Tick)

UpkeepSpec == UpkeepInit /\ [][UpkeepNext]_upkeepVars /\ Fairness

-----------------------------------------------------------------------------
UpkeepTypeOK ==
  /\ lan \in Lan
  /\ forward \in Lan \union {None}
  /\ lease \in 0..MappingDuration /\ (lease > 0 <=> forward # None)
  /\ phase \in {"starting", "running", "unavailable", "stopping", "stopped"}
  /\ trying \in {"no", "begin", "added"}
  /\ since \in 0..RenewEvery
  /\ mapped \in BOOLEAN
  /\ wan \in Wan
  /\ published \in Wan \union {None}
  /\ lastKnown \in Wan \union {None}
  /\ found \in Wan \union {None}
  /\ {disturbed, leaked, drifted} \subseteq BOOLEAN
  /\ count \in [DOMAIN Bound -> Nat]

\* The renewal timer leaves no gap: after a success the router forwards to the
\* node at every moment, until a renewal fails or the router or the address of
\* the node changes.
LeaseCovered ==
  mapped /\ ~disturbed => forward = lan

\* Stop leaves no entry behind, a failed renewal or a renewal under way
\* notwithstanding: only a crash, a failed delete, or an add of Start whose
\* answer was lost can.
StoppedIsUnmapped ==
  phase = "stopped" /\ ~leaked => forward = None

\* The inductive invariant behind both.  A call of tryMap is over before time
\* passes, so an undisturbed lease and the timer together span a lease, and an
\* entry the service does not count as leaked is one it knows of or waits for.
LeaseInv ==
  /\ trying # "no" => since = 0
  /\ phase = "starting" => trying # "no" /\ ~mapped
  /\ phase \in {"unavailable", "stopped"} => trying = "no" /\ ~mapped
  /\ ~disturbed /\ trying = "added" => forward = lan /\ lease = MappingDuration
  /\ ~disturbed /\ mapped =>
       /\ forward = lan
       /\ trying = "no" => lease + since >= MappingDuration

EntryInv ==
  forward # None /\ ~leaked => mapped \/ trying = "added"

\* With one of three address services wrong or silent at any time, the address
\* in the cloud becomes the node's own and stays so, however often it moved and
\* writes failed, unless the answer to the last write was lost.
EndpointSettles ==
  <>[](published = wan \/ drifted \/ ~Alive)

\* upnp/service.go says of IsMapped: true if a port mapping is currently active.
\* The code does not keep this: the flag stays set when the router reboots or a
\* lease runs out, and a failed renewal does not clear it.
MappedIsActive ==
  mapped => forward # None
=============================================================================
