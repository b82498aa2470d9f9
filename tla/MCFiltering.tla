---------------------------- MODULE MCFiltering ----------------------------
(* A site and its www host, one protective and one policy category, and one
   row put into the table by hand. *)
EXTENDS Filtering

CONSTANTS site, www, malware, adult

MCWalk == [d \in {site, www} |-> IF d = www THEN <<www, site>> ELSE <<site>>]
MCSeed == [d \in {site, www} |-> IF d = www THEN adult ELSE Blank]

Device(paused, cats) == [row |-> TRUE, paused |-> paused, cats |-> cats]
MCPolicies == {Unknown, Device(FALSE, {}), Device(TRUE, {}), Device(FALSE, {adult})}
=============================================================================
