--------------------------- MODULE MCRelaySessions ---------------------------
(***************************************************************************)
(* One family, two connections of the same or of different nodes, and two  *)
(* connections of the same or of different devices.                        *)
(***************************************************************************)
EXTENDS RelaySessions, TLC

CONSTANT fam

MCFamilyOf == [i \in Node \union Device |-> fam]

\* Connections, nodes and devices have no order and no other mark.
Symmetric ==
  Permutations(NodeConn) \union Permutations(DevConn) \union Permutations(Device)
    \union Permutations(Node)
=============================================================================
