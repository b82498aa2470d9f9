-------------------------- MODULE MCActivityWriter --------------------------
(* Two blocks of one name by one child, one of it by another child, and one of
   another name. *)
EXTENDS ActivityWriter

CONSTANTS e1, e2, e3, e4, x, y, kid1, kid2

MCName == [e \in {e1, e2, e3, e4} |-> IF e = e4 THEN y ELSE x]
MCSrc == [e \in {e1, e2, e3, e4} |-> IF e = e3 THEN kid2 ELSE kid1]
=============================================================================
