---------------------------- MODULE MCTunnelSync -----------------------------
(* TunnelSync on two keys: s keeps address 1 in every bundle; a comes and goes *)
(* at address 2, and a command may enrol it at the lowest free address, which  *)
(* is that of s as long as s has no row.                                       *)
EXTENDS TunnelSync

CONSTANTS s, a

Peers(aIP) == [k \in Keys |-> IF k = s THEN 1 ELSE aIP]

Come == {Peers(2), Peers(NoIP)}
=============================================================================
