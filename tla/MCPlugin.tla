------------------------------ MODULE MCPlugin ------------------------------
(* TLC instances of Plugin.                                                *)
EXTENDS Plugin, TLC

CONSTANTS s1, s2, c0, c1, c2

SessionSymmetry == Permutations({s1, s2})
=============================================================================
