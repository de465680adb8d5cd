---------------------------- MODULE MCEvolution ----------------------------
(* TLC instances of Evolution.                                             *)
EXTENDS Evolution, TLC

CONSTANTS t1, t2, h1, k1, d0, d1

OneRevision == <<d0>>
=============================================================================
