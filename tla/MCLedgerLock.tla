---------------------------- MODULE MCLedgerLock ----------------------------
(* TLC instances of LedgerLock.                                            *)
EXTENDS LedgerLock, TLC

CONSTANTS a1, a2, a3, a4, p1, p2, p3

\* Three processes with one writer each.
Writers == a1 :> p1 @@ a2 :> p2 @@ a3 :> p3
\* Two asynchronous operations of one session, and two other processes.
Sessions == a1 :> p1 @@ a2 :> p1 @@ a3 :> p2 @@ a4 :> p3
=============================================================================
