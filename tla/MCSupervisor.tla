---------------------------- MODULE MCSupervisor ----------------------------
(* TLC instances of Supervisor; the threads of the server are alike.       *)
EXTENDS Supervisor, TLC

Reviewed == {[kind |-> "git", review |-> TRUE]}
AllKinds == Reviewed \cup {[kind |-> "plain", review |-> TRUE],
                          [kind |-> "none", review |-> FALSE]}

ThreadSymmetry == Permutations(Threads)
=============================================================================
