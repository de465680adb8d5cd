---------------------------- MODULE MCPromotion ----------------------------
(* Two candidates of one baseline commit: the first with two heads under   *)
(* one id, one of which contradicts the second candidate.  Activations are *)
(* explored while nobody opens pull requests, and pull requests while      *)
(* nothing has been activated: the two parts share nothing but the runs.   *)
EXTENDS Promotion, TLC

CONSTANTS t1, t2, b1, b2, id1, id2, root, ca, cb, s1

MCProposals ==
  {[id |-> id1, parent |-> root, commit |-> ca, claims |-> {<<s1, "add">>}],
   [id |-> id1, parent |-> root, commit |-> cb, claims |-> {}],
   [id |-> id2, parent |-> root, commit |-> cb, claims |-> {<<s1, "remove">>}]}

Focus ==
  \/ \A t \in Threads : pc[t] = "idle"
  \/ /\ apc = "idle" /\ live = Base /\ recorded = Base
     /\ \A r \in Ids : runs[r].status = "MERGED" => runs[r].pr # NoPr

Identities == {f @@ g : f \in Permutations(Threads), g \in Permutations(Branches)}
=============================================================================
