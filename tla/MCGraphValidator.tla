-------------------------- MODULE MCGraphValidator --------------------------
(* Artifacts for GraphValidator: every edit of the coding graph of the     *)
(* repository, and every small graph of promotion and terminal nodes.      *)
EXTENDS GraphValidator, TLC

CONSTANTS MaxBare    \* bound: edges without outcomes in a small graph

CodingNodes == {"execute", "verify", "hitl", "promote", "complete", "failed"}
AllNodes == CodingNodes \cup {"n1", "n2", "n3"}

RoleOf == [n \in CodingNodes |-> IF n = "hitl" THEN "human_gate" ELSE n]
E(f, t, o) == [from |-> f, to |-> t, on |-> o]
CodingEdges ==
  {E("execute", "verify", "pass"), E("execute", "execute", "fail"),
   E("execute", "hitl", "exhausted"), E("verify", "execute", "fail"),
   E("verify", "execute", "retry"), E("verify", "hitl", "approve"),
   E("verify", "promote", "auto_promote"), E("verify", "hitl", "exhausted"),
   E("hitl", "promote", "approve"), E("hitl", "execute", "retry"),
   E("hitl", "failed", "reject"), E("promote", "complete", "pass")}
\* configs/loopspecs/coding-supervisor/v1.json
Coding(m) ==
  [coding |-> TRUE, entry |-> "execute", nodes |-> CodingNodes,
   kind |-> [n \in CodingNodes |-> RoleKind[RoleOf[n]]],
   role |-> RoleOf, edges |-> CodingEdges, max |-> m]

EditedCoding ==
  LET g == Coding(2)
      retarget == {[g EXCEPT !.edges = (@ \ {e}) \cup {E(e.from, n, e.on)}] :
                     e \in CodingEdges, n \in CodingNodes}
      drop == {[g EXCEPT !.edges = @ \ {e}] : e \in CodingEdges}
      add == {[g EXCEPT !.edges = @ \cup {E(f, t, o)}] :
                f \in CodingNodes, t \in CodingNodes, o \in Outcomes \cup {"none"}}
      rename == {[g EXCEPT !.role[n] = r] : n \in CodingNodes, r \in Roles \cup {"none"}}
      rekind == {[g EXCEPT !.kind[n] = k] : n \in CodingNodes, k \in Kinds}
      start == {[g EXCEPT !.entry = n] : n \in CodingNodes}
      lose == {[g EXCEPT !.nodes = @ \ {n}, !.kind = [m \in CodingNodes \ {n} |-> g.kind[m]],
                         !.role = [m \in CodingNodes \ {n} |-> g.role[m]]] : n \in CodingNodes}
      \* a seventh node without a role, in the way of one route
      wide == CodingNodes \cup {"n1"}
      detour == {[g EXCEPT !.nodes = wide, !.kind = g.kind @@ ("n1" :> "promotion"),
                           !.role = g.role @@ ("n1" :> "none"),
                           !.edges = (@ \ {e}) \cup {E(e.from, "n1", e.on), E("n1", n, "pass")}] :
                   e \in CodingEdges, n \in CodingNodes}
  IN  {g, Coding(0), Coding(1)} \cup retarget \cup drop \cup add \cup rename
        \cup rekind \cup start \cup lose \cup detour

SmallNodes == {"n1", "n2", "n3"}
SmallGraphs ==
  {[coding |-> FALSE, entry |-> "n1", nodes |-> SmallNodes, kind |-> k,
    role |-> [n \in SmallNodes |-> "none"],
    edges |-> {E(n, p[n], "pass") : n \in {m \in SmallNodes : p[m] # "none"}}
                \cup {E(b[1], b[2], "none") : b \in bare}, max |-> 1] :
      k \in [SmallNodes -> {"promotion", "terminal"}],
      p \in [SmallNodes -> SmallNodes \cup {"none"}],
      bare \in {B \in SUBSET (SmallNodes \X SmallNodes) : Cardinality(B) <= MaxBare}}

Artifacts == EditedCoding \cup SmallGraphs
=============================================================================
