------------------------ MODULE GraphValidatorProofs ------------------------
(***************************************************************************)
(* Theorems about GraphValidator, for every set of artifacts.  No path or  *)
(* induction is needed: the searches are compared with the closed sets.    *)
(***************************************************************************)
EXTENDS GraphValidator, TLAPS

USE GraphsAssumption

Constructed == {"reach", "terminate"} \cup Admitted
Shaped == {"terminate"} \cup Admitted

\* The forward search: it stays in every closed set that has the entrypoint,
\* and all it still owes are the targets of the nodes in the queue.
ForwardSearch ==
  phase \in Constructed =>
    /\ WellFormed(graph)
    /\ graph.entry \in reachable
    /\ queue \subseteq reachable /\ reachable \subseteq graph.nodes
    /\ \A n \in reachable \ queue : Targets(graph, n) \subseteq reachable
    /\ \A S \in SUBSET graph.nodes :
          graph.entry \in S /\ Forward(graph, S) => reachable \subseteq S

\* The backward search, likewise, between the terminals and the closed sets.
BackwardSearch ==
  phase \in Shaped =>
    /\ AllReachable(graph) /\ WellShaped(graph)
    /\ Terminals(graph) \subseteq terminating
    /\ terminating \subseteq graph.nodes
    /\ \A S \in SUBSET graph.nodes :
          Terminals(graph) \subseteq S /\ Backward(graph, S) => terminating \subseteq S

\* The walk: on a node of a role, with no more transitions than the limit
\* and the rank of that role allow.
Walker ==
  /\ phase \notin Admitted => iteration = 0 /\ at = graph.entry
  /\ phase \in Admitted /\ graph.coding =>
       /\ phase # "stuck"
       /\ at \in graph.nodes
       /\ graph.role[at] \in Roles /\ graph.kind[at] = RoleKind[graph.role[at]]
       /\ iteration <= graph.max + Rank[graph.role[at]]

Inv == TypeOK /\ ForwardSearch /\ BackwardSearch /\ AcceptsExactlyExecutable /\ Walker
-----------------------------------------------------------------------------
LEMMA GraphFacts ==
  ASSUME NEW g, IsGraph(g)
  PROVE  /\ g.entry \in Nodes /\ g.nodes \in SUBSET Nodes /\ g.max \in Nat
         /\ g.kind \in [g.nodes -> Kinds] /\ g.coding \in BOOLEAN
         /\ \A n : Targets(g, n) \subseteq Nodes
         /\ WellFormed(g) => \A n : Targets(g, n) \subseteq g.nodes
         /\ Terminals(g) \subseteq g.nodes
BY DEF IsGraph, Targets, WellFormed, Terminals, Edge

\* Every outcome a role can produce has a required route, to a role, and to
\* one of a higher rank unless it goes back.
LEMMA RouteTable ==
  ASSUME NEW r \in Roles, NEW o \in RequiredOutcomes[RoleKind[r]]
  PROVE  \E q \in RequiredRoutes :
           /\ q[1] = r /\ q[2] = o
           /\ \A s \in q[3] : s \in Roles /\ (o \notin {"fail", "retry"} => Rank[s] > Rank[r])
<1> USE DEF Roles, RoleKind, RequiredOutcomes, Rank
<1>1. CASE r = "execute"
  BY <1>1 DEF RequiredRoutes
<1>2. CASE r = "verify"
  BY <1>2 DEF RequiredRoutes
<1>3. CASE r = "human_gate"
  BY <1>3 DEF RequiredRoutes
<1>4. CASE r = "promote"
  BY <1>4 DEF RequiredRoutes
<1>5. CASE r \in {"complete", "failed"}
  BY <1>5
<1> QED
  BY <1>1, <1>2, <1>3, <1>4, <1>5

LEMMA RoleNode ==
  ASSUME NEW g, CodingSupervisor(g), NEW r \in Roles
  PROVE  /\ NodeOf(g, r) \in g.nodes
         /\ g.role[NodeOf(g, r)] = r /\ g.kind[NodeOf(g, r)] = RoleKind[r]
         /\ \A n \in g.nodes : g.role[n] = r => n = NodeOf(g, r)
<1>1. PICK n \in g.nodes : NodesWith(g, r) = {n} /\ g.kind[n] = RoleKind[r]
  BY DEF CodingSupervisor
<1>2. NodeOf(g, r) = n
  BY <1>1 DEF NodeOf
<1> QED
  BY <1>1, <1>2 DEF NodesWith

\* One step along a required outcome of a coding graph.
LEMMA RouteStep ==
  ASSUME NEW g, CodingSupervisor(g), NEW n \in g.nodes,
         g.role[n] \in Roles, g.kind[n] = RoleKind[g.role[n]],
         NEW o \in RequiredOutcomes[g.kind[n]]
  PROVE  \E m \in g.nodes :
           /\ Routes(g, n, o) = {m}
           /\ g.role[m] \in Roles /\ g.kind[m] = RoleKind[g.role[m]]
           /\ o \notin {"fail", "retry"} => Rank[g.role[m]] > Rank[g.role[n]]
<1>1. PICK q \in RequiredRoutes :
         /\ q[1] = g.role[n] /\ q[2] = o
         /\ \A s \in q[3] : s \in Roles /\ (o \notin {"fail", "retry"} => Rank[s] > Rank[g.role[n]])
  BY RouteTable
<1>2. n = NodeOf(g, q[1])
  BY <1>1, RoleNode
<1>3. PICK s \in q[3] : Routes(g, n, o) = {NodeOf(g, s)}
  BY <1>1, <1>2 DEF CodingSupervisor
<1>4. s \in Roles /\ (o \notin {"fail", "retry"} => Rank[s] > Rank[g.role[n]])
  BY <1>1
<1> QED
  BY <1>3, <1>4, RoleNode
-----------------------------------------------------------------------------
LEMMA InitInv == Init => Inv
<1> SUFFICES ASSUME Init PROVE Inv
  OBVIOUS
<1>1. IsGraph(graph)
  BY DEF Init
<1>2. TypeOK
  BY <1>1, GraphFacts DEF Init, TypeOK, Phases
<1> QED
  BY <1>2 DEF Init, Inv, ForwardSearch, BackwardSearch, Walker, Constructed, Shaped,
     Admitted, AcceptsExactlyExecutable

USE DEF Constructed, Shaped, Admitted

LEMMA ConstructStep == ASSUME Inv, Construct PROVE Inv'
<1> USE DEF Inv, Construct, Walking
<1>1. IsGraph(graph) /\ graph.entry \in Nodes
  BY GraphFacts DEF TypeOK
<1>2. TypeOK'
  BY <1>1 DEF TypeOK, Phases
<1>3. ForwardSearch'
  BY <1>1 DEF ForwardSearch, WellFormed
<1>4. BackwardSearch' /\ Walker'
  BY DEF BackwardSearch, Walker
<1>5. AcceptsExactlyExecutable'
  BY DEF AcceptsExactlyExecutable, Executable
<1> QED
  BY <1>2, <1>3, <1>4, <1>5

LEMMA VisitStep == ASSUME Inv, NEW n \in Nodes, Visit(n) PROVE Inv'
<1> USE DEF Inv, Visit, Walking
<1>1. /\ WellFormed(graph) /\ n \in reachable
      /\ Targets(graph, n) \subseteq graph.nodes /\ graph.nodes \subseteq Nodes
  BY GraphFacts DEF TypeOK, ForwardSearch
<1>2. TypeOK'
  BY <1>1 DEF TypeOK
<1>3. \A m \in reachable' \ queue' : Targets(graph, m) \subseteq reachable'
  BY <1>1 DEF ForwardSearch
<1>4. ASSUME NEW S \in SUBSET graph.nodes, graph.entry \in S, Forward(graph, S)
      PROVE  reachable' \subseteq S
  BY <1>1, <1>4 DEF ForwardSearch, Forward, Targets
<1>5. ForwardSearch'
  BY <1>1, <1>3, <1>4 DEF ForwardSearch
<1>6. BackwardSearch' /\ Walker' /\ AcceptsExactlyExecutable'
  BY DEF BackwardSearch, Walker, AcceptsExactlyExecutable
<1> QED
  BY <1>2, <1>5, <1>6

\* With an empty queue the reachable nodes are a closed set themselves.
LEMMA ShapeStep == ASSUME Inv, Shape PROVE Inv'
<1> USE DEF Inv, Shape, Walking
<1>1. /\ WellFormed(graph) /\ reachable \in SUBSET graph.nodes
      /\ graph.entry \in reachable /\ Terminals(graph) \subseteq graph.nodes
      /\ graph.nodes \subseteq Nodes
  BY GraphFacts DEF TypeOK, ForwardSearch
<1>2. Forward(graph, reachable)
  BY DEF ForwardSearch, Forward, Targets
<1>3. AllReachable(graph) <=> graph.nodes \subseteq reachable
  BY <1>1, <1>2 DEF AllReachable, ForwardSearch
<1>4. TypeOK'
  BY <1>1 DEF TypeOK, Phases
<1>5. ForwardSearch' /\ Walker'
  BY DEF ForwardSearch, Walker
<1>6. BackwardSearch'
  BY <1>1, <1>3 DEF BackwardSearch
<1>7. AcceptsExactlyExecutable'
  BY <1>3 DEF AcceptsExactlyExecutable, Executable
<1> QED
  BY <1>4, <1>5, <1>6, <1>7

LEMMA GrowStep == ASSUME Inv, NEW n \in Nodes, Grow(n) PROVE Inv'
<1> USE DEF Inv, Grow, Growable, Walking
<1>1. TypeOK'
  BY DEF TypeOK
<1>2. ASSUME NEW S \in SUBSET graph.nodes, Terminals(graph) \subseteq S, Backward(graph, S)
      PROVE  terminating' \subseteq S
  BY <1>2 DEF BackwardSearch, Backward, Targets
<1>3. BackwardSearch'
  BY <1>2 DEF BackwardSearch
<1>4. ForwardSearch' /\ Walker' /\ AcceptsExactlyExecutable'
  BY DEF ForwardSearch, Walker, AcceptsExactlyExecutable
<1> QED
  BY <1>1, <1>3, <1>4

\* When nothing can be added the terminating nodes are closed backwards.
LEMMA DecideStep == ASSUME Inv, Decide PROVE Inv'
<1> USE DEF Inv, Decide, Walking, Searching
<1>1. WellFormed(graph) /\ AllReachable(graph) /\ WellShaped(graph)
  BY DEF ForwardSearch, BackwardSearch
<1>2. Backward(graph, terminating)
  BY <1>1 DEF Backward, Growable, Targets, WellFormed
<1>3. AllTerminating(graph) <=> graph.nodes \subseteq terminating
  BY <1>2 DEF AllTerminating, BackwardSearch
<1>4. AcceptsExactlyExecutable'
  BY <1>1, <1>3 DEF AcceptsExactlyExecutable, Executable
<1>5. Walker'
  <2>1. SUFFICES ASSUME phase' = "accepted", graph.coding PROVE Walker'
    BY DEF Walker
  <2>2. CodingSupervisor(graph) /\ at = NodeOf(graph, "execute") /\ iteration = 0
    BY <2>1 DEF Walker, CodingSupervisor
  <2>3. at \in graph.nodes /\ graph.role[at] = "execute" /\ graph.kind[at] = RoleKind["execute"]
    BY <2>2, RoleNode DEF Roles, RoleKind
  <2> QED
    BY <2>1, <2>2, <2>3, GraphFacts DEF Walker, TypeOK, Rank, Roles, RoleKind
<1>6. TypeOK' /\ ForwardSearch' /\ BackwardSearch'
  BY DEF TypeOK, Phases, ForwardSearch, BackwardSearch
<1> QED
  BY <1>4, <1>5, <1>6

\* The walk keeps to the roles by RouteStep; a step that goes back is taken
\* below the limit only, and every other one raises the rank.
LEMMA WalkStep == ASSUME Inv, NEW o \in Outcomes, Walk(o) PROVE Inv'
<1> USE DEF Inv, Walk
<1>1. /\ CodingSupervisor(graph) /\ at \in graph.nodes
      /\ graph.role[at] \in Roles /\ graph.kind[at] = RoleKind[graph.role[at]]
      /\ iteration <= graph.max + Rank[graph.role[at]]
  BY DEF AcceptsExactlyExecutable, Executable, Walker
<1>2. graph.nodes \subseteq Nodes /\ graph.max \in Nat
  BY GraphFacts DEF TypeOK
<1>3. PICK m \in graph.nodes :
        /\ Routes(graph, at, o) = {m}
        /\ graph.role[m] \in Roles /\ graph.kind[m] = RoleKind[graph.role[m]]
        /\ o \notin {"fail", "retry"} => Rank[graph.role[m]] > Rank[graph.role[at]]
  BY <1>1, RouteStep
<1>4. AtLimit(o) \/ (at' = m /\ iteration' = iteration + 1 /\ phase' = phase)
  BY <1>3
<1>5. graph' = graph /\ UNCHANGED Searching /\ phase' \in {"accepted", "limit"}
  BY <1>3
<1>6. TypeOK'
  BY <1>2, <1>4, <1>5 DEF TypeOK, Phases, Searching, Walking
<1>7. \A r \in Roles : Rank[r] \in Nat
  BY DEF Rank, Roles, RoleKind
<1>8. Walker'
  <2>1. CASE AtLimit(o)
    BY <2>1, <1>1, <1>5 DEF Walker, Walking
  <2>2. CASE ~AtLimit(o)
    <3>1. iteration \in Nat /\ graph'.max = graph.max
      BY <1>5 DEF TypeOK
    <3>2. iteration + 1 <= graph.max + Rank[graph.role[m]]
      BY <2>2, <1>1, <1>2, <1>3, <1>7, <3>1 DEF AtLimit
    <3> QED
      BY <2>2, <3>2, <1>3, <1>4, <1>5 DEF Walker
  <2> QED
    BY <2>1, <2>2
<1>9. ForwardSearch' /\ BackwardSearch' /\ AcceptsExactlyExecutable'
  BY <1>5 DEF ForwardSearch, BackwardSearch, AcceptsExactlyExecutable, Searching
<1> QED
  BY <1>6, <1>8, <1>9

LEMMA StepInv == ASSUME Inv, [Next]_gvVars PROVE Inv'
<1>1. CASE UNCHANGED gvVars
  BY <1>1 DEF gvVars, Inv, TypeOK, ForwardSearch, BackwardSearch, Walker,
     AcceptsExactlyExecutable
<1> QED
  BY <1>1, ConstructStep, VisitStep, ShapeStep, GrowStep, DecideStep, WalkStep DEF Next

\* The inductive invariant: the searches and the walk of every artifact.
THEOREM SpecInv == Spec => []Inv
BY InitInv, StepInv, PTL DEF Spec

\* For every artifact the gate accepts exactly the executable ones: the
\* searches compute what validate_loopgraph promises, in any order.
THEOREM GateIsExact == Spec => []AcceptsExactlyExecutable
<1>1. Inv => AcceptsExactlyExecutable
  BY DEF Inv
<1> QED
  BY <1>1, SpecInv, PTL

\* A coding graph that passes always has a route, to a node of a role.
THEOREM WalkIsRouted == Spec => []WalkStaysOnRoles
<1>1. Inv => WalkStaysOnRoles
  BY DEF Inv, Walker, WalkStaysOnRoles
<1> QED
  BY <1>1, SpecInv, PTL

\* ... and max_iterations bounds every walk of it.
THEOREM WalkIsFinite == Spec => []WalkIsBounded
<1>1. ASSUME Inv PROVE WalkIsBounded
  <2>1. graph.max \in Nat /\ iteration \in Nat /\ MaxRank \in Nat
    BY <1>1, GraphFacts DEF Inv, TypeOK, MaxRank
  <2>2. CASE phase \in Admitted
    <3>1. SUFFICES ASSUME graph.coding PROVE iteration <= graph.max + MaxRank
      BY DEF WalkIsBounded
    <3>2. graph.role[at] \in Roles /\ iteration <= graph.max + Rank[graph.role[at]]
      BY <1>1, <2>2, <3>1 DEF Inv, Walker
    <3>3. \A r \in Roles : Rank[r] \in Nat /\ Rank[r] <= MaxRank
      BY DEF Rank, MaxRank, Roles, RoleKind
    <3> QED
      BY <2>1, <3>2, <3>3
  <2>3. CASE phase \notin Admitted
    BY <1>1, <2>1, <2>3 DEF Inv, Walker, WalkIsBounded, MaxRank
  <2> QED
    BY <2>2, <2>3
<1> QED
  BY <1>1, SpecInv, PTL
=============================================================================
