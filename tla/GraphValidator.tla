--------------------------- MODULE GraphValidator ---------------------------
(***************************************************************************)
(* The gate every LoopSpec passes before it is stored or run: the checks   *)
(* of LoopSpec's constructor, the two graph searches of validate_loopgraph *)
(* and its rules for the coding supervisor, one action per turn of a loop. *)
(* A coding graph that passes is then walked the way the supervisor and    *)
(* the evaluation replay drive it, with the outcomes each kind of node can *)
(* produce, under the interpreter's iteration limit.                       *)
(***************************************************************************)
EXTENDS Integers, FiniteSets

CONSTANTS Nodes,    \* the node ids an artifact may mention
          Graphs    \* the artifacts given to the gate

Kinds == {"dsh_execute", "verifier", "human_gate", "promotion", "terminal"}
Outcomes == {"pass", "fail", "retry", "approve", "auto_promote", "reject", "exhausted"}
RoleKind == [execute |-> "dsh_execute", verify |-> "verifier",
             human_gate |-> "human_gate", promote |-> "promotion",
             complete |-> "terminal", failed |-> "terminal"]
Roles == DOMAIN RoleKind

\* An artifact.  An edge of the file that lists several outcomes is one
\* element per outcome, one that lists none is an element with on = "none".
Edge == [from: Nodes, to: Nodes, on: Outcomes \cup {"none"}]
IsGraph(g) ==
  /\ DOMAIN g = {"coding", "entry", "nodes", "kind", "role", "edges", "max"}
  /\ g.coding \in BOOLEAN                     \* its id is coding-supervisor
  /\ g.entry \in Nodes
  /\ g.nodes \in SUBSET Nodes
  /\ g.kind \in [g.nodes -> Kinds]
  /\ g.role \in [g.nodes -> Roles \cup {"none"}]
  /\ g.edges \in SUBSET Edge
  /\ g.max \in Nat                            \* max_iterations

ASSUME GraphsAssumption == \A g \in Graphs : IsGraph(g)

VARIABLES
  graph,         \* the artifact in hand
  phase,         \* the loop the gate is in, or how it ended
  reachable, queue,   \* the forward search
  terminating,   \* can_reach_terminal of the backward search
  at, iteration  \* the node of the walk and the number of its transitions

gvVars == <<graph, phase, reachable, queue, terminating, at, iteration>>
-----------------------------------------------------------------------------
Targets(g, n) == {e.to : e \in {d \in g.edges : d.from = n}}
Routes(g, n, o) == {e.to : e \in {d \in g.edges : d.from = n /\ d.on = o}}
OutcomesOf(g, n) == {e.on : e \in {d \in g.edges : d.from = n}} \ {"none"}
Terminals(g) == {n \in g.nodes : g.kind[n] = "terminal"}

\* LoopSpec.__post_init__.
WellFormed(g) ==
  /\ g.max >= 1
  /\ g.entry \in g.nodes
  /\ \A e \in g.edges : e.from \in g.nodes /\ e.to \in g.nodes
  /\ \A d, e \in g.edges : d.from = e.from /\ d.on = e.on /\ d.on # "none" => d = e

RequiredOutcomes ==
  [dsh_execute |-> {"pass", "fail", "exhausted"},
   verifier |-> {"fail", "retry", "approve", "auto_promote", "exhausted"},
   human_gate |-> {"approve", "retry", "reject"},
   promotion |-> {"pass"},
   terminal |-> {}]

\* The rules for one node, and that there is a terminal at all.
WellShaped(g) ==
  /\ Terminals(g) # {}
  /\ \A n \in g.nodes :
        /\ g.kind[n] = "terminal" <=> Targets(g, n) = {}
        /\ RequiredOutcomes[g.kind[n]] \subseteq OutcomesOf(g, n)

NodesWith(g, r) == {n \in g.nodes : g.role[n] = r}
NodeOf(g, r) == CHOOSE n \in NodesWith(g, r) : TRUE

\* The required routes without one for a failed verification.
RequiredRoutes_NoVerifyFail ==
  {<<"execute", "pass", {"verify"}>>, <<"execute", "exhausted", {"human_gate"}>>,
   <<"execute", "fail", {"execute", "human_gate"}>>,
   <<"verify", "retry", {"execute"}>>, <<"verify", "approve", {"human_gate"}>>,
   <<"verify", "auto_promote", {"promote"}>>,
   <<"verify", "exhausted", {"human_gate"}>>,
   <<"human_gate", "approve", {"promote"}>>, <<"human_gate", "retry", {"execute"}>>,
   <<"human_gate", "reject", {"failed"}>>, <<"promote", "pass", {"complete"}>>}

RequiredRoutes ==
  {<<"execute", "pass", {"verify"}>>, <<"execute", "exhausted", {"human_gate"}>>,
   <<"execute", "fail", {"execute", "human_gate"}>>,
   <<"verify", "retry", {"execute"}>>, <<"verify", "approve", {"human_gate"}>>,
   <<"verify", "auto_promote", {"promote"}>>,
   <<"verify", "exhausted", {"human_gate"}>>,
   <<"verify", "fail", {"execute", "human_gate"}>>,
   <<"human_gate", "approve", {"promote"}>>, <<"human_gate", "retry", {"execute"}>>,
   <<"human_gate", "reject", {"failed"}>>, <<"promote", "pass", {"complete"}>>}

\* The rules of require_coding_supervisor: one node per role, of the kind of
\* the role, the entrypoint and the routes between the roles.
CodingSupervisor(g) ==
  /\ \A r \in Roles : \E n \in g.nodes :
        NodesWith(g, r) = {n} /\ g.kind[n] = RoleKind[r]
  /\ g.entry = NodeOf(g, "execute")
  /\ \A q \in RequiredRoutes : \E r \in q[3] :
        Routes(g, NodeOf(g, q[1]), q[2]) = {NodeOf(g, r)}
-----------------------------------------------------------------------------
Init ==
  /\ graph \in Graphs
  /\ phase = "construct"
  /\ reachable = {} /\ queue = {} /\ terminating = {}
  /\ at = graph.entry
  /\ iteration = 0

Searching == <<reachable, queue, terminating>>
Walking == <<at, iteration>>

Construct ==
  /\ phase = "construct"
  /\ IF WellFormed(graph)
     THEN /\ phase' = "reach"
          /\ reachable' = {graph.entry} /\ queue' = {graph.entry}
     ELSE phase' = "rejected" /\ UNCHANGED <<reachable, queue>>
  /\ UNCHANGED <<graph, terminating, Walking>>

\* A search that marks the targets without following them.
Visit_NotFollowed(n) ==
  /\ phase = "reach"
  /\ n \in queue
  /\ reachable' = reachable \cup Targets(graph, n)
  /\ queue' = queue \ {n}
  /\ UNCHANGED <<graph, phase, terminating, Walking>>

\* One turn of the forward search.  The deque is a set: the order in which
\* the code takes the sources depends on the iteration order of Python sets.
Visit(n) ==
  /\ phase = "reach"
  /\ n \in queue
  /\ reachable' = reachable \cup Targets(graph, n)
  /\ queue' = (queue \ {n}) \cup (Targets(graph, n) \ reachable)
  /\ UNCHANGED <<graph, phase, terminating, Walking>>

\* After the forward search: unreachable nodes, then the rules for each node.
Shape ==
  /\ phase = "reach"
  /\ queue = {}
  /\ IF graph.nodes \subseteq reachable /\ WellShaped(graph)
     THEN phase' = "terminate" /\ terminating' = Terminals(graph)
     ELSE phase' = "rejected" /\ UNCHANGED terminating
  /\ UNCHANGED <<graph, reachable, queue, Walking>>

Growable(n) ==
  /\ n \in graph.nodes \ terminating
  /\ Targets(graph, n) \cap terminating # {}

\* One addition of the backward search; it ends when a pass adds nothing.
Grow(n) ==
  /\ phase = "terminate"
  /\ Growable(n)
  /\ terminating' = terminating \cup {n}
  /\ UNCHANGED <<graph, phase, reachable, queue, Walking>>

Decide ==
  /\ phase = "terminate"
  /\ \A n \in graph.nodes : ~Growable(n)
  /\ phase' = IF /\ graph.nodes \subseteq terminating
                 /\ graph.coding => CodingSupervisor(graph)
              THEN "accepted" ELSE "rejected"
  /\ UNCHANGED <<graph, Searching, Walking>>

\* A limit that lets one step back too many.
AtLimit_OffByOne(o) == iteration > graph.max /\ o \in {"fail", "retry"}

\* LoopSpecInterpreter.transition refuses to go back at the limit.
AtLimit(o) == iteration >= graph.max /\ o \in {"fail", "retry"}

\* A transition on an outcome the node's kind produces.  The coding graphs
\* are the ones the supervisor drives and the evaluation tasks replay.
Walk(o) ==
  /\ phase = "accepted"
  /\ graph.coding
  /\ o \in RequiredOutcomes[graph.kind[at]]
  /\ IF AtLimit(o)
     THEN phase' = "limit" /\ UNCHANGED Walking
     ELSE \* next_node raises unless exactly one edge matches
          IF \E n \in graph.nodes : Routes(graph, at, o) = {n}
          THEN /\ at' \in Routes(graph, at, o)
               /\ iteration' = iteration + 1
               /\ UNCHANGED phase
          ELSE phase' = "stuck" /\ UNCHANGED Walking
  /\ UNCHANGED <<graph, Searching>>

Next ==
  \/ Construct
  \/ \E n \in Nodes : Visit(n)
  \/ Shape
  \/ \E n \in Nodes : Grow(n)
  \/ Decide
  \/ \E o \in Outcomes : Walk(o)

Spec == Init /\ [][Next]_gvVars
-----------------------------------------------------------------------------
Phases == {"construct", "reach", "terminate", "accepted", "rejected", "limit", "stuck"}
Admitted == {"accepted", "limit", "stuck"}

\* Types; once the constructor has passed the searches stay inside the graph.
TypeOK ==
  /\ IsGraph(graph)
  /\ phase \in Phases
  /\ reachable \in SUBSET Nodes /\ queue \in SUBSET reachable
  /\ terminating \in SUBSET Nodes
  /\ at \in Nodes
  /\ iteration \in Nat

\* What the gate promises, without its searches: the sets closed under the
\* edges that contain the entrypoint, or backwards the terminals, are whole.
Forward(g, S) == \A e \in g.edges : e.from \in S => e.to \in S
Backward(g, S) == \A e \in g.edges : e.to \in S => e.from \in S
AllReachable(g) ==
  \A S \in SUBSET g.nodes : g.entry \in S /\ Forward(g, S) => S = g.nodes
AllTerminating(g) ==
  \A S \in SUBSET g.nodes : Terminals(g) \subseteq S /\ Backward(g, S) => S = g.nodes
Executable(g) ==
  /\ WellFormed(g) /\ AllReachable(g) /\ WellShaped(g) /\ AllTerminating(g)
  /\ g.coding => CodingSupervisor(g)

\* The searches accept a graph when, and only when, every node lies on a path
\* from the entrypoint and on one to a terminal and the local rules hold:
\* the order of the searches and the growth during a pass do not matter.
AcceptsExactlyExecutable ==
  /\ phase \in Admitted => Executable(graph)
  /\ phase = "rejected" => ~Executable(graph)

\* The longest way ahead of each role when nothing goes back.
Rank == [execute |-> 0, verify |-> 1, human_gate |-> 2, promote |-> 3,
         complete |-> 4, failed |-> 4]
MaxRank == 4

\* An admitted coding graph never leaves a workflow without a route for an
\* outcome of its node, nor in a node that no handler runs.
WalkStaysOnRoles ==
  phase \in Admitted /\ graph.coding =>
    /\ phase # "stuck"
    /\ graph.role[at] \in Roles /\ graph.kind[at] = RoleKind[graph.role[at]]

\* Every cycle of an admitted coding graph goes back by fail or retry, so
\* max_iterations bounds every walk: no run of the graph goes on for ever.
WalkIsBounded ==
  graph.coding => iteration <= graph.max + MaxRank
=============================================================================
