----------------------------- MODULE PluginProofs -----------------------------
(***************************************************************************)
(* Theorems about Plugin for any number of sessions, trees, attempts and   *)
(* restarts.  The inductive invariant has three layers: what the states    *)
(* refer to exists, what the one task of a session knows of its ledger,    *)
(* and who has the workspace and what is in it.                            *)
(***************************************************************************)
EXTENDS Plugin, TLAPS

LEMMA Parameters ==
  /\ Base \in Contents
  /\ RequireApproval \in BOOLEAN /\ AsksRecovery \in BOOLEAN
  /\ MaxAttempts \in Nat /\ MaxAttempts >= 1
  /\ MaxIterations \in Nat /\ MaxIterations >= MaxAttempts
  /\ MaxStarts \in Nat /\ MaxInbox \in Nat /\ MaxInbox >= 1
  /\ MaxPauses \in Nat /\ MaxRestarts \in Nat /\ MaxEdits \in Nat
BY TreesAssumption, PluginPolicyAssumption, PluginBoundsAssumption
-----------------------------------------------------------------------------
(* Types: a state or a task refers to the first n commits only.            *)

GoodStates(n) ==
  {x \in States : /\ x.status # "NONE" => x.base \in 1..n
                  /\ x.versions \subseteq 1..n
                  /\ x.prep \in 0..n}

GoodTasks(n) ==
  {t \in Tasks : /\ t.state \in GoodStates(n)
                 /\ t.pc \in {"clean", "acquire", "save_idle", "review"} => t.prep \in 1..n
                 /\ t.pc \in {"head", "tag", "complete"} => t.state.prep # 0
                 /\ t.pc \notin StartPcs \cup {"idle"} => t.state.status # "NONE"}

Repositories ==
  [head: Nat, index: Contents, work: Contents,
   commits: Seq([tree: Contents, parent: Nat]), tags: [Ids \X Numbers -> Nat]]

LastCommit == Len(git.commits)
Revisions == 1..LastCommit

TypeInv ==
  /\ led \in [Sessions -> GoodStates(LastCommit)]
  /\ op \in [Sessions -> Kinds \cup {"free"}]
  /\ task \in [Sessions -> [Kinds -> GoodTasks(LastCommit)]]
  /\ inbox \in [Sessions -> 0..MaxInbox]
  /\ asked \in [Sessions -> BOOLEAN]
  /\ git \in Repositories /\ git.head \in Revisions
  /\ ws \in Ids /\ started \in Ids
  /\ bounds \in [pauses: Nat, restarts: Nat, edits: Nat]

\* StartRunning has a state to go on from.
Begun == \A s \in Sessions : At(s, "command", "save_running") => led[s].status # "NONE"

HistInv == hist \in [late: SUBSET (Sessions \X Kinds), loose: SUBSET Nat]

LEMMA TypeInvTypes == TypeInv /\ HistInv => TypeOK
BY DEF TypeInv, HistInv, TypeOK, GoodStates, GoodTasks, Repositories

LEMMA Names ==
  /\ {"IDLE", "RUNNING", "PAUSED", "UNCERTAIN", "WAITING_HITL", "COMPLETED", "FAILED"}
       \subseteq Statuses
  /\ {"execute", "verify", "human_gate", "complete", "failed"} \subseteq Nodes
  /\ {"PROMOTION_REVIEW", "QUALITY_REVIEW", "SCOPE_REVIEW", "FAILURE_REVIEW",
      "UNCERTAIN_RECOVERY"} \subseteq Reasons
  /\ {"turn", "command", "verify", "prompt"} \subseteq Kinds
BY DEF Statuses, Active, Nodes, Reasons, Kinds

LEMMA PcNames ==
  /\ {"idle", "fail", "prepare", "review", "restore", "failed", "release"} \subseteq Pcs
  /\ {"begin", "commands", "tested", "gate", "archive", "settle"} \subseteq Pcs
  /\ {"approve", "head", "tag", "complete"} \subseteq Pcs /\ StartPcs \subseteq Pcs
BY DEF Pcs, VerifyPcs, PromotePcs

LEMMA ConstantTypes ==
  /\ NoFingerprint \in [head: Nat, dirty: BOOLEAN, work: Contents]
  /\ \A n \in Nat : NoState \in GoodStates(n) /\ NoTask \in GoodTasks(n)
<1>1. NoFingerprint \in [head: Nat, dirty: BOOLEAN, work: Contents]
  BY Parameters DEF NoFingerprint
<1>2. NoState \in States
  BY <1>1, Parameters DEF NoState, States, Ids, Statuses, Nodes, Numbers, Reasons
<1>3. \A n \in Nat : NoState \in GoodStates(n)
  BY <1>2 DEF NoState, GoodStates
<1>4. NoTask \in Tasks
  BY <1>2, Parameters DEF NoTask, Tasks, Pcs
<1> QED BY <1>1, <1>3, <1>4 DEF GoodTasks, NoTask

LEMMA GoodIsMonotone ==
  ASSUME NEW n \in Nat, NEW m \in Nat, n <= m
  PROVE  GoodStates(n) \subseteq GoodStates(m) /\ GoodTasks(n) \subseteq GoodTasks(m)
<1>1. 1..n \subseteq 1..m /\ 0..n \subseteq 0..m
  OBVIOUS
<1>2. GoodStates(n) \subseteq GoodStates(m)
  BY <1>1 DEF GoodStates
<1> QED BY <1>1, <1>2 DEF GoodTasks

LEMMA TypeInit == Init => TypeInv
<1> SUFFICES ASSUME Init PROVE TypeInv
  OBVIOUS
<1> DEFINE first == [tree |-> Base, parent |-> 0]
<1>1. git.commits = <<first>> /\ LastCommit = 1
  BY DEF Init, LastCommit
<1>2. git \in Repositories /\ git.head \in Revisions
  BY <1>1, Parameters DEF Init, Repositories, Revisions
<1>3. NoState \in GoodStates(LastCommit) /\ NoTask \in GoodTasks(LastCommit)
  BY <1>1, ConstantTypes
<1> QED BY <1>2, <1>3, Parameters DEF Init, TypeInv, Kinds, Ids

LEMMA LastCommitType ==
  ASSUME TypeInv
  PROVE  LastCommit \in Nat /\ \A c \in Revisions : git.commits[c] \in [tree: Contents, parent: Nat]
<1>1. git.commits \in Seq([tree: Contents, parent: Nat])
  BY DEF TypeInv, Repositories
<1>2. ASSUME NEW S, NEW q \in Seq(S) PROVE Len(q) \in Nat /\ \A i \in 1..Len(q) : q[i] \in S
  OBVIOUS
<1> QED BY <1>1, <1>2 DEF LastCommit, Revisions

LEMMA ElementTypes ==
  ASSUME TypeInv, NEW s \in Sessions
  PROVE  /\ led[s] \in GoodStates(LastCommit)
         /\ \A k \in Kinds : task[s][k] \in GoodTasks(LastCommit)
BY DEF TypeInv

\* A task goes on with the same locals.
LEMMA MoveTypes ==
  ASSUME NEW n, NEW t \in GoodTasks(n), NEW pc \in Pcs,
         pc \in {"clean", "acquire", "save_idle", "review"} => t.prep \in 1..n,
         pc \in {"head", "tag", "complete"} => t.state.prep # 0,
         pc \notin StartPcs \cup {"idle"} => t.state.status # "NONE"
  PROVE  [t EXCEPT !.pc = pc] \in GoodTasks(n)
<1>1. [t EXCEPT !.pc = pc] \in Tasks
  BY DEF GoodTasks, Tasks
<1> QED BY <1>1 DEF GoodTasks, Tasks

\* A new state of the same revisions.
LEMMA StateTypes ==
  ASSUME NEW n, NEW x \in GoodStates(n), NEW y \in States,
         y.status # "NONE" => x.status # "NONE",
         y.base = x.base, y.versions = x.versions, y.prep \in {0, x.prep}, 0 \in 0..n
  PROVE  y \in GoodStates(n)
BY DEF GoodStates

\* The states the plugin appends, as far as their types go.
LEMMA LabelTypes ==
  ASSUME NEW n \in Nat, NEW x \in GoodStates(n), x.status # "NONE",
         NEW status \in Statuses, NEW node \in Nodes, NEW reason \in Reasons
  PROVE  /\ [x EXCEPT !.status = status] \in GoodStates(n)
         /\ [x EXCEPT !.node = node] \in GoodStates(n)
         /\ [x EXCEPT !.status = status, !.node = node] \in GoodStates(n)
         /\ [x EXCEPT !.status = status, !.node = node, !.reason = reason] \in GoodStates(n)
BY DEF GoodStates, States

LEMMA WaitingTypes ==
  ASSUME NEW n \in Nat, NEW x \in GoodStates(n), x.status # "NONE", NEW reason \in Reasons
  PROVE  Waiting(x, reason) \in GoodStates(n)
BY LabelTypes, Names DEF Waiting

LEMMA NextAttemptTypes ==
  ASSUME NEW n \in Nat, NEW x \in GoodStates(n), x.attempt <= MaxIterations
  PROVE  NextAttempt(x) \in GoodStates(n) /\ NextAttempt(x).status = x.status
<1>1. x \in States /\ x.attempt + 1 \in Numbers
  BY Parameters DEF GoodStates, States, Numbers
<1>2. NextAttempt(x) \in States
  BY <1>1, Names, ConstantTypes DEF NextAttempt, States
<1>3. /\ NextAttempt(x).status = x.status /\ NextAttempt(x).base = x.base
      /\ NextAttempt(x).versions = x.versions /\ NextAttempt(x).prep = 0
  BY <1>1 DEF NextAttempt, States
<1> QED BY <1>2, <1>3, StateTypes

\* What the shared pieces do to the types, while no commit is made.
LEMMA GoTypes ==
  ASSUME TypeInv, NEW s \in Sessions, NEW k \in Kinds, NEW t \in GoodTasks(LastCommit), Go(s, k, t)
  PROVE  task' \in [Sessions -> [Kinds -> GoodTasks(LastCommit)]]
<1> DEFINE row == [task[s] EXCEPT ![k] = t]
<1>1. row \in [Kinds -> GoodTasks(LastCommit)]
  BY DEF TypeInv
<1>2. task' = [task EXCEPT ![s] = row]
  BY DEF Go, TypeInv
<1> QED BY <1>1, <1>2 DEF TypeInv

LEMMA EndTypes ==
  ASSUME TypeInv, NEW s \in Sessions, NEW k \in Kinds, End(s, k)
  PROVE  task' \in [Sessions -> [Kinds -> GoodTasks(LastCommit)]]
BY GoTypes, ConstantTypes, LastCommitType DEF End

LEMMA RecordTypes ==
  ASSUME TypeInv, NEW s \in Sessions, NEW x \in GoodStates(LastCommit), Record(s, x)
  PROVE  led' \in [Sessions -> GoodStates(LastCommit)]
BY DEF TypeInv, Record

LEMMA OpTypes ==
  ASSUME TypeInv, NEW s \in Sessions, NEW k \in Kinds,
         Lock(s, k) \/ Unlock(s, k) \/ LockFree(s) \/ UNCHANGED op
  PROVE  op' \in [Sessions -> Kinds \cup {"free"}]
BY DEF TypeInv, Lock, Unlock, LockFree

LEMMA FollowupTypes ==
  ASSUME TypeInv, NEW s \in Sessions, Followup(s) \/ UNCHANGED inbox
  PROVE  inbox' \in [Sessions -> 0..MaxInbox]
<1>1. CASE Followup(s)
  <2>1. \A n \in 0..MaxInbox : (IF n < MaxInbox THEN n + 1 ELSE n) \in 0..MaxInbox
    BY Parameters
  <2> QED BY <1>1, <2>1 DEF Followup, TypeInv
<1>2. CASE UNCHANGED inbox
  BY <1>2 DEF TypeInv
<1> QED BY <1>1, <1>2

\* A step that commits nothing keeps the numbers of the commits.
LEMMA SameCommits ==
  ASSUME git'.commits = git.commits PROVE LastCommit' = LastCommit /\ Revisions' = Revisions
BY DEF LastCommit, Revisions
-----------------------------------------------------------------------------
\* Every step of the start, of the verification and so on keeps the types.

LEMMA TypeStarting ==
  ASSUME TypeInv, Begun, NEW s \in Sessions, StartHead(s) \/ Starting(s) PROVE TypeInv'
<1> USE DEF UnchangedRepo
<1>c. "command" \in Kinds
  BY DEF Kinds
<1>1. CASE StartHead(s)
  <2>1. [NoTask EXCEPT !.pc = "clean", !.prep = git.head] \in GoodTasks(LastCommit)
    BY LastCommitType, ConstantTypes
       DEF NoTask, GoodTasks, Tasks, Pcs, StartPcs, TypeInv, Repositories, Revisions
  <2> QED BY <1>1, <1>c, <2>1, GoTypes, OpTypes, SameCommits DEF StartHead, TypeInv
<1>2. CASE StartClean(s)
  <2>1. [task[s]["command"] EXCEPT !.pc = "acquire"] \in GoodTasks(LastCommit)
    <3>1. task[s]["command"] \in GoodTasks(LastCommit) /\ "acquire" \in Pcs
      BY <1>c, ElementTypes DEF Pcs, StartPcs
    <3> QED BY <1>2, <3>1, MoveTypes DEF StartClean, At, GoodTasks, StartPcs
  <2>2. task' \in [Sessions -> [Kinds -> GoodTasks(LastCommit)]]
    BY <1>2, <1>c, <2>1, GoTypes, EndTypes DEF StartClean, GoTo
  <2>3. op' \in [Sessions -> Kinds \cup {"free"}]
    BY <1>2, <1>c, OpTypes DEF StartClean
  <2> QED BY <1>2, <2>2, <2>3, SameCommits DEF StartClean, TypeInv
<1>3. CASE StartAcquire(s)
  <2>1. [task[s]["command"] EXCEPT !.pc = "save_idle"] \in GoodTasks(LastCommit)
    <3>1. task[s]["command"] \in GoodTasks(LastCommit) /\ "save_idle" \in Pcs
      BY <1>c, ElementTypes DEF Pcs, StartPcs
    <3> QED BY <1>3, <3>1, MoveTypes DEF StartAcquire, At, GoodTasks, StartPcs
  <2>2. task' \in [Sessions -> [Kinds -> GoodTasks(LastCommit)]]
    BY <1>3, <1>c, <2>1, GoTypes, EndTypes DEF StartAcquire, GoTo
  <2>3. op' \in [Sessions -> Kinds \cup {"free"}]
    BY <1>3, <1>c, OpTypes DEF StartAcquire
  <2>4. ws' \in Ids /\ started' \in Ids
    BY <1>3, Parameters DEF StartAcquire, TypeInv, Ids
  <2> QED BY <1>3, <2>2, <2>3, <2>4, SameCommits DEF StartAcquire, TypeInv
<1>4. CASE StartIdle(s)
  <2>1. [task[s]["command"] EXCEPT !.pc = "save_running"] \in GoodTasks(LastCommit)
    <3>1. task[s]["command"] \in GoodTasks(LastCommit) /\ "save_running" \in Pcs
      BY <1>c, ElementTypes DEF Pcs, StartPcs
    <3> QED BY <1>4, <3>1, MoveTypes DEF StartIdle, At, GoodTasks, StartPcs
  <2>2. task' \in [Sessions -> [Kinds -> GoodTasks(LastCommit)]]
    BY <1>4, <1>c, <2>1, GoTypes DEF StartIdle, GoTo
  <2> DEFINE base == task[s]["command"].prep
             x == [led[s] EXCEPT !.wf = ws, !.status = "IDLE", !.node = "execute",
                                 !.attempt = 0, !.base = base, !.versions = {base}]
  <2>3. base \in 1..LastCommit
    BY <1>4, <1>c DEF StartIdle, At, TypeInv, GoodTasks
  <2>4. x \in GoodStates(LastCommit)
    <3>1. led[s] \in GoodStates(LastCommit) /\ ws \in Ids
      BY ElementTypes DEF TypeInv
    <3>2. x \in States
      <4>1. "IDLE" \in Statuses /\ "execute" \in Nodes /\ 0 \in Numbers
        BY Parameters DEF Statuses, Nodes, Numbers
      <4>2. led[s] \in States /\ ws \in Ids /\ base \in Nat
        BY <2>3, <3>1, LastCommitType DEF GoodStates
      <4> HIDE DEF base
      <4> QED BY <4>1, <4>2 DEF States
    <3>3. x.base = base /\ x.versions = {base} /\ x.prep = led[s].prep
      BY <3>1 DEF GoodStates, States
    <3> HIDE DEF x
    <3> QED BY <2>3, <3>1, <3>2, <3>3 DEF GoodStates
  <2>5. led' \in [Sessions -> GoodStates(LastCommit)]
    BY <1>4, <2>4, RecordTypes DEF StartIdle
  <2> QED BY <1>4, <2>2, <2>5, SameCommits DEF StartIdle, TypeInv
<1>5. CASE StartRunning(s)
  <2> DEFINE x == [led[s] EXCEPT !.status = "RUNNING", !.attempt = 1]
  <2>1. x \in GoodStates(LastCommit)
    <3>1. led[s] \in GoodStates(LastCommit)
      BY ElementTypes
    <3>2. x \in States
      <4>1. "RUNNING" \in Statuses /\ 1 \in Numbers
        BY Parameters DEF Statuses, Active, Numbers
      <4> QED BY <3>1, <4>1 DEF GoodStates, States
    <3>3. led[s].status # "NONE" /\ 0 \in 0..LastCommit
      BY <1>5, LastCommitType DEF StartRunning, Begun
    <3>4. x.base = led[s].base /\ x.versions = led[s].versions /\ x.prep = led[s].prep
      BY <3>1 DEF GoodStates, States
    <3> HIDE DEF x
    <3> QED BY <3>1, <3>2, <3>3, <3>4, StateTypes
  <2> QED BY <1>5, <1>c, <2>1, RecordTypes, FollowupTypes, EndTypes, OpTypes, SameCommits
          DEF StartRunning, TypeInv
<1> QED BY <1>1, <1>2, <1>3, <1>4, <1>5 DEF Starting
LEMMA ReworkTypes ==
  ASSUME TypeInv, NEW s \in Sessions, NEW k \in Kinds, NEW reason \in Reasons, NEW escalate,
         task[s][k].pc \notin StartPcs \cup {"idle"}, Rework(s, k, reason, escalate)
  PROVE  /\ led' \in [Sessions -> GoodStates(LastCommit)]
         /\ task' \in [Sessions -> [Kinds -> GoodTasks(LastCommit)]]
         /\ inbox' \in [Sessions -> 0..MaxInbox]
<1> DEFINE state == task[s][k].state
<1>1. state \in GoodStates(LastCommit) /\ state.status # "NONE" /\ LastCommit \in Nat
  BY ElementTypes, LastCommitType DEF GoodTasks
<1>2. CASE state.attempt >= MaxAttempts \/ escalate
  <2>1. Waiting(state, reason) \in GoodStates(LastCommit)
    BY <1>1, WaitingTypes
  <2> QED BY <1>2, <2>1, RecordTypes, EndTypes, FollowupTypes DEF Rework
<1>3. CASE ~(state.attempt >= MaxAttempts \/ escalate)
  <2>1. state.attempt <= MaxIterations
    BY <1>1, <1>3, Parameters DEF GoodStates, States, Numbers
  <2>2. NextAttempt(state) \in GoodStates(LastCommit)
    BY <1>1, <2>1, NextAttemptTypes
  <2> QED BY <1>3, <2>2, RecordTypes, EndTypes, FollowupTypes DEF Rework
<1> QED BY <1>2, <1>3

LEMMA TypeTurnStops ==
  ASSUME TypeInv, NEW s \in Sessions, NEW result \in {"pass", "fail", "none"},
         TurnStops(s, result)
  PROVE  TypeInv'
<1>1. inbox' \in [Sessions -> 0..MaxInbox]
  BY Parameters DEF TurnStops, TypeInv
<1>2. task' \in [Sessions -> [Kinds -> GoodTasks(LastCommit)]]
  <2> DEFINE pc == IF result = "pass" THEN "begin" ELSE "fail"
             t == [NoTask EXCEPT !.pc = pc, !.state = led[s]]
  <2>1. led[s].status = "RUNNING" => t \in GoodTasks(LastCommit)
    <3>1. led[s] \in GoodStates(LastCommit) /\ NoTask \in Tasks /\ pc \in {"begin", "fail"}
      BY ElementTypes, ConstantTypes, LastCommitType DEF GoodTasks
    <3>2. t \in Tasks
      BY <3>1, PcNames DEF Tasks, GoodStates
    <3>3. t.pc = pc /\ t.state = led[s]
      BY <3>1 DEF Tasks
    <3> QED BY <3>1, <3>2, <3>3 DEF GoodTasks
  <2> QED BY <2>1, Names, GoTypes DEF TurnStops, TypeInv
<1> QED BY <1>1, <1>2, SameCommits DEF TurnStops, UnchangedRepo, TypeInv

LEMMA TypeEdit == ASSUME TypeInv, Edit PROVE TypeInv'
<1>1. git' \in Repositories /\ git'.commits = git.commits /\ git'.head = git.head
  BY DEF Edit, TypeInv, Repositories
<1>2. bounds' \in [pauses: Nat, restarts: Nat, edits: Nat]
  BY DEF Edit, TypeInv
<1> QED BY <1>1, <1>2, SameCommits DEF Edit, TypeInv
\* A task goes on, or ends and gives its lock back; the repository stays.
LEMMA TypeOnward ==
  ASSUME TypeInv, NEW s \in Sessions, NEW k \in Kinds, NEW pc \in Pcs,
         task[s][k].pc \notin StartPcs \cup {"idle"}, pc \notin StartPcs \cup {"review"},
         pc \in {"head", "tag", "complete"} => task[s][k].state.prep # 0
  PROVE  GoTo(s, k, pc) => task' \in [Sessions -> [Kinds -> GoodTasks(LastCommit)]]
<1> DEFINE t == task[s][k]
<1>1. t \in GoodTasks(LastCommit) /\ t.state.status # "NONE"
  BY ElementTypes DEF GoodTasks
<1>2. [t EXCEPT !.pc = pc] \in GoodTasks(LastCommit)
  BY <1>1, MoveTypes DEF StartPcs
<1> QED BY <1>2, GoTypes DEF GoTo

\* A new commit: what was good refers to one of the commits before it.
LEMMA TypePrepare ==
  ASSUME TypeInv, NEW s \in Sessions, NEW k \in Kinds, Prepare(s, k) PROVE TypeInv'
<1> DEFINE n == LastCommit
           t == task[s][k]
           commit == [tree |-> git.work, parent |-> git.head]
<1>t. t \in GoodTasks(n) /\ t \in Tasks /\ n \in Nat
  BY ElementTypes, LastCommitType DEF GoodTasks
<1>1. CASE HasChanges
  <2>1. commit \in [tree: Contents, parent: Nat]
    BY DEF TypeInv, Repositories
  <2>2. /\ Append(git.commits, commit) \in Seq([tree: Contents, parent: Nat])
        /\ Len(Append(git.commits, commit)) = n + 1
    BY <2>1 DEF TypeInv, Repositories, LastCommit
  <2> HIDE DEF commit
  <2>3. git' = [git EXCEPT !.index = git.work, !.commits = Append(git.commits, commit)]
    BY <1>1 DEF Prepare, commit
  <2>4. git' \in Repositories /\ LastCommit' = n + 1 /\ git'.head \in Revisions'
    <3>1. git'.commits = Append(git.commits, commit) /\ git'.head = git.head
      BY <2>3 DEF TypeInv, Repositories
    <3>2. LastCommit' = n + 1 /\ git'.head \in Revisions'
      BY <1>t, <2>2, <3>1 DEF TypeInv, LastCommit, Revisions
    <3>3. git.work \in Contents
      BY DEF TypeInv, Repositories
    <3>4. git' \in Repositories
      BY <2>2, <2>3, <3>3 DEF TypeInv, Repositories
    <3> QED BY <3>2, <3>4
  <2>5. GoodStates(n) \subseteq GoodStates(n + 1) /\ GoodTasks(n) \subseteq GoodTasks(n + 1)
    BY <1>t, GoodIsMonotone
  <2>6. [t EXCEPT !.pc = "review", !.prep = n + 1] \in GoodTasks(n + 1)
    <3>1. t \in GoodTasks(n + 1) /\ t.state.status # "NONE" /\ n + 1 \in 1..(n + 1)
      BY <1>1, <1>t, <2>5 DEF Prepare, At, GoodTasks, StartPcs
    <3>2. [t EXCEPT !.pc = "review", !.prep = n + 1] \in Tasks
      <4>1. "review" \in Pcs /\ n + 1 \in Nat
        BY <1>t, PcNames
      <4> HIDE DEF n
      <4> QED BY <1>t, <4>1 DEF Tasks
    <3> DEFINE u == [t EXCEPT !.pc = "review", !.prep = n + 1]
    <3>3. u.pc = "review" /\ u.prep = n + 1 /\ u.state = t.state
      BY <1>t DEF Tasks
    <3>4. u \in Tasks
      BY <3>2
    <3> HIDE DEF n, u
    <3>5. u \in GoodTasks(n + 1)
      BY <3>1, <3>3, <3>4, <1>t DEF GoodTasks
    <3> QED BY <3>5 DEF u
  <2>7. task' \in [Sessions -> [Kinds -> GoodTasks(n + 1)]]
    <3> DEFINE row == [task[s] EXCEPT ![k] = [t EXCEPT !.pc = "review", !.prep = n + 1]]
    <3>1. task \in [Sessions -> [Kinds -> GoodTasks(n + 1)]]
      BY <2>5 DEF TypeInv
    <3>2. task' = [task EXCEPT ![s] = row]
      BY <1>1, <3>1 DEF Prepare, Go, LastCommit
    <3>3. row \in [Kinds -> GoodTasks(n + 1)]
      BY <2>6, <3>1
    <3> QED BY <3>1, <3>2, <3>3
  <2>8. led' \in [Sessions -> GoodStates(n + 1)]
    BY <1>1, <2>5 DEF Prepare, TypeInv
  <2> HIDE DEF n
  <2> QED BY <1>1, <2>4, <2>7, <2>8 DEF Prepare, TypeInv
<1>2. CASE ~HasChanges
  BY <1>2, EndTypes, OpTypes, SameCommits DEF Prepare, TypeInv
<1> QED BY <1>1, <1>2

LEMMA FingerprintTypes ==
  TypeInv => Fingerprint \in [head: Nat, dirty: BOOLEAN, work: Contents]
BY DEF TypeInv, Repositories, Fingerprint, HasChanges

LEMMA TypeReview ==
  ASSUME TypeInv, NEW s \in Sessions, NEW k \in Kinds, Review(s, k) PROVE TypeInv'
<1> DEFINE t == task[s][k]
           reviewed == [t.state EXCEPT !.fp = Fingerprint, !.prep = t.prep]
<1>1. /\ t \in GoodTasks(LastCommit) /\ t \in Tasks /\ LastCommit \in Nat
      /\ t.state \in GoodStates(LastCommit) /\ t.state \in States
      /\ t.state.status # "NONE" /\ t.prep \in 1..LastCommit
  BY ElementTypes, LastCommitType DEF Review, At, GoodTasks, GoodStates, StartPcs
<1>2. reviewed \in States /\ reviewed.status = t.state.status /\ reviewed.base = t.state.base
      /\ reviewed.versions = t.state.versions /\ reviewed.prep = t.prep
  <2>1. t.prep \in Nat /\ Fingerprint \in [head: Nat, dirty: BOOLEAN, work: Contents]
    BY <1>1, FingerprintTypes
  <2> QED BY <1>1, <2>1 DEF States
<1> HIDE DEF reviewed
<1>3. reviewed \in GoodStates(LastCommit) /\ reviewed.status # "NONE"
  BY <1>1, <1>2 DEF GoodStates
<1>4. CASE RequireApproval
  <2>1. Waiting(reviewed, "PROMOTION_REVIEW") \in GoodStates(LastCommit)
    BY <1>1, <1>3, Names, WaitingTypes
  <2> QED BY <1>4, <2>1, RecordTypes, EndTypes, OpTypes, SameCommits
          DEF Review, reviewed, UnchangedRepo, TypeInv
<1>5. CASE ~RequireApproval
  <2>1. [t EXCEPT !.pc = "approve", !.state = reviewed] \in GoodTasks(LastCommit)
    BY <1>1, <1>3, PcNames DEF GoodTasks, GoodStates, Tasks
  <2> QED BY <1>5, <2>1, GoTypes, SameCommits DEF Review, reviewed, UnchangedRepo, TypeInv
<1> QED BY <1>4, <1>5

LEMMA TypeVerification ==
  ASSUME TypeInv, NEW s \in Sessions, NEW k \in Kinds, Verification(s, k) PROVE TypeInv'
<1> DEFINE t == task[s][k]
<1> USE DEF UnchangedRepo
<1>t. t \in GoodTasks(LastCommit) /\ t \in Tasks /\ t.state \in GoodStates(LastCommit)
  BY ElementTypes DEF GoodTasks
<1>n. LastCommit \in Nat
  BY LastCommitType
<1>1. CASE Discard(s, k)
  BY <1>1, EndTypes, SameCommits DEF Discard, TypeInv
<1>2. CASE ReportedFailure(s, k)
  <2>1. t.pc \notin StartPcs \cup {"idle"}
    BY <1>2 DEF ReportedFailure, Applies, At, StartPcs
  <2> QED BY <1>2, <2>1, Names, ReworkTypes, SameCommits DEF ReportedFailure, TypeInv
<1>3. CASE BeginVerify(s, k)
  <2> DEFINE verifying == [t.state EXCEPT !.node = "verify"]
  <2>1. t.state.status # "NONE"
    BY <1>3, <1>t DEF BeginVerify, Applies, At, GoodTasks, StartPcs
  <2>2. verifying \in GoodStates(LastCommit) /\ verifying.status # "NONE"
    BY <1>n, <1>t, <2>1, LabelTypes, Names DEF GoodStates, States
  <2> HIDE DEF verifying
  <2>3. [t EXCEPT !.pc = "commands", !.state = verifying] \in GoodTasks(LastCommit)
    BY <1>t, <2>2, PcNames DEF GoodTasks, Tasks, GoodStates
  <2>4. led' \in [Sessions -> GoodStates(LastCommit)]
    BY <1>3, <2>2, RecordTypes DEF BeginVerify, verifying
  <2>5. task' \in [Sessions -> [Kinds -> GoodTasks(LastCommit)]]
    BY <1>3, <2>3, GoTypes DEF BeginVerify, verifying
  <2> QED BY <1>3, <2>4, <2>5, SameCommits DEF BeginVerify, TypeInv
<1>4. ASSUME NEW passed \in BOOLEAN, RunCommands(s, k, passed) PROVE TypeInv'
  <2>1. git.work \in Contents
    BY DEF TypeInv, Repositories
  <2>2. [t EXCEPT !.pc = "tested", !.ok = passed, !.seen = git.work] \in GoodTasks(LastCommit)
    BY <1>4, <1>t, <2>1, PcNames DEF RunCommands, At, GoodTasks, Tasks, StartPcs
  <2> QED BY <1>4, <2>2, GoTypes, SameCommits DEF RunCommands, TypeInv
<1>5. ASSUME NEW passed \in BOOLEAN, NEW from \in {"tested", "gate"}, NEW to \in {"gate", "archive"},
             Applies(s, k, from),
             IF passed THEN GoTo(s, k, to) /\ UNCHANGED <<led, inbox>>
                       ELSE Rework(s, k, "QUALITY_REVIEW", FALSE),
             UNCHANGED <<op, asked, bounds>> /\ UnchangedRepo
      PROVE  TypeInv'
  <2>1. t.pc \notin StartPcs \cup {"idle"} /\ "QUALITY_REVIEW" \in Reasons
    BY <1>5, Names DEF Applies, At, StartPcs
  <2>2. to \in Pcs /\ to \notin StartPcs \cup {"review", "head", "tag", "complete"}
    BY PcNames DEF StartPcs
  <2>3. CASE passed
    BY <1>5, <2>1, <2>2, <2>3, TypeOnward, SameCommits DEF TypeInv
  <2>4. CASE ~passed
    BY <1>5, <2>1, <2>4, ReworkTypes, SameCommits DEF TypeInv
  <2> QED BY <2>3, <2>4
<1>6. CASE ApplyCommands(s, k)
  <2>1. t.ok \in BOOLEAN
    BY <1>t DEF Tasks
  <2> QED BY <1>5, <1>6, <2>1 DEF ApplyCommands
<1>7. ASSUME NEW passed \in BOOLEAN, ApplyGate(s, k, passed) PROVE TypeInv'
  BY <1>5, <1>7 DEF ApplyGate
<1>8. CASE ReadScope(s, k)
  <2>1. InScope \in BOOLEAN
    BY DEF InScope
  <2>2. [t EXCEPT !.pc = "settle", !.ok = InScope] \in GoodTasks(LastCommit)
    BY <1>8, <1>t, <2>1, PcNames DEF ReadScope, Applies, At, GoodTasks, Tasks, StartPcs
  <2> QED BY <1>8, <2>2, GoTypes, SameCommits DEF ReadScope, TypeInv
<1>9. CASE ScopeReview(s, k)
  <2>1. t.state.status # "NONE"
    BY <1>9, <1>t DEF ScopeReview, Applies, At, GoodTasks, StartPcs
  <2>2. Waiting(t.state, "SCOPE_REVIEW") \in GoodStates(LastCommit)
    BY <1>n, <1>t, <2>1, Names, WaitingTypes
  <2> QED BY <1>9, <2>2, RecordTypes, EndTypes, SameCommits DEF ScopeReview, TypeInv
<1>10. CASE SettleLock(s, k)
  <2>1. t.pc \notin StartPcs \cup {"idle"} /\ "prepare" \in Pcs
        /\ "prepare" \notin StartPcs \cup {"review", "head", "tag", "complete"}
    BY <1>10, PcNames DEF SettleLock, Applies, At, StartPcs
  <2> QED BY <1>10, <2>1, TypeOnward, OpTypes, SameCommits DEF SettleLock, TypeInv
<1>11. CASE Prepare(s, k)
  BY <1>11, TypePrepare
<1>12. CASE Review(s, k)
  BY <1>12, TypeReview
<1> QED BY <1>1, <1>2, <1>3, <1>4, <1>6, <1>7, <1>8, <1>9, <1>10, <1>11, <1>12 DEF Verification
LEMMA TypePromotion ==
  ASSUME TypeInv, NEW s \in Sessions, NEW k \in Kinds, Promotion(s, k) PROVE TypeInv'
<1> DEFINE t == task[s][k]
<1> USE DEF UnchangedRepo
<1>t. /\ t \in GoodTasks(LastCommit) /\ t.state \in GoodStates(LastCommit) /\ t.state \in States
      /\ LastCommit \in Nat
  BY ElementTypes, LastCommitType DEF GoodTasks, GoodStates
<1>p. t.pc \in PromotePcs => t.pc \notin StartPcs \cup {"idle"}
  BY DEF StartPcs, PromotePcs
<1>1. CASE Compare(s, k)
  <2>1. Fingerprint = t.state.fp /\ t.state.prep # 0
        => task' \in [Sessions -> [Kinds -> GoodTasks(LastCommit)]]
    BY <1>1, <1>p, PcNames, TypeOnward DEF Compare, At, PromotePcs, StartPcs
  <2> QED BY <1>1, <2>1, EndTypes, OpTypes, SameCommits DEF Compare, TypeInv
<1>2. CASE PromoteHead(s, k)
  <2>1. t.state.prep # 0 /\ t.state.prep \in Revisions
    BY <1>2, <1>t DEF PromoteHead, At, GoodTasks, GoodStates, Revisions
  <2>2. GoTo(s, k, "complete") \/ GoTo(s, k, "tag") \/ End(s, k)
        => task' \in [Sessions -> [Kinds -> GoodTasks(LastCommit)]]
    BY <1>2, <1>p, <2>1, PcNames, TypeOnward, EndTypes DEF PromoteHead, At, PromotePcs, StartPcs
  <2>3. git' \in {git, [git EXCEPT !.head = t.state.prep]}
    BY <1>2 DEF PromoteHead
  <2>4. git' \in Repositories /\ git'.head \in Revisions /\ git'.commits = git.commits
    <3>1. t.state.prep \in Nat
      BY <1>t DEF States
    <3> QED BY <2>1, <2>3, <3>1 DEF TypeInv, Repositories
  <2>5. op' \in [Sessions -> Kinds \cup {"free"}]
    BY <1>2, OpTypes DEF PromoteHead
  <2>6. task' \in [Sessions -> [Kinds -> GoodTasks(LastCommit)]]
    BY <1>2, <2>2 DEF PromoteHead
  <2> QED BY <1>2, <2>4, <2>5, <2>6, SameCommits DEF PromoteHead, TypeInv
<1>3. CASE PromoteTag(s, k)
  <2>1. t.state.prep \in Nat /\ t.state.prep # 0
    BY <1>3, <1>t DEF PromoteTag, At, GoodTasks, GoodStates, States
  <2>2. git' \in Repositories /\ git'.head = git.head /\ git'.commits = git.commits
    BY <1>3, <2>1 DEF PromoteTag, TypeInv, Repositories
  <2>3. task' \in [Sessions -> [Kinds -> GoodTasks(LastCommit)]]
    BY <1>3, <1>p, <2>1, PcNames, TypeOnward DEF PromoteTag, At, PromotePcs, StartPcs
  <2> QED BY <1>3, <2>2, <2>3, SameCommits DEF PromoteTag, TypeInv
<1>4. CASE Complete(s, k)
  <2> DEFINE x == [t.state EXCEPT !.status = "COMPLETED", !.node = "complete",
                                  !.versions = @ \cup {t.state.prep}]
  <2>1. t.state.prep \in 1..LastCommit /\ t.state.status # "NONE"
    BY <1>4, <1>t DEF Complete, At, GoodTasks, GoodStates, StartPcs
  <2>2. x \in States /\ x.base = t.state.base /\ x.prep = t.state.prep
        /\ x.versions = t.state.versions \cup {t.state.prep}
    <3>1. t.state.prep \in Nat /\ {"COMPLETED"} \subseteq Statuses /\ {"complete"} \subseteq Nodes
      BY <1>t, <2>1, Names
    <3> QED BY <1>t, <3>1 DEF States
  <2>3. KeepReason(s, x) \in States
    BY <2>2, ElementTypes DEF KeepReason, GoodStates, States
  <2>4. KeepReason(s, x).base = x.base /\ KeepReason(s, x).versions = x.versions
        /\ KeepReason(s, x).prep = x.prep
    BY <2>2 DEF KeepReason, States
  <2>5. KeepReason(s, x) \in GoodStates(LastCommit)
    <3> HIDE DEF x
    <3> QED BY <1>t, <2>1, <2>2, <2>3, <2>4 DEF GoodStates
  <2>6. led' \in [Sessions -> GoodStates(LastCommit)]
    BY <1>4, <2>5, RecordTypes DEF Complete
  <2>7. task' \in [Sessions -> [Kinds -> GoodTasks(LastCommit)]]
    BY <1>4, <1>p, PcNames, TypeOnward DEF Complete, At, PromotePcs, StartPcs
  <2> QED BY <1>4, <2>6, <2>7, SameCommits DEF Complete, TypeInv
<1>5. CASE Release(s, k)
  <2>1. ws' \in Ids
    BY <1>5, Parameters DEF Release, TypeInv, Ids
  <2> QED BY <1>5, <2>1, EndTypes, OpTypes, SameCommits DEF Release, TypeInv
<1> QED BY <1>1, <1>2, <1>3, <1>4, <1>5 DEF Promotion

LEMMA TypeAbandoning ==
  ASSUME TypeInv, NEW s \in Sessions, NEW k \in Kinds, Restore(s, k) \/ Fail(s, k) PROVE TypeInv'
<1> DEFINE t == task[s][k]
<1>t. /\ t \in GoodTasks(LastCommit) /\ t.state \in GoodStates(LastCommit) /\ t.state \in States
      /\ LastCommit \in Nat
  BY ElementTypes, LastCommitType DEF GoodTasks, GoodStates
<1>1. CASE Restore(s, k)
  <2>1. t.pc = "restore" /\ t.state.status # "NONE"
    BY <1>1, <1>t DEF Restore, At, GoodTasks, StartPcs
  <2>2. Tree(t.state.base) \in Contents
    BY <1>t, <2>1, LastCommitType DEF GoodStates, Revisions, Tree
  <2>3. git' \in {git, [git EXCEPT !.index = Tree(t.state.base), !.work = Tree(t.state.base)]}
    BY <1>1 DEF Restore
  <2>4. git' \in Repositories /\ git'.head = git.head /\ git'.commits = git.commits
    BY <2>2, <2>3 DEF TypeInv, Repositories
  <2>5. task' \in [Sessions -> [Kinds -> GoodTasks(LastCommit)]]
    BY <1>1, <2>1, PcNames, TypeOnward, EndTypes DEF Restore, StartPcs
  <2>6. op' \in [Sessions -> Kinds \cup {"free"}]
    BY <1>1, OpTypes DEF Restore
  <2> QED BY <1>1, <2>4, <2>5, <2>6, SameCommits DEF Restore, TypeInv
<1>2. CASE Fail(s, k)
  <2> DEFINE x == [t.state EXCEPT !.status = "FAILED", !.node = "failed"]
  <2>1. t.pc = "failed" /\ t.state.status # "NONE"
    BY <1>2, <1>t DEF Fail, At, GoodTasks, StartPcs
  <2>2. x \in GoodStates(LastCommit) /\ x.status # "NONE"
    BY <1>t, <2>1, LabelTypes, Names DEF States
  <2>3. KeepReason(s, x) \in GoodStates(LastCommit)
    <3> HIDE DEF x
    <3>1. led[s].reason \in Reasons
      BY ElementTypes DEF GoodStates, States
    <3> QED BY <2>2, <3>1 DEF KeepReason, GoodStates, States
  <2>4. led' \in [Sessions -> GoodStates(LastCommit)]
    BY <1>2, <2>3, RecordTypes DEF Fail
  <2>5. task' \in [Sessions -> [Kinds -> GoodTasks(LastCommit)]]
    BY <1>2, <2>1, PcNames, TypeOnward DEF Fail, StartPcs
  <2> QED BY <1>2, <2>4, <2>5, SameCommits DEF Fail, UnchangedRepo, TypeInv
<1> QED BY <1>1, <1>2
\* A command takes up the state of the ledger.
LEMMA TypeTake ==
  ASSUME TypeInv, NEW s \in Sessions, NEW k \in Kinds, NEW pc \in Pcs, NEW x \in GoodStates(LastCommit),
         pc \notin StartPcs \cup {"review", "head", "tag", "complete"}, x.status # "NONE",
         Go(s, k, [NoTask EXCEPT !.pc = pc, !.state = x])
  PROVE  task' \in [Sessions -> [Kinds -> GoodTasks(LastCommit)]]
<1> DEFINE t == [NoTask EXCEPT !.pc = pc, !.state = x]
<1>1. NoTask \in Tasks /\ x \in States
  BY ConstantTypes, LastCommitType DEF GoodTasks, GoodStates
<1>2. t \in Tasks /\ t.pc = pc /\ t.state = x
  BY <1>1 DEF Tasks
<1>3. t \in GoodTasks(LastCommit)
  <2> HIDE DEF t
  <2> QED BY <1>2 DEF GoodTasks, StartPcs
<1> QED BY <1>3, GoTypes

LEMMA TypeCommands ==
  ASSUME TypeInv, NEW s \in Sessions,
         Approve(s) \/ Pause(s) \/ Resume(s) \/ Retry(s) \/ Reject(s) \/ Rollback(s)
  PROVE  TypeInv'
<1> DEFINE x == led[s]
<1> USE DEF UnchangedRepo
<1>x. x \in GoodStates(LastCommit) /\ x \in States /\ LastCommit \in Nat
  BY ElementTypes, LastCommitType DEF GoodStates
<1>k. "command" \in Kinds /\ "approve" \in Pcs /\ "restore" \in Pcs
  BY Names, PcNames
<1>1. CASE Approve(s)
  <2>1. task' \in [Sessions -> [Kinds -> GoodTasks(LastCommit)]]
    BY <1>1, <1>x, <1>k, TypeTake DEF Approve, StartPcs
  <2> QED BY <1>1, <1>k, <2>1, OpTypes, SameCommits DEF Approve, TypeInv
<1>2. CASE Pause(s)
  <2>1. [x EXCEPT !.status = "PAUSED"] \in GoodStates(LastCommit)
    BY <1>2, <1>x, LabelTypes, Names DEF Pause
  <2>2. inbox' \in [Sessions -> 0..MaxInbox] /\ bounds' \in [pauses: Nat, restarts: Nat, edits: Nat]
    <3>1. inbox \in [Sessions -> 0..MaxInbox] /\ bounds \in [pauses: Nat, restarts: Nat, edits: Nat]
      BY DEF TypeInv
    <3>2. inbox[s] > 0 => inbox[s] - 1 \in 0..MaxInbox
      BY <3>1, Parameters
    <3>3. inbox' \in [Sessions -> 0..MaxInbox]
      BY <1>2, <3>1, <3>2 DEF Pause
    <3>4. bounds' = [bounds EXCEPT !.pauses = @ + 1]
      BY <1>2 DEF Pause
    <3> QED BY <3>1, <3>3, <3>4
  <2> QED BY <1>2, <2>1, <2>2, RecordTypes, OpTypes, SameCommits DEF Pause, LockFree, TypeInv
<1>3. CASE Resume(s)
  <2>1. [x EXCEPT !.status = "RUNNING"] \in GoodStates(LastCommit)
    BY <1>3, <1>x, LabelTypes, Names DEF Resume
  <2> QED BY <1>3, <2>1, RecordTypes, FollowupTypes, SameCommits DEF Resume, LockFree, TypeInv
<1>4. CASE Retry(s)
  <2>1. NextAttempt(x) \in GoodStates(LastCommit) /\ NextAttempt(x).status = x.status
    <3>1. x.attempt <= MaxIterations
      BY <1>4, <1>x, Parameters DEF Retry, States, Numbers
    <3> QED BY <1>x, <3>1, NextAttemptTypes
  <2>2. [NextAttempt(x) EXCEPT !.status = "RUNNING"] \in GoodStates(LastCommit)
    BY <1>4, <1>x, <2>1, LabelTypes, Names DEF Retry
  <2> QED BY <1>4, <2>2, RecordTypes, FollowupTypes, SameCommits DEF Retry, LockFree, TypeInv
<1>5. CASE Reject(s)
  <2>1. task' \in [Sessions -> [Kinds -> GoodTasks(LastCommit)]]
    BY <1>5, <1>x, <1>k, TypeTake DEF Reject, StartPcs
  <2> QED BY <1>5, <1>k, <2>1, OpTypes, SameCommits DEF Reject, TypeInv
<1>6. CASE Rollback(s)
  <2>1. PICK c \in x.versions : git' = [git EXCEPT !.head = c, !.index = Tree(c), !.work = Tree(c)]
    BY <1>6 DEF Rollback
  <2>2. c \in Revisions /\ c \in Nat /\ Tree(c) \in Contents
    BY <1>x, LastCommitType DEF GoodStates, Revisions, Tree
  <2>3. git' \in Repositories /\ git'.head \in Revisions /\ git'.commits = git.commits
    <3>1. git'.head = c /\ git'.commits = git.commits
      BY <2>1 DEF TypeInv, Repositories
    <3>2. git \in Repositories
      BY DEF TypeInv
    <3>3. ASSUME NEW tree \in Contents, git' = [git EXCEPT !.head = c, !.index = tree, !.work = tree]
          PROVE  git' \in Repositories
      BY <2>2, <3>2, <3>3 DEF Repositories
    <3> HIDE DEF Tree
    <3>4. git' \in Repositories
      BY <2>1, <2>2, <3>3
    <3> QED BY <2>2, <3>1, <3>4
  <2> QED BY <1>6, <2>3, SameCommits DEF Rollback, LockFree, TypeInv
<1> QED BY <1>1, <1>2, <1>3, <1>4, <1>5, <1>6

LEMMA TypeRecover ==
  ASSUME TypeInv, NEW s \in Sessions, Recover(s) PROVE TypeInv'
<1> DEFINE x == led[s]
<1> USE DEF UnchangedRepo
<1>x. x \in GoodStates(LastCommit) /\ x \in States /\ LastCommit \in Nat
  BY ElementTypes, LastCommitType DEF GoodStates
<1>k. /\ "begin" \in Pcs /\ "begin" \notin StartPcs /\ "restore" \in Pcs /\ "restore" \notin StartPcs
      /\ "release" \in Pcs /\ "release" \notin StartPcs
  BY PcNames DEF StartPcs
<1>1. ASSUME NEW k \in Kinds, Recovering(s, k)
      PROVE  x.status = "UNCERTAIN" /\ asked' \in [Sessions -> BOOLEAN]
  BY <1>1 DEF Recovering, TypeInv
<1>2. ASSUME NEW k \in Kinds, RecoverVerify(s, k) PROVE TypeInv'
  <2> DEFINE running == [x EXCEPT !.status = "RUNNING", !.node = "verify"]
  <2>1. running \in GoodStates(LastCommit) /\ running.status # "NONE"
    BY <1>x, <1>1, <1>2, LabelTypes, Names DEF RecoverVerify, States
  <2> HIDE DEF running
  <2>2. task' \in [Sessions -> [Kinds -> GoodTasks(LastCommit)]]
    BY <1>2, <1>k, <2>1, TypeTake DEF RecoverVerify, running
  <2>3. led' \in [Sessions -> GoodStates(LastCommit)]
    BY <1>2, <2>1, RecordTypes DEF RecoverVerify, running
  <2> QED BY <1>1, <1>2, <2>2, <2>3, SameCommits DEF RecoverVerify, LockFree, TypeInv
<1>3. ASSUME NEW k \in Kinds, RecoverRetry(s, k) PROVE TypeInv'
  <2>1. [x EXCEPT !.status = "RUNNING", !.node = "execute"] \in GoodStates(LastCommit)
    BY <1>x, <1>1, <1>3, LabelTypes, Names DEF RecoverRetry
  <2> QED BY <1>1, <1>3, <2>1, RecordTypes, FollowupTypes, SameCommits DEF RecoverRetry, TypeInv
<1>4. ASSUME NEW k \in Kinds, RecoverLock(s, k) PROVE op' \in [Sessions -> Kinds \cup {"free"}]
  BY <1>4, OpTypes DEF RecoverLock
<1>5. ASSUME NEW k \in Kinds, RecoverRestore(s, k) PROVE TypeInv'
  <2>1. task' \in [Sessions -> [Kinds -> GoodTasks(LastCommit)]]
    BY <1>x, <1>k, <1>1, <1>5, TypeTake DEF RecoverRestore
  <2> QED BY <1>1, <1>4, <1>5, <2>1, SameCommits DEF RecoverRestore, TypeInv
<1>6. ASSUME NEW k \in Kinds, RecoverAbort(s, k) PROVE TypeInv'
  <2>1. task' \in [Sessions -> [Kinds -> GoodTasks(LastCommit)]]
    BY <1>x, <1>k, <1>1, <1>6, TypeTake DEF RecoverAbort
  <2>2. [x EXCEPT !.status = "FAILED", !.node = "failed"] \in GoodStates(LastCommit)
    BY <1>x, <1>1, <1>6, LabelTypes, Names DEF RecoverAbort
  <2> QED BY <1>1, <1>4, <1>6, <2>1, <2>2, RecordTypes, SameCommits DEF RecoverAbort, TypeInv
<1> QED BY <1>2, <1>3, <1>5, <1>6, Names DEF Recover

LEMMA TypeRestart ==
  ASSUME TypeInv, NEW s \in Sessions, Restart(s) PROVE TypeInv'
<1>x. led[s] \in GoodStates(LastCommit) /\ LastCommit \in Nat
  BY ElementTypes, LastCommitType
<1>1. led' \in [Sessions -> GoodStates(LastCommit)]
  <2>1. led[s].status = "RUNNING" =>
          [led[s] EXCEPT !.status = "UNCERTAIN", !.node = "human_gate",
                         !.reason = "UNCERTAIN_RECOVERY"] \in GoodStates(LastCommit)
    BY <1>x, LabelTypes, Names
  <2> QED BY <2>1, RecordTypes DEF Restart, TypeInv
<1>2. task' \in [Sessions -> [Kinds -> GoodTasks(LastCommit)]]
  BY <1>x, ConstantTypes DEF Restart, TypeInv
<1>3. op' \in [Sessions -> Kinds \cup {"free"}] /\ inbox' \in [Sessions -> 0..MaxInbox]
      /\ bounds' \in [pauses: Nat, restarts: Nat, edits: Nat]
  BY Parameters DEF Restart, TypeInv
<1>4. asked' \in [Sessions -> BOOLEAN]
  <2>1. (AsksRecovery /\ led[s].status = "RUNNING") \in BOOLEAN
    BY Parameters
  <2> QED BY <2>1 DEF Restart, TypeInv
<1> QED BY <1>1, <1>2, <1>3, <1>4, SameCommits DEF Restart, UnchangedRepo, TypeInv
LEMMA TypeStep == TypeInv /\ Begun /\ [Next]_vars => TypeInv'
<1> SUFFICES ASSUME TypeInv, Begun, [Next]_vars PROVE TypeInv'
  OBVIOUS
<1>1. ASSUME NEW s \in Sessions, NEW k \in Kinds, TaskStep(s, k) PROVE TypeInv'
  BY <1>1, TypeVerification, TypePromotion, TypeAbandoning DEF TaskStep
<1>2. ASSUME NEW s \in Sessions, Human(s) PROVE TypeInv'
  BY <1>2, TypeStarting, TypeCommands, TypeRecover DEF Human
<1>3. CASE UNCHANGED vars
  BY <1>3, SameCommits DEF vars, TypeInv
<1> QED BY <1>1, <1>2, <1>3, TypeEdit, TypeStarting, TypeRestart, TypeTurnStops DEF Next
-----------------------------------------------------------------------------
\* The steps of a session s leave the other sessions alone.
Others(s) ==
  \A u \in Sessions \ {s} :
    led'[u] = led[u] /\ op'[u] = op[u] /\ task'[u] = task[u] /\ asked'[u] = asked[u]

SessionStep(s) ==
  \/ Human(s) \/ Starting(s) \/ Restart(s)
  \/ \E result \in {"pass", "fail", "none"} : TurnStops(s, result)
  \/ \E k \in Kinds : TaskStep(s, k)

LEMMA PiecesLeaveOthers ==
  ASSUME TypeInv, NEW s \in Sessions, NEW u \in Sessions \ {s}
  PROVE  /\ \A k, t : Go(s, k, t) => task'[u] = task[u]
         /\ \A k, pc : GoTo(s, k, pc) => task'[u] = task[u]
         /\ \A k : End(s, k) => task'[u] = task[u]
         /\ \A x : Record(s, x) => led'[u] = led[u]
         /\ \A k : Lock(s, k) \/ Unlock(s, k) \/ RecoverLock(s, k) => op'[u] = op[u]
         /\ LockFree(s) => op'[u] = op[u]
BY DEF TypeInv, Go, GoTo, End, Record, Lock, Unlock, LockFree, RecoverLock

LEMMA StepLeavesOthers ==
  ASSUME TypeInv, NEW s \in Sessions, SessionStep(s) PROVE Others(s)
<1> SUFFICES ASSUME NEW u \in Sessions \ {s}
             PROVE  led'[u] = led[u] /\ op'[u] = op[u] /\ task'[u] = task[u] /\ asked'[u] = asked[u]
  BY DEF Others
<1>1. CASE Starting(s) \/ StartHead(s)
  BY <1>1, PiecesLeaveOthers
     DEF Starting, StartHead, StartClean, StartAcquire, StartIdle, StartRunning
<1>2. ASSUME NEW result, TurnStops(s, result)
      PROVE  led'[u] = led[u] /\ op'[u] = op[u] /\ task'[u] = task[u] /\ asked'[u] = asked[u]
  BY <1>2, PiecesLeaveOthers DEF TurnStops
<1>3. ASSUME NEW k \in Kinds, Verification(s, k)
      PROVE  led'[u] = led[u] /\ op'[u] = op[u] /\ task'[u] = task[u] /\ asked'[u] = asked[u]
  BY <1>3, PiecesLeaveOthers
     DEF Verification, Discard, ReportedFailure, BeginVerify, RunCommands, ApplyCommands, ApplyGate,
         ReadScope, ScopeReview, SettleLock, Prepare, Review, Rework
<1>4. ASSUME NEW k \in Kinds, Promotion(s, k) \/ Restore(s, k) \/ Fail(s, k)
      PROVE  led'[u] = led[u] /\ op'[u] = op[u] /\ task'[u] = task[u] /\ asked'[u] = asked[u]
  BY <1>4, PiecesLeaveOthers
     DEF Promotion, Compare, PromoteHead, PromoteTag, Complete, Release, Restore, Fail
<1>5. CASE Approve(s) \/ Pause(s) \/ Resume(s) \/ Retry(s) \/ Reject(s) \/ Rollback(s)
  BY <1>5, PiecesLeaveOthers DEF Approve, Pause, Resume, Retry, Reject, Rollback
<1>6. CASE Recover(s)
  <2>1. ASSUME NEW k, Recovering(s, k) PROVE asked'[u] = asked[u]
    BY <2>1 DEF Recovering, TypeInv
  <2> QED BY <1>6, <2>1, PiecesLeaveOthers
          DEF Recover, RecoverVerify, RecoverRetry, RecoverRestore, RecoverAbort
<1>7. CASE Restart(s)
  BY <1>7, PiecesLeaveOthers DEF Restart, TypeInv
<1> QED BY <1>1, <1>2, <1>3, <1>4, <1>5, <1>6, <1>7 DEF SessionStep, Human, TaskStep
-----------------------------------------------------------------------------
\* What the shared pieces do to the session itself.
RestIdle(s, k) == \A j \in Kinds \ {k} : task'[s][j] = task[s][j]
Moves(s, k, pc) ==
  /\ task'[s][k].pc = pc /\ task'[s][k].state = task[s][k].state
  /\ task'[s][k].seen = task[s][k].seen /\ task'[s][k].prep = task[s][k].prep

LEMMA PiecesAct ==
  ASSUME TypeInv, NEW s \in Sessions, NEW k \in Kinds
  PROVE  /\ \A t : Go(s, k, t) => task'[s][k] = t
         /\ \A pc : GoTo(s, k, pc) => Moves(s, k, pc)
         /\ End(s, k) => task'[s][k] = NoTask
<1>1. ASSUME NEW t, Go(s, k, t) PROVE task'[s][k] = t
  BY <1>1 DEF Go, TypeInv
<1>2. ASSUME NEW pc, GoTo(s, k, pc) PROVE Moves(s, k, pc)
  <2>1. task'[s][k] = [task[s][k] EXCEPT !.pc = pc]
    BY <1>1, <1>2 DEF GoTo
  <2>2. task[s][k] \in Tasks
    BY ElementTypes DEF GoodTasks
  <2> QED BY <2>1, <2>2 DEF Tasks, Moves
<1>3. ASSUME End(s, k) PROVE task'[s][k] = NoTask
  BY <1>1, <1>3 DEF End
<1> QED BY <1>1, <1>2, <1>3

LEMMA PiecesLeaveRest ==
  ASSUME TypeInv, NEW s \in Sessions, NEW k \in Kinds
  PROVE  /\ \A t : Go(s, k, t) => RestIdle(s, k)
         /\ \A pc : GoTo(s, k, pc) => RestIdle(s, k)
         /\ End(s, k) => RestIdle(s, k)
<1>1. ASSUME NEW t, Go(s, k, t) PROVE RestIdle(s, k)
  BY <1>1 DEF Go, TypeInv, RestIdle
<1> QED BY <1>1 DEF GoTo, End

LEMMA RecordActs == ASSUME TypeInv, NEW s \in Sessions, NEW x, Record(s, x) PROVE led'[s] = x
BY DEF Record, TypeInv

LEMMA LockActs ==
  ASSUME TypeInv, NEW s \in Sessions, NEW k \in Kinds
  PROVE  /\ Lock(s, k) => op[s] = "free" /\ op'[s] = k
         /\ Unlock(s, k) => op'[s] = IF op[s] = k THEN "free" ELSE op[s]
BY DEF Lock, Unlock, TypeInv
-----------------------------------------------------------------------------
\* What the fields of a state are after the plugin wrote some of them.
SameContent(y, x) == y.base = x.base /\ y.versions = x.versions /\ y.fp = x.fp /\ y.prep = x.prep
Control(y, wf, status, node, attempt) ==
  y.wf = wf /\ y.status = status /\ y.node = node /\ y.attempt = attempt

\* The state a command appends.
LEMMA CommandWrites ==
  ASSUME TypeInv, NEW s \in Sessions
  PROVE  LET x == led[s]
             y == led'[s]
         IN
         /\ StartIdle(s) => Control(y, ws, "IDLE", "execute", 0) /\ y.fp = x.fp /\ y.prep = x.prep
         /\ StartRunning(s) => Control(y, x.wf, "RUNNING", x.node, 1) /\ SameContent(y, x)
         /\ Pause(s) => Control(y, x.wf, "PAUSED", x.node, x.attempt) /\ SameContent(y, x)
         /\ Resume(s) => Control(y, x.wf, "RUNNING", x.node, x.attempt) /\ SameContent(y, x)
         /\ Retry(s) => Control(y, x.wf, "RUNNING", "execute", x.attempt + 1) /\ y.prep = 0 /\ y.versions = x.versions
         /\ \A k \in Kinds :
              /\ RecoverVerify(s, k) => Control(y, x.wf, "RUNNING", "verify", x.attempt) /\ SameContent(y, x)
              /\ RecoverRetry(s, k) => Control(y, x.wf, "RUNNING", "execute", x.attempt) /\ SameContent(y, x)
              /\ RecoverAbort(s, k) => Control(y, x.wf, "FAILED", "failed", x.attempt) /\ SameContent(y, x)
         /\ Restart(s) =>
              IF x.status = "RUNNING"
              THEN Control(y, x.wf, "UNCERTAIN", "human_gate", x.attempt) /\ SameContent(y, x)
              ELSE y = x
<1> DEFINE x == led[s]
           y == led'[s]
<1>x. x \in States
  BY ElementTypes DEF GoodStates
<1>1. ASSUME StartIdle(s) PROVE Control(y, ws, "IDLE", "execute", 0) /\ y.fp = x.fp /\ y.prep = x.prep
  <2>1. y = [x EXCEPT !.wf = ws, !.status = "IDLE", !.node = "execute", !.attempt = 0,
                     !.base = task[s]["command"].prep, !.versions = {task[s]["command"].prep}]
    BY <1>1, RecordActs DEF StartIdle
  <2> QED BY <1>x, <2>1 DEF States, Control, SameContent
<1>2. ASSUME StartRunning(s) PROVE Control(y, x.wf, "RUNNING", x.node, 1) /\ SameContent(y, x)
  <2>1. y = [x EXCEPT !.status = "RUNNING", !.attempt = 1]
    BY <1>2, RecordActs DEF StartRunning
  <2> QED BY <1>x, <2>1 DEF States, Control, SameContent
<1>3. ASSUME Pause(s) PROVE Control(y, x.wf, "PAUSED", x.node, x.attempt) /\ SameContent(y, x)
  <2>1. y = [x EXCEPT !.status = "PAUSED"]
    BY <1>3, RecordActs DEF Pause
  <2> QED BY <1>x, <2>1 DEF States, Control, SameContent
<1>4. ASSUME Resume(s) PROVE Control(y, x.wf, "RUNNING", x.node, x.attempt) /\ SameContent(y, x)
  <2>1. y = [x EXCEPT !.status = "RUNNING"]
    BY <1>4, RecordActs DEF Resume
  <2> QED BY <1>x, <2>1 DEF States, Control, SameContent
<1>5. ASSUME Retry(s) PROVE Control(y, x.wf, "RUNNING", "execute", x.attempt + 1) /\ y.prep = 0 /\ y.versions = x.versions
  <2>1. y = [NextAttempt(x) EXCEPT !.status = "RUNNING"]
    BY <1>5, RecordActs DEF Retry
  <2> QED BY <1>x, <2>1 DEF States, NextAttempt, Control, SameContent
<1>6. ASSUME NEW k \in Kinds, RecoverVerify(s, k) PROVE Control(y, x.wf, "RUNNING", "verify", x.attempt) /\ SameContent(y, x)
  <2>1. y = [x EXCEPT !.status = "RUNNING", !.node = "verify"]
    BY <1>6, RecordActs DEF RecoverVerify
  <2> QED BY <1>x, <2>1 DEF States, Control, SameContent
<1>7. ASSUME NEW k \in Kinds, RecoverRetry(s, k) PROVE Control(y, x.wf, "RUNNING", "execute", x.attempt) /\ SameContent(y, x)
  <2>1. y = [x EXCEPT !.status = "RUNNING", !.node = "execute"]
    BY <1>7, RecordActs DEF RecoverRetry
  <2> QED BY <1>x, <2>1 DEF States, Control, SameContent
<1>8. ASSUME NEW k \in Kinds, RecoverAbort(s, k) PROVE Control(y, x.wf, "FAILED", "failed", x.attempt) /\ SameContent(y, x)
  <2>1. y = [x EXCEPT !.status = "FAILED", !.node = "failed"]
    BY <1>8, RecordActs DEF RecoverAbort
  <2> QED BY <1>x, <2>1 DEF States, Control, SameContent
<1>9. ASSUME Restart(s)
      PROVE  IF x.status = "RUNNING"
             THEN Control(y, x.wf, "UNCERTAIN", "human_gate", x.attempt) /\ SameContent(y, x)
             ELSE y = x
  <2>1. CASE x.status = "RUNNING"
    <3>1. y = [x EXCEPT !.status = "UNCERTAIN", !.node = "human_gate", !.reason = "UNCERTAIN_RECOVERY"]
      BY <1>9, <2>1, RecordActs DEF Restart
    <3> QED BY <1>x, <2>1, <3>1 DEF States, Control, SameContent
  <2>2. CASE x.status # "RUNNING"
    BY <1>9, <2>2 DEF Restart
  <2> QED BY <2>1, <2>2
<1> QED BY <1>1, <1>2, <1>3, <1>4, <1>5, <1>6, <1>7, <1>8, <1>9

\* The state a task appends.
LEMMA TaskWrites ==
  ASSUME TypeInv, NEW s \in Sessions, NEW k \in Kinds
  PROVE  LET x == task[s][k].state
             y == led'[s]
         IN
         /\ \A reason, escalate : Rework(s, k, reason, escalate) =>
              \/ Control(y, x.wf, "WAITING_HITL", "human_gate", x.attempt) /\ SameContent(y, x)
              \/ /\ Control(y, x.wf, x.status, "execute", x.attempt + 1)
                 /\ y.prep = 0 /\ y.versions = x.versions
         /\ BeginVerify(s, k) =>
              /\ Control(y, x.wf, x.status, "verify", x.attempt) /\ SameContent(y, x)
              /\ task'[s][k].pc = "commands" /\ task'[s][k].state = y
         /\ ScopeReview(s, k) =>
              Control(y, x.wf, "WAITING_HITL", "human_gate", x.attempt) /\ SameContent(y, x)
         /\ Review(s, k) /\ RequireApproval =>
              /\ Control(y, x.wf, "WAITING_HITL", "human_gate", x.attempt)
              /\ y.fp = Fingerprint /\ y.prep = task[s][k].prep /\ y.versions = x.versions
         /\ Complete(s, k) =>
              /\ Control(y, x.wf, "COMPLETED", "complete", x.attempt)
              /\ y.fp = x.fp /\ y.prep = x.prep /\ y.versions = x.versions \cup {x.prep}
         /\ Fail(s, k) => Control(y, x.wf, "FAILED", "failed", x.attempt) /\ SameContent(y, x)
<1> DEFINE t == task[s][k]
           x == t.state
           y == led'[s]
<1>x. t \in Tasks /\ x \in States
  BY ElementTypes DEF GoodTasks, GoodStates
<1>1. ASSUME NEW reason, NEW escalate, Rework(s, k, reason, escalate)
      PROVE  \/ Control(y, x.wf, "WAITING_HITL", "human_gate", x.attempt) /\ SameContent(y, x)
             \/ /\ Control(y, x.wf, x.status, "execute", x.attempt + 1)
                /\ y.prep = 0 /\ y.versions = x.versions
  <2>1. CASE y = [x EXCEPT !.status = "WAITING_HITL", !.node = "human_gate", !.reason = reason]
    BY <1>x, <2>1 DEF States, Control, SameContent
  <2>2. CASE y = NextAttempt(x)
    BY <1>x, <2>2 DEF States, Control, NextAttempt
  <2> QED BY <1>1, <2>1, <2>2, RecordActs DEF Rework, Waiting
<1>2. ASSUME BeginVerify(s, k)
      PROVE  /\ Control(y, x.wf, x.status, "verify", x.attempt) /\ SameContent(y, x)
             /\ task'[s][k].pc = "commands" /\ task'[s][k].state = y
  <2> DEFINE verifying == [x EXCEPT !.node = "verify"]
  <2>1. y = verifying /\ task'[s][k] = [t EXCEPT !.pc = "commands", !.state = verifying]
    BY <1>2, RecordActs, PiecesAct DEF BeginVerify
  <2>2. Control(y, x.wf, x.status, "verify", x.attempt) /\ SameContent(y, x)
    BY <1>x, <2>1 DEF States, Control, SameContent
  <2> HIDE DEF verifying
  <2> QED BY <1>x, <2>1, <2>2 DEF Tasks
<1>3. ASSUME ScopeReview(s, k)
      PROVE  Control(y, x.wf, "WAITING_HITL", "human_gate", x.attempt) /\ SameContent(y, x)
  <2>1. y = [x EXCEPT !.status = "WAITING_HITL", !.node = "human_gate", !.reason = "SCOPE_REVIEW"]
    BY <1>3, RecordActs DEF ScopeReview, Waiting
  <2> QED BY <1>x, <2>1 DEF States, Control, SameContent
<1>4. ASSUME Review(s, k), RequireApproval
      PROVE  /\ Control(y, x.wf, "WAITING_HITL", "human_gate", x.attempt)
             /\ y.fp = Fingerprint /\ y.prep = task[s][k].prep /\ y.versions = x.versions
  <2> DEFINE reviewed == [x EXCEPT !.fp = Fingerprint, !.prep = task[s][k].prep]
  <2>1. y = Waiting(reviewed, "PROMOTION_REVIEW")
    BY <1>4, RecordActs DEF Review
  <2>2. /\ Control(reviewed, x.wf, x.status, x.node, x.attempt) /\ reviewed.fp = Fingerprint
        /\ reviewed.prep = task[s][k].prep /\ reviewed.versions = x.versions
        /\ DOMAIN reviewed = DOMAIN x
    BY <1>x DEF States, Control
  <2> QED BY <1>x, <2>1, <2>2 DEF States, Control, Waiting
<1>5. ASSUME Complete(s, k)
      PROVE  /\ Control(y, x.wf, "COMPLETED", "complete", x.attempt)
             /\ y.fp = x.fp /\ y.prep = x.prep /\ y.versions = x.versions \cup {x.prep}
  <2>1. y = KeepReason(s, [x EXCEPT !.status = "COMPLETED", !.node = "complete",
                                    !.versions = @ \cup {x.prep}])
    BY <1>5, RecordActs DEF Complete
  <2> QED BY <1>x, <2>1 DEF States, Control, KeepReason
<1>6. ASSUME Fail(s, k)
      PROVE  Control(y, x.wf, "FAILED", "failed", x.attempt) /\ SameContent(y, x)
  <2>1. y = KeepReason(s, [x EXCEPT !.status = "FAILED", !.node = "failed"])
    BY <1>6, RecordActs DEF Fail
  <2> QED BY <1>x, <2>1 DEF States, Control, KeepReason, SameContent
<1> QED BY <1>1, <1>2, <1>3, <1>4, <1>5, <1>6

\* The locals a command or a turn begins with, and the ones a verification goes on with.
LEMMA CommandTakes ==
  ASSUME TypeInv, NEW s \in Sessions
  PROVE  /\ \A result : TurnStops(s, result) =>
              \/ UNCHANGED task
              \/ /\ task'[s]["turn"].pc \in {"begin", "fail"} /\ task'[s]["turn"].state = led[s]
                 /\ led[s].status = "RUNNING" /\ led[s].node = "execute" /\ RestIdle(s, "turn")
         /\ StartHead(s) =>
              task'[s]["command"].pc = "clean" /\ task'[s]["command"].prep = git.head /\ RestIdle(s, "command")
         /\ Approve(s) =>
              task'[s]["command"].pc = "approve" /\ task'[s]["command"].state = led[s] /\ RestIdle(s, "command")
         /\ Reject(s) =>
              task'[s]["command"].pc = "restore" /\ task'[s]["command"].state = led[s] /\ RestIdle(s, "command")
         /\ \A k \in Kinds :
              /\ RecoverVerify(s, k) =>
                   task'[s][k].pc = "begin" /\ task'[s][k].state = led'[s] /\ RestIdle(s, k)
              /\ RecoverRestore(s, k) =>
                   task'[s][k].pc = "restore" /\ task'[s][k].state = led[s] /\ RestIdle(s, k)
              /\ RecoverAbort(s, k) =>
                   task'[s][k].pc = "release" /\ task'[s][k].state = led[s] /\ RestIdle(s, k)
<1>n. {"turn", "command"} \subseteq Kinds
  BY Names
<1>0. ASSUME NEW result, TurnStops(s, result)
      PROVE  \/ UNCHANGED task
             \/ /\ task'[s]["turn"].pc \in {"begin", "fail"} /\ task'[s]["turn"].state = led[s]
                /\ led[s].status = "RUNNING" /\ led[s].node = "execute" /\ RestIdle(s, "turn")
  <2> DEFINE pc == IF result = "pass" THEN "begin" ELSE "fail"
  <2>1. CASE led[s].status = "RUNNING" /\ led[s].node = "execute" /\ result \in {"pass", "fail"}
    <3>1. task'[s]["turn"] = [NoTask EXCEPT !.pc = pc, !.state = led[s]] /\ RestIdle(s, "turn")
      BY <1>n, <1>0, <2>1, PiecesAct, PiecesLeaveRest DEF TurnStops
    <3> QED BY <2>1, <3>1 DEF NoTask
  <2> QED BY <1>0, <2>1 DEF TurnStops
<1>1. ASSUME StartHead(s)
      PROVE  task'[s]["command"].pc = "clean" /\ task'[s]["command"].prep = git.head /\ RestIdle(s, "command")
  <2>1. task'[s]["command"] = [NoTask EXCEPT !.pc = "clean", !.prep = git.head] /\ RestIdle(s, "command")
    BY <1>n, <1>1, PiecesAct, PiecesLeaveRest DEF StartHead
  <2> QED BY <2>1 DEF NoTask
<1>2. ASSUME Approve(s)
      PROVE  task'[s]["command"].pc = "approve" /\ task'[s]["command"].state = led[s] /\ RestIdle(s, "command")
  <2>1. task'[s]["command"] = [NoTask EXCEPT !.pc = "approve", !.state = led[s]] /\ RestIdle(s, "command")
    BY <1>n, <1>2, PiecesAct, PiecesLeaveRest DEF Approve
  <2> QED BY <2>1 DEF NoTask
<1>3. ASSUME Reject(s)
      PROVE  task'[s]["command"].pc = "restore" /\ task'[s]["command"].state = led[s] /\ RestIdle(s, "command")
  <2>1. task'[s]["command"] = [NoTask EXCEPT !.pc = "restore", !.state = led[s]] /\ RestIdle(s, "command")
    BY <1>n, <1>3, PiecesAct, PiecesLeaveRest DEF Reject
  <2> QED BY <2>1 DEF NoTask
<1>4. ASSUME NEW k \in Kinds, RecoverVerify(s, k)
      PROVE  task'[s][k].pc = "begin" /\ task'[s][k].state = led'[s] /\ RestIdle(s, k)
  <2> DEFINE running == [led[s] EXCEPT !.status = "RUNNING", !.node = "verify"]
  <2>1. task'[s][k] = [NoTask EXCEPT !.pc = "begin", !.state = running] /\ RestIdle(s, k)
    BY <1>4, PiecesAct, PiecesLeaveRest DEF RecoverVerify
  <2>2. led'[s] = running
    BY <1>4, RecordActs DEF RecoverVerify
  <2> HIDE DEF running
  <2> QED BY <2>1, <2>2 DEF NoTask
<1>5. ASSUME NEW k \in Kinds, RecoverRestore(s, k)
      PROVE  task'[s][k].pc = "restore" /\ task'[s][k].state = led[s] /\ RestIdle(s, k)
  <2>1. task'[s][k] = [NoTask EXCEPT !.pc = "restore", !.state = led[s]] /\ RestIdle(s, k)
    BY <1>5, PiecesAct, PiecesLeaveRest DEF RecoverRestore
  <2> QED BY <2>1 DEF NoTask
<1>6. ASSUME NEW k \in Kinds, RecoverAbort(s, k)
      PROVE  task'[s][k].pc = "release" /\ task'[s][k].state = led[s] /\ RestIdle(s, k)
  <2>1. task'[s][k] = [NoTask EXCEPT !.pc = "release", !.state = led[s]] /\ RestIdle(s, k)
    BY <1>6, PiecesAct, PiecesLeaveRest DEF RecoverAbort
  <2> QED BY <2>1 DEF NoTask
<1> QED BY <1>0, <1>1, <1>2, <1>3, <1>4, <1>5, <1>6

LEMMA TaskTakes ==
  ASSUME TypeInv, NEW s \in Sessions, NEW k \in Kinds
  PROVE  LET t == task[s][k]
             u == task'[s][k]
         IN
         /\ \A passed : RunCommands(s, k, passed) =>
              u.pc = "tested" /\ u.state = t.state /\ u.seen = git.work
         /\ ReadScope(s, k) => u.pc = "settle" /\ u.state = t.state /\ u.seen = t.seen
         /\ Prepare(s, k) /\ HasChanges =>
              /\ u.pc = "review" /\ u.state = t.state /\ u.seen = t.seen
              /\ u.prep = Len(git.commits) + 1
         /\ Review(s, k) /\ ~RequireApproval =>
              /\ u.pc = "approve" /\ u.state.fp = Fingerprint /\ u.state.prep = t.prep
              /\ Control(u.state, t.state.wf, t.state.status, t.state.node, t.state.attempt)
              /\ u.state.base = t.state.base /\ u.state.versions = t.state.versions
<1> DEFINE t == task[s][k]
           u == task'[s][k]
<1>x. t \in Tasks /\ t.state \in States
  BY ElementTypes DEF GoodTasks, GoodStates
<1>1. ASSUME NEW passed, RunCommands(s, k, passed)
      PROVE  u.pc = "tested" /\ u.state = t.state /\ u.seen = git.work
  <2>1. u = [t EXCEPT !.pc = "tested", !.ok = passed, !.seen = git.work]
    BY <1>1, PiecesAct DEF RunCommands
  <2> QED BY <1>x, <2>1 DEF Tasks
<1>2. ASSUME ReadScope(s, k) PROVE u.pc = "settle" /\ u.state = t.state /\ u.seen = t.seen
  <2>1. u = [t EXCEPT !.pc = "settle", !.ok = InScope]
    BY <1>2, PiecesAct DEF ReadScope
  <2> QED BY <1>x, <2>1 DEF Tasks
<1>3. ASSUME Prepare(s, k), HasChanges
      PROVE  /\ u.pc = "review" /\ u.state = t.state /\ u.seen = t.seen
             /\ u.prep = Len(git.commits) + 1
  <2>1. u = [t EXCEPT !.pc = "review", !.prep = Len(git.commits) + 1]
    BY <1>3, PiecesAct DEF Prepare
  <2> QED BY <1>x, <2>1 DEF Tasks
<1>4. ASSUME Review(s, k), ~RequireApproval
      PROVE  /\ u.pc = "approve" /\ u.state.fp = Fingerprint /\ u.state.prep = t.prep
             /\ Control(u.state, t.state.wf, t.state.status, t.state.node, t.state.attempt)
             /\ u.state.base = t.state.base /\ u.state.versions = t.state.versions
  <2> DEFINE reviewed == [t.state EXCEPT !.fp = Fingerprint, !.prep = t.prep]
  <2>1. u = [t EXCEPT !.pc = "approve", !.state = reviewed]
    BY <1>4, PiecesAct DEF Review
  <2>2. /\ Control(reviewed, t.state.wf, t.state.status, t.state.node, t.state.attempt)
        /\ reviewed.fp = Fingerprint /\ reviewed.prep = t.prep
        /\ reviewed.base = t.state.base /\ reviewed.versions = t.state.versions
    BY <1>x DEF States, Control
  <2> HIDE DEF reviewed
  <2> QED BY <1>x, <2>1, <2>2 DEF Tasks
<1> QED BY <1>1, <1>2, <1>3, <1>4

LEMMA TaskLeavesRest ==
  ASSUME TypeInv, NEW s \in Sessions, NEW k \in Kinds, TaskStep(s, k) PROVE RestIdle(s, k)
<1>1. CASE Discard(s, k)
  BY <1>1, PiecesLeaveRest DEF Discard
<1>2. CASE BeginVerify(s, k)
  BY <1>2, PiecesLeaveRest DEF BeginVerify
<1>3. CASE ScopeReview(s, k)
  BY <1>3, PiecesLeaveRest DEF ScopeReview
<1>4. CASE SettleLock(s, k)
  BY <1>4, PiecesLeaveRest DEF SettleLock
<1>5. CASE Prepare(s, k)
  BY <1>5, PiecesLeaveRest DEF Prepare
<1>6. CASE Review(s, k)
  BY <1>6, PiecesLeaveRest DEF Review
<1>7. CASE ReadScope(s, k)
  BY <1>7, PiecesLeaveRest DEF ReadScope
<1>8. CASE Compare(s, k)
  BY <1>8, PiecesLeaveRest DEF Compare
<1>9. CASE PromoteHead(s, k)
  BY <1>9, PiecesLeaveRest DEF PromoteHead
<1>10. CASE PromoteTag(s, k)
  BY <1>10, PiecesLeaveRest DEF PromoteTag
<1>11. CASE Complete(s, k)
  BY <1>11, PiecesLeaveRest DEF Complete
<1>12. CASE Release(s, k)
  BY <1>12, PiecesLeaveRest DEF Release
<1>13. CASE Restore(s, k)
  BY <1>13, PiecesLeaveRest DEF Restore
<1>14. CASE Fail(s, k)
  BY <1>14, PiecesLeaveRest DEF Fail
<1>15. CASE ReportedFailure(s, k)
  BY <1>15, PiecesLeaveRest DEF ReportedFailure, Rework
<1>16. CASE ApplyCommands(s, k)
  BY <1>16, PiecesLeaveRest DEF ApplyCommands, Rework
<1>17. CASE \E passed \in BOOLEAN : RunCommands(s, k, passed) \/ ApplyGate(s, k, passed)
  BY <1>17, PiecesLeaveRest DEF RunCommands, ApplyGate, Rework
<1> QED BY <1>1, <1>2, <1>3, <1>4, <1>5, <1>6, <1>7, <1>8, <1>9, <1>10, <1>11, <1>12, <1>13, <1>14, <1>15, <1>16, <1>17 DEF TaskStep, Verification, Promotion

-----------------------------------------------------------------------------
\* A workflow that is being started does not lose its IDLE record.
LEMMA BegunStep == TypeInv /\ Begun /\ [Next]_vars => Begun'
<1> SUFFICES ASSUME TypeInv, Begun, [Next]_vars PROVE Begun'
  OBVIOUS
<1> DEFINE Keeps(s) == led[s].status # "NONE" => led'[s].status # "NONE"
           Comes(s) == /\ task'[s]["command"].pc = "save_running"
                       /\ task[s]["command"].pc # "save_running"
<1>1. ASSUME NEW s \in Sessions, SessionStep(s), Keeps(s), Comes(s) => led'[s].status # "NONE"
      PROVE  Begun'
  <2> USE DEF Begun, At
  <2>1. ASSUME NEW u \in Sessions \ {s} PROVE At(u, "command", "save_running")' => led'[u].status # "NONE"
    BY <1>1, StepLeavesOthers DEF Others
  <2>2. At(s, "command", "save_running")' => led'[s].status # "NONE"
    BY <1>1
  <2> QED BY <2>1, <2>2
<1> HIDE DEF Keeps, Comes
<1>x. ASSUME NEW s \in Sessions PROVE led[s] \in States /\ \A k \in Kinds : task[s][k].state \in States
  BY ElementTypes DEF GoodStates, GoodTasks, Tasks
<1>3. ASSUME NEW s \in Sessions, NEW k \in Kinds,
             \/ (\E pc \in Pcs \ {"save_running"} : GoTo(s, k, pc)) \/ End(s, k)
      PROVE  ~Comes(s)
  <2>1. task'[s][k].pc # "save_running"
    BY <1>3, PiecesAct DEF NoTask, Moves
  <2> QED BY <1>3, <2>1, PiecesLeaveRest, Names DEF Comes, RestIdle
<1>4. ASSUME NEW s \in Sessions, UNCHANGED led PROVE Keeps(s)
  BY <1>4 DEF Keeps
<1>5. ASSUME NEW s \in Sessions, UNCHANGED task PROVE ~Comes(s)
  BY <1>5 DEF Comes
<1>6. ASSUME NEW s \in Sessions, Human(s) PROVE Keeps(s) /\ ~Comes(s)
  <2>1. CASE StartHead(s)
    BY <1>4, <2>1, CommandTakes DEF StartHead, Comes
  <2>2. CASE Approve(s) \/ Reject(s)
    BY <1>4, <2>2, CommandTakes DEF Approve, Reject, Comes
  <2>3. CASE Pause(s) \/ Resume(s) \/ Retry(s)
    <3>2. led'[s].status # "NONE"
      BY <2>3, CommandWrites DEF Control
    <3> QED BY <1>5, <2>3, <3>2 DEF Pause, Resume, Retry, Keeps
  <2>4. ASSUME NEW k \in Kinds, RecoverVerify(s, k) \/ RecoverRetry(s, k) PROVE Keeps(s) /\ ~Comes(s)
    <3>1. led'[s].status # "NONE"
      BY <2>4, CommandWrites DEF Control
    <3>2. ~Comes(s)
      BY <1>5, <2>4, CommandTakes, Names DEF RecoverRetry, Comes, RestIdle
    <3> QED BY <3>1, <3>2 DEF Keeps
  <2>5. ASSUME NEW k \in Kinds, RecoverRestore(s, k) \/ RecoverAbort(s, k) PROVE Keeps(s) /\ ~Comes(s)
    <3>1. led' = led \/ led'[s].status # "NONE"
      BY <2>5, CommandWrites DEF RecoverRestore, Control
    <3>2. ~Comes(s)
      BY <2>5, CommandTakes, Names DEF Comes, RestIdle
    <3> QED BY <3>1, <3>2 DEF Keeps
  <2>6. CASE Rollback(s)
    BY <1>4, <1>5, <2>6 DEF Rollback
  <2> QED BY <1>6, <2>1, <2>2, <2>3, <2>4, <2>5, <2>6, Names DEF Human, Recover
<1>7. ASSUME NEW s \in Sessions, Starting(s) PROVE Keeps(s) /\ (Comes(s) => led'[s].status # "NONE")
  <2>1. CASE StartClean(s) \/ StartAcquire(s)
    <3>1. (\E pc \in Pcs \ {"save_running"} : GoTo(s, "command", pc)) \/ End(s, "command")
      BY <2>1, PcNames DEF StartClean, StartAcquire, StartPcs
    <3> QED BY <1>3, <1>4, <2>1, <3>1, Names DEF StartClean, StartAcquire
  <2>2. CASE StartIdle(s) \/ StartRunning(s)
    <3>1. led'[s].status # "NONE"
      BY <2>2, CommandWrites DEF Control
    <3> QED BY <3>1 DEF Keeps
  <2> QED BY <1>7, <2>1, <2>2 DEF Starting
<1>8. ASSUME NEW s \in Sessions, Restart(s) PROVE Keeps(s) /\ ~Comes(s)
  <2>1. led'[s] = led[s] \/ led'[s].status # "NONE"
    BY <1>8, CommandWrites DEF Control
  <2>2. task'[s]["command"] = NoTask
    BY <1>8, Names DEF Restart, TypeInv
  <2> QED BY <2>1, <2>2 DEF Keeps, Comes, NoTask
<1>9. ASSUME NEW s \in Sessions, NEW result, TurnStops(s, result) PROVE Keeps(s) /\ ~Comes(s)
  <2>1. ~Comes(s)
    BY <1>5, <1>9, CommandTakes, Names DEF Comes, RestIdle
  <2> QED BY <1>4, <1>9, <2>1 DEF TurnStops
<1>k. ASSUME NEW s \in Sessions, NEW k \in Kinds, TaskStep(s, k), task'[s][k].pc # "save_running"
      PROVE  ~Comes(s)
  BY <1>k, TaskLeavesRest, Names DEF Comes, RestIdle
<1>10. ASSUME NEW s \in Sessions, NEW k \in Kinds, Verification(s, k) PROVE Keeps(s) /\ ~Comes(s)
  <2>t. task[s][k].pc \notin StartPcs \cup {"idle"} => task[s][k].state.status # "NONE"
    BY ElementTypes DEF GoodTasks
  <2>k. task'[s][k].pc # "save_running" => ~Comes(s)
    BY <1>10, <1>k DEF TaskStep
  <2>n. NoTask.pc # "save_running"
    BY DEF NoTask
  <2>0. ASSUME NEW reason, NEW escalate, Rework(s, k, reason, escalate),
               task[s][k].state.status # "NONE"
        PROVE  Keeps(s) /\ ~Comes(s)
    <3>1. led'[s].status # "NONE"
      BY <2>0, TaskWrites DEF Control
    <3> QED BY <2>0, <2>k, <2>n, <3>1, PiecesAct DEF Rework, Keeps
  <2>1. CASE Discard(s, k)
    BY <1>4, <2>1, <2>k, <2>n, PiecesAct DEF Discard
  <2>2. CASE ReportedFailure(s, k)
    BY <2>0, <2>2, <2>t DEF ReportedFailure, Applies, At, StartPcs
  <2>3. CASE BeginVerify(s, k)
    <3>1. led'[s].status # "NONE" /\ task'[s][k].pc = "commands"
      BY <2>3, <2>t, TaskWrites DEF BeginVerify, Applies, At, StartPcs, Control
    <3> QED BY <2>k, <3>1 DEF Keeps
  <2>4. ASSUME NEW passed, RunCommands(s, k, passed) PROVE Keeps(s) /\ ~Comes(s)
    BY <1>4, <2>4, <2>k, TaskTakes DEF RunCommands
  <2>5. CASE ApplyCommands(s, k)
    <3>1. CASE GoTo(s, k, "gate") /\ UNCHANGED led
      BY <1>4, <2>k, <3>1, PiecesAct DEF Moves
    <3> QED BY <2>0, <2>5, <2>t, <3>1 DEF ApplyCommands, Applies, At, StartPcs
  <2>6. ASSUME NEW passed, ApplyGate(s, k, passed) PROVE Keeps(s) /\ ~Comes(s)
    <3>1. CASE GoTo(s, k, "archive") /\ UNCHANGED led
      BY <1>4, <2>k, <3>1, PiecesAct DEF Moves
    <3> QED BY <2>0, <2>6, <2>t, <3>1 DEF ApplyGate, Applies, At, StartPcs
  <2>7. CASE ReadScope(s, k)
    BY <1>4, <2>7, <2>k, TaskTakes DEF ReadScope
  <2>8. CASE ScopeReview(s, k)
    BY <2>8, <2>k, <2>n, TaskWrites, PiecesAct DEF ScopeReview, Control, Keeps
  <2>9. CASE SettleLock(s, k)
    BY <1>4, <2>9, <2>k, PiecesAct DEF SettleLock, Moves
  <2>10. CASE Prepare(s, k)
    <3>1. CASE HasChanges
      BY <1>4, <2>10, <2>k, <3>1, TaskTakes DEF Prepare
    <3>2. CASE ~HasChanges
      BY <1>4, <2>10, <2>k, <2>n, <3>2, PiecesAct DEF Prepare
    <3> QED BY <3>1, <3>2
  <2>11. CASE Review(s, k) /\ RequireApproval
    BY <2>11, <2>k, <2>n, TaskWrites, PiecesAct DEF Review, Control, Keeps
  <2>12. CASE Review(s, k) /\ ~RequireApproval
    BY <1>4, <2>12, <2>k, TaskTakes DEF Review
  <2> QED BY <1>10, <2>1, <2>2, <2>3, <2>4, <2>5, <2>6, <2>7, <2>8, <2>9, <2>10, <2>11, <2>12
          DEF Verification
<1>11. ASSUME NEW s \in Sessions, NEW k \in Kinds, Promotion(s, k) \/ Restore(s, k) \/ Fail(s, k)
       PROVE  Keeps(s) /\ ~Comes(s)
  <2>1. led' = led \/ led'[s].status # "NONE"
    BY <1>11, TaskWrites
       DEF Promotion, Compare, PromoteHead, PromoteTag, Release, Restore, Control
  <2>2. task'[s][k].pc # "save_running"
    <3>1. \/ End(s, k)
          \/ \E pc \in {"head", "tag", "complete", "release", "failed"} : GoTo(s, k, pc)
      BY <1>11 DEF Promotion, Compare, PromoteHead, PromoteTag, Complete, Release, Restore, Fail
    <3> QED BY <3>1, PiecesAct DEF NoTask, Moves
  <2> QED BY <1>4, <1>11, <1>k, <2>1, <2>2 DEF Keeps, TaskStep
<1>12. CASE Edit \/ UNCHANGED vars
  BY <1>12 DEF Edit, vars, Begun, At
<1> QED
  <2>1. ASSUME NEW s \in Sessions, SessionStep(s) PROVE Begun'
    BY <1>1, <1>6, <1>7, <1>8, <1>9, <1>10, <1>11, <2>1 DEF SessionStep, TaskStep
  <2> QED BY <1>12, <2>1 DEF Next, SessionStep

\* What a session notes of the edits: the acceptance commands make a new start.
LEMMA HistSteps ==
  ASSUME HistInv, NEW s \in Sessions, SessionStep(s)
  PROVE  /\ HistInv' /\ hist'.loose = hist.loose
         /\ \/ hist' = hist
            \/ \E k \in Kinds, passed \in BOOLEAN :
                 RunCommands(s, k, passed) /\ hist'.late = hist.late \ {<<s, k>>}
<1> USE DEF UnchangedRepo
<1>1. CASE Human(s)
  BY <1>1 DEF Human, StartHead, Approve, Pause, Resume, Retry, Reject, Recover, Rollback,
              RecoverVerify, RecoverRetry, RecoverRestore, RecoverAbort, HistInv
<1>2. CASE Starting(s) \/ Restart(s)
  BY <1>2 DEF Starting, StartClean, StartAcquire, StartIdle, StartRunning, Restart, HistInv
<1>3. ASSUME NEW result, TurnStops(s, result) PROVE HistInv' /\ hist' = hist
  BY <1>3 DEF TurnStops, HistInv
<1>4. ASSUME NEW k \in Kinds, NEW passed \in BOOLEAN, RunCommands(s, k, passed)
      PROVE  HistInv' /\ hist'.loose = hist.loose /\ hist'.late = hist.late \ {<<s, k>>}
  BY <1>4 DEF RunCommands, HistInv
<1>5. ASSUME NEW k \in Kinds, Verification(s, k),
             ~ \E passed \in BOOLEAN : RunCommands(s, k, passed)
      PROVE  HistInv' /\ hist' = hist
  BY <1>5 DEF Verification, Discard, ReportedFailure, BeginVerify, ApplyCommands, ApplyGate,
              ReadScope, ScopeReview, SettleLock, Prepare, Review, HistInv
<1>6. ASSUME NEW k \in Kinds, Promotion(s, k) \/ Restore(s, k) \/ Fail(s, k)
      PROVE  HistInv' /\ hist' = hist
  BY <1>6 DEF Promotion, Compare, PromoteHead, PromoteTag, Complete, Release, Restore, Fail, HistInv
<1> QED BY <1>1, <1>2, <1>3, <1>4, <1>5, <1>6 DEF SessionStep, TaskStep

LEMMA HistStep == TypeInv /\ HistInv /\ [Next]_vars => HistInv'
<1> SUFFICES ASSUME TypeInv, HistInv, [Next]_vars PROVE HistInv'
  OBVIOUS
<1>1. CASE Edit
  <2>1. Late \subseteq Sessions \X Kinds
    BY DEF Late
  <2>2. Loose \subseteq Nat
    BY ElementTypes DEF Loose, GoodTasks, Tasks
  <2> QED BY <1>1, <2>1, <2>2 DEF Edit, HistInv
<1>2. CASE UNCHANGED vars
  BY <1>2 DEF vars, HistInv
<1> QED BY <1>1, <1>2, HistSteps DEF Next, SessionStep
-----------------------------------------------------------------------------
\* The ledgers, the tasks, the repository and the lock hold what the plugin writes
\* in them, for any number of sessions, restarts and overlapping commands: a baseline,
\* a version or a candidate is always a commit that exists.
THEOREM TypeCorrect == Spec => []TypeOK
<1>1. Init => TypeInv /\ Begun /\ HistInv
  BY TypeInit DEF Init, Begun, HistInv, At, NoTask, Kinds
<1>2. TypeInv /\ Begun /\ HistInv /\ [Next]_vars => (TypeInv /\ Begun /\ HistInv)'
  BY TypeStep, BegunStep, HistStep
<1> QED BY <1>1, <1>2, TypeInvTypes, PTL DEF Spec
-----------------------------------------------------------------------------
(* What a session's one task knows of its ledger.  Nobody answers the      *)
(* recovery question: recover() runs then without the operation lock.      *)

HeldPcs == StartPcs \cup PromotePcs \cup {"prepare", "review", "restore", "failed", "release"}
UnlockedPcs == ApplyPcs \cup {"commands"}

Places(k) ==
  {"idle"} \cup
  CASE k = "turn" -> {"fail", "prepare", "review", "release"} \cup VerifyPcs \cup PromotePcs
    [] k = "verify" -> {"prepare", "review", "release"} \cup VerifyPcs \cup PromotePcs
    [] k = "command" -> {"restore", "failed", "release"} \cup StartPcs \cup PromotePcs
    [] OTHER -> {}

\* The same work, whatever its status and the reason to wait are.
SameWork(y, x) == Control(y, x.wf, y.status, x.node, x.attempt) /\ SameContent(y, x)

\* What a task t of kind k and the ledger x have to do with each other: what a task
\* remembers is the ledger, but for a pause and the candidate it is about to record.
Knows(k, t, x) ==
  /\ t.pc \in UnlockedPcs =>
       /\ t.state.status = "RUNNING" /\ x.status \in {"RUNNING", "PAUSED"}
       /\ SameWork(t.state, x)
       /\ x.node = IF k = "turn" /\ t.pc \in {"fail", "begin"} THEN "execute" ELSE "verify"
  /\ t.pc \in {"prepare", "review"} =>
       /\ t.state.status = "RUNNING" /\ x.status = "RUNNING" /\ x.node = "verify"
       /\ SameWork(t.state, x)
  /\ t.pc \in PromotePcs =>
       /\ IF k = "command" THEN x.status = "WAITING_HITL"
                           ELSE x.status = "RUNNING" /\ x.node = "verify"
       /\ Control(t.state, x.wf, x.status, x.node, x.attempt)
       /\ t.state.versions = x.versions
  /\ t.pc \in {"restore", "failed"} =>
       SameWork(t.state, x) /\ x.status \in {"WAITING_HITL", "UNCERTAIN"}
  /\ t.pc = "release" => t.state.wf = x.wf /\ x.status \in {"COMPLETED", "FAILED"}
  /\ t.pc \in {"clean", "acquire", "save_idle"} => x.status \notin Active
  /\ t.pc = "save_running" => x.status = "IDLE" /\ x.attempt = 0

Alone(s, k) ==
  /\ \A j \in Kinds \ {k} : At(s, j, "idle")
  /\ task[s][k].pc \in Places(k)
  /\ op[s] = IF task[s][k].pc \in HeldPcs THEN k ELSE "free"
  /\ Knows(k, task[s][k], led[s])

SessionInv == \A s \in Sessions : ~asked[s] /\ \E k \in Kinds : Alone(s, k)

LEMMA IdleIsAlone ==
  ASSUME NEW s \in Sessions, NEW k \in Kinds, op[s] = "free", \A j \in Kinds : At(s, j, "idle")
  PROVE  Alone(s, k)
<1>1. "idle" \in Places(k) /\ "idle" \notin HeldPcs
  BY DEF Places, HeldPcs, StartPcs, PromotePcs
<1>2. Knows(k, task[s][k], led[s])
  BY DEF Knows, At, UnlockedPcs, ApplyPcs, PromotePcs
<1> QED BY <1>1, <1>2 DEF Alone, At

\* Where the ledger says that nobody is at work, nobody is.
LEMMA Quiescent ==
  ASSUME NEW s \in Sessions, NEW k \in Kinds, Alone(s, k),
         \/ op[s] = "free" /\ led[s].status \notin {"RUNNING", "PAUSED"}
         \/ At(s, "turn", "idle") /\ led[s].status = "RUNNING" /\ led[s].node = "execute"
  PROVE  op[s] = "free" /\ \A j \in Kinds : At(s, j, "idle")
<1> SUFFICES task[s][k].pc = "idle"
  BY DEF Alone, At, HeldPcs, StartPcs, PromotePcs
<1>1. task[s][k].pc \in Places(k) /\ Knows(k, task[s][k], led[s])
  BY DEF Alone
<1>2. Places(k) \subseteq {"idle"} \cup UnlockedPcs \cup HeldPcs
  BY DEF Places, UnlockedPcs, ApplyPcs, HeldPcs, VerifyPcs
<1>3. CASE op[s] = "free" /\ led[s].status \notin {"RUNNING", "PAUSED"}
  <2>1. task[s][k].pc \notin HeldPcs
    BY <1>3, Names DEF Alone, Kinds
  <2> QED BY <1>1, <1>2, <1>3, <2>1 DEF Knows
<1>4. CASE At(s, "turn", "idle") /\ led[s].status = "RUNNING" /\ led[s].node = "execute"
  BY <1>1, <1>2, <1>4 DEF At, Knows, HeldPcs, StartPcs, Active
<1> QED BY <1>3, <1>4

LEMMA PlacesLocked ==
  /\ HeldPcs \cap UnlockedPcs = {} /\ "idle" \notin HeldPcs \cup UnlockedPcs
  /\ ApplyPcs \subseteq UnlockedPcs
BY DEF HeldPcs, UnlockedPcs, ApplyPcs, StartPcs, PromotePcs

\* How a step of the one task leaves it the one task.
LEMMA AloneMoves ==
  ASSUME TypeInv, NEW s \in Sessions, NEW k \in Kinds, Alone(s, k), RestIdle(s, k),
         task'[s][k].pc \in Places(k),
         op'[s] = IF task'[s][k].pc \in HeldPcs THEN k ELSE "free",
         Knows(k, task'[s][k], led'[s])
  PROVE  Alone(s, k)'
BY DEF Alone, RestIdle, At

LEMMA AloneEnds ==
  ASSUME TypeInv, NEW s \in Sessions, NEW k \in Kinds, Alone(s, k), End(s, k), 
         \/ Unlock(s, k)
         \/ UNCHANGED op /\ task[s][k].pc \in UnlockedPcs
  PROVE  Alone(s, k)'
<1>1. RestIdle(s, k) /\ task'[s][k].pc = "idle"
  BY PiecesAct, PiecesLeaveRest DEF NoTask
<1>2. op'[s] = "free"
  BY LockActs, PlacesLocked DEF Alone
<1> QED BY <1>1, <1>2, IdleIsAlone DEF Alone, RestIdle, At, Knows, Places, HeldPcs, UnlockedPcs, ApplyPcs, StartPcs, PromotePcs

\* Only a task that is at work takes a step.
LEMMA TaskIsAlone ==
  ASSUME NEW s \in Sessions, NEW k \in Kinds, Alone(s, k), NEW j \in Kinds, TaskStep(s, j)
  PROVE  j = k
<1>1. ~At(s, j, "idle")
  <2>1. CASE Verification(s, j)
    BY <2>1 DEF Verification, Discard, ApplyPcs, ReportedFailure, BeginVerify, Applies, RunCommands,
                ApplyCommands, ApplyGate, ReadScope, ScopeReview, SettleLock, Prepare, Review, At
  <2>2. CASE Promotion(s, j) \/ Restore(s, j) \/ Fail(s, j)
    BY <2>2 DEF Promotion, Compare, PromoteHead, PromoteTag, Complete, Release, Restore, Fail, At
  <2> QED BY <2>1, <2>2 DEF TaskStep
<1> QED BY <1>1 DEF Alone

\* The places of a verification and of a promotion, as Places has them.
LEMMA PlaceNames ==
  /\ \A k \in {"turn", "verify"} :
       {"begin", "commands", "tested", "gate", "archive", "settle", "prepare", "review",
        "approve", "head", "tag", "complete", "release"} \subseteq Places(k)
  /\ {"fail"} \subseteq Places("turn")
  /\ {"clean", "acquire", "save_idle", "save_running", "approve", "head", "tag", "complete",
      "restore", "failed", "release"} \subseteq Places("command")
  /\ \A k \in Kinds : /\ Places(k) \cap (UnlockedPcs \cup {"prepare", "review"}) # {} => k \in {"turn", "verify"}
                      /\ Places(k) \cap PromotePcs # {} => k \in {"turn", "verify", "command"}
                      /\ Places(k) \cap (StartPcs \cup {"restore", "failed"}) # {} => k = "command"
  /\ Places("prompt") = {"idle"}
<1>1. /\ \A k \in {"turn", "verify"} :
           {"begin", "commands", "tested", "gate", "archive", "settle", "prepare", "review",
            "approve", "head", "tag", "complete", "release"} \subseteq Places(k)
      /\ {"fail"} \subseteq Places("turn")
  BY DEF Places, VerifyPcs, PromotePcs
<1>2. {"clean", "acquire", "save_idle", "save_running", "approve", "head", "tag", "complete",
      "restore", "failed", "release"} \subseteq Places("command")
  BY DEF Places, StartPcs, PromotePcs
<1>3. \A k \in Kinds : Places(k) \cap (UnlockedPcs \cup {"prepare", "review"}) # {} => k \in {"turn", "verify"}
  BY DEF Places, Kinds, StartPcs, PromotePcs, UnlockedPcs, ApplyPcs
<1>4. \A k \in Kinds : /\ Places(k) \cap PromotePcs # {} => k \in {"turn", "verify", "command"}
                       /\ Places(k) \cap (StartPcs \cup {"restore", "failed"}) # {} => k = "command"
  BY DEF Places, Kinds, StartPcs, PromotePcs, VerifyPcs
<1> QED BY <1>1, <1>2, <1>3, <1>4 DEF Places

LEMMA PlaceKinds ==
  ASSUME NEW s \in Sessions, NEW k \in Kinds, Alone(s, k)
  PROVE  /\ task[s][k].pc \in UnlockedPcs \cup {"prepare", "review"} => k \in {"turn", "verify"}
         /\ task[s][k].pc \in PromotePcs => k \in {"turn", "verify", "command"}
         /\ task[s][k].pc \in StartPcs \cup {"restore", "failed"} => k = "command"
<1>1. task[s][k].pc \in Places(k)
  BY DEF Alone
<1> HIDE DEF Places
<1> QED BY <1>1, PlaceNames

LEMMA AloneVerification ==
  ASSUME TypeInv, NEW s \in Sessions, NEW k \in Kinds, Alone(s, k), Verification(s, k)
  PROVE  Alone(s, k)'
<1> DEFINE t == task[s][k]
           u == task'[s][k]
           x == led[s]
           y == led'[s]
<1>r. RestIdle(s, k)
  BY TaskLeavesRest DEF TaskStep
<1>t. /\ t.pc \in Places(k) /\ Knows(k, t, x)
      /\ op[s] = IF t.pc \in HeldPcs THEN k ELSE "free"
  BY DEF Alone
<1>k. k # "free"
  BY DEF Kinds
<1>p. /\ ApplyPcs \cup {"commands"} = {"fail", "begin", "commands", "tested", "gate", "archive", "settle"}
      /\ {"prepare", "review"} \subseteq HeldPcs
  BY DEF ApplyPcs, HeldPcs
\* A step to another place of the verification, under no lock, that leaves the ledger.
<1>0. ASSUME t.pc \in UnlockedPcs \ {"fail", "begin"}, u.pc \in {"tested", "gate", "archive", "settle"},
             u.state = t.state, UNCHANGED <<led, op>>
      PROVE  Alone(s, k)'
  <2>1. u.pc \in Places(k)
    BY <1>0, PlaceKinds, PlaceNames
  <2>2. u.pc \in UnlockedPcs \ {"fail", "begin"} /\ u.pc \notin HeldPcs
    BY <1>0, PlacesLocked DEF UnlockedPcs, ApplyPcs
  <2>3. Knows(k, u, y)
    BY <1>0, <1>t, <2>2, PlacesLocked DEF Knows, HeldPcs, StartPcs
  <2> QED BY <1>0, <1>r, <1>t, <2>1, <2>2, <2>3, PlacesLocked, AloneMoves
<1>e. ASSUME t.pc \in UnlockedPcs, End(s, k), UNCHANGED op PROVE Alone(s, k)'
  BY <1>e, AloneEnds
<1>1. CASE Discard(s, k)
  BY <1>1, <1>e, PlacesLocked DEF Discard
<1>2. CASE ReportedFailure(s, k)
  BY <1>2, <1>e DEF ReportedFailure, Rework, Applies, At, UnlockedPcs, ApplyPcs
<1>3. CASE BeginVerify(s, k)
  <2>1. /\ t.pc = "begin" /\ t.pc \in UnlockedPcs /\ u.pc = "commands" /\ u.state = y
        /\ Control(y, t.state.wf, t.state.status, "verify", t.state.attempt)
        /\ op' = op
    BY <1>3, TaskWrites DEF BeginVerify, Applies, At, UnlockedPcs, ApplyPcs
  <2>2. u.pc \in Places(k)
    BY <2>1, PlaceKinds, PlaceNames
  <2>3. u.pc \notin HeldPcs /\ op'[s] = "free"
    BY <1>t, <2>1, PlacesLocked DEF UnlockedPcs
  <2>4. t.state.status = "RUNNING"
    BY <1>t, <2>1 DEF Knows
  <2>5. Knows(k, u, y)
    BY <2>1, <2>3, <2>4 DEF Knows, SameWork, Control, SameContent, HeldPcs, StartPcs
  <2> QED BY <1>r, <2>2, <2>3, <2>5, AloneMoves
<1>4. ASSUME NEW passed, RunCommands(s, k, passed) PROVE Alone(s, k)'
  BY <1>0, <1>4, TaskTakes DEF RunCommands, At, UnlockedPcs
<1>5. CASE ApplyCommands(s, k)
  <2>1. t.pc = "tested" /\ t.pc \in UnlockedPcs /\ UNCHANGED op
    BY <1>5 DEF ApplyCommands, Applies, At, UnlockedPcs, ApplyPcs
  <2>2. CASE t.ok
    <3>1. Moves(s, k, "gate") /\ UNCHANGED led
      BY <1>5, <2>2, PiecesAct DEF ApplyCommands
    <3> QED BY <1>0, <2>1, <3>1 DEF Moves
  <2>3. CASE ~t.ok
    BY <1>5, <1>e, <2>1, <2>3 DEF ApplyCommands, Rework
  <2> QED BY <2>2, <2>3
<1>6. ASSUME NEW passed, ApplyGate(s, k, passed) PROVE Alone(s, k)'
  <2>1. t.pc = "gate" /\ t.pc \in UnlockedPcs /\ UNCHANGED op
    BY <1>6 DEF ApplyGate, Applies, At, UnlockedPcs, ApplyPcs
  <2>2. CASE passed
    <3>1. Moves(s, k, "archive") /\ UNCHANGED led
      BY <1>6, <2>2, PiecesAct DEF ApplyGate
    <3> QED BY <1>0, <2>1, <3>1 DEF Moves
  <2>3. CASE ~passed
    BY <1>6, <1>e, <2>1, <2>3 DEF ApplyGate, Rework
  <2> QED BY <2>2, <2>3
<1>7. CASE ReadScope(s, k)
  BY <1>0, <1>7, TaskTakes DEF ReadScope, Applies, At, UnlockedPcs, ApplyPcs
<1>8. CASE ScopeReview(s, k)
  BY <1>8, <1>e DEF ScopeReview, Applies, At, UnlockedPcs, ApplyPcs
<1>9. CASE SettleLock(s, k)
  <2>1. /\ t.pc = "settle" /\ t.pc \in UnlockedPcs /\ Moves(s, k, "prepare")
        /\ op'[s] = k /\ UNCHANGED led /\ led[s].status = "RUNNING"
    BY <1>9, PiecesAct, LockActs DEF SettleLock, Applies, IsCurrent, At, UnlockedPcs, ApplyPcs
  <2>2. u.pc \in Places(k)
    BY <2>1, PlaceKinds, PlaceNames DEF Moves
  <2>3. Knows(k, u, y)
    BY <1>t, <2>1 DEF Knows, Moves, UnlockedPcs, ApplyPcs, PromotePcs
  <2> QED BY <1>p, <1>r, <2>1, <2>2, <2>3, AloneMoves DEF Moves
<1>10. CASE Prepare(s, k)
  <2>1. t.pc = "prepare" /\ UNCHANGED led
    BY <1>10 DEF Prepare, At
  <2>2. CASE HasChanges
    <3>1. u.pc = "review" /\ u.state = t.state /\ UNCHANGED op
      BY <1>10, <2>2, TaskTakes DEF Prepare
    <3>2. u.pc \in Places(k)
      BY <2>1, <3>1, PlaceKinds, PlaceNames
    <3>3. Knows(k, u, y)
      BY <1>t, <2>1, <3>1 DEF Knows, UnlockedPcs, ApplyPcs, PromotePcs
    <3> QED BY <1>p, <1>r, <1>t, <2>1, <3>1, <3>2, <3>3, AloneMoves
  <2>3. CASE ~HasChanges
    BY <1>10, <2>3, AloneEnds DEF Prepare
  <2> QED BY <2>2, <2>3
<1>11. CASE Review(s, k)
  <2>1. t.pc = "review"
    BY <1>11 DEF Review, At
  <2>2. CASE RequireApproval
    BY <1>11, <2>2, AloneEnds DEF Review
  <2>3. CASE ~RequireApproval
    <3>1. /\ u.pc = "approve" /\ UNCHANGED <<op, led>>
          /\ Control(u.state, t.state.wf, t.state.status, t.state.node, t.state.attempt)
          /\ u.state.versions = t.state.versions
      BY <1>11, <2>3, TaskTakes DEF Review
    <3>2. u.pc \in Places(k) /\ k # "command"
      BY <2>1, <3>1, PlaceKinds, PlaceNames
    <3>3. Knows(k, u, y)
      BY <1>t, <2>1, <3>1, <3>2
         DEF Knows, UnlockedPcs, ApplyPcs, SameWork, Control, SameContent
    <3>4. u.pc \in HeldPcs
      BY <3>1 DEF HeldPcs, PromotePcs
    <3> QED BY <1>p, <1>r, <1>t, <2>1, <3>1, <3>2, <3>3, <3>4, AloneMoves
  <2> QED BY <2>2, <2>3
<1> QED BY <1>1, <1>2, <1>3, <1>4, <1>5, <1>6, <1>7, <1>8, <1>9, <1>10, <1>11 DEF Verification

LEMMA AlonePromotion ==
  ASSUME TypeInv, NEW s \in Sessions, NEW k \in Kinds, Alone(s, k),
         Promotion(s, k) \/ Restore(s, k) \/ Fail(s, k)
  PROVE  Alone(s, k)'
<1> DEFINE t == task[s][k]
           u == task'[s][k]
           x == led[s]
           y == led'[s]
<1>r. RestIdle(s, k)
  BY TaskLeavesRest DEF TaskStep
<1>t. /\ t.pc \in Places(k) /\ Knows(k, t, x)
      /\ op[s] = IF t.pc \in HeldPcs THEN k ELSE "free"
  BY DEF Alone
<1>p. {"approve", "head", "tag", "complete", "restore", "failed", "release"} \subseteq HeldPcs
  BY DEF HeldPcs, PromotePcs
<1>e. ASSUME End(s, k), Unlock(s, k) PROVE Alone(s, k)'
  BY <1>e, AloneEnds
\* On to the next place of the promotion.
<1>0. ASSUME t.pc \in PromotePcs, NEW pc \in {"head", "tag", "complete"}, Moves(s, k, pc),
             UNCHANGED <<led, op>>
      PROVE  Alone(s, k)'
  <2>1. u.pc \in Places(k)
    BY <1>0, PlaceKinds, PlaceNames DEF Moves
  <2>2. Knows(k, u, y)
    BY <1>0, <1>t DEF Knows, Moves, PromotePcs, UnlockedPcs, ApplyPcs
  <2>3. t.pc \in HeldPcs
    BY <1>0 DEF HeldPcs
  <2> QED BY <1>0, <1>p, <1>r, <1>t, <2>1, <2>2, <2>3, AloneMoves DEF Moves
<1>1. CASE Compare(s, k)
  BY <1>0, <1>1, <1>e, PiecesAct DEF Compare, At, PromotePcs
<1>2. CASE PromoteHead(s, k)
  <2>1. t.pc \in PromotePcs /\ UNCHANGED led
    BY <1>2 DEF PromoteHead, At, PromotePcs
  <2>2. \/ UNCHANGED op /\ \E pc \in {"tag", "complete"} : GoTo(s, k, pc)
        \/ End(s, k) /\ Unlock(s, k)
    BY <1>2 DEF PromoteHead
  <2> QED BY <1>0, <1>e, <2>1, <2>2, PiecesAct
<1>3. CASE PromoteTag(s, k)
  BY <1>0, <1>3, PiecesAct DEF PromoteTag, At, PromotePcs
<1>4. CASE Complete(s, k)
  <2>1. /\ t.pc = "complete" /\ t.pc \in PromotePcs /\ Moves(s, k, "release") /\ UNCHANGED op
        /\ Control(y, t.state.wf, "COMPLETED", "complete", t.state.attempt)
    BY <1>4, PiecesAct, TaskWrites DEF Complete, At, PromotePcs
  <2>2. u.pc \in Places(k)
    BY <2>1, PlaceKinds, PlaceNames DEF Moves
  <2>3. Knows(k, u, y)
    BY <2>1 DEF Knows, Moves, Control, PromotePcs, UnlockedPcs, ApplyPcs
  <2> QED BY <1>p, <1>r, <1>t, <2>1, <2>2, <2>3, AloneMoves DEF Moves
<1>5. CASE Release(s, k)
  BY <1>5, <1>e DEF Release
<1>6. CASE Restore(s, k)
  <2>1. t.pc = "restore" /\ UNCHANGED led
    BY <1>6 DEF Restore, At
  <2>2. CASE Moves(s, k, "failed") /\ UNCHANGED op
    <3>1. u.pc \in Places(k)
      BY <2>1, <2>2, PlaceKinds, PlaceNames DEF Moves
    <3>2. Knows(k, u, y)
      BY <1>t, <2>1, <2>2 DEF Knows, Moves, PromotePcs, UnlockedPcs, ApplyPcs
    <3> QED BY <1>p, <1>r, <1>t, <2>1, <2>2, <3>1, <3>2, AloneMoves DEF Moves
  <2>3. CASE HasChanges /\ ~InScope
    BY <1>6, <1>e, <2>3 DEF Restore
  <2>4. CASE ~(HasChanges /\ ~InScope)
    BY <1>6, <2>2, <2>4, PiecesAct DEF Restore
  <2> QED BY <2>3, <2>4
<1>7. CASE Fail(s, k)
  <2>1. /\ t.pc = "failed" /\ Moves(s, k, "release") /\ UNCHANGED op
        /\ Control(y, t.state.wf, "FAILED", "failed", t.state.attempt)
    BY <1>7, PiecesAct, TaskWrites DEF Fail, At
  <2>2. u.pc \in Places(k)
    BY <2>1, PlaceKinds, PlaceNames DEF Moves
  <2>3. Knows(k, u, y)
    BY <2>1 DEF Knows, Moves, Control, PromotePcs, UnlockedPcs, ApplyPcs
  <2> QED BY <1>p, <1>r, <1>t, <2>1, <2>2, <2>3, AloneMoves DEF Moves
<1> QED BY <1>1, <1>2, <1>3, <1>4, <1>5, <1>6, <1>7 DEF Promotion

LEMMA AloneStarting ==
  ASSUME TypeInv, NEW s \in Sessions, NEW k \in Kinds, Alone(s, k), Starting(s)
  PROVE  Alone(s, "command")'
<1> DEFINE t == task[s]["command"]
           u == task'[s]["command"]
           x == led[s]
           y == led'[s]
<1>c. "command" \in Kinds
  BY Names
<1>1. ~At(s, "command", "idle")
  BY DEF Starting, StartClean, StartAcquire, StartIdle, StartRunning, At
<1>2. Alone(s, "command")
  <2>1. k = "command"
    BY <1>1, <1>c DEF Alone
  <2> QED BY <2>1
<1>t. /\ Knows("command", t, x) /\ op[s] = IF t.pc \in HeldPcs THEN "command" ELSE "free"
  BY <1>2 DEF Alone
<1>p. {"clean", "acquire", "save_idle", "save_running"} \subseteq HeldPcs
  BY DEF HeldPcs, StartPcs
<1>e. ASSUME End(s, "command"), Unlock(s, "command") PROVE Alone(s, "command")'
  BY <1>2, <1>c, <1>e, AloneEnds
<1>r. ASSUME NEW pc, GoTo(s, "command", pc) PROVE RestIdle(s, "command") /\ Moves(s, "command", pc)
  BY <1>c, <1>r, PiecesAct, PiecesLeaveRest
<1>0. ASSUME t.pc \in {"clean", "acquire"}, NEW pc \in {"acquire", "save_idle"},
             GoTo(s, "command", pc), UNCHANGED <<led, op>>
      PROVE  Alone(s, "command")'
  <2>1. u.pc \in Places("command")
    BY <1>0, <1>r, PlaceNames DEF Moves
  <2>2. Knows("command", u, y)
    BY <1>0, <1>r, <1>t DEF Knows, Moves, PromotePcs, UnlockedPcs, ApplyPcs
  <2> QED BY <1>0, <1>2, <1>c, <1>p, <1>r, <1>t, <2>1, <2>2, AloneMoves DEF Moves
<1>3. CASE StartClean(s)
  BY <1>0, <1>3, <1>e DEF StartClean, At
<1>4. CASE StartAcquire(s)
  BY <1>0, <1>4, <1>e DEF StartAcquire, At
<1>5. CASE StartIdle(s)
  <2>1. /\ t.pc = "save_idle" /\ Moves(s, "command", "save_running") /\ RestIdle(s, "command")
        /\ UNCHANGED op /\ y.status = "IDLE" /\ y.attempt = 0
    BY <1>5, <1>r, CommandWrites DEF StartIdle, At, Control
  <2>2. u.pc \in Places("command")
    BY <2>1, PlaceNames DEF Moves
  <2>3. Knows("command", u, y)
    BY <2>1 DEF Knows, Moves, PromotePcs, UnlockedPcs, ApplyPcs
  <2> QED BY <1>2, <1>c, <1>p, <1>t, <2>1, <2>2, <2>3, AloneMoves DEF Moves
<1>6. CASE StartRunning(s)
  BY <1>6, <1>e DEF StartRunning
<1> QED BY <1>3, <1>4, <1>5, <1>6 DEF Starting

LEMMA AloneCommands ==
  ASSUME TypeInv, ~AsksRecovery, NEW s \in Sessions, ~asked[s], NEW k \in Kinds, Alone(s, k),
         Human(s) \/ Restart(s) \/ \E result \in {"pass", "fail", "none"} : TurnStops(s, result)
  PROVE  ~asked'[s] /\ \E j \in Kinds : Alone(s, j)'
<1> DEFINE t == task[s][k]
           x == led[s]
           y == led'[s]
<1>c. {"turn", "command", "verify"} \subseteq Kinds
  BY Names
<1>n. {"clean", "approve", "restore", "release"} \subseteq HeldPcs /\ {"begin", "fail"} \cap HeldPcs = {}
  BY DEF HeldPcs, StartPcs, PromotePcs
\* A command that begins with nothing else at work.
<1>0. ASSUME NEW j \in Kinds, op[s] = "free", \A i \in Kinds : At(s, i, "idle"), RestIdle(s, j),
             task'[s][j].pc \in Places(j), op'[s] = IF task'[s][j].pc \in HeldPcs THEN j ELSE "free",
             Knows(j, task'[s][j], y)
      PROVE  Alone(s, j)'
  BY <1>0, IdleIsAlone, AloneMoves
\* Only the status of the ledger changes, and no task has to mind.
<1>s. ASSUME UNCHANGED <<op, task>>, op[s] = "free", SameWork(y, x),
             x.status \in {"RUNNING", "PAUSED"}, y.status \in {"RUNNING", "PAUSED"}
      PROVE  Alone(s, k)'
  <2>1. Knows(k, t, x) /\ t.pc \notin HeldPcs /\ RestIdle(s, k) /\ t.pc \in Places(k)
    BY <1>s DEF Alone, RestIdle, Kinds
  <2>2. Knows(k, t, y)
    <3>1. SameWork(t.state, x) => SameWork(t.state, y) /\ y.node = x.node
      BY <1>s DEF SameWork, Control, SameContent
    <3> QED BY <1>s, <2>1, <3>1 DEF Knows, HeldPcs, StartPcs
  <2>3. task'[s][k] = t /\ op'[s] = "free"
    BY <1>s
  <2>4. Knows(k, task'[s][k], y) /\ task'[s][k].pc \notin HeldPcs /\ task'[s][k].pc \in Places(k)
    BY <2>1, <2>2, <2>3
  <2> QED BY <2>1, <2>3, <2>4, AloneMoves
\* Nothing is at work before or after.
<1>i. ASSUME UNCHANGED <<op, task>>, op[s] = "free", x.status \notin {"RUNNING", "PAUSED"}
      PROVE  Alone(s, k)'
  <2>1. \A j \in Kinds : At(s, j, "idle")
    BY <1>i, Quiescent
  <2> QED BY <1>i, <2>1, <1>0 DEF RestIdle, At, Alone, Knows, UnlockedPcs, ApplyPcs, PromotePcs
<1>a. Active = {"RUNNING", "UNCERTAIN", "PAUSED", "WAITING_HITL"}
  BY DEF Active
<1>1. CASE StartHead(s)
  <2>1. /\ op[s] = "free" /\ op'[s] = "command" /\ UNCHANGED <<led, asked>>
        /\ task'[s]["command"].pc = "clean" /\ RestIdle(s, "command") /\ x.status \notin Active
    BY <1>1, <1>c, LockActs, CommandTakes DEF StartHead
  <2>2. \A j \in Kinds : At(s, j, "idle")
    BY <1>a, <2>1, Quiescent
  <2>3. Knows("command", task'[s]["command"], y)
    BY <2>1 DEF Knows, UnlockedPcs, ApplyPcs, PromotePcs
  <2> QED BY <1>0, <1>c, <1>n, <2>1, <2>2, <2>3, PlaceNames
<1>2. CASE Approve(s) \/ Reject(s)
  <2>1. /\ op[s] = "free" /\ op'[s] = "command" /\ UNCHANGED <<led, asked>>
        /\ task'[s]["command"].pc \in {"approve", "restore"} /\ task'[s]["command"].state = x
        /\ RestIdle(s, "command") /\ x.status = "WAITING_HITL"
    <3>1. UNCHANGED <<led, asked>> /\ x.status = "WAITING_HITL" /\ Lock(s, "command")
      BY <1>2 DEF Approve, Reject
    <3>2. op[s] = "free" /\ op'[s] = "command"
      BY <1>c, <3>1, LockActs
    <3>3. /\ task'[s]["command"].pc \in {"approve", "restore"} /\ task'[s]["command"].state = x
          /\ RestIdle(s, "command")
      BY <1>2, CommandTakes
    <3> QED BY <3>1, <3>2, <3>3
  <2>2. \A j \in Kinds : At(s, j, "idle")
    BY <2>1, Quiescent
  <2>3. Knows("command", task'[s]["command"], y)
    BY <2>1 DEF Knows, UnlockedPcs, ApplyPcs, PromotePcs, SameWork, Control, SameContent
  <2> QED BY <1>0, <1>c, <1>n, <2>1, <2>2, <2>3, PlaceNames
<1>3. CASE Pause(s) \/ Resume(s)
  <2>1. /\ UNCHANGED <<op, task, asked>> /\ op[s] = "free" /\ x.status \in {"RUNNING", "PAUSED"}
    BY <1>3 DEF Pause, Resume, LockFree
  <2>2. SameWork(y, x) /\ y.status \in {"RUNNING", "PAUSED"}
    BY <1>3, CommandWrites DEF SameWork, Control
  <2> QED BY <1>s, <2>1, <2>2
<1>4. CASE Retry(s) \/ Rollback(s)
  BY <1>4, <1>i DEF Retry, Rollback, LockFree
<1>5. ASSUME NEW j \in Kinds, RecoverVerify(s, j) \/ RecoverRetry(s, j) \/ RecoverRestore(s, j) \/ RecoverAbort(s, j)
      PROVE  ~asked'[s] /\ op[s] = "free" /\ x.status = "UNCERTAIN" /\ j # "prompt"
  BY <1>5 DEF RecoverVerify, RecoverRetry, RecoverRestore, RecoverAbort, Recovering
<1>6. ASSUME RecoverVerify(s, "verify") PROVE Alone(s, "verify")'
  <2>1. /\ UNCHANGED op /\ task'[s]["verify"].pc = "begin" /\ task'[s]["verify"].state = y
        /\ Control(y, x.wf, "RUNNING", "verify", x.attempt) /\ RestIdle(s, "verify")
    BY <1>6, <1>c, CommandTakes, CommandWrites DEF RecoverVerify, LockFree
  <2>2. \A j \in Kinds : At(s, j, "idle")
    BY <1>5, <1>6, <1>c, Quiescent
  <2>3. Knows("verify", task'[s]["verify"], y)
    BY <2>1 DEF Knows, UnlockedPcs, ApplyPcs, PromotePcs, SameWork, Control, SameContent, StartPcs
  <2> QED BY <1>0, <1>5, <1>6, <1>c, <1>n, <2>1, <2>2, <2>3, PlaceNames
<1>7. ASSUME RecoverRetry(s, "command") PROVE Alone(s, k)'
  BY <1>5, <1>7, <1>c, <1>i DEF RecoverRetry
<1>8. ASSUME RecoverRestore(s, "command") \/ RecoverAbort(s, "command") PROVE Alone(s, "command")'
  <2>1. op'[s] = "command"
    BY <1>8, <1>c, LockActs DEF RecoverRestore, RecoverAbort, RecoverLock
  <2>2. \A j \in Kinds : At(s, j, "idle")
    BY <1>5, <1>8, <1>c, Quiescent
  <2>3. CASE RecoverRestore(s, "command")
    <3>1. /\ task'[s]["command"].pc = "restore" /\ task'[s]["command"].state = x /\ UNCHANGED led
          /\ RestIdle(s, "command")
      BY <1>c, <2>3, CommandTakes DEF RecoverRestore
    <3>2. Knows("command", task'[s]["command"], y)
      BY <1>5, <1>8, <1>c, <3>1 DEF Knows, UnlockedPcs, ApplyPcs, PromotePcs, SameWork, Control, SameContent
    <3> QED BY <1>0, <1>5, <1>8, <1>c, <1>n, <2>1, <2>2, <3>1, <3>2, PlaceNames
  <2>4. CASE RecoverAbort(s, "command")
    <3>1. /\ task'[s]["command"].pc = "release" /\ task'[s]["command"].state = x
          /\ Control(y, x.wf, "FAILED", "failed", x.attempt) /\ RestIdle(s, "command")
      BY <1>c, <2>4, CommandTakes, CommandWrites DEF RecoverAbort
    <3>2. Knows("command", task'[s]["command"], y)
      BY <3>1 DEF Knows, UnlockedPcs, ApplyPcs, PromotePcs, Control
    <3> QED BY <1>0, <1>5, <1>8, <1>c, <1>n, <2>1, <2>2, <3>1, <3>2, PlaceNames
  <2> QED BY <1>8, <2>3, <2>4
<1>9. CASE Restart(s)
  <2>1. /\ op'[s] = "free" /\ ~asked'[s] /\ \A j \in Kinds : task'[s][j] = NoTask
    BY <1>9 DEF Restart, TypeInv
  <2>2. /\ \A j \in Kinds : At(s, j, "idle")'
    BY <2>1 DEF At, NoTask
  <2> QED BY <2>1, <2>2, IdleIsAlone DEF Alone, At, Knows, Places, HeldPcs, UnlockedPcs, ApplyPcs, StartPcs, PromotePcs
<1>10. ASSUME NEW result, TurnStops(s, result) PROVE ~asked'[s] /\ \E j \in Kinds : Alone(s, j)'
  <2>1. UNCHANGED <<led, op, asked>> /\ At(s, "turn", "idle")
    BY <1>10 DEF TurnStops
  <2>2. CASE UNCHANGED task
    <3>1. Alone(s, k)'
      BY <2>1, <2>2 DEF Alone, At
    <3> QED BY <2>1, <3>1
  <2>3. CASE /\ task'[s]["turn"].pc \in {"begin", "fail"} /\ task'[s]["turn"].state = x
             /\ x.status = "RUNNING" /\ x.node = "execute" /\ RestIdle(s, "turn")
    <3>1. op[s] = "free" /\ \A j \in Kinds : At(s, j, "idle")
      BY <2>1, <2>3, Quiescent
    <3>2. Knows("turn", task'[s]["turn"], y)
      BY <2>1, <2>3 DEF Knows, UnlockedPcs, ApplyPcs, PromotePcs, SameWork, Control, SameContent, StartPcs
    <3>3. task'[s]["turn"].pc \in Places("turn") /\ task'[s]["turn"].pc \notin HeldPcs
      BY <1>n, <2>3, PlaceNames
    <3> QED BY <1>0, <1>c, <2>1, <2>3, <3>1, <3>2, <3>3
  <2> QED BY <1>10, <2>2, <2>3, CommandTakes
<1>11. ASSUME Recover(s) PROVE ~asked'[s] /\ \E j \in Kinds : Alone(s, j)'
  BY <1>5, <1>6, <1>7, <1>8, <1>11, <1>c, Names DEF Recover
<1> QED BY <1>1, <1>2, <1>3, <1>4, <1>9, <1>10, <1>11, <1>c DEF Human, Pause, Resume, Retry, Rollback

LEMMA TaskAsksNothing ==
  ASSUME NEW s \in Sessions, Starting(s) \/ \E k \in Kinds : TaskStep(s, k) PROVE UNCHANGED asked
<1>1. CASE Starting(s)
  BY <1>1 DEF Starting, StartClean, StartAcquire, StartIdle, StartRunning
<1>2. ASSUME NEW k, Verification(s, k) PROVE UNCHANGED asked
  BY <1>2 DEF Verification, Discard, ReportedFailure, BeginVerify, RunCommands,
              ApplyCommands, ApplyGate, ReadScope, ScopeReview, SettleLock, Prepare, Review
<1>3. ASSUME NEW k, Promotion(s, k) \/ Restore(s, k) \/ Fail(s, k) PROVE UNCHANGED asked
  BY <1>3 DEF Promotion, Compare, PromoteHead, PromoteTag, Complete, Release, Restore, Fail
<1> QED BY <1>1, <1>2, <1>3 DEF TaskStep

LEMMA SessionInvInit == Init => SessionInv
<1> SUFFICES ASSUME Init, NEW s \in Sessions PROVE ~asked[s] /\ Alone(s, "turn")
  BY Names DEF SessionInv
<1>1. ~asked[s] /\ op[s] = "free" /\ \A j \in Kinds : At(s, j, "idle")
  BY DEF Init, At, NoTask
<1> QED BY <1>1, IdleIsAlone, Names

LEMMA SessionInvStep ==
  ASSUME TypeInv, SessionInv, ~AsksRecovery, [Next]_vars PROVE SessionInv'
<1>1. ASSUME NEW s \in Sessions, SessionStep(s) PROVE SessionInv'
  <2>1. PICK k \in Kinds : Alone(s, k)
    BY DEF SessionInv
  <2>2. ~asked'[s] /\ \E j \in Kinds : Alone(s, j)'
    <3>1. CASE Starting(s)
      BY <2>1, <3>1, AloneStarting, TaskAsksNothing, Names DEF SessionInv
    <3>2. ASSUME NEW j \in Kinds, TaskStep(s, j) PROVE ~asked'[s] /\ Alone(s, k)'
      <4>1. j = k
        BY <2>1, <3>2, TaskIsAlone
      <4> QED BY <2>1, <3>2, <4>1, AloneVerification, AlonePromotion, TaskAsksNothing
              DEF TaskStep, SessionInv
    <3>3. CASE Human(s) \/ Restart(s) \/ \E result \in {"pass", "fail", "none"} : TurnStops(s, result)
      BY <2>1, <3>3, AloneCommands DEF SessionInv
    <3> QED BY <1>1, <3>1, <3>2, <3>3 DEF SessionStep
  <2>3. ASSUME NEW u \in Sessions \ {s} PROVE ~asked'[u] /\ \E j \in Kinds : Alone(u, j)'
    <3>1. PICK j \in Kinds : Alone(u, j)
      BY DEF SessionInv
    <3>2. led'[u] = led[u] /\ op'[u] = op[u] /\ task'[u] = task[u] /\ asked'[u] = asked[u]
      BY <1>1, StepLeavesOthers DEF Others
    <3>3. Alone(u, j)'
      BY <3>1, <3>2 DEF Alone, At
    <3> QED BY <3>2, <3>3 DEF SessionInv
  <2>4. ASSUME NEW u \in Sessions PROVE ~asked'[u] /\ \E j \in Kinds : Alone(u, j)'
    BY <2>2, <2>3
  <2> QED BY <2>4 DEF SessionInv
<1>2. CASE Edit \/ UNCHANGED vars
  BY <1>2 DEF Edit, vars, SessionInv, Alone, At
<1> QED BY <1>1, <1>2 DEF Next, SessionStep

\* While a workflow is paused its task finds out nothing that it may write.
LEMMA PauseStep ==
  ASSUME TypeInv, SessionInv, ~AsksRecovery, NEW s \in Sessions, SessionStep(s), led[s].status = "PAUSED"
  PROVE  led'[s] \in {led[s], [led[s] EXCEPT !.status = "RUNNING"]}
<1> DEFINE Kept == led'[s] \in {led[s], [led[s] EXCEPT !.status = "RUNNING"]}
<1>1. PICK k \in Kinds : Alone(s, k)
  BY DEF SessionInv
<1>2. task[s][k].pc \in {"idle"} \cup UnlockedPcs
  <2>1. task[s][k].pc \in Places(k) /\ Knows(k, task[s][k], led[s])
    BY <1>1 DEF Alone
  <2>2. Places(k) \subseteq {"idle"} \cup UnlockedPcs \cup HeldPcs
    BY DEF Places, UnlockedPcs, ApplyPcs, HeldPcs, VerifyPcs
  <2> QED BY <2>1, <2>2 DEF Knows, HeldPcs, StartPcs, Active
<1>3. ASSUME NEW j \in Kinds PROVE task[s][j].pc \in {"idle"} \cup UnlockedPcs
  BY <1>1, <1>2 DEF Alone, At
<1>4. ASSUME NEW j \in Kinds, TaskStep(s, j) PROVE UNCHANGED led
  <2>1. /\ ~Complete(s, j) /\ ~Fail(s, j) /\ ~Review(s, j)
    BY <1>3 DEF Complete, Fail, Review, At, UnlockedPcs, ApplyPcs
  <2>2. \A pc : ~Applies(s, j, pc)
    BY DEF Applies, IsCurrent
  <2>3. CASE Verification(s, j)
    BY <2>1, <2>2, <2>3
       DEF Verification, Discard, ReportedFailure, BeginVerify, RunCommands,
           ApplyCommands, ApplyGate, ReadScope, ScopeReview, SettleLock, Prepare
  <2>4. CASE Promotion(s, j) \/ Restore(s, j)
    BY <2>1, <2>4 DEF Promotion, Compare, PromoteHead, PromoteTag, Release, Restore, UnchangedRepo
  <2> QED BY <1>4, <2>1, <2>3, <2>4 DEF TaskStep
<1>5. CASE Starting(s)
  <2>1. task[s]["command"].pc \notin StartPcs
    BY <1>3, Names DEF UnlockedPcs, ApplyPcs, StartPcs
  <2> QED BY <1>5, <2>1 DEF Starting, StartClean, StartAcquire, StartIdle, StartRunning, At, StartPcs
<1>6. CASE Human(s)
  <2>1. UNCHANGED led \/ Resume(s)
    BY <1>6 DEF Human, StartHead, Approve, Pause, Retry, Reject, Recover, Recovering,
                RecoverVerify, RecoverRetry, RecoverRestore, RecoverAbort, Rollback
  <2>2. Resume(s) => Kept
    BY RecordActs DEF Resume
  <2> QED BY <2>1, <2>2
<1>7. CASE Restart(s)
  BY <1>7 DEF Restart
<1>8. ASSUME NEW result, TurnStops(s, result) PROVE UNCHANGED led
  BY <1>8 DEF TurnStops
<1> QED BY <1>4, <1>5, <1>6, <1>7, <1>8 DEF SessionStep

\* TRD D-021, for every number of sessions, prompts and restarts: nothing that the turn
\* or the verification a pause overtook finds out is written over the pause.  The
\* answer to the recovery question is left out: it is written without the lock.
THEOREM PauseIsKept == ASSUME ~AsksRecovery PROVE Spec => PauseHolds
<1>1. Init => TypeInv /\ Begun /\ SessionInv
  BY TypeInit, SessionInvInit DEF Init, Begun, At, NoTask, Kinds
<1>2. TypeInv /\ Begun /\ SessionInv /\ [Next]_vars => (TypeInv /\ Begun /\ SessionInv)'
  BY TypeStep, BegunStep, SessionInvStep
<1>3. TypeInv /\ Begun /\ SessionInv /\ [Next]_vars =>
        [\A s \in Sessions : led[s].status = "PAUSED" =>
           led'[s] \in {led[s], [led[s] EXCEPT !.status = "RUNNING"]}]_vars
  <2> SUFFICES ASSUME TypeInv, SessionInv, Next, NEW s \in Sessions, led[s].status = "PAUSED"
               PROVE  led'[s] \in {led[s], [led[s] EXCEPT !.status = "RUNNING"]}
    OBVIOUS
  <2>1. CASE Edit
    BY <2>1 DEF Edit
  <2>2. ASSUME NEW u \in Sessions, SessionStep(u)
        PROVE  led'[s] \in {led[s], [led[s] EXCEPT !.status = "RUNNING"]}
    BY <2>2, PauseStep, StepLeavesOthers DEF Others
  <2> QED BY <2>1, <2>2 DEF Next, SessionStep
<1> QED BY <1>1, <1>2, <1>3, PTL DEF Spec, PauseHolds
-----------------------------------------------------------------------------
(* Who has the workspace.                                                  *)

\* A step that neither begins nor ends a workflow in the workspace.
Ordinary(s) ==
  /\ led'[s].wf = led[s].wf /\ led'[s].attempt >= led[s].attempt
  /\ led'[s] = led[s] \/ led[s].status \in Active
  /\ task'[s]["command"].pc \in {"save_idle", "save_running"} =>
       task'[s]["command"].pc = task[s]["command"].pc
  /\ ws' = ws /\ started' = started

LEMMA Attempts ==
  ASSUME TypeInv, NEW s \in Sessions
  PROVE  led[s].attempt \in Nat /\ led[s].wf \in Nat /\ ws \in Nat /\ started \in Nat
<1>1. led[s].attempt \in Numbers /\ led[s].wf \in Ids /\ ws \in Ids /\ started \in Ids
  BY ElementTypes DEF GoodStates, States, TypeInv
<1> QED BY <1>1, Parameters DEF Numbers, Ids

LEMMA OrdinaryTask ==
  ASSUME TypeInv, NEW s \in Sessions, NEW k \in Kinds, Alone(s, k), TaskStep(s, k), ~Release(s, k)
  PROVE  Ordinary(s)
<1> DEFINE t == task[s][k]
           x == led[s]
           y == led'[s]
<1> USE DEF Ordinary
<1>t. Knows(k, t, x) /\ (k # "command" => task[s]["command"].pc = "idle")
  BY Names DEF Alone, At
<1>n. x.attempt \in Nat
  BY Attempts
<1>w. ws' = ws /\ started' = started
  <2>1. CASE Verification(s, k)
    BY <2>1 DEF Verification, Discard, ReportedFailure, BeginVerify, RunCommands, UnchangedRepo,
                ApplyCommands, ApplyGate, ReadScope, ScopeReview, SettleLock, Prepare, Review
  <2>2. CASE Compare(s, k) \/ PromoteHead(s, k) \/ PromoteTag(s, k) \/ Complete(s, k) \/ Restore(s, k) \/ Fail(s, k)
    BY <2>2 DEF Compare, PromoteHead, PromoteTag, Complete, Restore, Fail, UnchangedRepo
  <2> QED BY <2>1, <2>2 DEF TaskStep, Promotion
<1>c. task'[s]["command"].pc \in {"save_idle", "save_running"} =>
       task'[s]["command"].pc = task[s]["command"].pc
  <2>1. CASE k # "command"
    BY <2>1, TaskLeavesRest, Names DEF RestIdle
  <2>2. CASE k = "command"
    <3>1. ~Verification(s, k)
      <4>1. task[s][k].pc \notin UnlockedPcs \cup {"prepare", "review"}
        BY <2>2, PlaceKinds
      <4> QED BY <4>1 DEF Verification, Discard, ReportedFailure, BeginVerify, Applies, RunCommands,
                ApplyCommands, ApplyGate, ReadScope, ScopeReview, SettleLock, Prepare, Review, At,
                UnlockedPcs, ApplyPcs
    <3>2. \/ End(s, k)
          \/ \E pc \in {"head", "tag", "complete", "release", "failed"} : GoTo(s, k, pc)
      BY <3>1 DEF TaskStep, Promotion, Compare, PromoteHead, PromoteTag, Complete, Release, Restore, Fail
    <3> QED BY <2>2, <3>2, PiecesAct DEF NoTask, Moves
  <2> QED BY <2>1, <2>2
\* A ledger that is written is that of an active workflow, and the task knows it.
<1>1. ASSUME UNCHANGED led PROVE Ordinary(s)
  BY <1>1, <1>c, <1>n, <1>w
<1>2. ASSUME x.status \in Active, y.wf = t.state.wf, t.state.wf = x.wf,
             t.state.attempt = x.attempt, y.attempt \in {x.attempt, x.attempt + 1}
      PROVE  Ordinary(s)
  BY <1>2, <1>c, <1>n, <1>w
<1>3. t.pc \in {"fail", "begin", "tested", "gate", "archive", "settle", "review", "complete", "failed"} =>
        x.status \in Active /\ t.state.wf = x.wf /\ t.state.attempt = x.attempt
  BY <1>t DEF Knows, UnlockedPcs, ApplyPcs, PromotePcs, Active, SameWork, Control
<1>4. ASSUME NEW reason, NEW escalate, Rework(s, k, reason, escalate), t.pc \in {"fail", "tested", "gate"}
      PROVE  Ordinary(s)
  <2>1. y.wf = t.state.wf /\ y.attempt \in {t.state.attempt, t.state.attempt + 1}
    BY <1>4, TaskWrites DEF Control
  <2> QED BY <1>2, <1>3, <1>4, <2>1
<1>5. CASE ReportedFailure(s, k)
  BY <1>4, <1>5 DEF ReportedFailure, Applies, At
<1>6. CASE ApplyCommands(s, k)
  BY <1>1, <1>4, <1>6 DEF ApplyCommands, Applies, At
<1>7. ASSUME NEW passed, ApplyGate(s, k, passed) PROVE Ordinary(s)
  BY <1>1, <1>4, <1>7 DEF ApplyGate, Applies, At
<1>8. CASE BeginVerify(s, k) \/ ScopeReview(s, k) \/ (Review(s, k) /\ RequireApproval)
           \/ Complete(s, k) \/ Fail(s, k)
  <2>1. y.wf = t.state.wf /\ y.attempt = t.state.attempt
    BY <1>8, TaskWrites DEF Control
  <2>2. t.pc \in {"begin", "settle", "review", "complete", "failed"}
    BY <1>8 DEF BeginVerify, ScopeReview, Applies, Review, Complete, Fail, At
  <2> QED BY <1>2, <1>3, <2>1, <2>2
<1>9. CASE \/ Discard(s, k) \/ (\E passed \in BOOLEAN : RunCommands(s, k, passed)) \/ ReadScope(s, k)
           \/ SettleLock(s, k) \/ Prepare(s, k) \/ (Review(s, k) /\ ~RequireApproval)
           \/ Compare(s, k) \/ PromoteHead(s, k) \/ PromoteTag(s, k) \/ Restore(s, k)
  BY <1>1, <1>9 DEF Discard, RunCommands, ReadScope, SettleLock, Prepare, Review,
                    Compare, PromoteHead, PromoteTag, Restore
<1>10. CASE Review(s, k)
  BY <1>8, <1>9, <1>10
<1>11. CASE Verification(s, k)
  <2> HIDE DEF Ordinary
  <2>1. ASSUME NEW passed \in BOOLEAN, RunCommands(s, k, passed) \/ ApplyGate(s, k, passed)
        PROVE  Ordinary(s)
    BY <1>7, <1>9, <2>1
  <2>2. CASE ReportedFailure(s, k) \/ ApplyCommands(s, k)
    BY <1>5, <1>6, <2>2
  <2>3. CASE BeginVerify(s, k) \/ ScopeReview(s, k)
    BY <1>8, <2>3
  <2>4. CASE Discard(s, k) \/ ReadScope(s, k) \/ SettleLock(s, k) \/ Prepare(s, k)
    BY <1>9, <2>4
  <2> QED BY <1>10, <1>11, <2>1, <2>2, <2>3, <2>4 DEF Verification
<1>12. CASE Promotion(s, k) \/ Restore(s, k) \/ Fail(s, k)
  <2> HIDE DEF Ordinary
  <2> QED BY <1>8, <1>9, <1>12 DEF Promotion
<1> QED BY <1>11, <1>12 DEF TaskStep

LEMMA OrdinaryCommand ==
  ASSUME TypeInv, NEW s \in Sessions,
         \/ Human(s) \/ Restart(s) \/ StartClean(s)
         \/ \E result \in {"pass", "fail", "none"} : TurnStops(s, result)
  PROVE  Ordinary(s)
<1> DEFINE x == led[s]
           y == led'[s]
           pc == task[s]["command"].pc
           npc == task'[s]["command"].pc
<1>n. x.attempt \in Nat
  BY Attempts
<1>k. {"turn", "command", "verify", "prompt"} \subseteq Kinds
  BY Names
\* A step that takes up no start of a workflow and leaves the workspace alone.
<1>0. ASSUME y.wf = x.wf, y.attempt \in {x.attempt, x.attempt + 1}, y = x \/ x.status \in Active,
             npc \in {"save_idle", "save_running"} => npc = pc, UNCHANGED <<ws, started>>
      PROVE  Ordinary(s)
  BY <1>0, <1>n DEF Ordinary
<1>1. CASE StartHead(s) \/ Approve(s) \/ Reject(s)
  <2>1. npc \in {"clean", "approve", "restore"} /\ UNCHANGED <<led, ws, started>>
    BY <1>1, CommandTakes DEF StartHead, Approve, Reject, UnchangedRepo
  <2> QED BY <1>0, <2>1
<1>2. CASE Pause(s) \/ Resume(s) \/ Retry(s)
  <2>1. y.wf = x.wf /\ y.attempt \in {x.attempt, x.attempt + 1}
    BY <1>2, CommandWrites DEF Control
  <2>2. x.status \in Active /\ UNCHANGED <<task, ws, started>>
    BY <1>2 DEF Pause, Resume, Retry, Active, UnchangedRepo
  <2> QED BY <1>0, <2>1, <2>2
<1>3. CASE Rollback(s)
  BY <1>0, <1>3 DEF Rollback
<1>4. ASSUME NEW k \in Kinds, RecoverVerify(s, k) \/ RecoverRetry(s, k) \/ RecoverAbort(s, k)
      PROVE  Ordinary(s)
  <2>1. y.wf = x.wf /\ y.attempt = x.attempt
    BY <1>4, CommandWrites DEF Control
  <2>2. x.status \in Active /\ UNCHANGED <<ws, started>>
    BY <1>4 DEF RecoverVerify, RecoverRetry, RecoverAbort, Recovering, Active, UnchangedRepo
  <2>3. npc \in {"save_idle", "save_running"} => npc = pc
    <3>1. CASE RecoverRetry(s, k)
      BY <3>1 DEF RecoverRetry
    <3>2. CASE RecoverVerify(s, k) \/ RecoverAbort(s, k)
      BY <1>k, <3>2, CommandTakes DEF RestIdle
    <3> QED BY <1>4, <3>1, <3>2
  <2> QED BY <1>0, <2>1, <2>2, <2>3
<1>5. ASSUME NEW k \in Kinds, RecoverRestore(s, k) PROVE Ordinary(s)
  <2>1. UNCHANGED <<led, ws, started>>
    BY <1>5 DEF RecoverRestore, UnchangedRepo
  <2>2. npc \in {"save_idle", "save_running"} => npc = pc
    BY <1>5, <1>k, CommandTakes DEF RestIdle
  <2> QED BY <1>0, <2>1, <2>2
<1>6. CASE Restart(s)
  <2>1. y.wf = x.wf /\ y.attempt = x.attempt /\ (y = x \/ x.status \in Active)
    BY <1>6, CommandWrites DEF Control, Active
  <2>2. npc = "idle" /\ UNCHANGED <<ws, started>>
    BY <1>6, <1>k DEF Restart, TypeInv, NoTask, UnchangedRepo
  <2> QED BY <1>0, <2>1, <2>2
<1>7. CASE StartClean(s)
  <2>1. npc \in {"idle", "acquire"} /\ UNCHANGED <<led, ws, started>>
    <3>1. GoTo(s, "command", "acquire") \/ End(s, "command")
      BY <1>7 DEF StartClean
    <3>2. npc \in {"idle", "acquire"}
      BY <1>k, <3>1, PiecesAct DEF Moves, NoTask
    <3> QED BY <1>7, <3>2 DEF StartClean, UnchangedRepo
  <2> QED BY <1>0, <2>1
<1>8. ASSUME NEW result, TurnStops(s, result) PROVE Ordinary(s)
  <2>1. UNCHANGED <<led, ws, started>>
    BY <1>8 DEF TurnStops, UnchangedRepo
  <2>2. npc = pc
    BY <1>8, <1>k, CommandTakes DEF RestIdle
  <2> QED BY <1>0, <2>1, <2>2
<1>9. CASE Recover(s)
  BY <1>4, <1>5, <1>9, <1>k DEF Recover
<1> QED BY <1>1, <1>2, <1>3, <1>6, <1>7, <1>8, <1>9 DEF Human

\* The steps that are not ordinary.
Acquires(s) ==
  /\ ws = 0 /\ ws' = started + 1 /\ started' = started + 1 /\ led'[s] = led[s]
  /\ At(s, "command", "acquire") /\ task'[s]["command"].pc = "save_idle"
Begins(s) ==
  /\ At(s, "command", "save_idle") /\ task'[s]["command"].pc = "save_running"
  /\ led'[s].wf = ws /\ led'[s].status = "IDLE" /\ ws' = ws /\ started' = started
Runs(s) ==
  /\ At(s, "command", "save_running") /\ task'[s]["command"].pc = "idle"
  /\ led'[s].wf = led[s].wf /\ led'[s].status = "RUNNING" /\ led'[s].attempt = 1
  /\ ws' = ws /\ started' = started
Releases(s) ==
  /\ led'[s] = led[s] /\ led[s].status \in {"COMPLETED", "FAILED"}
  /\ task'[s]["command"].pc = "idle" /\ started' = started
  /\ ws' = IF ws = led[s].wf THEN 0 ELSE ws

LEMMA StepKinds ==
  ASSUME TypeInv, NEW s \in Sessions, NEW k \in Kinds, Alone(s, k), SessionStep(s)
  PROVE  Ordinary(s) \/ Acquires(s) \/ Begins(s) \/ Runs(s) \/ Releases(s)
<1>k. "command" \in Kinds
  BY Names
<1>1. CASE StartAcquire(s)
  <2>1. CASE ws # 0 \/ started = MaxStarts
    <3>1. task'[s]["command"].pc = "idle" /\ UNCHANGED <<led, ws, started>>
      BY <1>1, <1>k, <2>1, PiecesAct DEF StartAcquire, NoTask
    <3> QED BY <3>1, Attempts DEF Ordinary
  <2>2. CASE ~(ws # 0 \/ started = MaxStarts)
    <3>1. /\ GoTo(s, "command", "save_idle") /\ led' = led /\ At(s, "command", "acquire")
          /\ started' = started + 1 /\ ws' = started + 1
      BY <1>1, <2>2 DEF StartAcquire
    <3> QED BY <1>k, <2>2, <3>1, PiecesAct DEF Acquires, Moves
  <2> QED BY <2>1, <2>2
<1>2. CASE StartIdle(s)
  <2>1. GoTo(s, "command", "save_running") /\ At(s, "command", "save_idle") /\ UNCHANGED <<ws, started>>
    BY <1>2 DEF StartIdle, UnchangedRepo
  <2> QED BY <1>2, <1>k, <2>1, PiecesAct, CommandWrites DEF Begins, Moves, Control
<1>3. CASE StartRunning(s)
  <2>1. End(s, "command") /\ At(s, "command", "save_running") /\ UNCHANGED <<ws, started>>
    BY <1>3 DEF StartRunning, UnchangedRepo
  <2> QED BY <1>3, <1>k, <2>1, PiecesAct, CommandWrites DEF Runs, NoTask, Control
<1>4. ASSUME NEW j \in Kinds, Release(s, j) PROVE Releases(s)
  <2>1. j = k
    BY <1>4, TaskIsAlone DEF TaskStep, Promotion
  <2>2. task[s][k].state.wf = led[s].wf /\ led[s].status \in {"COMPLETED", "FAILED"}
    BY <1>4, <2>1 DEF Release, At, Alone, Knows
  <2>3. task'[s]["command"].pc = "idle"
    <3>1. task'[s][k].pc = "idle" /\ RestIdle(s, k)
      BY <1>4, <2>1, PiecesAct, PiecesLeaveRest DEF Release, NoTask
    <3> QED BY <1>k, <3>1 DEF RestIdle, Alone, At
  <2> QED BY <1>4, <2>1, <2>2, <2>3 DEF Release, Releases
<1>5. ASSUME NEW j \in Kinds, TaskStep(s, j), ~Release(s, j) PROVE Ordinary(s)
  BY <1>5, TaskIsAlone, OrdinaryTask
<1> QED BY <1>1, <1>2, <1>3, <1>4, <1>5, OrdinaryCommand DEF SessionStep, Starting

\* Workflows are numbered as they take the workspace; a number that is not in a
\* ledger yet is the one under way.
Numbered ==
  /\ ws <= started
  /\ \A s \in Sessions : led[s].wf <= started /\ (led[s].status # "NONE" => led[s].wf # 0)
  /\ \A s, u \in Sessions : s # u /\ led[s].wf = led[u].wf => led[s].wf = 0
Fresh ==
  /\ \A s \in Sessions : At(s, "command", "save_idle") =>
       ws # 0 /\ \A u \in Sessions : led[u].wf # ws
  /\ \A s, u \in Sessions : At(s, "command", "save_idle") /\ At(u, "command", "save_idle") => s = u
  /\ \A s \in Sessions : At(s, "command", "save_running") => led[s].wf = ws /\ ws # 0

WorkspaceInv == Numbered /\ Fresh /\ OneActivePerWorkspace

LEMMA OthersStay ==
  ASSUME TypeInv, NEW s \in Sessions, SessionStep(s), NEW u \in Sessions \ {s}
  PROVE  /\ led'[u] = led[u]
         /\ At(u, "command", "save_idle")' <=> At(u, "command", "save_idle")
         /\ At(u, "command", "save_running")' <=> At(u, "command", "save_running")
BY StepLeavesOthers DEF Others, At

LEMMA WorkspaceStep ==
  ASSUME TypeInv, SessionInv, WorkspaceInv, NEW s \in Sessions, SessionStep(s)
  PROVE  WorkspaceInv'
<1>k. PICK k \in Kinds : Alone(s, k)
  BY DEF SessionInv
<1>n. \A u \in Sessions : led[u].wf \in Nat /\ ws \in Nat /\ started \in Nat
  BY Attempts
<1>o. \A u \in Sessions \ {s} :
        /\ led'[u] = led[u]
        /\ At(u, "command", "save_idle")' <=> At(u, "command", "save_idle")
        /\ At(u, "command", "save_running")' <=> At(u, "command", "save_running")
  BY OthersStay
<1>a. "NONE" \notin Active /\ {"COMPLETED", "FAILED", "IDLE"} \cap Active = {} /\ "RUNNING" \in Active
  BY DEF Active
<1>r. At(s, "command", "save_running") => led[s].status = "IDLE"
  <2>1. ASSUME At(s, "command", "save_running") PROVE k = "command"
    BY <1>k, <2>1, Names DEF Alone, At
  <2> QED BY <1>k, <2>1 DEF Alone, Knows, At
<1>1. CASE Ordinary(s)
  <2>1. \A u \in Sessions : /\ led'[u].wf = led[u].wf
                            /\ led'[u] = led[u] \/ led[u].status \in Active
                            /\ At(u, "command", "save_idle")' => At(u, "command", "save_idle")
                            /\ At(u, "command", "save_running")' => At(u, "command", "save_running")
    BY <1>1, <1>o DEF Ordinary, At
  <2>2. ws' = ws /\ started' = started
    BY <1>1 DEF Ordinary
  <2>3. Numbered'
    BY <1>a, <2>1, <2>2 DEF Numbered, WorkspaceInv
  <2>4. Fresh'
    BY <2>1, <2>2 DEF Fresh, WorkspaceInv
  <2>5. OneActivePerWorkspace'
    BY <2>1, <2>2 DEF OneActivePerWorkspace, WorkspaceInv
  <2> QED BY <2>3, <2>4, <2>5 DEF WorkspaceInv
<1>2. CASE Acquires(s)
  <2>1. \A u \in Sessions : /\ led'[u] = led[u]
                            /\ At(u, "command", "save_idle")' <=> u = s
                            /\ ~At(u, "command", "save_running")'
    BY <1>2, <1>o DEF Acquires, At, Fresh, WorkspaceInv
  <2>2. Numbered'
    BY <1>2, <1>n, <2>1 DEF Acquires, Numbered, WorkspaceInv
  <2>3. Fresh'
    BY <1>2, <1>n, <2>1 DEF Acquires, Fresh, Numbered, WorkspaceInv
  <2>4. OneActivePerWorkspace'
    BY <1>2, <1>a, <2>1 DEF Acquires, Numbered, OneActivePerWorkspace, WorkspaceInv
  <2> QED BY <2>2, <2>3, <2>4 DEF WorkspaceInv
<1>3. CASE Begins(s)
  <2>1. \A u \in Sessions : ~At(u, "command", "save_idle")' /\ led[u].wf # ws
    BY <1>3, <1>o DEF Begins, At, Fresh, WorkspaceInv
  <2>2. \A u \in Sessions \ {s} : led'[u] = led[u] /\ ~At(u, "command", "save_running")'
    BY <1>3, <1>o DEF Begins, Fresh, WorkspaceInv
  <2>3. Numbered'
    BY <1>3, <1>n, <2>1, <2>2 DEF Begins, Numbered, Fresh, WorkspaceInv
  <2>4. Fresh'
    BY <1>3, <2>1, <2>2 DEF Begins, Fresh, WorkspaceInv
  <2>5. OneActivePerWorkspace'
    BY <1>3, <1>a, <2>1, <2>2 DEF Begins, OneActivePerWorkspace, WorkspaceInv
  <2> QED BY <2>3, <2>4, <2>5 DEF WorkspaceInv
<1>4. CASE Runs(s)
  <2>1. led[s].wf = ws /\ ws # 0
    BY <1>4 DEF Runs, Fresh, WorkspaceInv
  <2>2. \A u \in Sessions : /\ led'[u].wf = led[u].wf /\ ~At(u, "command", "save_idle")'
                            /\ At(u, "command", "save_running")' => At(u, "command", "save_running")
    BY <1>4, <1>o, <2>1 DEF Runs, At, Fresh, WorkspaceInv
  <2>3. Numbered'
    BY <1>4, <1>o, <2>1, <2>2 DEF Runs, Numbered, WorkspaceInv
  <2>4. Fresh'
    BY <1>4, <2>2 DEF Runs, Fresh, WorkspaceInv
  <2>5. OneActivePerWorkspace'
    BY <1>4, <1>o, <2>1 DEF Runs, OneActivePerWorkspace, WorkspaceInv
  <2> QED BY <2>3, <2>4, <2>5 DEF WorkspaceInv
<1>5. CASE Releases(s)
  <2>1. \A u \in Sessions : /\ led'[u] = led[u]
                            /\ At(u, "command", "save_idle")' => u # s /\ At(u, "command", "save_idle")
                            /\ At(u, "command", "save_running")' => u # s /\ At(u, "command", "save_running")
    BY <1>5, <1>o DEF Releases, At
  <2>2. led[s].wf # 0
    BY <1>5 DEF Releases, Numbered, WorkspaceInv
  <2>3. \A u \in Sessions \ {s} : led[u].wf = ws => ws' = ws
    BY <1>5, <2>2 DEF Releases, Numbered, WorkspaceInv
  <2>4. Numbered'
    BY <1>5, <1>n, <2>1 DEF Releases, Numbered, WorkspaceInv
  <2>5. Fresh'
    <3>1. \A u \in Sessions : At(u, "command", "save_idle")' => ws' = ws
      BY <1>5, <2>1 DEF Releases, Fresh, WorkspaceInv
    <3> QED BY <2>1, <2>3, <3>1 DEF Fresh, WorkspaceInv
  <2>6. OneActivePerWorkspace'
    BY <1>5, <1>a, <2>1, <2>3 DEF Releases, OneActivePerWorkspace, WorkspaceInv
  <2> QED BY <2>4, <2>5, <2>6 DEF WorkspaceInv
<1> QED BY <1>k, <1>1, <1>2, <1>3, <1>4, <1>5, StepKinds

\* What holds in every state of a run in which nobody answers the recovery question.
ControlInv == TypeInv /\ Begun /\ SessionInv /\ WorkspaceInv

LEMMA ControlInit == Init => ControlInv
<1> SUFFICES ASSUME Init PROVE ControlInv
  OBVIOUS
<1>1. Begun
  BY Names DEF Init, Begun, At, NoTask
<1>2. WorkspaceInv
  <2>1. \A s \in Sessions : led[s].wf = 0 /\ led[s].status = "NONE" /\ task[s]["command"].pc = "idle"
    BY Names DEF Init, NoState, NoTask
  <2> QED BY <2>1 DEF Init, WorkspaceInv, Numbered, Fresh, OneActivePerWorkspace, At, Active
<1> QED BY <1>1, <1>2, TypeInit, SessionInvInit DEF ControlInv

LEMMA ControlStep == ASSUME ~AsksRecovery, ControlInv, [Next]_vars PROVE ControlInv'
<1>1. TypeInv' /\ Begun' /\ SessionInv'
  BY TypeStep, BegunStep, SessionInvStep DEF ControlInv
<1>2. CASE Edit \/ UNCHANGED vars
  BY <1>1, <1>2 DEF Edit, vars, ControlInv, WorkspaceInv, Numbered, Fresh, OneActivePerWorkspace, At
<1>3. ASSUME NEW s \in Sessions, SessionStep(s) PROVE WorkspaceInv'
  BY <1>3, WorkspaceStep DEF ControlInv
<1> QED BY <1>1, <1>2, <1>3 DEF Next, SessionStep, ControlInv

LEMMA ControlInvariant == ASSUME ~AsksRecovery PROVE Spec => []ControlInv
<1>1. ControlInv /\ [Next]_vars => ControlInv'
  BY ControlStep
<1> QED BY <1>1, ControlInit, PTL DEF Spec

\* "Git common-dir lock" (TRD D-016): whatever the sessions that share a Git workspace
\* do and whenever their processes end, at most one has a workflow that is not finished.
THEOREM WorkspaceIsExclusive == ASSUME ~AsksRecovery PROVE Spec => []OneActivePerWorkspace
<1>1. ControlInv => OneActivePerWorkspace
  BY DEF ControlInv, WorkspaceInv
<1> QED BY <1>1, ControlInvariant, PTL

\* No task of a session writes a state it read before the workflow moved on.
THEOREM WritesFollow == ASSUME ~AsksRecovery PROVE Spec => WritesAreCurrent
<1> DEFINE Current(s) ==
      led'[s].wf = led[s].wf =>
        /\ led'[s].attempt >= led[s].attempt
        /\ led[s].status \in {"COMPLETED", "FAILED"} => led'[s].status = led[s].status
<1>1. ASSUME ControlInv, NEW s \in Sessions, SessionStep(s), NEW u \in Sessions PROVE Current(u)
  <2>n. led[u].attempt \in Nat
    BY <1>1, Attempts DEF ControlInv
  <2>1. CASE u # s
    BY <1>1, <2>n, <2>1, OthersStay DEF ControlInv
  <2>2. CASE u = s
    <3>1. PICK k \in Kinds : Alone(s, k)
      BY <1>1 DEF ControlInv, SessionInv
    <3>2. At(s, "command", "save_idle") => led[s].wf # ws
      BY <1>1 DEF ControlInv, WorkspaceInv, Fresh
    <3>3. At(s, "command", "save_running") => led[s].status = "IDLE" /\ led[s].attempt = 0
      <4>1. ASSUME At(s, "command", "save_running") PROVE k = "command"
        BY <3>1, <4>1, Names DEF Alone, At
      <4> QED BY <3>1, <4>1 DEF Alone, Knows, At
    <3>4. Ordinary(s) \/ Acquires(s) \/ Begins(s) \/ Runs(s) \/ Releases(s)
      BY <1>1, <3>1, StepKinds DEF ControlInv
    <3> QED BY <2>2, <2>n, <3>2, <3>3, <3>4 DEF Ordinary, Acquires, Begins, Runs, Releases, Active
  <2> QED BY <2>1, <2>2
<1>2. ControlInv /\ [Next]_vars => [\A s \in Sessions : Current(s)]_vars
  <2> SUFFICES ASSUME ControlInv, Next, NEW s \in Sessions PROVE Current(s)
    OBVIOUS
  <2>1. CASE Edit
    <3>1. led[s].attempt \in Nat
      BY Attempts DEF ControlInv
    <3> QED BY <2>1, <3>1 DEF Edit
  <2> QED BY <1>1, <2>1 DEF Next, SessionStep
<1> QED BY <1>2, ControlInvariant, PTL DEF Spec, WritesAreCurrent
-----------------------------------------------------------------------------
(* What is in the workspace.                                               *)

Parent(c) == git.commits[c].parent

\* A state whose candidate was prepared on the HEAD of its fingerprint has a
\* fingerprint of the candidate's files, if they were not edited before it was taken.
Bound(x) ==
  x.prep # 0 /\ x.prep \notin hist.loose =>
    (x.fp.head = Parent(x.prep) => x.fp.work = Tree(x.prep))

IsLate(s, k) == <<s, k>> \in hist.late

\* Between the acceptance commands and the candidate the files stay but for an edit,
\* unless a rollback of a workflow that is finished leaves nothing to prepare.
Tested(s, k) ==
  task[s][k].pc \in TestedPcs /\ ~IsLate(s, k) => (HasChanges => git.work = task[s][k].seen)
Prepared(s, k) ==
  At(s, k, "review") =>
    LET c == task[s][k].prep IN
    /\ ~IsLate(s, k) => Tree(c) = task[s][k].seen
    /\ \/ c \in hist.loose
       \/ git.head = Parent(c) /\ git.index = Tree(c) /\ git.work = Tree(c)
       \/ ~HasChanges /\ Tree(c) = Tree(Parent(c))
Tagged(s, k) == At(s, k, "complete") => TagOf(task[s][k].state) = task[s][k].state.prep
TaskContent(s, k) ==
  /\ Tested(s, k) /\ Prepared(s, k) /\ Tagged(s, k)
  /\ task[s][k].pc \in PromotePcs => Bound(task[s][k].state)

ContentInv ==
  /\ HistInv
  /\ \A s \in Sessions, k \in Kinds : TaskContent(s, k)
  /\ \A s \in Sessions : Bound(led[s])
  /\ CompletedIsTagged

LEMMA LoneActive ==
  ASSUME ControlInv, NEW s \in Sessions, NEW u \in Sessions, led[s].status \in Active, led[u].status \in Active
  PROVE  s = u
<1>1. led[s].wf = ws /\ led[u].wf = ws /\ led[s].wf # 0
  BY DEF ControlInv, WorkspaceInv, OneActivePerWorkspace, Numbered, Active
<1> QED BY <1>1 DEF ControlInv, WorkspaceInv, Numbered

WorkPcs == UnlockedPcs \cup PromotePcs \cup {"prepare", "review", "restore", "failed"}

LEMMA WorkersAreActive ==
  ASSUME SessionInv, NEW s \in Sessions, NEW k \in Kinds, task[s][k].pc \in WorkPcs
  PROVE  led[s].status \in Active /\ Alone(s, k)
<1>1. PICK j \in Kinds : Alone(s, j)
  BY DEF SessionInv
<1>2. j = k
  BY <1>1 DEF Alone, At, WorkPcs, UnlockedPcs, ApplyPcs, PromotePcs
<1> QED BY <1>1, <1>2 DEF Alone, Knows, Active, WorkPcs

\* The steps that touch the repository.
GitStep(s, k) ==
  (Prepare(s, k) /\ HasChanges) \/ PromoteHead(s, k) \/ PromoteTag(s, k) \/ Restore(s, k)

LEMMA GitSteps ==
  ASSUME NEW s \in Sessions, SessionStep(s)
  PROVE  git' = git \/ Rollback(s) \/ \E k \in Kinds : GitStep(s, k)
<1> USE DEF UnchangedRepo
<1>1. CASE Human(s)
  BY <1>1 DEF Human, StartHead, Approve, Pause, Resume, Retry, Reject, Recover,
              RecoverVerify, RecoverRetry, RecoverRestore, RecoverAbort
<1>2. CASE Starting(s) \/ Restart(s)
  BY <1>2 DEF Starting, StartClean, StartAcquire, StartIdle, StartRunning, Restart
<1>3. ASSUME NEW result, TurnStops(s, result) PROVE git' = git
  BY <1>3 DEF TurnStops
<1>4. ASSUME NEW k \in Kinds, Verification(s, k) PROVE git' = git \/ GitStep(s, k)
  <2>1. CASE Prepare(s, k)
    BY <2>1 DEF Prepare, GitStep
  <2> QED BY <1>4, <2>1
          DEF Verification, Discard, ReportedFailure, BeginVerify, RunCommands,
              ApplyCommands, ApplyGate, ReadScope, ScopeReview, SettleLock, Review
<1>5. ASSUME NEW k \in Kinds, Promotion(s, k) \/ Restore(s, k) \/ Fail(s, k)
      PROVE  git' = git \/ GitStep(s, k)
  BY <1>5 DEF Promotion, Compare, Complete, Release, Fail, GitStep
<1> QED BY <1>1, <1>2, <1>3, <1>4, <1>5 DEF SessionStep, TaskStep

LEMMA GitWorkers ==
  ASSUME SessionInv, NEW s \in Sessions, NEW k \in Kinds, GitStep(s, k)
  PROVE  led[s].status \in Active /\ Alone(s, k)
BY WorkersAreActive DEF GitStep, Prepare, PromoteHead, PromoteTag, Restore, At, WorkPcs, PromotePcs

\* Commits are added and never rewritten.
LEMMA KeptCommits ==
  ASSUME TypeInv, NEW s \in Sessions, SessionStep(s)
  PROVE  \A c \in Revisions : git'.commits[c] = git.commits[c]
<1>1. CASE git' = git
  BY <1>1
<1>2. CASE Rollback(s)
  BY <1>2 DEF Rollback, TypeInv, Repositories
<1>3. ASSUME NEW k \in Kinds, PromoteHead(s, k) \/ PromoteTag(s, k) \/ Restore(s, k)
      PROVE  git'.commits = git.commits
  BY <1>3 DEF PromoteHead, PromoteTag, Restore, TypeInv, Repositories
<1>4. ASSUME NEW k \in Kinds, Prepare(s, k), HasChanges
      PROVE  \A c \in Revisions : git'.commits[c] = git.commits[c]
  <2>1. git'.commits = Append(git.commits, [tree |-> git.work, parent |-> git.head])
    BY <1>4 DEF Prepare, TypeInv, Repositories
  <2>2. ASSUME NEW S, NEW q \in Seq(S), NEW e PROVE \A c \in 1..Len(q) : Append(q, e)[c] = q[c]
    OBVIOUS
  <2>3. git.commits \in Seq([tree: Contents, parent: Nat])
    BY DEF TypeInv, Repositories
  <2> QED BY <2>1, <2>2, <2>3 DEF Revisions, LastCommit
<1> QED BY <1>1, <1>2, <1>3, <1>4, GitSteps DEF GitStep

BoundNext(x) ==
  x.prep # 0 /\ x.prep \notin hist'.loose =>
    (x.fp.head = git'.commits[x.prep].parent => x.fp.work = git'.commits[x.prep].tree)

LEMMA BoundKept ==
  ASSUME TypeInv, HistInv, NEW s \in Sessions, SessionStep(s), NEW x \in GoodStates(LastCommit), Bound(x)
  PROVE  BoundNext(x)
<1>1. x.prep \in 0..LastCommit /\ LastCommit \in Nat
  BY LastCommitType DEF GoodStates
<1>2. x.prep # 0 => x.prep \in Revisions
  BY <1>1 DEF Revisions
<1> QED BY <1>2, KeptCommits, HistSteps DEF Bound, BoundNext, Parent, Tree

\* What a rollback does to the files: they are those of a commit, in the index too.
LEMMA RollbackIsClean ==
  ASSUME TypeInv, NEW s \in Sessions, Rollback(s)
  PROVE  ~HasChanges /\ ~HasChanges' /\ git'.tags = git.tags /\ git'.commits = git.commits
<1>1. PICK c \in led[s].versions :
        git' = [git EXCEPT !.head = c, !.index = Tree(c), !.work = Tree(c)]
  BY DEF Rollback
<1> DEFINE tree == Tree(c)
<1>2. git'.head = c /\ git'.commits = git.commits /\ git'.tags = git.tags
      /\ git'.index = tree /\ git'.work = tree
  <2> HIDE DEF tree
  <2>1. git' = [git EXCEPT !.head = c, !.index = tree, !.work = tree]
    BY <1>1 DEF tree
  <2> QED BY <2>1 DEF TypeInv, Repositories
<1> QED BY <1>2 DEF Rollback, HasChanges, Tree

LEMMA OthersContent ==
  ASSUME ControlInv, ContentInv, NEW s \in Sessions, SessionStep(s), NEW u \in Sessions \ {s}
  PROVE  (\A j \in Kinds : TaskContent(u, j)') /\ Bound(led[u])'
<1> USE DEF ControlInv
<1>o. led'[u] = led[u] /\ task'[u] = task[u]
  BY StepLeavesOthers DEF Others
<1>1. Bound(led[u])'
  <2>1. led[u] \in GoodStates(LastCommit) /\ Bound(led[u])
    BY ElementTypes DEF ContentInv
  <2> QED BY <1>o, <2>1, BoundKept DEF ContentInv, Bound, BoundNext, Parent, Tree
<1>2. ASSUME NEW j \in Kinds PROVE TaskContent(u, j)'
  <2> DEFINE t == task[u][j]
  <2>c. TaskContent(u, j)
    BY DEF ContentInv
  <2>t. t \in GoodTasks(LastCommit) /\ t.state \in GoodStates(LastCommit)
    BY ElementTypes DEF GoodTasks
  <2>g. t.pc \in WorkPcs => git' = git \/ Rollback(s)
    <3>1. ASSUME t.pc \in WorkPcs, NEW k \in Kinds, GitStep(s, k) PROVE FALSE
      BY <3>1, WorkersAreActive, GitWorkers, LoneActive
    <3> QED BY <3>1, GitSteps
  <2>h. hist'.loose = hist.loose /\ IsLate(u, j)' = IsLate(u, j)
    BY HistSteps DEF IsLate, ContentInv
  <2>w. TestedPcs \cup {"review"} \cup PromotePcs \subseteq WorkPcs /\ "complete" \in PromotePcs
    BY DEF TestedPcs, WorkPcs, UnlockedPcs, ApplyPcs, PromotePcs
  <2>1. Tested(u, j)'
    <3>1. CASE t.pc \in TestedPcs /\ git' = git
      BY <1>o, <2>c, <2>h, <3>1 DEF TaskContent, Tested, HasChanges, Tree
    <3>2. CASE Rollback(s)
      BY <3>2, RollbackIsClean DEF Tested
    <3> QED BY <1>o, <2>g, <2>w, <3>1, <3>2 DEF Tested
  <2>2. Prepared(u, j)'
    <3>0. CASE t.pc # "review"
      BY <1>o, <3>0 DEF Prepared, At
    <3>1. CASE t.pc = "review" /\ git' = git
      BY <1>o, <2>c, <2>h, <3>1 DEF TaskContent, Prepared, At, HasChanges, Tree, Parent
    <3>2. CASE t.pc = "review" /\ Rollback(s)
      <4>1. /\ ~HasChanges /\ ~HasChanges' /\ git'.commits = git.commits
        BY <3>2, RollbackIsClean
      <4>2. /\ ~IsLate(u, j) => Tree(t.prep) = t.seen
            /\ t.prep \in hist.loose \/ Tree(t.prep) = Tree(Parent(t.prep))
        BY <2>c, <3>2, <4>1 DEF TaskContent, Prepared, At, HasChanges
      <4> QED BY <1>o, <2>h, <4>1, <4>2 DEF Prepared, Tree, Parent
    <3> QED BY <2>g, <2>w, <3>0, <3>1, <3>2
  <2>3. Tagged(u, j)'
    <3>1. t.pc = "complete" => git'.tags = git.tags
      BY <2>g, <2>w, RollbackIsClean
    <3> QED BY <1>o, <2>c, <3>1 DEF TaskContent, Tagged, At, TagOf
  <2>4. task'[u][j].pc \in PromotePcs => Bound(task[u][j].state)'
    BY <1>o, <2>c, <2>t, BoundKept DEF ContentInv, TaskContent, Bound, BoundNext, Parent, Tree
  <2> QED BY <2>1, <2>2, <2>3, <2>4 DEF TaskContent
<1> QED BY <1>1, <1>2

ContentPcs == TestedPcs \cup {"review"} \cup PromotePcs

LEMMA NoContent ==
  ASSUME NEW s \in Sessions, NEW k \in Kinds, task'[s][k].pc \notin ContentPcs
  PROVE  TaskContent(s, k)'
BY DEF ContentPcs, TaskContent, Tested, Prepared, Tagged, At, PromotePcs

LEMMA SameBound ==
  ASSUME TypeInv, HistInv, NEW s \in Sessions, SessionStep(s), NEW x \in GoodStates(LastCommit), Bound(x),
         NEW y, SameContent(y, x) \/ y = x \/ y.prep = 0 \/ (y.fp = x.fp /\ y.prep = x.prep)
  PROVE  BoundNext(y)
BY BoundKept, HistSteps DEF Bound, BoundNext, SameContent

\* The candidate is made of the files the commands ran on.
LEMMA PrepareContent ==
  ASSUME ControlInv, ContentInv, NEW s \in Sessions, NEW k \in Kinds, Prepare(s, k), HasChanges
  PROVE  Prepared(s, k)'
<1> USE DEF ControlInv
<1> DEFINE t == task[s][k]
           u == task'[s][k]
           c == Len(git.commits) + 1
           commit == [tree |-> git.work, parent |-> git.head]
<1>1. u.pc = "review" /\ u.prep = c /\ u.seen = t.seen
  BY TaskTakes
<1>2. IsLate(s, k) \/ git.work = t.seen
  BY DEF ContentInv, TaskContent, Tested, TestedPcs, Prepare, At
<1>h. IsLate(s, k)' = IsLate(s, k)
  BY DEF IsLate, Prepare
<1>3. /\ git'.commits = Append(git.commits, commit)
      /\ git'.head = git.head /\ git'.index = git.work /\ git'.work = git.work
  BY DEF Prepare, TypeInv, Repositories
<1>4. Append(git.commits, commit)[c] = commit
  <2>1. ASSUME NEW S, NEW q \in Seq(S), NEW e PROVE Append(q, e)[Len(q) + 1] = e
    OBVIOUS
  <2>2. git.commits \in Seq([tree: Contents, parent: Nat])
    BY DEF TypeInv, Repositories
  <2> QED BY <2>1, <2>2
<1>5. git'.commits[c].tree = git.work /\ git'.commits[c].parent = git.head
  BY <1>3, <1>4
<1> HIDE DEF c, commit
<1> QED BY <1>1, <1>2, <1>3, <1>5, <1>h DEF Prepared, Tree, Parent

\* A fingerprint taken at the review is one of the candidate's files.
LEMMA ReviewContent ==
  ASSUME ControlInv, ContentInv, NEW s \in Sessions, NEW k \in Kinds, Review(s, k), SessionStep(s),
         NEW y, y.fp = Fingerprint, y.prep = task[s][k].prep
  PROVE  BoundNext(y)
<1> USE DEF ControlInv
<1> DEFINE c == task[s][k].prep
<1>1. \/ c \in hist.loose
      \/ git.head = Parent(c) /\ git.index = Tree(c) /\ git.work = Tree(c)
      \/ ~HasChanges /\ Tree(c) = Tree(Parent(c))
  BY DEF ContentInv, TaskContent, Prepared, Review, At
<1>2. c \in Revisions
  BY ElementTypes DEF GoodTasks, Review, At, Revisions
<1>3. y.fp.head = git.head /\ y.fp.work = git.work /\ y.prep = c
  BY DEF Fingerprint
<1>4. git'.commits[c] = git.commits[c]
  BY <1>2, KeptCommits
<1>5. c \notin hist'.loose => (git.head = Parent(c) => git.work = Tree(c))
  BY <1>1, HistSteps DEF ContentInv, HasChanges, Tree
<1> HIDE DEF c
<1> QED BY <1>3, <1>4, <1>5 DEF BoundNext, Parent, Tree

LEMMA TaskOwnContent ==
  ASSUME ControlInv, ContentInv, NEW s \in Sessions, NEW k \in Kinds, TaskStep(s, k)
  PROVE  (\A j \in Kinds : TaskContent(s, j)') /\ Bound(led[s])'
<1> USE DEF ControlInv
<1> DEFINE t == task[s][k]
           u == task'[s][k]
           x == led[s]
           y == led'[s]
<1>s. SessionStep(s)
  BY DEF SessionStep
<1>a. Alone(s, k)
  BY TaskIsAlone DEF SessionInv
<1>j. \A j \in Kinds \ {k} : TaskContent(s, j)'
  BY <1>a, TaskLeavesRest, NoContent
     DEF Alone, RestIdle, At, ContentPcs, TestedPcs, PromotePcs
<1>t. /\ t \in GoodTasks(LastCommit) /\ t.state \in GoodStates(LastCommit) /\ x \in GoodStates(LastCommit)
  BY ElementTypes DEF GoodTasks
<1>c. TaskContent(s, k) /\ Bound(x) /\ Knows(k, t, x) /\ HistInv
  BY <1>a DEF ContentInv, Alone
<1>h. t.pc # "commands" => hist' = hist
  <2>1. ASSUME NEW j \in Kinds, NEW passed, RunCommands(s, j, passed) PROVE j = k
    BY <1>a, <2>1 DEF Alone, RunCommands, At
  <2> QED BY <1>c, <1>s, <2>1, HistSteps DEF RunCommands, At
<1> SUFFICES TaskContent(s, k)' /\ BoundNext(y)
  BY <1>j DEF Bound, BoundNext, Parent, Tree
<1>n. ASSUME u.pc \notin ContentPcs PROVE TaskContent(s, k)'
  BY <1>n, NoContent
<1>i. End(s, k) => u.pc \notin ContentPcs
  BY PiecesAct DEF NoTask, ContentPcs, TestedPcs, PromotePcs
<1>b. \/ y = x
      \/ t.pc \in UnlockedPcs \cup {"failed"} /\ (SameContent(y, t.state) \/ y.prep = 0)
      \/ t.pc = "complete" /\ y.fp = t.state.fp /\ y.prep = t.state.prep
      \/ Review(s, k) /\ y.fp = Fingerprint /\ y.prep = t.prep
      => BoundNext(y)
  <2>1. t.pc \in UnlockedPcs \cup {"failed"} => Bound(t.state)
    BY <1>c DEF Knows, SameWork, SameContent, Bound
  <2>2. t.pc = "complete" => Bound(t.state)
    BY <1>c DEF TaskContent, PromotePcs
  <2> QED BY <1>s, <1>t, <1>c, <2>1, <2>2, SameBound, ReviewContent
<1>r. ASSUME NEW reason, NEW escalate, Rework(s, k, reason, escalate), t.pc \in UnlockedPcs
      PROVE  TaskContent(s, k)' /\ BoundNext(y)
  <2>1. SameContent(y, t.state) \/ y.prep = 0
    BY <1>r, TaskWrites
  <2>2. End(s, k)
    BY <1>r DEF Rework
  <2> QED BY <1>b, <1>i, <1>n, <1>r, <2>1, <2>2
\* On to the next place of the verification: neither the files nor what was seen change.
<1>v. ASSUME t.pc \in TestedPcs, u.pc \in TestedPcs, u.seen = t.seen, UNCHANGED <<git, led>>
      PROVE  TaskContent(s, k)' /\ BoundNext(y)
  <2>1. Tested(s, k)'
    <3>1. hist' = hist
      BY <1>h, <1>v DEF TestedPcs
    <3> QED BY <1>v, <1>c, <3>1 DEF TaskContent, Tested, IsLate, HasChanges, Tree
  <2>2. u.pc \notin {"review"} \cup PromotePcs
    BY <1>v DEF TestedPcs, PromotePcs
  <2> QED BY <1>b, <1>v, <2>1, <2>2 DEF TaskContent, Prepared, Tagged, At, PromotePcs
<1>p. /\ {"tested", "gate", "archive", "settle"} \subseteq UnlockedPcs \cap TestedPcs
      /\ {"fail", "begin", "commands"} \subseteq UnlockedPcs /\ "prepare" \in TestedPcs
      /\ {"commands", "release", "failed", "idle"} \cap ContentPcs = {}
      /\ {"approve", "head", "tag", "complete"} = PromotePcs /\ PromotePcs \cap TestedPcs = {}
      /\ "review" \notin TestedPcs \cup PromotePcs
  BY DEF UnlockedPcs, ApplyPcs, TestedPcs, ContentPcs, PromotePcs
<1>1. CASE Discard(s, k)
  BY <1>1, <1>b, <1>i, <1>n DEF Discard
<1>2. CASE ReportedFailure(s, k)
  BY <1>2, <1>p, <1>r DEF ReportedFailure, Applies, At
<1>3. CASE BeginVerify(s, k)
  BY <1>3, <1>b, <1>n, <1>p, TaskWrites DEF BeginVerify, Applies, At
<1>4. ASSUME NEW passed, RunCommands(s, k, passed) PROVE TaskContent(s, k)' /\ BoundNext(y)
  <2>1. u.pc = "tested" /\ u.seen = git.work /\ UNCHANGED <<git, led>>
    BY <1>4, TaskTakes DEF RunCommands, UnchangedRepo
  <2> QED BY <1>b, <2>1 DEF TaskContent, Tested, Prepared, Tagged, At, PromotePcs
<1>5. CASE ApplyCommands(s, k)
  <2>1. t.pc = "tested" /\ git' = git
    BY <1>5 DEF ApplyCommands, Applies, At, UnchangedRepo
  <2>2. CASE t.ok
    BY <1>5, <1>p, <1>v, <2>1, <2>2, PiecesAct DEF ApplyCommands, Moves
  <2>3. CASE ~t.ok
    BY <1>5, <1>p, <1>r, <2>1, <2>3 DEF ApplyCommands
  <2> QED BY <2>2, <2>3
<1>6. ASSUME NEW passed, ApplyGate(s, k, passed) PROVE TaskContent(s, k)' /\ BoundNext(y)
  <2>1. t.pc = "gate" /\ git' = git
    BY <1>6 DEF ApplyGate, Applies, At, UnchangedRepo
  <2>2. CASE passed
    BY <1>6, <1>p, <1>v, <2>1, <2>2, PiecesAct DEF ApplyGate, Moves
  <2>3. CASE ~passed
    BY <1>6, <1>p, <1>r, <2>1, <2>3 DEF ApplyGate
  <2> QED BY <2>2, <2>3
<1>7. CASE ReadScope(s, k)
  BY <1>7, <1>p, <1>v, TaskTakes DEF ReadScope, Applies, At, UnchangedRepo
<1>8. CASE ScopeReview(s, k)
  BY <1>8, <1>b, <1>i, <1>n, <1>p, TaskWrites DEF ScopeReview, Applies, At
<1>9. CASE SettleLock(s, k)
  BY <1>9, <1>p, <1>v, PiecesAct DEF SettleLock, Applies, At, Moves, UnchangedRepo
<1>10. CASE Prepare(s, k)
  <2>1. CASE HasChanges
    <3>1. Prepared(s, k)' /\ u.pc = "review" /\ y = x
      BY <1>10, <2>1, PrepareContent, TaskTakes DEF Prepare
    <3> QED BY <1>b, <1>p, <3>1 DEF TaskContent, Tested, Tagged, At
  <2>2. CASE ~HasChanges
    BY <1>10, <1>b, <1>i, <1>n, <2>2 DEF Prepare
  <2> QED BY <2>1, <2>2
<1>11. CASE Review(s, k)
  <2>1. CASE RequireApproval
    BY <1>11, <1>b, <1>i, <1>n, <2>1, TaskWrites DEF Review
  <2>2. CASE ~RequireApproval
    <3>1. u.pc = "approve" /\ u.state.fp = Fingerprint /\ u.state.prep = t.prep /\ y = x
      BY <1>11, <2>2, TaskTakes DEF Review
    <3>2. BoundNext(u.state)
      BY <1>11, <1>s, <3>1, ReviewContent
    <3> QED BY <1>b, <1>p, <3>1, <3>2
            DEF TaskContent, Tested, Prepared, Tagged, At, Bound, BoundNext, Parent, Tree
  <2> QED BY <2>1, <2>2
\* On to the next place of the promotion.
<1>m. ASSUME t.pc \in PromotePcs, NEW pc \in PromotePcs, Moves(s, k, pc), y = x, Tagged(s, k)'
      PROVE  TaskContent(s, k)' /\ BoundNext(y)
  <2>1. Bound(t.state) /\ u.state = t.state /\ u.pc \in PromotePcs
    BY <1>c, <1>m DEF TaskContent, Moves
  <2>2. BoundNext(u.state)
    BY <1>c, <1>s, <1>t, <2>1, BoundKept
  <2> QED BY <1>b, <1>m, <1>p, <2>1, <2>2
          DEF TaskContent, Tested, Prepared, At, Bound, BoundNext, Parent, Tree
<1>12. CASE Compare(s, k)
  <2>1. t.pc = "approve" /\ y = x
    BY <1>12 DEF Compare, At
  <2>2. CASE Moves(s, k, "head")
    BY <1>m, <1>p, <2>1, <2>2 DEF Moves, Tagged, At
  <2>3. GoTo(s, k, "head") \/ End(s, k)
    BY <1>12 DEF Compare
  <2> QED BY <1>b, <1>i, <1>n, <2>1, <2>2, <2>3, PiecesAct
<1>13. CASE PromoteHead(s, k)
  <2>1. t.pc = "head" /\ y = x
    BY <1>13 DEF PromoteHead, At
  <2>2. CASE Moves(s, k, "complete") /\ TagOf(t.state) = t.state.prep /\ git' = git
    BY <1>m, <1>p, <2>1, <2>2 DEF Moves, Tagged, At, TagOf
  <2>3. CASE Moves(s, k, "tag")
    BY <1>m, <1>p, <2>1, <2>3 DEF Moves, Tagged, At
  <2>4. \/ GoTo(s, k, "complete") /\ TagOf(t.state) = t.state.prep /\ git' = git
        \/ GoTo(s, k, "tag")
        \/ End(s, k)
    BY <1>13 DEF PromoteHead
  <2> QED BY <1>b, <1>i, <1>n, <2>1, <2>2, <2>3, <2>4, PiecesAct
<1>14. CASE PromoteTag(s, k)
  <2>1. t.pc = "tag" /\ y = x /\ Moves(s, k, "complete")
    BY <1>14, PiecesAct DEF PromoteTag, At
  <2>2. git'.tags[<<t.state.wf, t.state.attempt>>] = t.state.prep
    <3>1. <<t.state.wf, t.state.attempt>> \in Ids \X Numbers
      BY <1>t DEF GoodStates, States
    <3> QED BY <1>14, <3>1 DEF PromoteTag, TypeInv, Repositories
  <2> QED BY <1>m, <1>p, <2>1, <2>2 DEF Moves, Tagged, TagOf
<1>15. CASE Complete(s, k)
  <2>1. t.pc = "complete" /\ GoTo(s, k, "release")
    BY <1>15 DEF Complete, At
  <2>2. u.pc = "release"
    BY <2>1, PiecesAct DEF Moves
  <2>3. y.fp = t.state.fp /\ y.prep = t.state.prep
    BY <1>15, TaskWrites
  <2> QED BY <1>b, <1>n, <1>p, <2>1, <2>2, <2>3
<1>16. CASE Release(s, k)
  BY <1>16, <1>b, <1>i, <1>n DEF Release
<1>17. CASE Restore(s, k)
  <2>1. y = x /\ (GoTo(s, k, "failed") \/ End(s, k))
    BY <1>17 DEF Restore
  <2> QED BY <1>b, <1>i, <1>n, <1>p, <2>1, PiecesAct DEF Moves
<1>18. CASE Fail(s, k)
  <2>1. t.pc = "failed" /\ GoTo(s, k, "release")
    BY <1>18 DEF Fail, At
  <2>2. u.pc = "release"
    BY <2>1, PiecesAct DEF Moves
  <2>3. SameContent(y, t.state)
    BY <1>18, TaskWrites
  <2> QED BY <1>b, <1>n, <1>p, <2>1, <2>2, <2>3
<1>19. CASE Verification(s, k)
  BY <1>1, <1>2, <1>3, <1>4, <1>5, <1>6, <1>7, <1>8, <1>9, <1>10, <1>11, <1>19 DEF Verification
<1> QED BY <1>12, <1>13, <1>14, <1>15, <1>16, <1>17, <1>18, <1>19 DEF TaskStep, Promotion

\* The files stay; what a task knew of them stays true.
LEMMA SameContentKept ==
  ASSUME NEW s, NEW j, git' = git, hist' = hist, task'[s][j] = task[s][j], TaskContent(s, j)
  PROVE  TaskContent(s, j)'
<1>1. Tested(s, j)'
  BY DEF TaskContent, Tested, IsLate, HasChanges, Tree
<1>2. Prepared(s, j)'
  BY DEF TaskContent, Prepared, IsLate, At, HasChanges, Tree, Parent
<1>3. Tagged(s, j)'
  BY DEF TaskContent, Tagged, At, TagOf
<1>4. (task[s][j].pc \in PromotePcs => Bound(task[s][j].state))'
  BY DEF TaskContent, Bound, Tree, Parent
<1> QED BY <1>1, <1>2, <1>3, <1>4 DEF TaskContent

\* Every task of a session whose workflow is finished, and so rolls back, is idle.
LEMMA CommandOwnContent ==
  ASSUME ControlInv, ContentInv, NEW s \in Sessions,
         \/ Human(s) \/ Starting(s) \/ Restart(s)
         \/ \E result \in {"pass", "fail", "none"} : TurnStops(s, result)
  PROVE  (\A j \in Kinds : TaskContent(s, j)') /\ Bound(led[s])'
<1> USE DEF ControlInv
<1> DEFINE x == led[s]
           y == led'[s]
<1>s. SessionStep(s)
  BY DEF SessionStep
<1>k. {"turn", "command", "verify", "prompt"} \subseteq Kinds
  BY Names
<1>x. x \in GoodStates(LastCommit) /\ Bound(x) /\ HistInv
  BY ElementTypes DEF ContentInv
<1>h. hist' = hist
  BY DEF UnchangedRepo, Human, StartHead, Approve, Pause, Resume, Retry, Reject, Recover, Rollback,
         RecoverVerify, RecoverRetry, RecoverRestore, RecoverAbort, Starting, StartClean,
         StartAcquire, StartIdle, StartRunning, Restart, TurnStops
<1> SUFFICES (\A j \in Kinds : TaskContent(s, j)') /\ BoundNext(y)
  BY DEF Bound, BoundNext, Parent, Tree
<1>y. ASSUME SameContent(y, x) \/ y = x \/ y.prep = 0 \/ (y.fp = x.fp /\ y.prep = x.prep)
      PROVE  BoundNext(y)
  BY <1>s, <1>x, <1>y, SameBound
<1>f. ASSUME git' = git, NEW j \in Kinds, task'[s][j] = task[s][j] PROVE TaskContent(s, j)'
  BY <1>f, <1>h, SameContentKept DEF ContentInv
\* One task begins; the others stay.
<1>b. ASSUME git' = git, NEW k \in Kinds, RestIdle(s, k), task'[s][k].pc \notin ContentPcs
      PROVE  \A j \in Kinds : TaskContent(s, j)'
  BY <1>b, <1>f, NoContent DEF RestIdle
<1>p. {"clean", "acquire", "save_idle", "save_running", "idle", "begin", "fail", "restore", "release"}
        \cap ContentPcs = {}
  BY DEF ContentPcs, TestedPcs, PromotePcs
<1>1. CASE StartHead(s) \/ Reject(s)
  <2>1. git' = git /\ y = x
    BY <1>1 DEF StartHead, Reject, UnchangedRepo
  <2>2. task'[s]["command"].pc \in {"clean", "restore"} /\ RestIdle(s, "command")
    BY <1>1, CommandTakes
  <2> QED BY <1>b, <1>k, <1>p, <1>y, <2>1, <2>2
<1>2. CASE Approve(s)
  <2>1. git' = git /\ y = x
    BY <1>2 DEF Approve, UnchangedRepo
  <2>2. task'[s]["command"].pc = "approve" /\ task'[s]["command"].state = x /\ RestIdle(s, "command")
    BY <1>2, CommandTakes
  <2>3. TaskContent(s, "command")'
    BY <1>h, <1>x, <2>1, <2>2
       DEF TaskContent, Tested, Prepared, Tagged, TestedPcs, At, Bound, Parent, Tree
  <2> QED BY <1>f, <1>y, <2>1, <2>2, <2>3 DEF RestIdle
<1>3. CASE Pause(s) \/ Resume(s) \/ Retry(s)
  <2>1. git' = git /\ task' = task
    BY <1>3 DEF Pause, Resume, Retry, UnchangedRepo
  <2>2. SameContent(y, x) \/ y.prep = 0
    BY <1>3, CommandWrites
  <2> QED BY <1>f, <1>y, <2>1, <2>2
<1>4. ASSUME NEW k \in Kinds, RecoverVerify(s, k) \/ RecoverRestore(s, k) \/ RecoverAbort(s, k)
      PROVE  (\A j \in Kinds : TaskContent(s, j)') /\ BoundNext(y)
  <2>1. git' = git
    BY <1>4 DEF RecoverVerify, RecoverRestore, RecoverAbort, UnchangedRepo
  <2>2. task'[s][k].pc \in {"begin", "restore", "release"} /\ RestIdle(s, k)
    BY <1>4, CommandTakes
  <2>3. SameContent(y, x) \/ y = x
    <3>1. CASE RecoverRestore(s, k)
      BY <3>1 DEF RecoverRestore
    <3>2. CASE RecoverVerify(s, k) \/ RecoverAbort(s, k)
      BY <3>2, CommandWrites
    <3> QED BY <1>4, <3>1, <3>2
  <2> QED BY <1>b, <1>p, <1>y, <2>1, <2>2, <2>3
<1>5. ASSUME NEW k \in Kinds, RecoverRetry(s, k)
      PROVE  (\A j \in Kinds : TaskContent(s, j)') /\ BoundNext(y)
  <2>1. git' = git /\ task' = task
    BY <1>5 DEF RecoverRetry, UnchangedRepo
  <2>2. SameContent(y, x)
    BY <1>5, CommandWrites
  <2> QED BY <1>f, <1>y, <2>1, <2>2
<1>6. CASE Recover(s)
  BY <1>4, <1>5, <1>6, <1>k DEF Recover
<1>7. CASE Rollback(s)
  <2>1. y = x /\ task' = task /\ op[s] = "free" /\ x.status = "COMPLETED"
    BY <1>7 DEF Rollback, LockFree
  <2>2. PICK k \in Kinds : Alone(s, k)
    BY DEF SessionInv
  <2>3. \A j \in Kinds : At(s, j, "idle")
    BY <2>1, <2>2, Quiescent
  <2> QED BY <1>p, <1>y, <2>1, <2>3, NoContent DEF At
<1>8. CASE Restart(s)
  <2>1. \A j \in Kinds : task'[s][j].pc = "idle"
    BY <1>8 DEF Restart, TypeInv, NoTask
  <2>2. SameContent(y, x) \/ y = x
    BY <1>8, CommandWrites
  <2> QED BY <1>p, <1>y, <2>1, <2>2, NoContent
<1>9. CASE Starting(s)
  <2>1. git' = git
    BY <1>9 DEF Starting, StartClean, StartAcquire, StartIdle, StartRunning, UnchangedRepo
  <2>2. \/ End(s, "command")
        \/ \E pc \in {"acquire", "save_idle", "save_running"} : GoTo(s, "command", pc)
    BY <1>9 DEF Starting, StartClean, StartAcquire, StartIdle, StartRunning
  <2>3. task'[s]["command"].pc \notin ContentPcs /\ RestIdle(s, "command")
    BY <1>k, <1>p, <2>2, PiecesAct, PiecesLeaveRest DEF Moves, NoTask
  <2>4. y = x \/ (y.fp = x.fp /\ y.prep = x.prep)
    <3>1. CASE StartIdle(s) \/ StartRunning(s)
      BY <3>1, CommandWrites DEF SameContent
    <3>2. CASE StartClean(s) \/ StartAcquire(s)
      BY <3>2 DEF StartClean, StartAcquire
    <3> QED BY <1>9, <3>1, <3>2 DEF Starting
  <2> QED BY <1>b, <1>k, <1>y, <2>1, <2>3, <2>4
<1>10. ASSUME NEW result, TurnStops(s, result)
       PROVE  (\A j \in Kinds : TaskContent(s, j)') /\ BoundNext(y)
  <2>1. git' = git /\ y = x
    BY <1>10 DEF TurnStops, UnchangedRepo
  <2>2. CASE UNCHANGED task
    BY <1>f, <1>y, <2>1, <2>2
  <2>3. CASE task'[s]["turn"].pc \in {"begin", "fail"} /\ RestIdle(s, "turn")
    BY <1>b, <1>k, <1>p, <1>y, <2>1, <2>3
  <2> QED BY <1>10, <2>2, <2>3, CommandTakes
<1> QED BY <1>1, <1>2, <1>3, <1>6, <1>7, <1>8, <1>9, <1>10 DEF Human

\* An edit is noted for the tasks and the candidates it comes in between.
LEMMA EditContent ==
  ASSUME ControlInv, ContentInv, Edit
  PROVE  ContentInv'
<1> USE DEF ControlInv
<1>1. PICK c \in Contents : git' = [git EXCEPT !.work = c]
  BY DEF Edit
<1>2. /\ git'.head = git.head /\ git'.index = git.index
      /\ git'.commits = git.commits /\ git'.tags = git.tags
  BY <1>1 DEF TypeInv, Repositories
<1>3. led' = led /\ task' = task
  BY DEF Edit
<1>h. hist'.late = hist.late \cup Late /\ hist'.loose = hist.loose \cup Loose
  BY DEF Edit
<1>4. ASSUME NEW s \in Sessions, NEW k \in Kinds PROVE TaskContent(s, k)'
  <2>1. TaskContent(s, k)
    BY DEF ContentInv
  <2>2. task[s][k].pc \in TestedPcs => IsLate(s, k)'
    BY <1>h DEF Late, IsLate
  <2>3. task[s][k].pc = "review" => task[s][k].prep \in hist'.loose
    <3>1. ASSUME task[s][k].pc = "review" PROVE task[s][k].prep \in Loose
      <4> DEFINE w == <<s, k>>
      <4>1. w \in {v \in Sessions \X Kinds : task[v[1]][v[2]].pc = "review"}
        BY <3>1
      <4>2. task[w[1]][w[2]].prep = task[s][k].prep
        OBVIOUS
      <4> QED BY <4>1, <4>2 DEF Loose
    <3> QED BY <1>h, <3>1
  <2>4. Tested(s, k)'
    BY <1>3, <2>2 DEF Tested
  <2>5. Prepared(s, k)'
    BY <1>2, <1>3, <1>h, <2>1, <2>3 DEF TaskContent, Prepared, IsLate, At, Tree
  <2>6. Tagged(s, k)' /\ (task[s][k].pc \in PromotePcs => Bound(task[s][k].state))'
    BY <1>2, <1>3, <1>h, <2>1 DEF TaskContent, Tagged, At, TagOf, Bound, Parent, Tree
  <2> QED BY <2>4, <2>5, <2>6 DEF TaskContent
<1>5. HistInv'
  BY HistStep DEF ContentInv, Next
<1>6. \A s \in Sessions : Bound(led[s])'
  BY <1>2, <1>3, <1>h DEF ContentInv, Bound, Parent, Tree
<1>7. CompletedIsTagged'
  BY <1>2, <1>3 DEF ContentInv, CompletedIsTagged, TagOf
<1> QED BY <1>4, <1>5, <1>6, <1>7 DEF ContentInv

\* What a step does to the tags.
LEMMA TagSteps ==
  ASSUME TypeInv, NEW s \in Sessions, SessionStep(s)
  PROVE  \/ git'.tags = git.tags
         \/ \E k \in Kinds :
              /\ PromoteTag(s, k)
              /\ git'.tags = [git.tags EXCEPT ![<<task[s][k].state.wf, task[s][k].state.attempt>>] =
                                               task[s][k].state.prep]
<1>1. CASE git' = git \/ Rollback(s)
  BY <1>1, RollbackIsClean
<1>2. ASSUME NEW k \in Kinds, GitStep(s, k), ~PromoteTag(s, k) PROVE git'.tags = git.tags
  BY <1>2 DEF GitStep, Prepare, PromoteHead, Restore, TypeInv, Repositories
<1>3. ASSUME NEW k \in Kinds, PromoteTag(s, k)
      PROVE  git'.tags = [git.tags EXCEPT ![<<task[s][k].state.wf, task[s][k].state.attempt>>] =
                                          task[s][k].state.prep]
  BY <1>3 DEF PromoteTag, TypeInv, Repositories
<1> QED BY <1>1, <1>2, <1>3, GitSteps

\* A workflow is completed by the end of a promotion only.
LEMMA CompletedBy ==
  ASSUME ControlInv, NEW s \in Sessions, SessionStep(s), led'[s].status = "COMPLETED"
  PROVE  led'[s] = led[s] \/ \E k \in Kinds : Complete(s, k)
<1> USE DEF ControlInv
<1> DEFINE x == led[s]
           y == led'[s]
<1> SUFFICES ASSUME led' # led PROVE y = x \/ \E k \in Kinds : Complete(s, k)
  OBVIOUS
<1>1. CASE Human(s) \/ Starting(s) \/ Restart(s) \/ \E result \in {"pass", "fail", "none"} : TurnStops(s, result)
  <2>1. CASE \/ StartIdle(s) \/ StartRunning(s) \/ Pause(s) \/ Resume(s) \/ Retry(s) \/ Restart(s)
    BY <2>1, CommandWrites DEF Control
  <2>2. ASSUME NEW k \in Kinds, RecoverVerify(s, k) \/ RecoverRetry(s, k) \/ RecoverAbort(s, k) PROVE FALSE
    BY <2>2, CommandWrites DEF Control
  <2>3. CASE Recover(s)
    <3>1. {"command", "verify", "prompt"} \subseteq Kinds
      BY Names
    <3>2. ASSUME NEW k, RecoverRestore(s, k) PROVE FALSE
      BY <3>2 DEF RecoverRestore
    <3> QED BY <2>2, <2>3, <3>1, <3>2 DEF Recover
  <2>4. CASE StartHead(s) \/ Approve(s) \/ Reject(s) \/ Rollback(s) \/ StartClean(s) \/ StartAcquire(s)
             \/ \E result \in {"pass", "fail", "none"} : TurnStops(s, result)
    BY <2>4 DEF StartHead, Approve, Reject, Rollback, StartClean, StartAcquire, TurnStops
  <2> QED BY <1>1, <2>1, <2>3, <2>4 DEF Human, Starting
<1>2. ASSUME NEW k \in Kinds, TaskStep(s, k) PROVE Complete(s, k)
  <2> DEFINE t == task[s][k]
  <2>a. Knows(k, t, x)
    BY <1>2, TaskIsAlone DEF SessionInv, Alone
  <2>1. ASSUME NEW reason, NEW escalate, Rework(s, k, reason, escalate), t.pc \in UnlockedPcs PROVE FALSE
    <3>1. t.state.status = "RUNNING"
      BY <2>1, <2>a DEF Knows
    <3> QED BY <2>1, <3>1, TaskWrites DEF Control
  <2>2. CASE BeginVerify(s, k)
    <3>1. t.state.status = "RUNNING"
      BY <2>2, <2>a DEF Knows, BeginVerify, Applies, At, UnlockedPcs, ApplyPcs
    <3> QED BY <2>2, <3>1, TaskWrites DEF Control
  <2>3. CASE ScopeReview(s, k) \/ (Review(s, k) /\ RequireApproval) \/ Fail(s, k)
    BY <2>3, TaskWrites DEF Control
  <2>4. CASE Review(s, k) /\ ~RequireApproval
    BY <2>4 DEF Review
  <2>5. CASE ReportedFailure(s, k) \/ ApplyCommands(s, k) \/ \E passed \in BOOLEAN : ApplyGate(s, k, passed)
    BY <2>1, <2>5 DEF ReportedFailure, ApplyCommands, ApplyGate, Applies, At, UnlockedPcs, ApplyPcs
  <2>6. CASE \/ Discard(s, k) \/ ReadScope(s, k) \/ SettleLock(s, k) \/ Prepare(s, k)
             \/ \E passed \in BOOLEAN : RunCommands(s, k, passed)
    BY <2>6 DEF Discard, ReadScope, SettleLock, Prepare, RunCommands
  <2>7. CASE Compare(s, k) \/ PromoteHead(s, k) \/ PromoteTag(s, k) \/ Release(s, k) \/ Restore(s, k)
    BY <2>7 DEF Compare, PromoteHead, PromoteTag, Release, Restore
  <2>8. CASE Verification(s, k)
    BY <2>2, <2>3, <2>4, <2>5, <2>6, <2>8 DEF Verification
  <2> QED BY <1>2, <2>3, <2>7, <2>8 DEF TaskStep, Promotion
<1> QED BY <1>1, <1>2 DEF SessionStep

\* The tag of a completed workflow is set by its own promotion, and no other
\* session's promotion is of the same workflow.
LEMMA TaggedStep ==
  ASSUME ControlInv, ContentInv, NEW s \in Sessions, SessionStep(s)
  PROVE  CompletedIsTagged'
<1> USE DEF ControlInv
<1> SUFFICES ASSUME NEW u \in Sessions, led'[u].status = "COMPLETED"
             PROVE  /\ git'.tags[<<led'[u].wf, led'[u].attempt>>] # 0
                    /\ git'.tags[<<led'[u].wf, led'[u].attempt>>] \in led'[u].versions
  BY DEF CompletedIsTagged, TagOf
<1>1. CASE led'[u] = led[u]
  <2>1. git.tags[<<led[u].wf, led[u].attempt>>] # 0
        /\ git.tags[<<led[u].wf, led[u].attempt>>] \in led[u].versions
    BY <1>1 DEF ContentInv, CompletedIsTagged, TagOf
  <2>2. ASSUME NEW k \in Kinds, PromoteTag(s, k) PROVE task[s][k].state.wf # led[u].wf
    <3>1. At(s, k, "tag")
      BY <2>2 DEF PromoteTag
    <3>2. led[s].status \in Active /\ Alone(s, k)
      BY <3>1, WorkersAreActive DEF At, WorkPcs, PromotePcs
    <3>3. task[s][k].state.wf = led[s].wf
      BY <3>1, <3>2 DEF Alone, Knows, At, PromotePcs, Control
    <3>4. s # u
      BY <1>1, <3>2 DEF Active
    <3>5. led[s].wf # 0
      BY <3>2 DEF WorkspaceInv, Numbered, Active
    <3> QED BY <3>3, <3>4, <3>5 DEF WorkspaceInv, Numbered
  <2>3. led[u].wf \in Ids /\ led[u].attempt \in Numbers /\ git.tags \in [Ids \X Numbers -> Nat]
    BY ElementTypes DEF GoodStates, States, TypeInv, Repositories
  <2>4. git'.tags[<<led[u].wf, led[u].attempt>>] = git.tags[<<led[u].wf, led[u].attempt>>]
    <3>1. CASE git'.tags = git.tags
      BY <3>1
    <3>2. ASSUME NEW k \in Kinds, PromoteTag(s, k),
                 git'.tags = [git.tags EXCEPT ![<<task[s][k].state.wf, task[s][k].state.attempt>>] =
                                              task[s][k].state.prep]
          PROVE  git'.tags[<<led[u].wf, led[u].attempt>>] = git.tags[<<led[u].wf, led[u].attempt>>]
      BY <2>2, <2>3, <3>2
    <3> QED BY <3>1, <3>2, TagSteps
  <2> QED BY <1>1, <2>1, <2>4
<1>2. CASE led'[u] # led[u]
  <2>1. u = s
    BY <1>2, OthersStay
  <2>2. PICK k \in Kinds : Complete(s, k)
    BY <1>2, <2>1, CompletedBy
  <2> DEFINE x == task[s][k].state
  <2>3. /\ led'[s].wf = x.wf /\ led'[s].attempt = x.attempt
        /\ led'[s].versions = x.versions \cup {x.prep}
    BY <2>2, TaskWrites DEF Control
  <2>4. git.tags[<<x.wf, x.attempt>>] = x.prep
    BY <2>2 DEF Complete, ContentInv, TaskContent, Tagged, TagOf
  <2>5. x.prep # 0
    BY <2>2, ElementTypes DEF Complete, At, GoodTasks
  <2>6. git' = git
    BY <2>2 DEF Complete, UnchangedRepo
  <2> QED BY <2>1, <2>3, <2>4, <2>5, <2>6
<1> QED BY <1>1, <1>2

LEMMA ContentInit == Init => ContentInv
<1> SUFFICES ASSUME Init PROVE ContentInv
  OBVIOUS
<1>1. \A s \in Sessions : led[s] = NoState /\ \A k \in Kinds : task[s][k] = NoTask
  BY DEF Init
<1>2. \A s \in Sessions, k \in Kinds : TaskContent(s, k)
  BY <1>1 DEF NoTask, TaskContent, Tested, TestedPcs, Prepared, Tagged, PromotePcs, At
<1>3. \A s \in Sessions : Bound(led[s])
  BY <1>1 DEF NoState, Bound
<1>4. CompletedIsTagged
  BY <1>1 DEF NoState, CompletedIsTagged
<1>5. HistInv
  BY DEF Init, HistInv
<1> QED BY <1>2, <1>3, <1>4, <1>5 DEF ContentInv

LEMMA ContentStep == ASSUME ControlInv, ContentInv, [Next]_vars PROVE ContentInv'
<1>1. CASE UNCHANGED vars
  <2>1. UNCHANGED <<led, task, git, hist>>
    BY <1>1 DEF vars
  <2>2. \A s \in Sessions, k \in Kinds : TaskContent(s, k)'
    BY <2>1, SameContentKept DEF ContentInv
  <2>3. \A s \in Sessions : Bound(led[s])'
    BY <2>1 DEF ContentInv, Bound, Tree, Parent
  <2>4. CompletedIsTagged'
    BY <2>1 DEF ContentInv, CompletedIsTagged, TagOf
  <2>5. HistInv'
    BY <2>1 DEF ContentInv, HistInv
  <2> QED BY <2>2, <2>3, <2>4, <2>5 DEF ContentInv
<1>2. ASSUME NEW s \in Sessions, SessionStep(s) PROVE ContentInv'
  <2>1. ASSUME NEW u \in Sessions PROVE (\A j \in Kinds : TaskContent(u, j)') /\ Bound(led[u])'
    <3>1. CASE u # s
      BY <1>2, <3>1, OthersContent
    <3>2. CASE u = s
      <4>1. ASSUME NEW k \in Kinds, TaskStep(s, k)
            PROVE  (\A j \in Kinds : TaskContent(s, j)') /\ Bound(led[s])'
        BY <4>1, TaskOwnContent
      <4> QED BY <1>2, <3>2, <4>1, CommandOwnContent DEF SessionStep
    <3> QED BY <3>1, <3>2
  <2>2. CompletedIsTagged'
    BY <1>2, TaggedStep
  <2>3. HistInv'
    BY <1>2, HistSteps DEF ContentInv
  <2> QED BY <2>1, <2>2, <2>3 DEF ContentInv
<1> QED BY <1>1, <1>2, EditContent DEF Next, SessionStep

LEMMA ContentInvariant == ASSUME ~AsksRecovery PROVE Spec => [](ControlInv /\ ContentInv)
<1>1. ControlInv /\ ContentInv /\ [Next]_vars => (ControlInv /\ ContentInv)'
  BY ControlStep, ContentStep
<1>2. Init => ControlInv /\ ContentInv
  BY ControlInit, ContentInit
<1> QED BY <1>1, <1>2, PTL DEF Spec

\* The candidate that is reviewed has the files the acceptance commands passed on,
\* unless they were edited after the commands: no rollback or reject, of another session
\* or of this one, comes between the two unnoticed.
THEOREM ReviewsAreTested == ASSUME ~AsksRecovery PROVE Spec => []CandidateIsTested
<1>1. ControlInv /\ ContentInv => CandidateIsTested
  BY DEF ContentInv, TaskContent, Prepared, IsLate, CandidateIsTested
<1> QED BY <1>1, ContentInvariant, PTL

\* A completed workflow keeps the tag of its promotion, on one of its versions.
THEOREM CompletionIsTagged == ASSUME ~AsksRecovery PROVE Spec => []CompletedIsTagged
<1>1. ControlInv /\ ContentInv => CompletedIsTagged
  BY DEF ContentInv
<1> QED BY <1>1, ContentInvariant, PTL

\* A promotion goes on only from the comparison of the fingerprints.
LEMMA AcceptedBy ==
  ASSUME ControlInv, NEW s \in Sessions, NEW k \in Kinds, Next,
         At(s, k, "approve"), task'[s][k].pc = "head"
  PROVE  Compare(s, k)
<1> USE DEF ControlInv
<1>k. {"turn", "command", "verify", "prompt"} \subseteq Kinds
  BY Names
<1>1. task'[s] # task[s]
  BY DEF At
<1>2. SessionStep(s)
  <2>1. ~Edit
    BY <1>1 DEF Edit
  <2>2. ASSUME NEW u \in Sessions, SessionStep(u) PROVE u = s
    BY <1>1, <2>2, StepLeavesOthers DEF Others
  <2> QED BY <2>1, <2>2 DEF Next, SessionStep
<1>3. Alone(s, k)
  BY WorkersAreActive DEF At, WorkPcs, PromotePcs
<1>4. ASSUME NEW j \in Kinds, TaskStep(s, j) PROVE Compare(s, k)
  <2>1. j = k
    BY <1>3, <1>4, TaskIsAlone
  <2> QED BY <1>4, <2>1
          DEF TaskStep, Verification, Promotion, Discard, ApplyPcs, ReportedFailure, BeginVerify, Applies,
              RunCommands, ApplyCommands, ApplyGate, ReadScope, ScopeReview, SettleLock, Prepare, Review,
              PromoteHead, PromoteTag, Complete, Release, Restore, Fail, At
<1>5. ASSUME NEW j \in Kinds, RestIdle(s, j), task'[s][j].pc # "head" PROVE FALSE
  BY <1>5 DEF RestIdle, At
<1>6. CASE Starting(s)
  <2>1. \/ End(s, "command")
        \/ \E pc \in {"acquire", "save_idle", "save_running"} : GoTo(s, "command", pc)
    BY <1>6 DEF Starting, StartClean, StartAcquire, StartIdle, StartRunning
  <2>2. task'[s]["command"].pc # "head" /\ RestIdle(s, "command")
    BY <1>k, <2>1, PiecesAct, PiecesLeaveRest DEF Moves, NoTask
  <2> QED BY <1>5, <1>k, <2>2
<1>7. CASE Restart(s)
  BY <1>7 DEF Restart, TypeInv, NoTask
<1>8. ASSUME NEW result, TurnStops(s, result) PROVE FALSE
  BY <1>1, <1>5, <1>8, <1>k, CommandTakes
<1>9. CASE StartHead(s) \/ Approve(s) \/ Reject(s)
  BY <1>5, <1>9, <1>k, CommandTakes
<1>10. ASSUME NEW j \in Kinds, RecoverVerify(s, j) \/ RecoverRestore(s, j) \/ RecoverAbort(s, j) PROVE FALSE
  BY <1>5, <1>10, CommandTakes
<1>11. CASE Pause(s) \/ Resume(s) \/ Retry(s) \/ Rollback(s) \/ \E j \in Kinds : RecoverRetry(s, j)
  BY <1>1, <1>11 DEF Pause, Resume, Retry, Rollback, RecoverRetry
<1>12. CASE Recover(s)
  BY <1>10, <1>11, <1>12, <1>k DEF Recover
<1> QED BY <1>2, <1>4, <1>6, <1>7, <1>8, <1>9, <1>11, <1>12 DEF SessionStep, Human

\* An approval that is accepted (TRD D-022) is one of the candidate's files, if HEAD is
\* still the commit the candidate was prepared on and the files were not edited between
\* the candidate and its fingerprint.
THEOREM ApprovalsFit == ASSUME ~AsksRecovery PROVE Spec => ApprovalFitsCandidate
<1> DEFINE Fits(s, k) ==
      At(s, k, "approve") /\ task'[s][k].pc = "head"
        /\ task[s][k].state.prep \notin hist.loose
        /\ git.head = git.commits[task[s][k].state.prep].parent => git.work = Tree(task[s][k].state.prep)
<1>1. ASSUME ControlInv, ContentInv, NEW s \in Sessions, NEW k \in Kinds, Next
      PROVE  Fits(s, k)
  <2> USE DEF ControlInv
  <2> SUFFICES ASSUME At(s, k, "approve"), task'[s][k].pc = "head",
                      task[s][k].state.prep \notin hist.loose,
                      git.head = git.commits[task[s][k].state.prep].parent
               PROVE  git.work = Tree(task[s][k].state.prep)
    OBVIOUS
  <2>1. Compare(s, k)
    BY <1>1, AcceptedBy
  <2>2. Fingerprint = task[s][k].state.fp /\ task[s][k].state.prep # 0
    <3>1. End(s, k) => task'[s][k].pc # "head"
      BY <1>1, PiecesAct DEF NoTask
    <3> QED BY <2>1, <3>1 DEF Compare
  <2>3. Bound(task[s][k].state)
    BY <1>1 DEF ContentInv, TaskContent, At, PromotePcs
  <2> QED BY <2>2, <2>3 DEF Bound, Fingerprint, Parent, Tree
<1>2. ControlInv /\ ContentInv /\ [Next]_vars => [\A s \in Sessions, k \in Kinds : Fits(s, k)]_vars
  BY <1>1
<1> QED BY <1>2, ContentInvariant, PTL DEF Spec, ApprovalFitsCandidate
=============================================================================
