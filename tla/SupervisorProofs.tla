-------------------------- MODULE SupervisorProofs --------------------------
EXTENDS Supervisor, TLAPS

LEMMA Parameters ==
  /\ Base \in Contents /\ AttemptCap \in Nat /\ AttemptCap > 0
  /\ NoThread \notin Threads /\ Contracts \subseteq Terms
BY ContentsAssumption, AttemptCapAssumption, ThreadsAssumption, ContractsAssumption

LEMMA AttemptsAreNumbers == Attempts \subseteq Numbers
BY Parameters DEF Attempts, Numbers

LEMMA ConstantTypes ==
  /\ NoRow \in Row /\ NewRow \in Row
  /\ NoLocals \in Locals
  /\ NoPrepared \in Prepared
  /\ NoCommit \in Commit /\ BaseCommit \in Commit
  /\ NoAttemptRow \in AttemptRow /\ NoRequest \in Request
  /\ FreshWorktree \in Worktree
<1>1. NoCommit \in Commit /\ BaseCommit \in Commit
  <2>1. -1 \in -1..AttemptCap /\ 0 \in -1..AttemptCap
    BY Parameters
  <2> QED BY <2>1, Parameters DEF NoCommit, BaseCommit, Commit
<1>2. NoPrepared \in Prepared
  BY <1>1 DEF NoPrepared, Prepared
<1>3. NoRow \in Row
  BY Parameters DEF NoRow, Row, Statuses, Nodes, Numbers
<1>4. NewRow \in Row
  BY <1>3 DEF NewRow, Row, Statuses
<1>5. NoLocals \in Locals
  BY Parameters, <1>2 DEF NoLocals, Locals, Attempts, Reasons, RequestStates, NoContract
<1>6. NoAttemptRow \in AttemptRow
  BY <1>2 DEF NoAttemptRow, AttemptRow
<1>7. NoRequest \in Request
  BY <1>1, Parameters DEF NoRequest, Request, NoFingerprint, Fingerprints, RequestStates
<1>8. FreshWorktree \in Worktree
  BY <1>1, Parameters DEF FreshWorktree, Worktree, Attempts
<1> QED BY <1>1, <1>2, <1>3, <1>4, <1>5, <1>6, <1>7, <1>8

LEMMA TypeInit == Init => TypeOK
<1> SUFFICES ASSUME Init PROVE TypeOK
  OBVIOUS
<1>1. bounds \in [crashes: Nat, edits: Nat, overlaps: Nat, overwrites: 0..MaxOverwrites]
  BY BoundsAssumption DEF Init
<1>2. /\ git \in Worktree /\ lock \in Threads \cup {NoThread}
      /\ pc \in [Threads -> LockedPcs \cup FreePcs]
      /\ mem \in [Threads -> Row] /\ loc \in [Threads -> Locals]
      /\ hist \in [calls: [Attempts -> Nat], retries: [Attempts -> Nat]]
  BY ConstantTypes DEF Init, FreePcs
<1>3. db \in Database
  BY ConstantTypes DEF Init, Database, Intents, OpenIntents, Version
<1> QED BY <1>1, <1>2, <1>3 DEF TypeOK

\* The effect of the shared steps on the type of the state.
LEMMA BeginTypes ==
  ASSUME TypeOK, NEW t \in Threads, NEW to \in LockedPcs \cup FreePcs, Begin(t, to)
  PROVE  /\ pc' \in [Threads -> LockedPcs \cup FreePcs]
         /\ bounds' \in [crashes: Nat, edits: Nat, overlaps: Nat, overwrites: 0..MaxOverwrites]
<1>1. pc' \in [Threads -> LockedPcs \cup FreePcs]
  BY DEF TypeOK, Begin, Goto
<1>2. CASE UNCHANGED bounds
  BY <1>1, <1>2 DEF TypeOK
<1>3. CASE bounds' = [bounds EXCEPT !.overlaps = @ + 1]
  BY <1>1, <1>3 DEF TypeOK
<1> QED BY <1>2, <1>3 DEF Begin

LEMMA ReturnTypes ==
  ASSUME TypeOK, NEW t \in Threads, Return(t)
  PROVE  /\ pc' \in [Threads -> LockedPcs \cup FreePcs]
         /\ mem' \in [Threads -> Row] /\ loc' \in [Threads -> Locals]
         /\ lock' \in Threads \cup {NoThread}
BY ConstantTypes DEF TypeOK, Return, FreePcs

LEMMA WriteTypes ==
  ASSUME TypeOK, NEW t \in Threads, NEW from, NEW to \in LockedPcs \cup FreePcs,
         NEW new \in Database, Write(t, from, to, new)
  PROVE  TypeOK'
BY DEF TypeOK, Write, Goto

LEMMA WriteAndReturnTypes ==
  ASSUME TypeOK, NEW t \in Threads, NEW new \in Database, WriteAndReturn(t, new)
  PROVE  TypeOK'
BY ReturnTypes DEF TypeOK, WriteAndReturn

LEMMA RowSavedType ==
  ASSUME TypeOK, NEW r \in Row PROVE [db EXCEPT !.wf = r] \in Database
BY DEF TypeOK, Database

LEMMA WorkflowSavedType ==
  ASSUME TypeOK, NEW t \in Threads PROVE WorkflowSaved(t) \in Database
BY RowSavedType DEF TypeOK, WorkflowSaved

LEMMA TypeStart ==
  ASSUME TypeOK, NEW t \in Threads, Start(t) PROVE TypeOK'
<1>1. ASSUME NEW c \in Contracts, StartCreate(t, c) PROVE TypeOK'
  <2>1. loc' \in [Threads -> Locals]
    BY <1>1, Parameters DEF StartCreate, TypeOK, Locals
  <2>2. "contract" \in LockedPcs \cup FreePcs
    BY DEF FreePcs
  <2> QED BY <1>1, <2>1, <2>2, BeginTypes, RowSavedType, ConstantTypes DEF StartCreate, TypeOK
<1>2. CASE StartContract(t)
  BY <1>2 DEF StartContract, Write, TypeOK, Database, Goto, FreePcs, Locals
<1>3. CASE StartBaseline(t)
  <2>1. db' \in Database
    BY <1>3, ConstantTypes, Parameters DEF StartBaseline, TypeOK, Database, VersionIds, Numbers, Version
  <2>2. mem' \in [Threads -> Row]
    BY <1>3, Parameters DEF StartBaseline, TypeOK, Row, VersionIds, Numbers
  <2> QED BY <1>3, <2>1, <2>2 DEF StartBaseline, TypeOK, Goto, FreePcs
<1>4. CASE StartSave(t)
  BY <1>4, WorkflowSavedType, WriteTypes DEF StartSave, FreePcs
<1> QED BY <1>1, <1>2, <1>3, <1>4 DEF Start

LEMMA LoadTypes ==
  ASSUME TypeOK, NEW t \in Threads, Load(t)
  PROVE  mem' \in [Threads -> Row] /\ loc' \in [Threads -> Locals]
BY ConstantTypes DEF TypeOK, Load, Locals, Database

LEMMA TypeRun ==
  ASSUME TypeOK, NEW t \in Threads, Run(t) PROVE TypeOK'
<1>1. CASE RunLock(t)
  BY <1>1, LoadTypes DEF RunLock, Goto, TypeOK, LockedPcs
<1>2. CASE RunReload(t)
  BY <1>2, LoadTypes DEF RunReload, Goto, TypeOK, LockedPcs
<1>3. CASE RunExit(t)
  BY <1>3, ReturnTypes DEF RunExit, TypeOK
<1>4. CASE RunPause(t)
  <2>1. PausedRow(t) \in Row
    BY DEF PausedRow, TypeOK, Row, Statuses
  <2> QED BY <1>4, <2>1, ReturnTypes, RowSavedType DEF RunPause, TypeOK
<1>5. CASE NodeRaise(t)
  BY <1>5, ReturnTypes DEF NodeRaise, TypeOK
<1> QED BY <1>1, <1>2, <1>3, <1>4, <1>5 DEF Run

LEMMA IntentSavedType ==
  ASSUME TypeOK, NEW a, NEW i \in Intents
  PROVE  [db EXCEPT !.intents[a] = i] \in Database
BY DEF TypeOK, Database

LEMMA TypeExecute ==
  ASSUME TypeOK, NEW t \in Threads, Execute(t) PROVE TypeOK'
<1>1. ASSUME NEW a \in Attempts, ExecuteUncertain(t, a) PROVE TypeOK'
  <2>1. [mem[t] EXCEPT !.attempt = a, !.status = "UNCERTAIN"] \in Row
    BY <1>1, AttemptsAreNumbers DEF TypeOK, Row, Statuses
  <2> QED BY <1>1, <2>1, RowSavedType DEF ExecuteUncertain, TypeOK, LockedPcs
<1>2. ASSUME NEW a \in Attempts, ExecuteApprovedRetry(t, a) PROVE TypeOK'
  <2>1. mem' \in [Threads -> Row]
    BY <1>2, AttemptsAreNumbers DEF ExecuteApprovedRetry, TypeOK, Row
  <2> QED BY <1>2, <2>1 DEF ExecuteApprovedRetry, TypeOK, LockedPcs
<1>3. CASE ExecuteNew(t)
  <2>1. [mem[t] EXCEPT !.attempt = @ + 1] \in Row
    BY <1>3, Parameters DEF ExecuteNew, TypeOK, Row, Attempt, Numbers
  <2> QED BY <1>3, <2>1, RowSavedType DEF ExecuteNew, TypeOK, LockedPcs
<1>4. CASE ExecuteIntent(t)
  <2>1. StartExecution(Attempt(t)) \in Database
    BY IntentSavedType DEF StartExecution, TypeOK, Intents, OpenIntents
  <2> QED BY <1>4, <2>1, WriteTypes DEF ExecuteIntent, LockedPcs
<1>5. CASE ExecuteCall(t)
  <2>1. hist' \in [calls: [Attempts -> Nat], retries: [Attempts -> Nat]]
    BY <1>5 DEF ExecuteCall, TypeOK
  <2> QED BY <1>5, <2>1 DEF ExecuteCall, TypeOK, Goto, LockedPcs
<1>6. CASE ExecuteReuse(t)
  BY <1>6, IntentSavedType, WriteTypes DEF ExecuteReuse, LockedPcs, Intents
<1>7. CASE DshWrite(t)
  <2>1. git' \in Worktree
    BY <1>7 DEF DshWrite, StageAll, TypeOK, Worktree
  <2> QED BY <1>7, <2>1 DEF DshWrite, TypeOK
<1>8. CASE DshReturn(t)
  <2>1. [db EXCEPT !.attempts[Attempt(t)] = [output |-> "dsh", prep |-> NoPrepared]] \in Database
    BY ConstantTypes DEF TypeOK, Database, AttemptRow
  <2> QED BY <1>8, <2>1, WriteTypes DEF DshReturn, LockedPcs
<1>9. CASE DshRaise(t)
  <2>1. UncertainRow(t) \in Row
    BY DEF TypeOK, UncertainRow, Row, Statuses
  <2> QED BY <1>9, <2>1, RowSavedType, WriteTypes DEF DshRaise, UnknownOutcome, LockedPcs
<1>10. CASE ExecuteFinish(t)
  BY <1>10, IntentSavedType, WriteTypes DEF ExecuteFinish, LockedPcs, Intents
<1>11. CASE ExecuteDone(t)
  <2>1. [mem[t] EXCEPT !.node = "VERIFY"] \in Row
    BY DEF TypeOK, Row, Nodes
  <2> QED BY <1>11, <2>1, RowSavedType, WriteTypes DEF ExecuteDone, LockedPcs
<1> QED BY <1>1, <1>2, <1>3, <1>4, <1>5, <1>6, <1>7, <1>8, <1>9, <1>10, <1>11 DEF Execute

LEMMA NewRequestTypes ==
  ASSUME TypeOK, NEW r \in Reasons, NEW a, NEW fp \in Fingerprints, NewRequest(r, a, fp)
  PROVE  db' \in Database
<1> DEFINE q == [state |-> "open", fp |-> fp, created |-> db.clock]
<1>1. q \in Request
  BY DEF TypeOK, Database, Request, RequestStates
<1>2. [db.hitl EXCEPT ![r][a] = q] \in [Reasons -> [Attempts -> Request]]
  BY <1>1 DEF TypeOK, Database
<1>3. db.clock + 1 \in Nat
  BY DEF TypeOK, Database
<1>4. db' = [db EXCEPT !.hitl = [db.hitl EXCEPT ![r][a] = q], !.clock = db.clock + 1]
  BY DEF NewRequest, TypeOK, Database
<1> HIDE DEF q
<1> QED BY <1>2, <1>3, <1>4 DEF TypeOK, Database

LEMMA WaitTypes ==
  ASSUME TypeOK, NEW t \in Threads, WaitForHuman(t) PROVE mem' \in [Threads -> Row]
<1> DEFINE r == [mem[t] EXCEPT !.status = "WAITING_HITL", !.node = "WAIT_HITL"]
<1>1. r \in Row
  BY DEF TypeOK, Row, Statuses, Nodes
<1>2. mem' = [mem EXCEPT ![t] = r]
  BY DEF TypeOK, WaitForHuman
<1> QED BY <1>1, <1>2 DEF TypeOK

LEMMA FingerprintTypes ==
  TypeOK => NoFingerprint \in Fingerprints /\ CandidateFingerprint(git) \in Fingerprints
BY ConstantTypes, Parameters
   DEF TypeOK, Worktree, NoFingerprint, CandidateFingerprint, Fingerprints, HasChanges

LEMMA TypeVerify ==
  ASSUME TypeOK, NEW t \in Threads, Verify(t) PROVE TypeOK'
<1>1. ASSUME NEW result \in BOOLEAN, VerifyRun(t, result) PROVE TypeOK'
  <2>1. loc' \in [Threads -> Locals]
    <3> DEFINE l == [loc[t] EXCEPT !.passed = result, !.seen = git.work]
    <3>1. l \in Locals
      <4>1. git.work \in Contents /\ loc[t] \in Locals
        BY DEF TypeOK, Worktree
      <4> QED BY <1>1, <4>1 DEF Locals
    <3>2. loc' = [loc EXCEPT ![t] = l]
      BY <1>1 DEF VerifyRun, TypeOK
    <3> QED BY <3>1, <3>2 DEF TypeOK
  <2> QED BY <1>1, <2>1 DEF VerifyRun, TypeOK, LockedPcs
<1>2. CASE VerifyRaise(t)
  BY <1>2, ReturnTypes DEF VerifyRaise, TypeOK
<1>3. CASE VerifyRecord(t)
  <2>1. [db EXCEPT !.verified = @ \cup {<<Attempt(t), loc[t].seen>>}] \in Database
    <3>1. <<Attempt(t), loc[t].seen>> \in Numbers \X Contents
      BY DEF TypeOK, Attempt, Row, Locals
    <3> QED BY <3>1 DEF TypeOK, Database
  <2>2. PICK to \in {"gate_failed", "prepare", "gate"} : Goto(t, "verify", to)
    BY <1>3 DEF VerifyRecord
  <2> QED BY <1>3, <2>1, <2>2 DEF VerifyRecord, TypeOK, Goto, LockedPcs
<1>4. CASE VerifyPrepare(t)
  <2>1. PreparedCandidate(git, Attempt(t)) \in Prepared /\ git' \in Worktree
    BY <1>4, Parameters
       DEF VerifyPrepare, TypeOK, Worktree, StageAll, PreparedCandidate, Prepared, Commit,
           Attempt, Row, Numbers
  <2>2. loc' \in [Threads -> Locals]
    BY <1>4, <2>1 DEF VerifyPrepare, TypeOK, Locals
  <2> QED BY <1>4, <2>1, <2>2 DEF VerifyPrepare, TypeOK, Goto, LockedPcs
<1>5. CASE VerifySavePrepared(t)
  <2>1. [db EXCEPT !.attempts[Attempt(t)].prep = loc[t].prep] \in Database
    <3> DEFINE rows == [db.attempts EXCEPT ![Attempt(t)].prep = loc[t].prep]
    <3>1. rows \in [Attempts -> AttemptRow]
      <4>1. loc[t].prep \in Prepared /\ db.attempts \in [Attempts -> AttemptRow]
        BY DEF TypeOK, Database, Locals
      <4>2. \A row \in AttemptRow : [row EXCEPT !.prep = loc[t].prep] \in AttemptRow
        BY <4>1 DEF AttemptRow
      <4> QED BY <4>1, <4>2
    <3>2. [db EXCEPT !.attempts = rows] \in Database
      BY <3>1 DEF TypeOK, Database
    <3> QED BY <3>2
  <2> QED BY <1>5, <2>1, WriteTypes DEF VerifySavePrepared, LockedPcs
<1>6. CASE VerifyReview(t)
  BY <1>6, NewRequestTypes, WaitTypes, FingerprintTypes
     DEF VerifyReview, TypeOK, Goto, LockedPcs, Reasons
<1>7. CASE VerifyAutoPromote(t)
  <2>1. mem' \in [Threads -> Row]
    BY <1>7 DEF VerifyAutoPromote, TypeOK, Row, Nodes
  <2> QED BY <1>7, <2>1 DEF VerifyAutoPromote, TypeOK, Goto, LockedPcs
<1>8. CASE VerifyRetry(t)
  <2>1. RetryRow(t) \in Row
    BY DEF TypeOK, RetryRow, Row, Nodes
  <2>2. db' \in Database
    <3>1. Attempt(t) \in Numbers
      BY DEF TypeOK, Attempt, Row
    <3> QED BY <1>8, <3>1 DEF VerifyRetry, TypeOK, Database
  <2> QED BY <1>8, <2>1, <2>2 DEF VerifyRetry, TypeOK, Goto, LockedPcs
<1>9. CASE VerifyExhausted(t)
  BY <1>9, NewRequestTypes, WaitTypes, FingerprintTypes
     DEF VerifyExhausted, TypeOK, Goto, LockedPcs, Reasons
<1>10. CASE VerifyDone(t)
  BY <1>10, WorkflowSavedType, WriteTypes DEF VerifyDone, LockedPcs
<1> QED BY <1>1, <1>2, <1>3, <1>4, <1>5, <1>6, <1>7, <1>8, <1>9, <1>10 DEF Verify

LEMMA CandidateTypes ==
  ASSUME TypeOK, NEW t \in Threads, HasAttempt(Attempt(t))
  PROVE  /\ Attempt(t) \in Attempts /\ Candidate(t) \in Prepared
         /\ [loc EXCEPT ![t].prep = Candidate(t)] \in [Threads -> Locals]
<1>1. Attempt(t) \in Attempts /\ Candidate(t) \in Prepared
  BY DEF TypeOK, HasAttempt, Candidate, Database, AttemptRow
<1> QED BY <1>1 DEF TypeOK, Locals

LEMMA TypePromote ==
  ASSUME TypeOK, NEW t \in Threads, Promote(t) PROVE TypeOK'
<1>1. CASE PromotePlain(t)
  BY <1>1 DEF PromotePlain, TypeOK, LockedPcs
<1>2. CASE PromoteTagged(t)
  BY <1>2, CandidateTypes DEF PromoteTagged, TypeOK, LockedPcs
<1>3. CASE PromoteHead(t)
  <2>1. git' \in Worktree
    BY <1>3, CandidateTypes DEF PromoteHead, TypeOK, Worktree, Prepared
  <2> QED BY <1>3, <2>1, CandidateTypes DEF PromoteHead, TypeOK, LockedPcs
<1>4. CASE PromoteTag(t)
  <2>1. git' \in Worktree
    BY <1>4 DEF PromoteTag, TypeOK, Worktree, Locals, Prepared
  <2> QED BY <1>4, <2>1 DEF PromoteTag, TypeOK, Goto, LockedPcs
<1>5. CASE PromoteVersion(t)
  <2>1. db' \in Database
    BY <1>5 DEF PromoteVersion, TypeOK, Database, Version, Locals, Prepared
  <2>2. mem' \in [Threads -> Row]
    <3> DEFINE r == [mem[t] EXCEPT !.active = Attempt(t), !.node = "COMPLETED",
                                   !.status = "COMPLETED"]
    <3>1. r \in Row
      BY DEF TypeOK, Row, Attempt, VersionIds, Nodes, Statuses
    <3>2. mem' = [mem EXCEPT ![t] = r]
      BY <1>5 DEF PromoteVersion, TypeOK
    <3> QED BY <3>1, <3>2 DEF TypeOK
  <2> QED BY <1>5, <2>1, <2>2 DEF PromoteVersion, TypeOK, Goto, LockedPcs
<1>6. CASE PromoteDone(t)
  BY <1>6, WorkflowSavedType, WriteTypes DEF PromoteDone, LockedPcs
<1> QED BY <1>1, <1>2, <1>3, <1>4, <1>5, <1>6 DEF Promote

LEMMA TypePauseResume ==
  ASSUME TypeOK, NEW t \in Threads, PauseResume(t) PROVE TypeOK'
<1>1. CASE PauseRead(t)
  <2>1. [db.wf EXCEPT !.pause = TRUE] \in Row
    BY DEF TypeOK, Database, Row
  <2> QED BY <1>1, <2>1, BeginTypes DEF PauseRead, TypeOK, FreePcs
<1>2. CASE PauseSave(t)
  BY <1>2, WorkflowSavedType, WriteAndReturnTypes DEF PauseSave
<1>3. CASE ResumeRead(t)
  <2>1. [db.wf EXCEPT !.pause = FALSE,
           !.status = IF @ = "PAUSED" THEN "RUNNING" ELSE @] \in Row
    BY DEF TypeOK, Database, Row, Statuses
  <2> QED BY <1>3, <2>1, BeginTypes DEF ResumeRead, TypeOK, FreePcs
<1>4. CASE ResumeSave(t)
  BY <1>4, WorkflowSavedType, WriteTypes DEF ResumeSave, FreePcs
<1> QED BY <1>1, <1>2, <1>3, <1>4 DEF PauseResume

LEMMA DecideTypes ==
  ASSUME TypeOK, NEW t \in Threads, NEW r \in Reasons, NEW a \in Attempts,
         NEW choice \in RequestStates, NEW status \in Statuses, NEW node \in Nodes,
         Decide(t, r, a, choice, status, node),
         hist' \in [calls: [Attempts -> Nat], retries: [Attempts -> Nat]]
  PROVE  TypeOK'
<1>1. [db.wf EXCEPT !.status = status, !.node = node] \in Row
  BY DEF TypeOK, Database, Row
<1>2. loc' \in [Threads -> Locals]
  <2> DEFINE l == [loc[t] EXCEPT !.reason = r, !.about = a, !.choice = choice]
  <2>1. l \in Locals
    BY DEF TypeOK, Locals
  <2>2. loc' = [loc EXCEPT ![t] = l]
    BY DEF Decide, TypeOK
  <2> QED BY <2>1, <2>2 DEF TypeOK
<1> QED BY <1>1, <1>2, BeginTypes DEF Decide, TypeOK, LockedPcs

LEMMA RetryCounted ==
  ASSUME TypeOK, NEW t \in Threads, NEW r \in Reasons, NEW a \in Attempts, DecideRetry(t, r, a)
  PROVE  /\ hist' \in [calls: [Attempts -> Nat], retries: [Attempts -> Nat]]
         /\ hist'.calls = hist.calls
         /\ \A b \in Attempts :
              hist'.retries[b] = hist.retries[b] + IF b = db.wf.attempt THEN 1 ELSE 0
<1>1. hist' = [hist EXCEPT !.retries =
                 [b \in Attempts |-> @[b] + IF b = db.wf.attempt THEN 1 ELSE 0]]
  BY DEF DecideRetry
<1> QED BY <1>1 DEF TypeOK

LEMMA TypeDecideHitl ==
  ASSUME TypeOK, NEW t \in Threads, DecideHitl(t) PROVE TypeOK'
<1>1. ASSUME NEW a \in Attempts, DecideApprove(t, a) PROVE TypeOK'
  BY <1>1, DecideTypes DEF DecideApprove, Reasons, RequestStates, Statuses, Nodes, TypeOK
<1>2. ASSUME NEW r \in Reasons, NEW a \in Attempts, DecideRetry(t, r, a) PROVE TypeOK'
  BY <1>2, DecideTypes, RetryCounted DEF DecideRetry, RequestStates, Statuses, Nodes
<1>3. ASSUME NEW r \in Reasons, NEW a \in Attempts, DecideReject(t, r, a) PROVE TypeOK'
  BY <1>3, DecideTypes DEF DecideReject, RequestStates, Statuses, Nodes, TypeOK
<1>4. CASE DecideResolve(t)
  <2>1. [db EXCEPT !.hitl[loc[t].reason][loc[t].about].state = loc[t].choice] \in Database
    <3> DEFINE rows == [db.hitl EXCEPT ![loc[t].reason][loc[t].about].state = loc[t].choice]
    <3>1. rows \in [Reasons -> [Attempts -> Request]]
      <4>1. loc[t].choice \in RequestStates /\ db.hitl \in [Reasons -> [Attempts -> Request]]
        BY DEF TypeOK, Database, Locals
      <4>2. \A q \in Request : [q EXCEPT !.state = loc[t].choice] \in Request
        BY <4>1 DEF Request
      <4> QED BY <4>1, <4>2
    <3>2. [db EXCEPT !.hitl = rows] \in Database
      BY <3>1 DEF TypeOK, Database
    <3> QED BY <3>2
  <2> QED BY <1>4, <2>1, WriteTypes DEF DecideResolve, LockedPcs
<1>5. CASE DecideSave(t)
  BY <1>5, WorkflowSavedType DEF DecideSave, TypeOK, Goto, FreePcs
<1> QED BY <1>1, <1>2, <1>3, <1>4, <1>5 DEF DecideHitl

Actions == {"verify-existing", "retry-same-attempt", "restore-baseline", "abort-preserve"}

LEMMA RecoverTypes ==
  ASSUME TypeOK, NEW t \in Threads, NEW a \in Attempts, NEW action \in Actions,
         NEW to \in LockedPcs, NEW status \in Statuses, NEW node \in Nodes,
         Recover(t, a, action, to, status, node)
  PROVE  /\ pc' \in [Threads -> LockedPcs \cup FreePcs] /\ lock' \in Threads \cup {NoThread}
         /\ bounds' \in [crashes: Nat, edits: Nat, overlaps: Nat, overwrites: 0..MaxOverwrites]
         /\ mem' \in [Threads -> Row] /\ loc' \in [Threads -> Locals]
<1>1. mem' \in [Threads -> Row]
  <2>1. [db.wf EXCEPT !.status = status, !.node = node,
          !.attempt = IF status = "RUNNING" THEN a ELSE @] \in Row
    BY AttemptsAreNumbers DEF TypeOK, Database, Row
  <2> QED BY <2>1 DEF Recover, TypeOK
<1>2. loc' \in [Threads -> Locals]
  <2> DEFINE l == [loc[t] EXCEPT !.action = action, !.about = a]
  <2>1. l \in Locals
    BY DEF TypeOK, Locals, Actions
  <2>2. loc' = [loc EXCEPT ![t] = l]
    BY DEF Recover, TypeOK
  <2> QED BY <2>1, <2>2 DEF TypeOK
<1> QED BY <1>1, <1>2, BeginTypes DEF Recover

LEMMA TypeRecoverUncertain ==
  ASSUME TypeOK, NEW t \in Threads, RecoverUncertain(t) PROVE TypeOK'
<1>1. ASSUME NEW a \in Attempts, RecoverVerifyExisting(t, a) PROVE TypeOK'
  <2>1. db' \in Database
    BY <1>1, ConstantTypes DEF RecoverVerifyExisting, TypeOK, Database, AttemptRow
  <2> QED BY <1>1, <2>1, RecoverTypes
          DEF RecoverVerifyExisting, TypeOK, Actions, LockedPcs, Statuses, Nodes
<1>2. ASSUME NEW a \in Attempts, RecoverRetry(t, a) PROVE TypeOK'
  <2>1. db' \in Database
    BY <1>2, IntentSavedType DEF RecoverRetry, Intents, OpenIntents
  <2>2. hist' \in [calls: [Attempts -> Nat], retries: [Attempts -> Nat]]
    BY <1>2 DEF RecoverRetry, TypeOK
  <2> QED BY <1>2, <2>1, <2>2, RecoverTypes
          DEF RecoverRetry, TypeOK, Actions, LockedPcs, Statuses, Nodes
<1>3. ASSUME NEW a \in Attempts, RecoverRestore(t, a) PROVE TypeOK'
  <2>1. git' \in Worktree
    BY <1>3, Parameters DEF RecoverRestore, RestoreContractPaths, TypeOK, Worktree
  <2> QED BY <1>3, <2>1, RecoverTypes
          DEF RecoverRestore, TypeOK, Actions, LockedPcs, Statuses, Nodes
<1>4. ASSUME NEW a \in Attempts, RecoverAbort(t, a) PROVE TypeOK'
  BY <1>4, RecoverTypes DEF RecoverAbort, TypeOK, Actions, LockedPcs, Statuses, Nodes
<1>5. CASE RecoverClose(t)
  <2>1. Outcome(loc[t].action) \in Intents
    BY DEF Outcome, Intents
  <2> QED BY <1>5, <2>1, IntentSavedType, WriteTypes DEF RecoverClose, LockedPcs
<1>6. CASE RecoverSave(t)
  BY <1>6, WorkflowSavedType, WriteAndReturnTypes DEF RecoverSave, TypeOK, Goto, FreePcs
<1> QED BY <1>1, <1>2, <1>3, <1>4, <1>5, <1>6 DEF RecoverUncertain

LEMMA TypeRollBack ==
  ASSUME TypeOK, NEW t \in Threads, RollBack(t) PROVE TypeOK'
<1>1. ASSUME NEW v \in VersionIds, Rollback(t, v) PROVE TypeOK'
  <2>1. [db.wf EXCEPT !.active = v] \in Row
    BY <1>1 DEF TypeOK, Database, Row
  <2>2. git' \in Worktree
    BY <1>1 DEF Rollback, SwitchTo, TypeOK, Worktree, Database, Version, Commit
  <2> QED BY <1>1, <2>1, <2>2, BeginTypes DEF Rollback, TypeOK, LockedPcs
<1>2. CASE RollbackSave(t)
  BY <1>2, WorkflowSavedType, WriteAndReturnTypes DEF RollbackSave
<1> QED BY <1>1, <1>2 DEF RollBack

LEMMA TypeEnvironment ==
  ASSUME TypeOK, Crash \/ OutsideEdit \/ Overwrite PROVE TypeOK'
<1>1. CASE Crash
  BY <1>1, ConstantTypes DEF Crash, TypeOK, FreePcs
<1>2. CASE OutsideEdit
  <2>1. git' \in Worktree
    BY <1>2 DEF OutsideEdit, TypeOK, Worktree, StageAll
  <2> QED BY <1>2, <2>1 DEF OutsideEdit, TypeOK
<1>3. CASE Overwrite
  <2>1. bounds' \in [crashes: Nat, edits: Nat, overlaps: Nat, overwrites: 0..MaxOverwrites]
    BY <1>3, BoundsAssumption DEF Overwrite, TypeOK
  <2> QED BY <1>3, <2>1 DEF Overwrite, TypeOK
<1> QED BY <1>1, <1>2, <1>3

LEMMA TypeStep == TypeOK /\ [Next]_vars => TypeOK'
<1> SUFFICES ASSUME TypeOK, [Next]_vars PROVE TypeOK'
  OBVIOUS
<1>1. ASSUME NEW t \in Threads, ThreadStep(t) PROVE TypeOK'
  BY <1>1, TypeStart, TypeRun, TypeExecute, TypeVerify, TypePromote, TypePauseResume,
     TypeDecideHitl, TypeRecoverUncertain, TypeRollBack DEF ThreadStep
<1>2. CASE UNCHANGED vars
  BY <1>2 DEF vars, TypeOK
<1> QED BY <1>1, <1>2, TypeEnvironment DEF Next

\* Every row, pointer and counter keeps its type whatever the requests, crashes
\* and outside edits: the workflow rows SQLite holds can always be decoded.
THEOREM TypeCorrect == Spec => []TypeOK
  BY TypeInit, TypeStep, PTL DEF Spec
-----------------------------------------------------------------------------
(* The lock.                                                               *)

\* A step inside, or outside, the locked block.
LEMMA StepKeepsLock ==
  ASSUME TypeOK, MutualExclusion, NEW t \in Threads, NEW to,
         pc' = [pc EXCEPT ![t] = to], UNCHANGED lock,
         pc[t] \in LockedPcs <=> to \in LockedPcs
  PROVE  MutualExclusion'
BY DEF TypeOK, MutualExclusion

LEMMA AcquireKeepsLock ==
  ASSUME TypeOK, MutualExclusion, NEW t \in Threads, NEW to \in LockedPcs,
         LockFree, lock' = t, pc' = [pc EXCEPT ![t] = to]
  PROVE  MutualExclusion'
BY Parameters DEF TypeOK, MutualExclusion, LockFree

LEMMA ReleaseKeepsLock ==
  ASSUME TypeOK, MutualExclusion, NEW t \in Threads, NEW to, to \notin LockedPcs,
         lock' = IF lock = t THEN NoThread ELSE lock, pc' = [pc EXCEPT ![t] = to]
  PROVE  MutualExclusion'
BY Parameters DEF TypeOK, MutualExclusion

LEMMA ReturnKeepsLock ==
  ASSUME TypeOK, MutualExclusion, NEW t \in Threads, Return(t) PROVE MutualExclusion'
BY ReleaseKeepsLock DEF Return, LockedPcs

LEMMA WriteKeepsLock ==
  ASSUME TypeOK, MutualExclusion, NEW t \in Threads, NEW from, NEW to, NEW new,
         Write(t, from, to, new), from \in LockedPcs <=> to \in LockedPcs
  PROVE  MutualExclusion'
BY StepKeepsLock DEF Write, Goto

LEMMA LockStart ==
  ASSUME TypeOK, MutualExclusion, NEW t \in Threads, Start(t) PROVE MutualExclusion'
BY StepKeepsLock
   DEF Start, StartCreate, StartContract, StartBaseline, StartSave, Begin, Write, Goto, LockedPcs

LEMMA LockRun ==
  ASSUME TypeOK, MutualExclusion, NEW t \in Threads, Run(t) PROVE MutualExclusion'
<1>1. CASE RunLock(t)
  BY <1>1, AcquireKeepsLock DEF RunLock, Goto, LockedPcs
<1>2. CASE RunReload(t)
  BY <1>2, StepKeepsLock DEF RunReload, Goto, LockedPcs
<1>3. CASE RunExit(t) \/ RunPause(t) \/ NodeRaise(t)
  BY <1>3, ReturnKeepsLock DEF RunExit, RunPause, NodeRaise
<1> QED BY <1>1, <1>2, <1>3 DEF Run

LEMMA LockExecute ==
  ASSUME TypeOK, MutualExclusion, NEW t \in Threads, Execute(t) PROVE MutualExclusion'
<1>1. CASE DshWrite(t)
  BY <1>1 DEF DshWrite, MutualExclusion
<1>2. ASSUME NEW a \in Attempts, ExecuteUncertain(t, a) \/ ExecuteApprovedRetry(t, a)
      PROVE  MutualExclusion'
  BY <1>2, StepKeepsLock DEF ExecuteUncertain, ExecuteApprovedRetry, At, LockedPcs
<1>3. CASE ExecuteNew(t) \/ ExecuteIntent(t) \/ ExecuteCall(t) \/ ExecuteReuse(t)
  BY <1>3, StepKeepsLock
     DEF ExecuteNew, ExecuteIntent, ExecuteCall, ExecuteReuse, Write, Goto, At, LockedPcs
<1>4. CASE DshReturn(t) \/ DshRaise(t) \/ ExecuteFinish(t) \/ ExecuteDone(t)
  BY <1>4, WriteKeepsLock DEF DshReturn, DshRaise, ExecuteFinish, ExecuteDone, LockedPcs
<1> QED BY <1>1, <1>2, <1>3, <1>4 DEF Execute

LEMMA LockVerify ==
  ASSUME TypeOK, MutualExclusion, NEW t \in Threads, Verify(t) PROVE MutualExclusion'
<1>1. ASSUME NEW result \in BOOLEAN, VerifyRun(t, result) PROVE MutualExclusion'
  BY <1>1, StepKeepsLock DEF VerifyRun, At, LockedPcs
<1>2. CASE VerifyRaise(t)
  BY <1>2, ReturnKeepsLock DEF VerifyRaise
<1>3. CASE VerifyRecord(t)
  BY <1>3, StepKeepsLock DEF VerifyRecord, Goto, LockedPcs
<1>4. CASE VerifyPrepare(t) \/ VerifyReview(t) \/ VerifyAutoPromote(t) \/ VerifyRetry(t)
           \/ VerifyExhausted(t)
  BY <1>4, StepKeepsLock
     DEF VerifyPrepare, VerifyReview, VerifyAutoPromote, VerifyRetry, VerifyExhausted, Goto,
         LockedPcs
<1>5. CASE VerifySavePrepared(t) \/ VerifyDone(t)
  BY <1>5, WriteKeepsLock DEF VerifySavePrepared, VerifyDone, LockedPcs
<1> QED BY <1>1, <1>2, <1>3, <1>4, <1>5 DEF Verify

LEMMA LockPromote ==
  ASSUME TypeOK, MutualExclusion, NEW t \in Threads, Promote(t) PROVE MutualExclusion'
<1>1. CASE PromotePlain(t) \/ PromoteTagged(t) \/ PromoteHead(t)
  BY <1>1, StepKeepsLock DEF PromotePlain, PromoteTagged, PromoteHead, At, LockedPcs
<1>2. CASE PromoteTag(t) \/ PromoteVersion(t) \/ PromoteDone(t)
  BY <1>2, StepKeepsLock DEF PromoteTag, PromoteVersion, PromoteDone, Write, Goto, LockedPcs
<1> QED BY <1>1, <1>2 DEF Promote

LEMMA LockPauseResume ==
  ASSUME TypeOK, MutualExclusion, NEW t \in Threads, PauseResume(t) PROVE MutualExclusion'
<1>1. CASE PauseSave(t)
  BY <1>1, ReturnKeepsLock DEF PauseSave, WriteAndReturn
<1>2. CASE PauseRead(t) \/ ResumeRead(t) \/ ResumeSave(t)
  BY <1>2, StepKeepsLock DEF PauseRead, ResumeRead, ResumeSave, Begin, Write, Goto, LockedPcs
<1> QED BY <1>1, <1>2 DEF PauseResume

LEMMA LockDecideHitl ==
  ASSUME TypeOK, MutualExclusion, NEW t \in Threads, DecideHitl(t) PROVE MutualExclusion'
<1>1. ASSUME NEW r, NEW a, NEW choice, NEW status, NEW node,
             Decide(t, r, a, choice, status, node)
      PROVE  MutualExclusion'
  BY <1>1, AcquireKeepsLock DEF Decide, Begin, Goto, LockedPcs
<1>2. CASE DecideResolve(t)
  BY <1>2, WriteKeepsLock DEF DecideResolve, LockedPcs
<1>3. CASE DecideSave(t)
  BY <1>3, ReleaseKeepsLock DEF DecideSave, MutualExclusion, Goto, LockedPcs
<1> QED BY <1>1, <1>2, <1>3 DEF DecideHitl, DecideApprove, DecideRetry, DecideReject

LEMMA LockRecoverUncertain ==
  ASSUME TypeOK, MutualExclusion, NEW t \in Threads, RecoverUncertain(t)
  PROVE  MutualExclusion'
<1>1. ASSUME NEW a, NEW action, NEW to \in LockedPcs, NEW status, NEW node,
             Recover(t, a, action, to, status, node)
      PROVE  MutualExclusion'
  BY <1>1, AcquireKeepsLock DEF Recover, Begin, Goto
<1>2. ASSUME NEW a \in Attempts,
             RecoverVerifyExisting(t, a) \/ RecoverRetry(t, a) \/ RecoverRestore(t, a)
             \/ RecoverAbort(t, a)
      PROVE  MutualExclusion'
  BY <1>1, <1>2
     DEF RecoverVerifyExisting, RecoverRetry, RecoverRestore, RecoverAbort, LockedPcs
<1>3. CASE RecoverClose(t)
  BY <1>3, WriteKeepsLock DEF RecoverClose, LockedPcs
<1>4. CASE RecoverSave(t)
  BY <1>4, ReleaseKeepsLock, ReturnKeepsLock
     DEF RecoverSave, WriteAndReturn, MutualExclusion, Goto, LockedPcs
<1> QED BY <1>2, <1>3, <1>4 DEF RecoverUncertain

LEMMA LockRollBack ==
  ASSUME TypeOK, MutualExclusion, NEW t \in Threads, RollBack(t) PROVE MutualExclusion'
<1>1. ASSUME NEW v \in VersionIds, Rollback(t, v) PROVE MutualExclusion'
  BY <1>1, AcquireKeepsLock DEF Rollback, Begin, Goto, LockedPcs
<1>2. CASE RollbackSave(t)
  BY <1>2, ReturnKeepsLock DEF RollbackSave, WriteAndReturn
<1> QED BY <1>1, <1>2 DEF RollBack

LEMMA LockStep == TypeOK /\ MutualExclusion /\ [Next]_vars => MutualExclusion'
<1> SUFFICES ASSUME TypeOK, MutualExclusion, [Next]_vars PROVE MutualExclusion'
  OBVIOUS
<1>1. ASSUME NEW t \in Threads, ThreadStep(t) PROVE MutualExclusion'
  BY <1>1, LockStart, LockRun, LockExecute, LockVerify, LockPromote, LockPauseResume,
     LockDecideHitl, LockRecoverUncertain, LockRollBack DEF ThreadStep
<1>2. CASE Crash
  BY <1>2, Parameters DEF Crash, MutualExclusion, LockedPcs
<1>3. CASE OutsideEdit \/ Overwrite \/ UNCHANGED vars
  BY <1>3 DEF OutsideEdit, Overwrite, vars, MutualExclusion
<1> QED BY <1>1, <1>2, <1>3 DEF Next

\* The workflow lock serialises run, decide_hitl, recover_uncertain and rollback
\* for any number of server threads, and is free again after every return,
\* exception and crash.
THEOREM LockIsExclusive == Spec => []MutualExclusion
<1>1. Init => MutualExclusion
  BY Parameters DEF Init, MutualExclusion, LockedPcs
<1> QED BY <1>1, LockStep, TypeCorrect, PTL DEF Spec
-----------------------------------------------------------------------------
(* What the lock, the insert-once intents and the order "tag, version row, *)
(* workflow row" give for any number of threads, attempts and crashes.     *)

\* What a thread relies on between its own steps.
LocalInv(t) ==
  /\ pc[t] = "calling" => ~HasAttempt(Attempt(t))
  /\ pc[t] = "loop" => loc[t].prep = NoPrepared
  /\ pc[t] = "tag" => Attempt(t) \in Attempts /\ git.tags[Attempt(t)] = NoCommit
  /\ pc[t] = "version" =>
       /\ Attempt(t) \in Attempts
       /\ loc[t].prep.commit \in {NoCommit, git.tags[Attempt(t)]}
  /\ mem[t].active # NoVersion => db.versions[mem[t].active].exists

SafetyInv == VersionsAreTagged /\ \A t \in Threads : LocalInv(t)

\* A step touches the locals of one thread only.
OnlyThread(t) ==
  \A u \in Threads \ {t} : pc'[u] = pc[u] /\ mem'[u] = mem[u] /\ loc'[u] = loc[u]

\* The steps that promote nothing and leave the thread at a point where it relies
\* on nothing but its active version.
Quiet(t) ==
  /\ OnlyThread(t)
  /\ db'.versions = db.versions /\ git'.tags = git.tags
  /\ db'.attempts = db.attempts \/ lock' = t
  /\ db'.wf.active \in {db.wf.active, mem[t].active, NoVersion}
  /\ mem'[t].active \in {db.wf.active, mem[t].active, NoVersion}
  /\ pc'[t] \notin {"calling", "loop", "tag", "version"}

LEMMA QuietKeepsSafety ==
  ASSUME TypeOK, TypeOK', MutualExclusion', SafetyInv, NEW t \in Threads, Quiet(t)
  PROVE  SafetyInv'
<1>1. VersionsAreTagged'
  BY DEF SafetyInv, VersionsAreTagged, LocalInv, Quiet
<1>2. LocalInv(t)'
  BY DEF SafetyInv, VersionsAreTagged, LocalInv, Quiet
<1>3. ASSUME NEW u \in Threads \ {t} PROVE LocalInv(u)'
  <2>1. LocalInv(u) /\ pc'[u] = pc[u] /\ mem'[u] = mem[u] /\ loc'[u] = loc[u]
    BY DEF SafetyInv, Quiet, OnlyThread
  <2>2. CASE db'.attempts = db.attempts
    BY <2>1, <2>2 DEF LocalInv, Quiet, HasAttempt, Attempt
  <2>3. CASE lock' = t
    <3>1. pc'[u] \notin LockedPcs
      BY <2>3 DEF MutualExclusion
    <3> QED BY <2>1, <3>1 DEF LocalInv, Quiet, LockedPcs, Attempt
  <2> QED BY <2>2, <2>3 DEF Quiet
<1> QED BY <1>1, <1>2, <1>3 DEF SafetyInv

LEMMA WriteIsQuiet ==
  ASSUME TypeOK, NEW t \in Threads, NEW from, NEW to, NEW new,
         Write(t, from, to, new), to \notin {"calling", "loop", "tag", "version"},
         new.versions = db.versions, new.attempts = db.attempts \/ lock = t,
         new.wf.active \in {db.wf.active, mem[t].active, NoVersion}
  PROVE  Quiet(t)
BY DEF TypeOK, Write, Goto, Quiet, OnlyThread

LEMMA ReturnIsQuiet ==
  ASSUME TypeOK, NEW t \in Threads, Return(t), git'.tags = git.tags,
         db'.versions = db.versions, db'.attempts = db.attempts,
         db'.wf.active \in {db.wf.active, mem[t].active, NoVersion}
  PROVE  Quiet(t)
BY DEF TypeOK, Return, NoRow, Quiet, OnlyThread

LEMMA SavedRow ==
  ASSUME TypeOK, NEW r \in Row
  PROVE  LET new == [db EXCEPT !.wf = r] IN
         /\ new.wf = r /\ new.versions = db.versions /\ new.attempts = db.attempts
         /\ new.intents = db.intents
BY DEF TypeOK, Database

LEMMA SavedWorkflow ==
  ASSUME TypeOK, NEW t \in Threads
  PROVE  LET new == WorkflowSaved(t) IN
         /\ new.wf = mem[t] /\ new.versions = db.versions /\ new.attempts = db.attempts
         /\ new.intents = db.intents
BY SavedRow DEF TypeOK, WorkflowSaved

LEMMA SavedIntent ==
  ASSUME TypeOK, NEW a, NEW i
  PROVE  LET new == [db EXCEPT !.intents[a] = i] IN
         new.wf = db.wf /\ new.versions = db.versions /\ new.attempts = db.attempts
BY DEF TypeOK, Database

LEMMA QuietStart ==
  ASSUME TypeOK, NEW t \in Threads, Start(t), ~StartBaseline(t) PROVE Quiet(t)
<1>1. ASSUME NEW c \in Contracts, StartCreate(t, c) PROVE Quiet(t)
  BY <1>1, SavedRow, ConstantTypes
     DEF StartCreate, NewRow, NoRow, Begin, Goto, TypeOK, Quiet, OnlyThread
<1>2. CASE StartContract(t)
  <2> DEFINE new == [db EXCEPT !.contract = loc[t].acceptance]
  <2>1. new.versions = db.versions /\ new.attempts = db.attempts /\ new.wf = db.wf
    BY DEF TypeOK, Database
  <2>2. Write(t, "contract", "baseline", new) \/ Write(t, "contract", "run", new)
    BY <1>2 DEF StartContract
  <2> HIDE DEF new
  <2> QED BY <2>1, <2>2, WriteIsQuiet
<1>3. CASE StartSave(t)
  BY <1>3, SavedWorkflow, WriteIsQuiet DEF StartSave
<1> QED BY <1>1, <1>2, <1>3 DEF Start

LEMMA QuietRun ==
  ASSUME TypeOK, NEW t \in Threads, RunExit(t) \/ RunPause(t) \/ NodeRaise(t)
  PROVE  Quiet(t)
<1>1. CASE RunPause(t)
  <2>1. PausedRow(t) \in Row /\ PausedRow(t).active = mem[t].active
    BY DEF PausedRow, TypeOK, Row, Statuses
  <2> QED BY <1>1, <2>1, SavedRow, ReturnIsQuiet DEF RunPause
<1>2. CASE RunExit(t) \/ NodeRaise(t)
  BY <1>2, ReturnIsQuiet DEF RunExit, NodeRaise
<1> QED BY <1>1, <1>2

LEMMA QuietExecute ==
  ASSUME TypeOK, MutualExclusion, NEW t \in Threads, Execute(t), ~ExecuteCall(t), ~DshWrite(t)
  PROVE  Quiet(t)
<1>1. ASSUME NEW a \in Attempts, ExecuteUncertain(t, a) PROVE Quiet(t)
  <2> DEFINE r == [mem[t] EXCEPT !.attempt = a, !.status = "UNCERTAIN"]
  <2>1. r \in Row /\ r.active = mem[t].active
    BY <1>1, AttemptsAreNumbers DEF TypeOK, Row, Statuses
  <2> QED BY <1>1, <2>1, SavedRow DEF ExecuteUncertain, TypeOK, Quiet, OnlyThread
<1>2. ASSUME NEW a \in Attempts, ExecuteApprovedRetry(t, a) PROVE Quiet(t)
  <2>1. mem'[t].active = mem[t].active
    BY <1>2 DEF ExecuteApprovedRetry, TypeOK, Row
  <2> QED BY <1>2, <2>1 DEF ExecuteApprovedRetry, TypeOK, Quiet, OnlyThread
<1>3. CASE ExecuteNew(t)
  <2> DEFINE r == [mem[t] EXCEPT !.attempt = @ + 1]
  <2>1. r \in Row /\ r.active = mem[t].active
    BY <1>3, Parameters DEF ExecuteNew, TypeOK, Row, Attempt, Numbers
  <2> HIDE DEF r
  <2>2. db' = [db EXCEPT !.wf = r] /\ mem' = [mem EXCEPT ![t] = r]
    BY <1>3 DEF ExecuteNew, r
  <2> QED BY <1>3, <2>1, <2>2, SavedRow DEF ExecuteNew, TypeOK, Quiet, OnlyThread
<1>4. CASE ExecuteIntent(t)
  <2> DEFINE new == StartExecution(Attempt(t))
  <2>1. new.versions = db.versions /\ new.attempts = db.attempts /\ new.wf = db.wf
    BY DEF TypeOK, Database, StartExecution
  <2>2. Write(t, "intent", "check", new)
    BY <1>4 DEF ExecuteIntent
  <2> HIDE DEF new
  <2> QED BY <2>1, <2>2, WriteIsQuiet
<1>5. CASE ExecuteReuse(t) \/ ExecuteFinish(t)
  <2> DEFINE new == [db EXCEPT !.intents[Attempt(t)] = "COMPLETED"]
  <2>1. new.versions = db.versions /\ new.attempts = db.attempts /\ new.wf = db.wf
    BY DEF TypeOK, Database
  <2>2. Write(t, "check", "executed", new) \/ Write(t, "finish", "executed", new)
    BY <1>5 DEF ExecuteReuse, ExecuteFinish
  <2> HIDE DEF new
  <2> QED BY <2>1, <2>2, WriteIsQuiet
<1>6. CASE DshReturn(t)
  <2> DEFINE new == [db EXCEPT !.attempts[Attempt(t)] = [output |-> "dsh", prep |-> NoPrepared]]
  <2>1. new.versions = db.versions /\ new.wf = db.wf
    BY DEF TypeOK, Database
  <2>2. lock = t
    BY <1>6 DEF DshReturn, Write, Goto, MutualExclusion, LockedPcs
  <2>3. Write(t, "calling", "finish", new)
    BY <1>6 DEF DshReturn
  <2> HIDE DEF new
  <2> QED BY <2>1, <2>2, <2>3, WriteIsQuiet
<1>7. CASE DshRaise(t)
  <2>1. UncertainRow(t) \in Row /\ UncertainRow(t).active = mem[t].active
    BY DEF UncertainRow, TypeOK, Row, Statuses
  <2> DEFINE new == UnknownOutcome(t)
  <2>2. new.wf = UncertainRow(t) /\ new.versions = db.versions /\ new.attempts = db.attempts
    BY <2>1, SavedRow DEF UnknownOutcome
  <2>3. Write(t, "calling", "reload", new)
    BY <1>7 DEF DshRaise
  <2> HIDE DEF new
  <2> QED BY <2>1, <2>2, <2>3, WriteIsQuiet
<1>8. CASE ExecuteDone(t)
  <2> DEFINE r == [mem[t] EXCEPT !.node = "VERIFY"]
  <2>1. r \in Row /\ r.active = mem[t].active
    BY DEF TypeOK, Row, Nodes
  <2> DEFINE new == [db EXCEPT !.wf = r]
  <2>2. new.wf = r /\ new.versions = db.versions /\ new.attempts = db.attempts
    BY <2>1, SavedRow
  <2>3. Write(t, "executed", "reload", new)
    BY <1>8 DEF ExecuteDone
  <2> HIDE DEF new, r
  <2> QED BY <2>1, <2>2, <2>3, WriteIsQuiet
<1> QED BY <1>1, <1>2, <1>3, <1>4, <1>5, <1>6, <1>7, <1>8 DEF Execute

LEMMA NewRequestKeeps ==
  ASSUME TypeOK, NEW r, NEW a, NEW fp, NewRequest(r, a, fp)
  PROVE  /\ db'.wf = db.wf /\ db'.versions = db.versions /\ db'.attempts = db.attempts
         /\ db'.intents = db.intents
BY DEF TypeOK, Database, NewRequest

LEMMA WaitKeeps ==
  ASSUME TypeOK, NEW t \in Threads, WaitForHuman(t)
  PROVE  /\ mem'[t].active = mem[t].active
         /\ \A u \in Threads \ {t} : mem'[u] = mem[u]
BY DEF TypeOK, Row, WaitForHuman

LEMMA QuietVerify ==
  ASSUME TypeOK, MutualExclusion, NEW t \in Threads, Verify(t) PROVE Quiet(t)
<1>1. ASSUME NEW result \in BOOLEAN, VerifyRun(t, result) PROVE Quiet(t)
  BY <1>1 DEF VerifyRun, TypeOK, Quiet, OnlyThread
<1>2. CASE VerifyRaise(t)
  BY <1>2, ReturnIsQuiet DEF VerifyRaise
<1>3. CASE VerifyRecord(t)
  <2>1. db'.versions = db.versions /\ db'.attempts = db.attempts /\ db'.wf = db.wf
    BY <1>3 DEF VerifyRecord, TypeOK, Database
  <2> QED BY <1>3, <2>1 DEF VerifyRecord, Goto, TypeOK, Quiet, OnlyThread
<1>4. CASE VerifyPrepare(t)
  BY <1>4 DEF VerifyPrepare, StageAll, Goto, TypeOK, Worktree, Quiet, OnlyThread
<1>5. CASE VerifySavePrepared(t)
  <2> DEFINE new == [db EXCEPT !.attempts[Attempt(t)].prep = loc[t].prep]
  <2>1. new.versions = db.versions /\ new.wf = db.wf
    BY DEF TypeOK, Database
  <2>2. lock = t
    BY <1>5 DEF VerifySavePrepared, Write, Goto, MutualExclusion, LockedPcs
  <2>3. Write(t, "prepared", "gate", new)
    BY <1>5 DEF VerifySavePrepared
  <2> HIDE DEF new
  <2> QED BY <2>1, <2>2, <2>3, WriteIsQuiet
<1>6. CASE VerifyReview(t) \/ VerifyExhausted(t)
  BY <1>6, NewRequestKeeps, WaitKeeps
     DEF VerifyReview, VerifyExhausted, Goto, TypeOK, Quiet, OnlyThread
<1>7. CASE VerifyAutoPromote(t)
  BY <1>7 DEF VerifyAutoPromote, Goto, TypeOK, Row, Quiet, OnlyThread
<1>8. CASE VerifyRetry(t)
  <2>1. db'.versions = db.versions /\ db'.attempts = db.attempts /\ db'.wf = db.wf
    BY <1>8 DEF VerifyRetry, TypeOK, Database
  <2>2. RetryRow(t).active = mem[t].active
    BY DEF RetryRow, TypeOK, Row
  <2> QED BY <1>8, <2>1, <2>2 DEF VerifyRetry, Goto, TypeOK, Quiet, OnlyThread
<1>9. CASE VerifyDone(t)
  BY <1>9, SavedWorkflow, WriteIsQuiet DEF VerifyDone
<1> QED BY <1>1, <1>2, <1>3, <1>4, <1>5, <1>6, <1>7, <1>8, <1>9 DEF Verify

LEMMA QuietPauseResume ==
  ASSUME TypeOK, NEW t \in Threads, PauseResume(t) PROVE Quiet(t)
<1>1. CASE PauseRead(t) \/ ResumeRead(t)
  <2>1. mem'[t].active = db.wf.active /\ \A u \in Threads \ {t} : mem'[u] = mem[u]
    <3> DEFINE p == [db.wf EXCEPT !.pause = TRUE]
               q == [db.wf EXCEPT !.pause = FALSE,
                       !.status = IF @ = "PAUSED" THEN "RUNNING" ELSE @]
    <3>1. p.active = db.wf.active /\ q.active = db.wf.active
      BY DEF TypeOK, Database, Row
    <3>2. mem' = [mem EXCEPT ![t] = p] \/ mem' = [mem EXCEPT ![t] = q]
      BY <1>1 DEF PauseRead, ResumeRead
    <3> HIDE DEF p, q
    <3> QED BY <3>1, <3>2 DEF TypeOK
  <2> QED BY <1>1, <2>1 DEF PauseRead, ResumeRead, Begin, Goto, TypeOK, Quiet, OnlyThread
<1>2. CASE PauseSave(t)
  BY <1>2, SavedWorkflow, ReturnIsQuiet DEF PauseSave, WriteAndReturn
<1>3. CASE ResumeSave(t)
  BY <1>3, SavedWorkflow, WriteIsQuiet DEF ResumeSave
<1> QED BY <1>1, <1>2, <1>3 DEF PauseResume

LEMMA QuietDecideHitl ==
  ASSUME TypeOK, NEW t \in Threads, DecideHitl(t) PROVE Quiet(t)
<1>1. ASSUME NEW r, NEW a, NEW choice, NEW status, NEW node,
             Decide(t, r, a, choice, status, node)
      PROVE  Quiet(t)
  <2>1. mem'[t].active = db.wf.active /\ \A u \in Threads \ {t} : mem'[u] = mem[u]
    BY <1>1 DEF Decide, TypeOK, Database, Row
  <2>2. \A u \in Threads \ {t} : loc'[u] = loc[u]
    BY <1>1 DEF Decide, TypeOK
  <2> QED BY <1>1, <2>1, <2>2 DEF Decide, Begin, Goto, TypeOK, Quiet, OnlyThread
<1>2. CASE DecideResolve(t)
  <2> DEFINE new == [db EXCEPT !.hitl[loc[t].reason][loc[t].about].state = loc[t].choice]
  <2>1. new.versions = db.versions /\ new.attempts = db.attempts /\ new.wf = db.wf
    BY DEF TypeOK, Database
  <2>2. Write(t, "resolve", "decided", new)
    BY <1>2 DEF DecideResolve
  <2> HIDE DEF new
  <2> QED BY <2>1, <2>2, WriteIsQuiet
<1>3. CASE DecideSave(t)
  BY <1>3, SavedWorkflow DEF DecideSave, Goto, TypeOK, Quiet, OnlyThread
<1> QED BY <1>1, <1>2, <1>3 DEF DecideHitl, DecideApprove, DecideRetry, DecideReject

LEMMA QuietRecoverUncertain ==
  ASSUME TypeOK, NEW t \in Threads, RecoverUncertain(t) PROVE Quiet(t)
<1>1. ASSUME NEW a, NEW action, NEW to \in {"close", "recovered"}, NEW status, NEW node,
             Recover(t, a, action, to, status, node),
             db'.wf = db.wf, db'.versions = db.versions, git'.tags = git.tags
      PROVE  Quiet(t)
  <2>1. mem'[t].active = db.wf.active /\ \A u \in Threads \ {t} : mem'[u] = mem[u]
    BY <1>1 DEF Recover, TypeOK, Database, Row
  <2>2. \A u \in Threads \ {t} : loc'[u] = loc[u]
    BY <1>1 DEF Recover, TypeOK
  <2> QED BY <1>1, <2>1, <2>2 DEF Recover, Begin, Goto, TypeOK, Quiet, OnlyThread
<1>2. ASSUME NEW a \in Attempts, RecoverVerifyExisting(t, a) PROVE Quiet(t)
  <2>1. db'.wf = db.wf /\ db'.versions = db.versions
    BY <1>2 DEF RecoverVerifyExisting, TypeOK, Database
  <2> QED BY <1>1, <1>2, <2>1 DEF RecoverVerifyExisting
<1>3. ASSUME NEW a \in Attempts, RecoverRetry(t, a) PROVE Quiet(t)
  BY <1>1, <1>3, SavedIntent DEF RecoverRetry
<1>4. ASSUME NEW a \in Attempts, RecoverRestore(t, a) PROVE Quiet(t)
  <2>1. git'.tags = git.tags
    BY <1>4 DEF RecoverRestore, RestoreContractPaths, TypeOK, Worktree
  <2> QED BY <1>1, <1>4, <2>1 DEF RecoverRestore
<1>5. ASSUME NEW a \in Attempts, RecoverAbort(t, a) PROVE Quiet(t)
  BY <1>1, <1>5 DEF RecoverAbort
<1>6. CASE RecoverClose(t)
  <2> DEFINE new == [db EXCEPT !.intents[loc[t].about] = Outcome(loc[t].action)]
  <2>1. new.versions = db.versions /\ new.attempts = db.attempts /\ new.wf = db.wf
    BY DEF TypeOK, Database
  <2>2. Write(t, "close", "recovered", new)
    BY <1>6 DEF RecoverClose
  <2> HIDE DEF new
  <2> QED BY <2>1, <2>2, WriteIsQuiet
<1>7. CASE RecoverSave(t)
  BY <1>7, SavedWorkflow, ReturnIsQuiet
     DEF RecoverSave, WriteAndReturn, Goto, TypeOK, Quiet, OnlyThread
<1> QED BY <1>2, <1>3, <1>4, <1>5, <1>6, <1>7 DEF RecoverUncertain

\* The steps that are not quiet.
LEMMA SafetyElsewhere ==
  ASSUME TypeOK, MutualExclusion', SafetyInv, NEW t \in Threads, OnlyThread(t),
         \A v \in VersionIds : db.versions[v].exists => db'.versions[v].exists,
         db'.attempts = db.attempts, git'.tags = git.tags \/ lock' = t,
         NEW u \in Threads \ {t}
  PROVE  LocalInv(u)'
<1>1. LocalInv(u) /\ pc'[u] = pc[u] /\ mem'[u] = mem[u] /\ loc'[u] = loc[u]
  BY DEF SafetyInv, OnlyThread
<1>2. mem[u].active \in {NoVersion} \cup VersionIds
  BY DEF TypeOK, Row
<1>3. CASE git'.tags = git.tags
  BY <1>1, <1>2, <1>3 DEF LocalInv, HasAttempt, Attempt
<1>4. CASE lock' = t
  <2>1. pc'[u] \notin LockedPcs
    BY <1>4 DEF MutualExclusion
  <2> QED BY <1>1, <1>2, <2>1 DEF LocalInv, LockedPcs, HasAttempt, Attempt
<1> QED BY <1>3, <1>4

LEMMA SafetyBaseline ==
  ASSUME TypeOK, MutualExclusion', SafetyInv, NEW t \in Threads, StartBaseline(t)
  PROVE  SafetyInv'
<1>1. /\ db'.wf = db.wf /\ db'.attempts = db.attempts
      /\ db'.versions = [db.versions EXCEPT ![0] = [exists |-> TRUE, commit |-> BaseCommit]]
  BY DEF StartBaseline, TypeOK, Database
<1>2. 0 \in VersionIds /\ 0 \notin Attempts
  BY Parameters DEF VersionIds, Numbers, Attempts
<1>3. \A v \in VersionIds : db.versions[v].exists => db'.versions[v].exists
  BY <1>1 DEF TypeOK, Database
<1>4. OnlyThread(t)
  BY DEF StartBaseline, Goto, OnlyThread, TypeOK
<1>5. VersionsAreTagged'
  <2>1. \A a \in Attempts : a \in VersionIds /\ db'.versions[a] = db.versions[a]
    BY <1>1, <1>2, AttemptsAreNumbers DEF VersionIds, TypeOK, Database
  <2>2. db.wf.active # NoVersion => db.wf.active \in VersionIds
    BY DEF TypeOK, Database, Row
  <2> QED BY <1>1, <1>3, <2>1, <2>2 DEF StartBaseline, SafetyInv, VersionsAreTagged
<1>6. LocalInv(t)'
  <2>1. mem'[t].active = 0 /\ db'.versions[0].exists
    BY <1>1, <1>2 DEF StartBaseline, TypeOK, Row, Database
  <2> QED BY <2>1 DEF StartBaseline, Goto, LocalInv, TypeOK
<1> QED BY <1>1, <1>3, <1>4, <1>5, <1>6, SafetyElsewhere DEF SafetyInv, StartBaseline

\* Reading the row for the next node.
LEMMA SafetyLoad ==
  ASSUME TypeOK, MutualExclusion', SafetyInv, NEW t \in Threads,
         RunLock(t) \/ RunReload(t)
  PROVE  SafetyInv'
<1>1. OnlyThread(t) /\ UNCHANGED <<db, git>>
  BY DEF RunLock, RunReload, Load, Goto, OnlyThread, TypeOK
<1>2. VersionsAreTagged'
  BY <1>1 DEF SafetyInv, VersionsAreTagged
<1>3. LocalInv(t)'
  <2>1. pc'[t] = "loop" /\ mem'[t] = db.wf /\ loc'[t].prep = NoPrepared
    BY DEF RunLock, RunReload, Load, Goto, TypeOK, NoLocals
  <2> QED BY <1>1, <2>1 DEF SafetyInv, VersionsAreTagged, LocalInv
<1> QED BY <1>1, <1>2, <1>3, SafetyElsewhere DEF SafetyInv

LEMMA SafetyCall ==
  ASSUME TypeOK, MutualExclusion', SafetyInv, NEW t \in Threads,
         ExecuteCall(t) \/ DshWrite(t)
  PROVE  SafetyInv'
<1>1. /\ OnlyThread(t) /\ UNCHANGED <<db, mem, loc>> /\ git'.tags = git.tags
      /\ pc'[t] = "calling"
  BY DEF ExecuteCall, DshWrite, StageAll, Goto, OnlyThread, TypeOK, Worktree
<1>2. ~HasAttempt(Attempt(t))
  BY DEF ExecuteCall, DshWrite, SafetyInv, LocalInv
<1>3. VersionsAreTagged'
  BY <1>1 DEF SafetyInv, VersionsAreTagged
<1>4. LocalInv(t)'
  BY <1>1, <1>2 DEF SafetyInv, LocalInv, HasAttempt, Attempt
<1> QED BY <1>1, <1>3, <1>4, SafetyElsewhere DEF SafetyInv

LEMMA SafetyPromote ==
  ASSUME TypeOK, MutualExclusion, MutualExclusion', SafetyInv, NEW t \in Threads, Promote(t)
  PROVE  SafetyInv'
<1>1. CASE PromotePlain(t) \/ PromoteTagged(t) \/ PromoteHead(t)
  <2>1. OnlyThread(t) /\ UNCHANGED <<db, mem>> /\ git'.tags = git.tags
    BY <1>1 DEF PromotePlain, PromoteTagged, PromoteHead, OnlyThread, TypeOK, Worktree
  <2>2. Attempt(t) \in Attempts /\ Attempt(t)' = Attempt(t)
    BY <1>1, <2>1 DEF PromotePlain, PromoteTagged, PromoteHead, HasAttempt, Attempt
  <2>3. \/ pc'[t] = "version" /\ loc'[t].prep.commit = NoCommit
        \/ pc'[t] = "version" /\ loc'[t].prep.commit = git.tags[Attempt(t)]
        \/ pc'[t] = "tag" /\ git.tags[Attempt(t)] = NoCommit
    <3>1. CASE PromotePlain(t)
      BY <3>1 DEF PromotePlain, At, SafetyInv, LocalInv, NoPrepared, TypeOK
    <3>2. CASE PromoteTagged(t)
      BY <3>2 DEF PromoteTagged, AlreadyPromoted, TypeOK, Locals
    <3>3. CASE PromoteHead(t)
      BY <3>3 DEF PromoteHead, CanUpdateRef, Tagged, TypeOK
    <3> QED BY <1>1, <3>1, <3>2, <3>3
  <2>4. VersionsAreTagged'
    BY <2>1 DEF SafetyInv, VersionsAreTagged
  <2>5. LocalInv(t)'
    BY <2>1, <2>2, <2>3 DEF SafetyInv, LocalInv
  <2> QED BY <2>1, <2>4, <2>5, SafetyElsewhere DEF SafetyInv
<1>2. CASE PromoteTag(t)
  <2> DEFINE a == Attempt(t)
  <2>1. /\ OnlyThread(t) /\ UNCHANGED <<db, mem, loc>> /\ lock' = t /\ pc'[t] = "version"
        /\ git'.tags = [git.tags EXCEPT ![a] = loc[t].prep.commit]
    BY <1>2 DEF PromoteTag, Goto, OnlyThread, TypeOK, Worktree, MutualExclusion, LockedPcs
  <2>2. a \in Attempts /\ git.tags[a] = NoCommit
    BY <1>2 DEF PromoteTag, Goto, SafetyInv, LocalInv
  <2>3. VersionsAreTagged'
    BY <2>1, <2>2 DEF SafetyInv, VersionsAreTagged, TypeOK, Worktree
  <2>4. LocalInv(t)'
    BY <2>1, <2>2 DEF SafetyInv, LocalInv, Attempt, TypeOK, Worktree
  <2> QED BY <2>1, <2>3, <2>4, SafetyElsewhere DEF SafetyInv
<1>3. CASE PromoteVersion(t)
  <2> DEFINE a == Attempt(t)
             row == [exists |-> TRUE, commit |-> loc[t].prep.commit]
  <2>1. /\ OnlyThread(t) /\ UNCHANGED git /\ pc'[t] = "promoted"
        /\ db'.wf = db.wf /\ db'.attempts = db.attempts
        /\ db'.versions = [db.versions EXCEPT ![a] = row]
    BY <1>3 DEF PromoteVersion, Goto, OnlyThread, TypeOK, Database
  <2>2. a \in VersionIds /\ row.commit \in {NoCommit, git.tags[a]}
    BY <1>3 DEF PromoteVersion, Goto, SafetyInv, LocalInv, TypeOK, Attempt, Row, VersionIds
  <2>3. \A v \in VersionIds : db.versions[v].exists => db'.versions[v].exists
    BY <2>1 DEF TypeOK, Database
  <2>4. VersionsAreTagged'
    <3>1. db.wf.active # NoVersion => db.wf.active \in VersionIds
      BY DEF TypeOK, Database, Row
    <3>2. \A b \in Attempts : b \in VersionIds
      BY AttemptsAreNumbers DEF VersionIds
    <3> QED BY <2>1, <2>2, <2>3, <3>1, <3>2 DEF SafetyInv, VersionsAreTagged, TypeOK, Database
  <2>5. LocalInv(t)'
    <3>1. mem'[t].active = a
      BY <1>3 DEF PromoteVersion, TypeOK, Row
    <3> QED BY <2>1, <2>2, <3>1 DEF LocalInv, TypeOK, Database
  <2> QED BY <2>1, <2>3, <2>4, <2>5, SafetyElsewhere DEF SafetyInv
<1>4. CASE PromoteDone(t)
  <2>1. Quiet(t)
    BY <1>4, SavedWorkflow, WriteIsQuiet DEF PromoteDone
  <2> QED BY <2>1, TypePromote, QuietKeepsSafety
<1> QED BY <1>1, <1>2, <1>3, <1>4 DEF Promote

LEMMA SafetyRollBack ==
  ASSUME TypeOK, TypeOK', MutualExclusion', SafetyInv, NEW t \in Threads, RollBack(t)
  PROVE  SafetyInv'
<1>1. ASSUME NEW v \in VersionIds, Rollback(t, v) PROVE SafetyInv'
  <2>1. OnlyThread(t) /\ UNCHANGED db /\ git'.tags = git.tags
    BY <1>1 DEF Rollback, Begin, Goto, SwitchTo, OnlyThread, TypeOK, Worktree
  <2>2. pc'[t] = "rollback" /\ mem'[t].active = v /\ db.versions[v].exists
    BY <1>1 DEF Rollback, Begin, Goto, TypeOK, Database, Row
  <2>3. VersionsAreTagged'
    BY <2>1 DEF SafetyInv, VersionsAreTagged
  <2>4. LocalInv(t)'
    BY <2>1, <2>2 DEF LocalInv
  <2> QED BY <2>1, <2>3, <2>4, SafetyElsewhere DEF SafetyInv
<1>2. CASE RollbackSave(t)
  <2>1. Quiet(t)
    BY <1>2, SavedWorkflow, ReturnIsQuiet DEF RollbackSave, WriteAndReturn
  <2> QED BY <2>1, QuietKeepsSafety
<1> QED BY <1>1, <1>2 DEF RollBack

LEMMA SafetyInit == Init => SafetyInv
<1> SUFFICES ASSUME Init PROVE SafetyInv
  OBVIOUS
<1>1. \A t \in Threads : pc[t] = "idle" /\ mem[t].active = NoVersion
  BY DEF Init, NoRow
<1>2. db.wf.active = NoVersion /\ \A a \in Attempts : ~db.versions[a].exists
  BY AttemptsAreNumbers DEF Init, NoRow, VersionIds
<1> QED BY <1>1, <1>2 DEF SafetyInv, LocalInv, VersionsAreTagged

LEMMA SafetyStep ==
  TypeOK /\ TypeOK' /\ MutualExclusion /\ MutualExclusion' /\ SafetyInv /\ [Next]_vars
  => SafetyInv'
<1> SUFFICES ASSUME TypeOK, TypeOK', MutualExclusion, MutualExclusion', SafetyInv, [Next]_vars
             PROVE  SafetyInv'
  OBVIOUS
<1>1. ASSUME NEW t \in Threads, Quiet(t) PROVE SafetyInv'
  BY <1>1, QuietKeepsSafety
<1>2. ASSUME NEW t \in Threads, ThreadStep(t) PROVE SafetyInv'
  <2>1. CASE Start(t)
    BY <1>1, <2>1, QuietStart, SafetyBaseline
  <2>2. CASE Run(t)
    BY <1>1, <2>2, QuietRun, SafetyLoad DEF Run
  <2>3. CASE Execute(t)
    BY <1>1, <2>3, QuietExecute, SafetyCall
  <2>4. CASE Verify(t) \/ PauseResume(t) \/ DecideHitl(t) \/ RecoverUncertain(t)
    BY <1>1, <2>4, QuietVerify, QuietPauseResume, QuietDecideHitl, QuietRecoverUncertain
  <2>5. CASE Promote(t) \/ RollBack(t)
    BY <2>5, SafetyPromote, SafetyRollBack
  <2> QED BY <1>2, <2>1, <2>2, <2>3, <2>4, <2>5 DEF ThreadStep
<1>3. CASE Crash
  BY <1>3 DEF Crash, SafetyInv, VersionsAreTagged, LocalInv, NoRow
<1>4. CASE OutsideEdit
  <2>1. UNCHANGED <<db, pc, mem, loc>> /\ git'.tags = git.tags
    BY <1>4 DEF OutsideEdit, StageAll, TypeOK, Worktree
  <2> QED BY <2>1 DEF SafetyInv, VersionsAreTagged, LocalInv, HasAttempt, Attempt
<1>5. CASE Overwrite \/ UNCHANGED vars
  BY <1>5 DEF Overwrite, vars, SafetyInv, VersionsAreTagged, LocalInv, HasAttempt, Attempt
<1> QED BY <1>2, <1>3, <1>4, <1>5 DEF Next

LEMMA SafetyInvariant == Spec => [](TypeOK /\ MutualExclusion /\ SafetyInv)
BY TypeCorrect, LockIsExclusive, SafetyInit, SafetyStep, PTL DEF Spec

\* For any number of threads and attempts no DSH call runs beside another or for
\* an attempt whose result is durable, although pause and resume write whole rows
\* without the lock.
THEOREM NoCallAfterResultHolds == Spec => []NoCallAfterResult
<1>1. TypeOK /\ MutualExclusion /\ SafetyInv => NoCallAfterResult
  BY DEF MutualExclusion, SafetyInv, LocalInv, NoCallAfterResult, LockedPcs, Attempt
<1> QED BY <1>1, SafetyInvariant, PTL

\* SQLite never runs ahead of Git: in every reachable state, crashes included, a
\* version row of an attempt names the commit its tag points to.
THEOREM VersionsAreTaggedHolds == Spec => []VersionsAreTagged
<1>1. TypeOK /\ MutualExclusion /\ SafetyInv => VersionsAreTagged
  BY DEF SafetyInv
<1> QED BY <1>1, SafetyInvariant, PTL
-----------------------------------------------------------------------------
(* Execution intents.                                                      *)

Closed == Intents \ (OpenIntents \cup {"NONE"})
KeepsClosed == \A a \in Attempts : db.intents[a] \in Closed => db'.intents[a] \in Closed

LEMMA SameIntents ==
  ASSUME TypeOK, db'.intents = db.intents PROVE KeepsClosed
BY DEF KeepsClosed

LEMMA IntentWritten ==
  ASSUME TypeOK, NEW a, NEW i, db' = [db EXCEPT !.intents[a] = i],
         i \in Closed \/ (a \in Attempts /\ db.intents[a] \notin Closed)
  PROVE  KeepsClosed
BY DEF TypeOK, Database, KeepsClosed

LEMMA IntentsStart ==
  ASSUME TypeOK, NEW t \in Threads, Start(t) PROVE KeepsClosed
<1>1. db'.intents = db.intents
  BY DEF Start, StartCreate, StartContract, StartBaseline, StartSave, Write, WorkflowSaved,
         TypeOK, Database
<1> QED BY <1>1, SameIntents

LEMMA IntentsRun ==
  ASSUME TypeOK, NEW t \in Threads, Run(t) PROVE KeepsClosed
<1>1. db'.intents = db.intents
  BY DEF Run, RunLock, RunReload, RunExit, RunPause, NodeRaise, TypeOK, Database
<1> QED BY <1>1, SameIntents

LEMMA IntentsExecute ==
  ASSUME TypeOK, NEW t \in Threads, Execute(t) PROVE KeepsClosed
<1>1. CASE ExecuteIntent(t)
  <2> DEFINE a == Attempt(t)
  <2>1. CASE db.intents[a] = "NONE" /\ a \in Attempts
    <3>1. db.intents[a] \notin Closed
      BY <2>1 DEF Closed
    <3> QED BY <1>1, <2>1, <3>1, IntentWritten DEF ExecuteIntent, StartExecution, Write
  <2>2. CASE db.intents[a] # "NONE" \/ a \notin Attempts
    <3>1. db'.intents = db.intents
      BY <1>1, <2>2 DEF ExecuteIntent, StartExecution, Write, TypeOK, Database
    <3> QED BY <3>1, SameIntents
  <2> QED BY <2>1, <2>2
<1>2. CASE ExecuteReuse(t) \/ ExecuteFinish(t)
  <2>1. "COMPLETED" \in Closed
    BY DEF Closed, Intents, OpenIntents
  <2>2. db' = [db EXCEPT !.intents[Attempt(t)] = "COMPLETED"]
    BY <1>2 DEF ExecuteReuse, ExecuteFinish, Write
  <2> QED BY <2>1, <2>2, IntentWritten
<1>3. ASSUME NEW a \in Attempts, ExecuteUncertain(t, a) \/ ExecuteApprovedRetry(t, a)
      PROVE  KeepsClosed
  <2>1. db'.intents = db.intents
    BY <1>3 DEF ExecuteUncertain, ExecuteApprovedRetry, TypeOK, Database
  <2> QED BY <2>1, SameIntents
<1>4. CASE ExecuteNew(t) \/ ExecuteCall(t) \/ DshWrite(t) \/ DshReturn(t) \/ DshRaise(t)
           \/ ExecuteDone(t)
  <2>1. db'.intents = db.intents
    BY <1>4 DEF ExecuteNew, ExecuteCall, DshWrite, DshReturn, DshRaise, ExecuteDone,
                UnknownOutcome, Write, TypeOK, Database
  <2> QED BY <2>1, SameIntents
<1> QED BY <1>1, <1>2, <1>3, <1>4 DEF Execute

LEMMA IntentsVerify ==
  ASSUME TypeOK, NEW t \in Threads, Verify(t) PROVE KeepsClosed
<1>1. CASE VerifyReview(t) \/ VerifyExhausted(t)
  BY <1>1, NewRequestKeeps, SameIntents DEF VerifyReview, VerifyExhausted
<1>2. CASE ~VerifyReview(t) /\ ~VerifyExhausted(t)
  <2>1. db'.intents = db.intents
    BY <1>2 DEF Verify, VerifyRun, VerifyRaise, VerifyRecord, VerifyPrepare,
                VerifySavePrepared, VerifyAutoPromote, VerifyRetry, VerifyDone, Write,
                WorkflowSaved, TypeOK, Database
  <2> QED BY <2>1, SameIntents
<1> QED BY <1>1, <1>2

LEMMA IntentsPromote ==
  ASSUME TypeOK, NEW t \in Threads, Promote(t) PROVE KeepsClosed
<1>1. db'.intents = db.intents
  BY DEF Promote, PromotePlain, PromoteTagged, PromoteHead, PromoteTag, PromoteVersion,
         PromoteDone, Write, WorkflowSaved, TypeOK, Database
<1> QED BY <1>1, SameIntents

LEMMA IntentsOther ==
  ASSUME TypeOK, NEW t \in Threads, PauseResume(t) \/ DecideHitl(t) \/ RollBack(t)
  PROVE  KeepsClosed
<1>1. CASE PauseResume(t)
  <2>1. db'.intents = db.intents
    BY <1>1 DEF PauseResume, PauseRead, PauseSave, ResumeRead, ResumeSave, Write,
                WriteAndReturn, WorkflowSaved, TypeOK, Database
  <2> QED BY <2>1, SameIntents
<1>2. CASE DecideHitl(t)
  <2>1. db'.intents = db.intents
    BY <1>2 DEF DecideHitl, DecideApprove, DecideRetry, DecideReject, Decide, DecideResolve,
                DecideSave, Write, WorkflowSaved, TypeOK, Database
  <2> QED BY <2>1, SameIntents
<1>3. CASE RollBack(t)
  <2>1. db'.intents = db.intents
    BY <1>3 DEF RollBack, Rollback, RollbackSave, WriteAndReturn, WorkflowSaved, TypeOK, Database
  <2> QED BY <2>1, SameIntents
<1> QED BY <1>1, <1>2, <1>3

LEMMA IntentsRecover ==
  ASSUME TypeOK, NEW t \in Threads, RecoverUncertain(t) PROVE KeepsClosed
<1>1. ASSUME NEW a \in Attempts, RecoverRetry(t, a) PROVE KeepsClosed
  <2>1. db.intents[a] \notin Closed
    BY <1>1 DEF RecoverRetry, Recover, Pending, OpenIntent, Closed
  <2> QED BY <1>1, <2>1, IntentWritten DEF RecoverRetry
<1>2. CASE RecoverClose(t)
  <2>1. Outcome(loc[t].action) \in Closed
    BY DEF Outcome, Closed, Intents, OpenIntents
  <2>2. db' = [db EXCEPT !.intents[loc[t].about] = Outcome(loc[t].action)]
    BY <1>2 DEF RecoverClose, Write
  <2> QED BY <2>1, <2>2, IntentWritten
<1>3. ASSUME NEW a \in Attempts,
             RecoverVerifyExisting(t, a) \/ RecoverRestore(t, a) \/ RecoverAbort(t, a)
      PROVE  KeepsClosed
  <2>1. db'.intents = db.intents
    BY <1>3 DEF RecoverVerifyExisting, RecoverRestore, RecoverAbort, TypeOK, Database
  <2> QED BY <2>1, SameIntents
<1>4. CASE RecoverSave(t)
  <2>1. db'.intents = db.intents
    BY <1>4 DEF RecoverSave, WriteAndReturn, WorkflowSaved, TypeOK, Database
  <2> QED BY <2>1, SameIntents
<1> QED BY <1>1, <1>2, <1>3, <1>4 DEF RecoverUncertain

LEMMA IntentsStep == TypeOK /\ [Next]_vars => KeepsClosed
<1> SUFFICES ASSUME TypeOK, [Next]_vars PROVE KeepsClosed
  OBVIOUS
<1>1. ASSUME NEW t \in Threads, ThreadStep(t) PROVE KeepsClosed
  BY <1>1, IntentsStart, IntentsRun, IntentsExecute, IntentsVerify, IntentsPromote,
     IntentsOther, IntentsRecover DEF ThreadStep
<1>2. CASE Crash \/ OutsideEdit \/ Overwrite \/ UNCHANGED vars
  BY <1>2, SameIntents DEF Crash, OutsideEdit, Overwrite, vars
<1> QED BY <1>1, <1>2 DEF Next

\* An execution intent that was finished, recovered, restored or aborted is never
\* open again, for any number of threads, attempts and crashes.
THEOREM IntentsStayClosedHolds == Spec => IntentsStayClosed
<1> DEFINE Step == \A a \in Attempts : db.intents[a] \notin OpenIntents \cup {"NONE"} =>
                     db'.intents[a] \notin OpenIntents \cup {"NONE"}
<1>1. TypeOK /\ [Next]_vars => [Step]_vars
  BY IntentsStep DEF KeepsClosed, Closed, TypeOK, Database
<1> QED BY <1>1, TypeCorrect, PTL DEF Spec, IntentsStayClosed
=============================================================================
