----------------------------- MODULE Supervisor -----------------------------
(***************************************************************************)
(* The durable state machine of supervisor.py for one workflow, driven by  *)
(* the threads of the HTTP server (one per request).  Every SQLite write   *)
(* of the code is its own commit, so every action below performs at most   *)
(* one write, and the process may crash between any two actions.  The      *)
(* workflow lock is taken by run, decide_hitl, recover_uncertain and       *)
(* rollback; start, pause and resume read a row and save it back whole     *)
(* without the lock.                                                       *)
(***************************************************************************)
EXTENDS GitWorkspace

CONSTANTS Threads, NoThread,
          Contracts,         \* the acceptance contracts a start may carry
          MaxAttempts,       \* max_attempts, at most the spec's max_iterations;
                             \* start refuses neither 0 nor a negative number
          MaxCrashes,        \* bound: process crashes
          MaxEdits,          \* bound: edits of the worktree from outside
          MaxRetries,        \* bound: retry-same-attempt per attempt
          MaxOverlaps,       \* bound: requests that begin while another is served
          MaxOverwrites,     \* bound: replacements of the bound LoopSpec revision
          EditDuringVerify   \* may an outside edit fall inside a verify step

ASSUME ThreadsAssumption == NoThread \notin Threads
ASSUME PolicyAssumption == EditDuringVerify \in BOOLEAN
ASSUME BoundsAssumption ==
  /\ MaxAttempts \in Int /\ MaxAttempts <= AttemptCap
  /\ MaxCrashes \in Nat /\ MaxEdits \in Nat
  /\ MaxRetries \in Nat /\ MaxOverlaps \in Nat /\ MaxOverwrites \in Nat

VARIABLES
  db,      \* the SQLite file
  git,     \* the isolated worktree
  lock,    \* owner of the per-workflow RLock
  pc,      \* where each request thread is
  mem,     \* the Workflow object each thread works on
  loc,     \* the other locals of each thread
  hist,    \* observer: DSH calls and human decisions to retry, per attempt
  bounds   \* counters behind MaxCrashes, MaxEdits, MaxOverlaps, MaxOverwrites

vars == <<db, git, lock, pc, mem, loc, hist, bounds>>
-----------------------------------------------------------------------------
\* What the workflow engine reads of a contract: the kind of workspace (a Git
\* worktree, a plain directory or none) and require_promotion_approval.
Terms == [kind: {"git", "plain", "none"}, review: BOOLEAN]
ASSUME ContractsAssumption == Contracts \subseteq Terms

\* Without a contract row the workflow has no workspace and the review is on.
NoContract == [kind |-> "missing", review |-> TRUE]

Statuses == {"ABSENT", "RUNNING", "UNCERTAIN", "PAUSED", "WAITING_HITL",
             "COMPLETED", "FAILED"}
Nodes == {"AGENT_EXECUTE", "VERIFY", "VERSION_PROMOTE", "WAIT_HITL",
          "COMPLETED", "FAILED"}
NoVersion == -1   \* the empty active_version; 0 is the baseline version
Numbers == 0..AttemptCap   \* of attempts; 0 before the first
VersionIds == Numbers

Row == [status: Statuses, node: Nodes, attempt: Numbers,
        active: {NoVersion} \cup VersionIds, pause: BOOLEAN]
NoRow == [status |-> "ABSENT", node |-> "AGENT_EXECUTE", attempt |-> 0,
          active |-> NoVersion, pause |-> FALSE]
NewRow == [NoRow EXCEPT !.status = "RUNNING"]

AttemptRow == [output: {"none", "dsh", "recovered"}, prep: Prepared]
NoAttemptRow == [output |-> "none", prep |-> NoPrepared]

OpenIntents == {"STARTED", "RETRY_APPROVED"}
Intents == OpenIntents \cup {"NONE", "COMPLETED", "RECOVERED", "RESTORED",
                             "ABORTED_UNCERTAIN"}

Reasons == {"promotion_review", "max_attempts_reached"}
RequestStates == {"absent", "open", "approve", "retry", "reject"}
Request == [state: RequestStates, fp: Fingerprints, created: Nat]
NoFingerprint == [head |-> NoCommit, dirty |-> FALSE, work |-> Base]
NoRequest == [state |-> "absent", fp |-> NoFingerprint, created |-> 0]

Version == [exists: BOOLEAN, commit: Commit]

Database == [wf: Row,
             contract: Terms \cup {NoContract},
             attempts: [Attempts -> AttemptRow],
             intents: [Attempts -> Intents],
             proposals: SUBSET Numbers,
             hitl: [Reasons -> [Attempts -> Request]],
             clock: Nat,                         \* orders hitl created_at
             verified: SUBSET (Numbers \X Contents),  \* passed verifications
             versions: [VersionIds -> Version]]

\* Program counters inside "with self._workflow_lock(...)".
LockedPcs == {"loop", "reload", "intent", "check", "calling", "finish",
              "executed", "verify", "prepare", "prepared", "gate",
              "gate_failed", "save", "tag", "version", "promoted",
              "resolve", "decided", "adopt", "close", "recovered", "rollback"}
FreePcs == {"idle", "contract", "baseline", "started", "pause", "resume", "run"}

Locals == [acceptance: Terms \cup {NoContract},
           prep: Prepared, seen: Contents, passed: BOOLEAN,
           reason: Reasons, about: Attempts, choice: RequestStates,
           action: {"verify-existing", "retry-same-attempt",
                    "restore-baseline", "abort-preserve"}]
NoLocals == [acceptance |-> NoContract, prep |-> NoPrepared, seen |-> Base,
             passed |-> FALSE, reason |-> "promotion_review", about |-> 1,
             choice |-> "absent", action |-> "abort-preserve"]

TypeOK ==
  /\ db \in Database
  /\ git \in Worktree
  /\ lock \in Threads \cup {NoThread}
  /\ pc \in [Threads -> LockedPcs \cup FreePcs]
  /\ mem \in [Threads -> Row]
  /\ loc \in [Threads -> Locals]
  /\ hist \in [calls: [Attempts -> Nat], retries: [Attempts -> Nat]]
  /\ bounds \in [crashes: Nat, edits: Nat, overlaps: Nat, overwrites: 0..MaxOverwrites]

Init ==
  /\ db = [wf |-> NoRow, contract |-> NoContract,
           attempts |-> [a \in Attempts |-> NoAttemptRow],
           intents |-> [a \in Attempts |-> "NONE"],
           proposals |-> {},
           hitl |-> [r \in Reasons |-> [a \in Attempts |-> NoRequest]],
           clock |-> 0, verified |-> {},
           versions |-> [v \in VersionIds |-> [exists |-> FALSE, commit |-> NoCommit]]]
  /\ git = FreshWorktree
  /\ lock = NoThread
  /\ pc = [t \in Threads |-> "idle"]
  /\ mem = [t \in Threads |-> NoRow]
  /\ loc = [t \in Threads |-> NoLocals]
  /\ hist = [calls |-> [a \in Attempts |-> 0], retries |-> [a \in Attempts |-> 0]]
  /\ bounds = [crashes |-> 0, edits |-> 0, overlaps |-> 0, overwrites |-> 0]
-----------------------------------------------------------------------------
(* Steps of a thread.                                                      *)

Goto(t, from, to) == pc[t] = from /\ pc' = [pc EXCEPT ![t] = to]

AllIdle == \A t \in Threads : pc[t] = "idle"

\* A thread of the HTTP server takes up a request.
Begin(t, to) ==
  /\ Goto(t, "idle", to)
  /\ \/ AllIdle /\ UNCHANGED bounds
     \/ /\ ~AllIdle /\ bounds.overlaps < MaxOverlaps
        /\ bounds' = [bounds EXCEPT !.overlaps = @ + 1]

\* The request returns or raises: its stack is gone and the lock released.
Return(t) ==
  /\ pc' = [pc EXCEPT ![t] = "idle"]
  /\ mem' = [mem EXCEPT ![t] = NoRow]
  /\ loc' = [loc EXCEPT ![t] = NoLocals]
  /\ lock' = IF lock = t THEN NoThread ELSE lock

Exists == db.wf.status # "ABSENT"
Attempt(t) == mem[t].attempt
Kind(t) == loc[t].acceptance.kind
\* Mutant: a missing contract counts as "no review".
Approval_NoDefault(t) == Kind(t) # "missing" /\ loc[t].acceptance.review

\* Mutant: require_promotion_approval of the contract is not read.
Approval_OnlyDefault(t) == Kind(t) = "missing"

Approval(t) == loc[t].acceptance.review

\* Mutant: the lock is not waited for.
LockFree_Always == TRUE

LockFree == lock = NoThread

\* get_workflow: the row and, if it was committed, the contract.
Load(t) ==
  /\ mem' = [mem EXCEPT ![t] = db.wf]
  /\ loc' = [loc EXCEPT ![t] = [NoLocals EXCEPT !.acceptance = db.contract]]

WorkflowSaved(t) == [db EXCEPT !.wf = mem[t]]

\* One commit to SQLite and nothing else.
Write(t, from, to, new) ==
  /\ Goto(t, from, to) /\ db' = new
  /\ UNCHANGED <<git, lock, mem, loc, hist, bounds>>

\* The last commit of a request.
WriteAndReturn(t, new) ==
  /\ db' = new /\ Return(t)
  /\ UNCHANGED <<git, hist, bounds>>

OpenIntent(a) == db.intents[a] \in OpenIntents
\* get_open_execution: the open intent of the highest attempt.
Pending(a) == OpenIntent(a) /\ \A b \in Attempts : OpenIntent(b) => b <= a
NothingPending == \A a \in Attempts : ~OpenIntent(a)

IsOpen(r, a) == db.hitl[r][a].state = "open"
\* open_hitl: the open request created last.
Latest(r, a) ==
  /\ IsOpen(r, a)
  /\ \A s \in Reasons, b \in Attempts :
       IsOpen(s, b) => db.hitl[s][b].created <= db.hitl[r][a].created

HasAttempt(a) == a \in Attempts /\ db.attempts[a].output # "none"

\* _workflow_spec finds the revision the row is bound to with the hash it had at
\* start; the spec store lets a later candidate of the same revision replace it.
SpecAvailable == bounds.overwrites = 0
-----------------------------------------------------------------------------
(* start: four commits before the first run, none of them under the lock.  *)

StartCreate(t, contract) ==
  /\ ~Exists
  /\ Begin(t, "contract")
  /\ db' = [db EXCEPT !.wf = NewRow]
  /\ mem' = [mem EXCEPT ![t] = NewRow]
  /\ loc' = [loc EXCEPT ![t].acceptance = contract]
  /\ UNCHANGED <<git, lock, hist>>

StartContract(t) ==
  Write(t, "contract", IF Kind(t) = "git" THEN "baseline" ELSE "run",
        [db EXCEPT !.contract = loc[t].acceptance])

StartBaseline(t) ==
  /\ Goto(t, "baseline", "started")
  /\ db' = [db EXCEPT !.versions[0] = [exists |-> TRUE, commit |-> BaseCommit]]
  /\ mem' = [mem EXCEPT ![t].active = 0]
  /\ UNCHANGED <<git, lock, loc, hist, bounds>>

StartSave(t) ==
  Write(t, "started", "run", WorkflowSaved(t))
-----------------------------------------------------------------------------
(* run: one request at a time, a fresh row for every node.                 *)

RunLock(t) ==
  /\ LockFree /\ lock' = t
  /\ Goto(t, "run", "loop")
  /\ Load(t)
  /\ UNCHANGED <<db, git, hist, bounds>>

RunReload(t) ==
  /\ Goto(t, "reload", "loop")
  /\ Load(t)
  /\ UNCHANGED <<db, git, lock, hist, bounds>>

RunExit(t) ==
  /\ pc[t] = "loop" /\ mem[t].status # "RUNNING"
  /\ Return(t)
  /\ UNCHANGED <<db, git, hist, bounds>>

\* Mutant: the event type is saved as the status.
PausedRow_WrongStatus(t) == [mem[t] EXCEPT !.status = "pause_requested"]

PausedRow(t) == [mem[t] EXCEPT !.status = "PAUSED"]

RunPause(t) ==
  /\ pc[t] = "loop" /\ mem[t].status = "RUNNING" /\ mem[t].pause
  /\ db' = [db EXCEPT !.wf = PausedRow(t)]
  /\ Return(t)
  /\ UNCHANGED <<git, hist, bounds>>

\* The loop dispatches on current_node.
At(t, node) ==
  /\ pc[t] = "loop" /\ mem[t].status = "RUNNING" /\ ~mem[t].pause
  /\ mem[t].node = node
-----------------------------------------------------------------------------
(* _execute                                                                *)

\* A STARTED intent without a finished status is never re-run automatically.
ExecuteUncertain(t, a) ==
  /\ At(t, "AGENT_EXECUTE") /\ Pending(a) /\ db.intents[a] = "STARTED"
  /\ pc' = [pc EXCEPT ![t] = "reload"]
  /\ db' = [db EXCEPT !.wf = [mem[t] EXCEPT !.attempt = a, !.status = "UNCERTAIN"]]
  /\ UNCHANGED <<git, lock, mem, loc, hist, bounds>>

\* Mutant: any open intent is resumed.
Resumable_AnyOpen(a) == TRUE

Resumable(a) == db.intents[a] = "RETRY_APPROVED"

ExecuteApprovedRetry(t, a) ==
  /\ At(t, "AGENT_EXECUTE") /\ Pending(a) /\ Resumable(a)
  /\ pc' = [pc EXCEPT ![t] = "check"]
  /\ mem' = [mem EXCEPT ![t].attempt = a]
  /\ UNCHANGED <<db, git, lock, loc, hist, bounds>>

ExecuteNew(t) ==
  LET next == [mem[t] EXCEPT !.attempt = @ + 1] IN
  /\ At(t, "AGENT_EXECUTE") /\ NothingPending
  /\ Attempt(t) < AttemptCap
  /\ pc' = [pc EXCEPT ![t] = "intent"]
  /\ mem' = [mem EXCEPT ![t] = next]
  /\ db' = [db EXCEPT !.wf = next]
  /\ UNCHANGED <<git, lock, loc, hist, bounds>>

\* Mutant: ON CONFLICT DO UPDATE.
StartExecution_Upsert(a) == [db EXCEPT !.intents[a] = "STARTED"]

\* ON CONFLICT DO NOTHING.
StartExecution(a) ==
  IF db.intents[a] = "NONE" THEN [db EXCEPT !.intents[a] = "STARTED"] ELSE db

ExecuteIntent(t) ==
  Write(t, "intent", "check", StartExecution(Attempt(t)))

ExecuteCall(t) ==
  /\ ~HasAttempt(Attempt(t))
  /\ Goto(t, "check", "calling")
  /\ hist' = [hist EXCEPT !.calls[Attempt(t)] = @ + 1]
  /\ UNCHANGED <<db, git, lock, mem, loc, bounds>>

\* A durable result exists: finish the intent without calling DSH.
ExecuteReuse(t) ==
  /\ HasAttempt(Attempt(t))
  /\ Write(t, "check", "executed", [db EXCEPT !.intents[Attempt(t)] = "COMPLETED"])

\* While the call runs DSH edits the worktree, and may stage what it did.
DshWrite(t) ==
  /\ pc[t] = "calling" /\ Kind(t) = "git"
  /\ \/ \E c \in Contents : git' = [git EXCEPT !.work = c]
     \/ git' = StageAll(git)
  /\ UNCHANGED <<db, lock, pc, mem, loc, hist, bounds>>

DshReturn(t) ==
  Write(t, "calling", "finish",
        [db EXCEPT !.attempts[Attempt(t)] = [output |-> "dsh", prep |-> NoPrepared]])

UncertainRow(t) == [mem[t] EXCEPT !.status = "UNCERTAIN"]

\* Mutant: the failed call closes its intent.
UnknownOutcome_Closes(t) ==
  [db EXCEPT !.wf = UncertainRow(t), !.intents[Attempt(t)] = "ABORTED_UNCERTAIN"]

\* The intent stays open and no attempt row is written.
UnknownOutcome(t) == [db EXCEPT !.wf = UncertainRow(t)]

DshRaise(t) ==
  Write(t, "calling", "reload", UnknownOutcome(t))

ExecuteFinish(t) ==
  Write(t, "finish", "executed",
        [db EXCEPT !.intents[Attempt(t)] = "COMPLETED"])

ExecuteDone(t) ==
  /\ SpecAvailable
  /\ Write(t, "executed", "reload",
           [db EXCEPT !.wf = [mem[t] EXCEPT !.node = "VERIFY"]])
-----------------------------------------------------------------------------
(* _verify                                                                 *)

\* The verifier runs its commands on the worktree as it is now.
VerifyRun(t, result) ==
  /\ At(t, "VERIFY") /\ HasAttempt(Attempt(t))
  /\ pc' = [pc EXCEPT ![t] = "verify"]
  /\ loc' = [loc EXCEPT ![t].passed = result, ![t].seen = git.work]
  /\ UNCHANGED <<db, git, lock, mem, hist, bounds>>

\* Mutant: the run loop swallows the exception.
VerifyRaise_Loops(t) ==
  /\ At(t, "VERIFY") /\ HasAttempt(Attempt(t))
  /\ pc' = [pc EXCEPT ![t] = "reload"]
  /\ UNCHANGED <<db, git, lock, mem, loc, hist, bounds>>

\* A verifier command ran into its timeout: the exception leaves the node.
VerifyRaise(t) ==
  /\ At(t, "VERIFY") /\ HasAttempt(Attempt(t))
  /\ Return(t)
  /\ UNCHANGED <<db, git, hist, bounds>>

\* The scope check may turn a pass into a failure; the row is then appended.
PassedInScope(t) == loc[t].passed /\ (Kind(t) = "git" => ScopePassed(git))

\* Mutant: the scope failure is recorded and not obeyed.
Verdict_ScopeIgnored(t) == loc[t].passed

Verdict(t) == PassedInScope(t)

VerifyRecord(t) ==
  /\ Goto(t, "verify", IF ~Verdict(t) THEN "gate_failed"
                       ELSE IF Kind(t) = "git" THEN "prepare" ELSE "gate")
  /\ db' = IF PassedInScope(t)
           THEN [db EXCEPT !.verified = @ \cup {<<Attempt(t), loc[t].seen>>}]
           ELSE db
  /\ UNCHANGED <<git, lock, mem, loc, hist, bounds>>

VerifyPrepare(t) ==
  /\ HasChanges(git)
  /\ Goto(t, "prepare", "prepared")
  /\ git' = StageAll(git)
  /\ loc' = [loc EXCEPT ![t].prep = PreparedCandidate(git, Attempt(t))]
  /\ UNCHANGED <<db, lock, mem, hist, bounds>>

VerifySavePrepared(t) ==
  Write(t, "prepared", "gate",
        [db EXCEPT !.attempts[Attempt(t)].prep = loc[t].prep])

\* Mutant: the request is not saved.
NewRequest_Lost(r, a, fp) == UNCHANGED db

\* save_hitl is a plain INSERT: a second request of one id is refused.
NewRequest(r, a, fp) ==
  /\ db.hitl[r][a].state = "absent"
  /\ db' = [db EXCEPT !.hitl[r][a] = [state |-> "open", fp |-> fp, created |-> db.clock],
                      !.clock = @ + 1]

WaitForHuman(t) ==
  mem' = [mem EXCEPT ![t].status = "WAITING_HITL", ![t].node = "WAIT_HITL"]

VerifyReview(t) ==
  /\ Approval(t) /\ Kind(t) # "plain"
  /\ Goto(t, "gate", "save")
  /\ NewRequest("promotion_review", Attempt(t),
                IF Kind(t) = "git" THEN CandidateFingerprint(git) ELSE NoFingerprint)
  /\ WaitForHuman(t)
  /\ UNCHANGED <<git, lock, loc, hist, bounds>>

VerifyAutoPromote(t) ==
  /\ ~Approval(t)
  /\ Goto(t, "gate", "save")
  /\ mem' = [mem EXCEPT ![t].node = "VERSION_PROMOTE"]
  /\ UNCHANGED <<db, git, lock, loc, hist, bounds>>

\* Mutant: the budget test is off by one.
BudgetLeft_OffByOne(a) == a <= MaxAttempts

BudgetLeft(a) == a < MaxAttempts

RetryRow(t) == [mem[t] EXCEPT !.node = "AGENT_EXECUTE"]

VerifyRetry(t) ==
  /\ BudgetLeft(Attempt(t)) /\ Attempt(t) \notin db.proposals
  /\ Goto(t, "gate_failed", "save")
  /\ db' = [db EXCEPT !.proposals = @ \cup {Attempt(t)}]
  /\ mem' = [mem EXCEPT ![t] = RetryRow(t)]
  /\ UNCHANGED <<git, lock, loc, hist, bounds>>

VerifyExhausted(t) ==
  /\ ~BudgetLeft(Attempt(t))
  /\ Goto(t, "gate_failed", "save")
  /\ NewRequest("max_attempts_reached", Attempt(t), NoFingerprint)
  /\ WaitForHuman(t)
  /\ UNCHANGED <<git, lock, loc, hist, bounds>>

VerifyDone(t) ==
  SpecAvailable /\ Write(t, "save", "reload", WorkflowSaved(t))
-----------------------------------------------------------------------------
(* _promote                                                                *)

Candidate(t) == db.attempts[Attempt(t)].prep

\* Without Git the version is recorded at once.
PromotePlain(t) ==
  /\ At(t, "VERSION_PROMOTE") /\ HasAttempt(Attempt(t)) /\ Kind(t) # "git"
  /\ pc' = [pc EXCEPT ![t] = "version"]
  /\ UNCHANGED <<db, git, lock, mem, loc, hist, bounds>>

PromoteTagged(t) ==
  /\ At(t, "VERSION_PROMOTE") /\ HasAttempt(Attempt(t)) /\ Kind(t) = "git"
  /\ AlreadyPromoted(git, Attempt(t), Candidate(t))
  /\ pc' = [pc EXCEPT ![t] = "version"]
  /\ loc' = [loc EXCEPT ![t].prep = Candidate(t)]
  /\ UNCHANGED <<db, git, lock, mem, hist, bounds>>

PromoteHead(t) ==
  /\ At(t, "VERSION_PROMOTE") /\ HasAttempt(Attempt(t)) /\ Kind(t) = "git"
  /\ CanUpdateRef(git, Attempt(t), Candidate(t))
  /\ pc' = [pc EXCEPT ![t] = "tag"]
  /\ loc' = [loc EXCEPT ![t].prep = Candidate(t)]
  /\ git' = [git EXCEPT !.head = Candidate(t).commit]
  /\ UNCHANGED <<db, lock, mem, hist, bounds>>

\* Mutant: a failing git tag is ignored.
PromoteTag_Skipped(t) ==
  /\ Goto(t, "tag", "version")
  /\ UNCHANGED <<db, git, lock, mem, loc, hist, bounds>>

PromoteTag(t) ==
  /\ Goto(t, "tag", "version")
  /\ git' = [git EXCEPT !.tags[Attempt(t)] = loc[t].prep.commit]
  /\ UNCHANGED <<db, lock, mem, loc, hist, bounds>>

PromoteVersion(t) ==
  /\ Goto(t, "version", "promoted")
  /\ db' = [db EXCEPT !.versions[Attempt(t)] =
                [exists |-> TRUE, commit |-> loc[t].prep.commit]]
  /\ mem' = [mem EXCEPT ![t].active = Attempt(t), ![t].node = "COMPLETED",
                        ![t].status = "COMPLETED"]
  /\ UNCHANGED <<git, lock, loc, hist, bounds>>

PromoteDone(t) ==
  SpecAvailable /\ Write(t, "promoted", "reload", WorkflowSaved(t))
-----------------------------------------------------------------------------
(* A node raises: the row stays as it was, RUNNING; what the node committed *)
(* before it, a finished intent, a request or a version, stays too.         *)

NodeFails(t) ==
  LET a == Attempt(t) IN
  \/ At(t, "VERIFY") /\ ~HasAttempt(a)
  \/ At(t, "VERSION_PROMOTE") /\ ~HasAttempt(a)
  \/ /\ At(t, "VERSION_PROMOTE") /\ HasAttempt(a) /\ Kind(t) = "git"
     /\ ~AlreadyPromoted(git, a, Candidate(t)) /\ ~CanUpdateRef(git, a, Candidate(t))
  \/ pc[t] = "prepare" /\ ~HasChanges(git)
  \/ /\ pc[t] = "gate" /\ Approval(t)
     /\ Kind(t) = "plain" \/ db.hitl["promotion_review"][a].state # "absent"
  \/ pc[t] = "gate_failed" /\ BudgetLeft(a) /\ a \in db.proposals
  \/ /\ pc[t] = "gate_failed" /\ ~BudgetLeft(a)
     /\ db.hitl["max_attempts_reached"][a].state # "absent"
  \/ pc[t] \in {"executed", "save", "promoted"} /\ ~SpecAvailable

NodeRaise(t) ==
  /\ NodeFails(t)
  /\ Return(t)
  /\ UNCHANGED <<db, git, hist, bounds>>
-----------------------------------------------------------------------------
(* pause and resume: read the row, save it whole, no lock.                 *)

PauseRead(t) ==
  /\ Exists
  /\ Begin(t, "pause")
  /\ mem' = [mem EXCEPT ![t] = [db.wf EXCEPT !.pause = TRUE]]
  /\ UNCHANGED <<db, git, lock, loc, hist>>

PauseSave(t) ==
  /\ pc[t] = "pause"
  /\ WriteAndReturn(t, WorkflowSaved(t))

\* Without its spec a workflow makes another attempt whenever it is resumed: the
\* second conjunct bounds that.
ResumeRead(t) ==
  /\ Exists
  /\ SpecAvailable \/ db.wf.attempt < AttemptCap
  /\ Begin(t, "resume")
  /\ mem' = [mem EXCEPT ![t] = [db.wf EXCEPT !.pause = FALSE,
               !.status = IF @ = "PAUSED" THEN "RUNNING" ELSE @]]
  /\ UNCHANGED <<db, git, lock, loc, hist>>

ResumeSave(t) ==
  Write(t, "resume", "run", WorkflowSaved(t))
-----------------------------------------------------------------------------
(* decide_hitl: the checks under the lock, then the decision is recorded   *)
(* and the row saved.                                                      *)

Decide(t, r, a, choice, status, node) ==
  /\ Exists /\ LockFree /\ lock' = t
  /\ Begin(t, "resolve")
  /\ Latest(r, a) /\ SpecAvailable
  /\ mem' = [mem EXCEPT ![t] = [db.wf EXCEPT !.status = status, !.node = node]]
  /\ loc' = [loc EXCEPT ![t].reason = r, ![t].about = a, ![t].choice = choice]
  /\ UNCHANGED <<db, git>>

SameCandidate(a) == db.hitl["promotion_review"][a].fp = CandidateFingerprint(git)

DecideApprove(t, a) ==
  /\ db.contract.kind = "git"
  /\ a = db.wf.attempt
  /\ SameCandidate(a)
  /\ Decide(t, "promotion_review", a, "approve", "RUNNING", "VERSION_PROMOTE")
  /\ UNCHANGED hist

DecideRetry(t, r, a) ==
  /\ BudgetLeft(db.wf.attempt)
  /\ Decide(t, r, a, "retry", "RUNNING", "AGENT_EXECUTE")
  /\ hist' = [hist EXCEPT !.retries =
                [b \in Attempts |-> @[b] + IF b = db.wf.attempt THEN 1 ELSE 0]]

DecideReject(t, r, a) ==
  Decide(t, r, a, "reject", "FAILED", "FAILED") /\ UNCHANGED hist

DecideResolve(t) ==
  Write(t, "resolve", "decided",
        [db EXCEPT !.hitl[loc[t].reason][loc[t].about].state = loc[t].choice])

DecideSave(t) ==
  /\ Goto(t, "decided", "run")
  /\ db' = WorkflowSaved(t)
  /\ lock' = NoThread
  /\ UNCHANGED <<git, mem, loc, hist, bounds>>
-----------------------------------------------------------------------------
(* recover_uncertain                                                       *)

Recover(t, a, action, to, status, node) ==
  /\ db.wf.status = "UNCERTAIN" /\ Pending(a)
  /\ LockFree /\ lock' = t
  /\ Begin(t, to)
  /\ mem' = [mem EXCEPT ![t] = [db.wf EXCEPT !.status = status, !.node = node,
               !.attempt = IF status = "RUNNING" THEN a ELSE @]]
  /\ loc' = [loc EXCEPT ![t].action = action, ![t].about = a]

\* save_attempt replaces the output of an attempt row that already exists.
RecoverVerifyExisting(t, a) ==
  /\ Recover(t, a, "verify-existing", "close", "RUNNING", "VERIFY")
  /\ db' = [db EXCEPT !.attempts[a] = [output |-> "recovered", prep |-> NoPrepared]]
  /\ UNCHANGED <<git, hist>>

RecoverRetry(t, a) ==
  /\ hist.retries[a] < MaxRetries
  /\ Recover(t, a, "retry-same-attempt", "recovered", "RUNNING", "AGENT_EXECUTE")
  /\ db' = [db EXCEPT !.intents[a] = "RETRY_APPROVED"]
  /\ hist' = [hist EXCEPT !.retries[a] = @ + 1]
  /\ UNCHANGED <<git>>

RecoverRestore(t, a) ==
  /\ db.contract.kind = "git" /\ CanRestore(git)
  /\ Recover(t, a, "restore-baseline", "close", "FAILED", "FAILED")
  /\ git' = RestoreContractPaths(git)
  /\ UNCHANGED <<db, hist>>

RecoverAbort(t, a) ==
  /\ Recover(t, a, "abort-preserve", "close", "FAILED", "FAILED")
  /\ UNCHANGED <<db, git, hist>>

Outcome(action) ==
  CASE action = "verify-existing" -> "RECOVERED"
    [] action = "restore-baseline" -> "RESTORED"
    [] OTHER -> "ABORTED_UNCERTAIN"

\* finish_execution closes the intent in a commit of its own.
RecoverClose(t) ==
  Write(t, "close", "recovered",
        [db EXCEPT !.intents[loc[t].about] = Outcome(loc[t].action)])

RecoverSave(t) ==
  \/ /\ mem[t].status = "RUNNING"
     /\ Goto(t, "recovered", "run")
     /\ db' = WorkflowSaved(t) /\ lock' = NoThread
     /\ UNCHANGED <<git, mem, loc, hist, bounds>>
  \/ /\ pc[t] = "recovered" /\ mem[t].status # "RUNNING"
     /\ WriteAndReturn(t, WorkflowSaved(t))
-----------------------------------------------------------------------------
(* rollback                                                                *)

Rollback(t, v) ==
  LET target == db.versions[v].commit IN
  /\ db.wf.status \in {"COMPLETED", "FAILED"} /\ db.versions[v].exists
  /\ LockFree /\ lock' = t
  /\ Begin(t, "rollback")
  /\ IF db.contract.kind = "git" /\ target # NoCommit
     THEN ~HasChanges(git) /\ git' = SwitchTo(git, target)
     ELSE UNCHANGED git
  /\ mem' = [mem EXCEPT ![t] = [db.wf EXCEPT !.active = v]]
  /\ UNCHANGED <<db, loc, hist>>

RollbackSave(t) ==
  /\ pc[t] = "rollback"
  /\ WriteAndReturn(t, WorkflowSaved(t))
-----------------------------------------------------------------------------
(* The environment.                                                        *)

Crash ==
  /\ bounds.crashes < MaxCrashes
  /\ \E t \in Threads : pc[t] # "idle"
  /\ pc' = [t \in Threads |-> "idle"]
  /\ mem' = [t \in Threads |-> NoRow]
  /\ loc' = [t \in Threads |-> NoLocals]
  /\ lock' = NoThread
  /\ bounds' = [bounds EXCEPT !.crashes = @ + 1]
  /\ UNCHANGED <<db, git, hist>>

VerifyWindow == {"verify", "prepare", "prepared", "gate"}

\* Somebody edits, or stages, files of the worktree while DSH is not running.
OutsideEdit ==
  /\ db.contract.kind = "git" /\ bounds.edits < MaxEdits
  /\ \A t \in Threads :
       /\ pc[t] # "calling"
       /\ EditDuringVerify \/ pc[t] \notin VerifyWindow
  /\ \/ \E c \in Contents \ {git.work} : git' = [git EXCEPT !.work = c]
     \/ git.index # git.work /\ git' = StageAll(git)
  /\ bounds' = [bounds EXCEPT !.edits = @ + 1]
  /\ UNCHANGED <<db, lock, pc, mem, loc, hist>>

\* The evolution side saves another candidate under the bound revision.
Overwrite ==
  /\ bounds.overwrites < MaxOverwrites
  /\ bounds' = [bounds EXCEPT !.overwrites = @ + 1]
  /\ UNCHANGED <<db, git, lock, pc, mem, loc, hist>>

Start(t) ==
  \/ \E contract \in Contracts : StartCreate(t, contract)
  \/ StartContract(t) \/ StartBaseline(t) \/ StartSave(t)
Run(t) == RunLock(t) \/ RunReload(t) \/ RunExit(t) \/ RunPause(t) \/ NodeRaise(t)
Execute(t) ==
  \/ \E a \in Attempts : ExecuteUncertain(t, a) \/ ExecuteApprovedRetry(t, a)
  \/ ExecuteNew(t) \/ ExecuteIntent(t) \/ ExecuteCall(t) \/ ExecuteReuse(t)
  \/ DshWrite(t) \/ DshReturn(t) \/ DshRaise(t) \/ ExecuteFinish(t) \/ ExecuteDone(t)
Verify(t) ==
  \/ \E result \in BOOLEAN : VerifyRun(t, result)
  \/ VerifyRaise(t) \/ VerifyRecord(t) \/ VerifyPrepare(t) \/ VerifySavePrepared(t)
  \/ VerifyReview(t) \/ VerifyAutoPromote(t) \/ VerifyRetry(t) \/ VerifyExhausted(t) \/ VerifyDone(t)
Promote(t) ==
  \/ PromotePlain(t) \/ PromoteTagged(t) \/ PromoteHead(t) \/ PromoteTag(t)
  \/ PromoteVersion(t) \/ PromoteDone(t)
PauseResume(t) == PauseRead(t) \/ PauseSave(t) \/ ResumeRead(t) \/ ResumeSave(t)
DecideHitl(t) ==
  \/ \E a \in Attempts : DecideApprove(t, a)
  \/ \E r \in Reasons, a \in Attempts : DecideRetry(t, r, a) \/ DecideReject(t, r, a)
  \/ DecideResolve(t) \/ DecideSave(t)
RecoverUncertain(t) ==
  \/ \E a \in Attempts : \/ RecoverVerifyExisting(t, a) \/ RecoverRetry(t, a)
                         \/ RecoverRestore(t, a) \/ RecoverAbort(t, a)
  \/ RecoverClose(t) \/ RecoverSave(t)
RollBack(t) == (\E v \in VersionIds : Rollback(t, v)) \/ RollbackSave(t)

ThreadStep(t) ==
  \/ Start(t) \/ Run(t) \/ Execute(t) \/ Verify(t) \/ Promote(t)
  \/ PauseResume(t) \/ DecideHitl(t) \/ RecoverUncertain(t) \/ RollBack(t)

Next == (\E t \in Threads : ThreadStep(t)) \/ Crash \/ OutsideEdit \/ Overwrite

Spec == Init /\ [][Next]_vars

\* A request that is being served keeps running: the interpreter schedules its
\* thread, DSH calls and verifier commands end.  Nobody has to send requests.
Progress(t) == pc[t] # "idle" /\ ThreadStep(t) /\ pc'[t] # pc[t]
FairSpec == Spec /\ \A t \in Threads : WF_vars(Progress(t))
-----------------------------------------------------------------------------
(* Properties of every run, whatever the requests, crashes and edits.      *)

\* with self._workflow_lock: the thread inside the block owns the lock, and a
\* crash or an exception at any point inside leaves it free.
MutualExclusion == \A t \in Threads : pc[t] \in LockedPcs <=> lock = t

\* One DSH call at a time, and none for an attempt whose result is durable,
\* although pause and resume may put back an older row while it runs (D-005).
NoCallAfterResult ==
  \A t \in Threads : pc[t] = "calling" =>
    /\ ~HasAttempt(mem[t].attempt)
    /\ \A u \in Threads : pc[u] = "calling" => u = t

\* A version row names a commit of its own attempt that Git has tagged, and the
\* active version is a row: SQLite never runs ahead of Git in _promote.
VersionsAreTagged ==
  /\ \A a \in Attempts :
       db.versions[a].exists /\ db.versions[a].commit # NoCommit =>
         git.tags[a] = db.versions[a].commit
  /\ db.wf.active # NoVersion => db.versions[db.wf.active].exists

\* An execution intent once finished, recovered, restored or aborted never
\* becomes open again: no later request can offer it for recovery a second time.
IntentsStayClosed ==
  [][\A a \in Attempts : db.intents[a] \notin OpenIntents \cup {"NONE"} =>
       db'.intents[a] \notin OpenIntents \cup {"NONE"}]_vars
-----------------------------------------------------------------------------
(* Properties of requests served one at a time.                            *)

\* HEAD or a tag of the worktree was moved to commit c for attempt a.
Promoted(a, c) == c \in {git.head, git.tags[a]} /\ c.att = a

\* D-022: what is promoted is what the approved request showed its reviewer: an
\* approval does not carry over to content that came after it.
ApprovedPromotion ==
  \A a \in Attempts : \A c \in {git.head, git.tags[a]} :
    db.contract.review /\ Promoted(a, c) =>
      LET review == db.hitl["promotion_review"][a] IN
      review.state = "approve" /\ review.fp.work = c.tree

\* D-011: no content is promoted that did not pass the acceptance commands and the
\* scope check itself.
VerifiedPromotion ==
  \A a \in Attempts : \A c \in {git.head, git.tags[a]} :
    Promoted(a, c) => <<a, c.tree>> \in db.verified

\* The rows a reader of SQLite sees follow the state machine of the design.
Lifecycle == INSTANCE WorkflowLifecycle WITH
  Budget <- MaxAttempts, Review <- \A contract \in Contracts : contract.review,
  status <- db.wf.status, attempt <- db.wf.attempt,
  cleared <- db.wf.node \in {"VERSION_PROMOTE", "COMPLETED"}

\* TRD 7: every commit of the supervisor is a step of WorkflowLifecycle or leaves
\* status, attempt and clearance as they were.
FollowsLifecycle == Lifecycle!Spec

\* D-011: a workflow whose start crashed before its contract was saved never
\* promotes anything: without a contract the review is on and cannot approve.
NoVersionWithoutContract ==
  db.contract = NoContract => \A v \in VersionIds : ~db.versions[v].exists

\* D-023, as far as the code keeps it: an attempt is called again only after a human
\* chose to retry, once for every such choice; but an approval is not used up before
\* the call, so once there is one each crash may repeat the call unasked.
NoUnapprovedRepeat ==
  \A a \in Attempts :
    hist.calls[a] <= 1 + IF hist.retries[a] = 0 THEN 0
                         ELSE hist.retries[a] + bounds.crashes

\* D-015: the four recovery strategies are available in UNCERTAIN.
UncertainIsRecoverable ==
  AllIdle /\ db.wf.status = "UNCERTAIN" => ~NothingPending

\* TRD 9.7: WAITING_HITL waits for a human decision that can be given.
WaitingIsAnswerable ==
  AllIdle /\ db.wf.status = "WAITING_HITL" => \E r \in Reasons, a \in Attempts : IsOpen(r, a)

\* D-015: a crash after the commit and before the version row can be reconciled.
PromotionIsReconcilable ==
  AllIdle /\ db.wf.status = "RUNNING" /\ db.wf.node = "VERSION_PROMOTE"
    /\ db.contract.kind = "git" /\ git.head = db.attempts[db.wf.attempt].prep.commit =>
      Tagged(git, db.wf.attempt)

\* Every request ends: the run loop spends its attempt budget, and no step is left
\* waiting for a lock nobody will release.
RequestsEnd == \A t \in Threads : pc[t] # "idle" ~> pc[t] = "idle"
=============================================================================
