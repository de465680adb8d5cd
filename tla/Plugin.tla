------------------------------- MODULE Plugin -------------------------------
(***************************************************************************)
(* The DSH plugin (index.ts and git.ts): sessions that work in one Git     *)
(* workspace, each with its ledger.  A session has several tasks that      *)
(* interleave at their awaits: the hook at the end of an agent turn, /loop *)
(* commands, and the answer to the recovery question asked after a         *)
(* restart.  A state transition is one append to the ledger; what the      *)
(* plugin reads back is the fold of all of them, so the ledger is modelled *)
(* by its fold.  Each action is the code between two awaits at which the   *)
(* others matter.  LoopSpec evolution (/loop evolve) is left out.          *)
(***************************************************************************)
EXTENDS Integers, Sequences

CONSTANTS Sessions,
          Contents, Base, Stray,  \* file trees; Stray touch other files than allowedFiles
          MaxAttempts, MaxIterations,
          RequireApproval,        \* requirePromotionApproval
          FailEscalates,          \* the LoopSpec routes execute/fail to the human gate
          AsksRecovery,           \* a UI asks the recovery question after a restart
          MaxStarts,              \* bound: workflows
          MaxInbox,               \* bound: queued prompts of a session
          MaxPauses, MaxRestarts, MaxEdits  \* bounds

ASSUME TreesAssumption == Base \in Contents /\ Stray \subseteq Contents \ {Base}
ASSUME PluginPolicyAssumption ==
  RequireApproval \in BOOLEAN /\ FailEscalates \in BOOLEAN /\ AsksRecovery \in BOOLEAN
ASSUME PluginBoundsAssumption ==
  /\ MaxAttempts \in Nat \ {0} /\ MaxIterations \in Nat /\ MaxIterations >= MaxAttempts
  /\ MaxStarts \in Nat /\ MaxInbox \in Nat \ {0}
  /\ MaxPauses \in Nat /\ MaxRestarts \in Nat /\ MaxEdits \in Nat

VARIABLES
  led,      \* per session: the fold of its ledger
  op,       \* per session: which kind of task has the operation lock
  task,     \* per session and kind: the task and its locals
  inbox,    \* per session: prompts queued for the agent, one may be at work
  asked,    \* per session: the recovery question is open
  git,      \* the repository and its worktree
  ws,       \* the workflow that has the workspace lock, 0 when it is free
  started,  \* workflows so far
  hist,     \* history: which tasks and candidates an edit came in between
  bounds    \* counters behind MaxPauses, MaxRestarts and MaxEdits

vars == <<led, op, task, inbox, asked, git, ws, started, hist, bounds>>
-----------------------------------------------------------------------------
\* Git.  A commit is a number: 1 is the commit all sessions begin with.
Commits == 0..Len(git.commits)
Tree(c) == git.commits[c].tree
HasChanges == git.index # Tree(git.head) \/ git.work # git.index
Fingerprint == [head |-> git.head, dirty |-> HasChanges, work |-> git.work]
NoFingerprint == [head |-> 0, dirty |-> FALSE, work |-> Base]
InScope == HasChanges /\ {git.index, git.work} \cap Stray = {}

Ids == 0..MaxStarts             \* of workflows; 0 before the first
Numbers == 0..MaxIterations + 1 \* of attempts

Active == {"RUNNING", "UNCERTAIN", "PAUSED", "WAITING_HITL"}
Statuses == Active \cup {"NONE", "IDLE", "COMPLETED", "FAILED"}
Nodes == {"execute", "verify", "human_gate", "complete", "failed"}
Reasons == {"none", "PROMOTION_REVIEW", "QUALITY_REVIEW", "SCOPE_REVIEW",
            "FAILURE_REVIEW", "UNCERTAIN_RECOVERY"}
States == [wf: Ids, status: Statuses, node: Nodes, attempt: Numbers,
           base: Nat, reason: Reasons, versions: SUBSET Nat,
           fp: [head: Nat, dirty: BOOLEAN, work: Contents], prep: Nat]
NoState == [wf |-> 0, status |-> "NONE", node |-> "execute", attempt |-> 0,
            base |-> 0, reason |-> "none", versions |-> {},
            fp |-> NoFingerprint, prep |-> 0]

\* The hook; a command, which has the operation lock while it runs; the
\* command recover verify-existing, which gives it back; the recovery question.
Kinds == {"turn", "command", "verify", "prompt"}
StartPcs == {"clean", "acquire", "save_idle", "save_running"}
VerifyPcs == {"begin", "commands", "tested", "gate", "archive", "settle"}
PromotePcs == {"approve", "head", "tag", "complete"}
Pcs == {"idle", "fail", "prepare", "review", "restore", "failed", "release"}
         \cup StartPcs \cup VerifyPcs \cup PromotePcs
Tasks == [pc: Pcs, state: States, ok: BOOLEAN, seen: Contents, prep: Nat]
NoTask == [pc |-> "idle", state |-> NoState, ok |-> FALSE, seen |-> Base, prep |-> 0]

TypeOK ==
  /\ led \in [Sessions -> States]
  /\ op \in [Sessions -> Kinds \cup {"free"}]
  /\ task \in [Sessions -> [Kinds -> Tasks]]
  /\ inbox \in [Sessions -> 0..MaxInbox]
  /\ asked \in [Sessions -> BOOLEAN]
  /\ git \in [head: Nat, index: Contents, work: Contents,
              commits: Seq([tree: Contents, parent: Nat]),
              tags: [Ids \X Numbers -> Nat]]
  /\ ws \in Ids
  /\ started \in Ids
  /\ hist \in [late: SUBSET (Sessions \X Kinds), loose: SUBSET Nat]
  /\ bounds \in [pauses: Nat, restarts: Nat, edits: Nat]

Init ==
  /\ led = [s \in Sessions |-> NoState]
  /\ op = [s \in Sessions |-> "free"]
  /\ task = [s \in Sessions |-> [k \in Kinds |-> NoTask]]
  /\ inbox = [s \in Sessions |-> 0]
  /\ asked = [s \in Sessions |-> FALSE]
  /\ git = [head |-> 1, index |-> Base, work |-> Base,
            commits |-> <<[tree |-> Base, parent |-> 0]>>,
            tags |-> [v \in Ids \X Numbers |-> 0]]
  /\ ws = 0 /\ started = 0
  /\ hist = [late |-> {}, loose |-> {}]
  /\ bounds = [pauses |-> 0, restarts |-> 0, edits |-> 0]
-----------------------------------------------------------------------------
(* Shared pieces.                                                          *)

At(s, k, pc) == task[s][k].pc = pc
Go(s, k, t) == task' = [task EXCEPT ![s][k] = t]
GoTo(s, k, pc) == Go(s, k, [task[s][k] EXCEPT !.pc = pc])
End(s, k) == Go(s, k, NoTask)

\* withLoopOperationLock.
Lock(s, k) == op[s] = "free" /\ op' = [op EXCEPT ![s] = k]
Unlock(s, k) == op' = [op EXCEPT ![s] = IF @ = k THEN "free" ELSE @]
LockFree_Unasked(s) == UNCHANGED op
LockFree(s) == op[s] = "free" /\ UNCHANGED op

\* transition(): the whole state is appended; a key set to undefined does not
\* reach the file, and the fold keeps what it had.
Record(s, state) == led' = [led EXCEPT ![s] = state]
KeepReason(s, state) == [state EXCEPT !.reason = led[s].reason]

Followup(s) == inbox' = [inbox EXCEPT ![s] = IF @ < MaxInbox THEN @ + 1 ELSE @]

IsCurrent_AnyStatus(s, expected, node) ==   \* the status is not looked at again
  /\ led[s].wf = expected.wf /\ led[s].attempt = expected.attempt
  /\ led[s].node = node

\* isCurrentExecution.
IsCurrent(s, expected, node) ==
  /\ led[s].wf = expected.wf /\ led[s].attempt = expected.attempt
  /\ led[s].status = "RUNNING" /\ led[s].node = node

NextAttempt(state) ==
  [state EXCEPT !.node = "execute", !.attempt = @ + 1,
                !.fp = NoFingerprint, !.prep = 0]
Waiting(state, reason) ==
  [state EXCEPT !.status = "WAITING_HITL", !.node = "human_gate", !.reason = reason]

UnchangedRepo == UNCHANGED <<git, ws, started, hist>>
-----------------------------------------------------------------------------
(* /loop start.                                                            *)

\* Under the operation lock; HEAD is read first.
StartHead(s) ==
  /\ At(s, "command", "idle") /\ led[s].status \notin Active
  /\ started < MaxStarts
  /\ Lock(s, "command")
  /\ Go(s, "command", [NoTask EXCEPT !.pc = "clean", !.prep = git.head])
  /\ UNCHANGED <<led, inbox, asked, bounds>> /\ UnchangedRepo

StartClean(s) ==
  /\ At(s, "command", "clean")
  /\ IF HasChanges THEN End(s, "command") /\ Unlock(s, "command")
                   ELSE GoTo(s, "command", "acquire") /\ UNCHANGED op
  /\ UNCHANGED <<led, inbox, asked, bounds>> /\ UnchangedRepo

StartAcquire_OpenTruncates(s) ==   \* without 'wx' the file of another is overwritten
  /\ At(s, "command", "acquire") /\ started < MaxStarts
  /\ started' = started + 1 /\ ws' = started + 1
  /\ GoTo(s, "command", "save_idle")
  /\ UNCHANGED <<led, op, inbox, asked, git, hist, bounds>>

StartAcquire(s) ==
  /\ At(s, "command", "acquire")
  /\ IF ws # 0 \/ started = MaxStarts
     THEN End(s, "command") /\ Unlock(s, "command") /\ UNCHANGED <<ws, started>>
     ELSE /\ started' = started + 1 /\ ws' = started + 1
          /\ GoTo(s, "command", "save_idle") /\ UNCHANGED op
  /\ UNCHANGED <<led, inbox, asked, git, hist, bounds>>

\* initialState has no fingerprint, candidate or reason: the fold keeps the
\* ones of the workflow before.
StartIdle(s) ==
  /\ At(s, "command", "save_idle")
  /\ LET base == task[s]["command"].prep IN
     Record(s, [led[s] EXCEPT !.wf = ws, !.status = "IDLE", !.node = "execute",
                             !.attempt = 0, !.base = base, !.versions = {base}])
  /\ GoTo(s, "command", "save_running")
  /\ UNCHANGED <<op, inbox, asked, bounds>> /\ UnchangedRepo

StartRunning(s) ==
  /\ At(s, "command", "save_running")
  /\ Record(s, [led[s] EXCEPT !.status = "RUNNING", !.attempt = 1])
  /\ Followup(s)
  /\ End(s, "command") /\ Unlock(s, "command")
  /\ UNCHANGED <<asked, bounds>> /\ UnchangedRepo
-----------------------------------------------------------------------------
(* The agent, and handleAssistantResult after its turn.                    *)

\* From the acceptance commands to the candidate, and from there to the
\* fingerprint, nothing keeps the files as they are.
TestedPcs == {"tested", "gate", "archive", "settle", "prepare"}
Late == {w \in Sessions \X Kinds : task[w[1]][w[2]].pc \in TestedPcs}
Loose == {task[w[1]][w[2]].prep :
            w \in {v \in Sessions \X Kinds : task[v[1]][v[2]].pc = "review"}}

\* Files change, at any time: an agent is at work on a queued prompt, or
\* somebody edits.
Edit ==
  /\ \/ (\E s \in Sessions : inbox[s] > 0) /\ UNCHANGED bounds
     \/ bounds.edits < MaxEdits /\ bounds' = [bounds EXCEPT !.edits = @ + 1]
  /\ \E c \in Contents \ {git.work} : git' = [git EXCEPT !.work = c]
  /\ hist' = [late |-> hist.late \cup Late, loose |-> hist.loose \cup Loose]
  /\ UNCHANGED <<led, op, task, inbox, asked, ws, started>>

\* A turn ends.  Its text has a result marker or not; the hook looks at the
\* state without the lock and keeps it.
TurnStops(s, result) ==
  /\ inbox[s] > 0 /\ At(s, "turn", "idle")
  /\ inbox' = [inbox EXCEPT ![s] = @ - 1]
  /\ IF /\ led[s].status = "RUNNING" /\ led[s].node = "execute"
        /\ result \in {"pass", "fail"}
     THEN Go(s, "turn", [NoTask EXCEPT !.pc = IF result = "pass" THEN "begin" ELSE "fail",
                                     !.state = led[s]])
     ELSE UNCHANGED task
  /\ UNCHANGED <<led, op, asked, bounds>> /\ UnchangedRepo

\* The node applyToCurrentExecution is asked about.
ExpectedNode(s, k) ==
  IF task[s][k].pc \in {"fail", "begin"} THEN task[s][k].state.node ELSE "verify"

\* applyToCurrentExecution: the lock is free and the execution still current.
Applies(s, k, pc) ==
  /\ At(s, k, pc) /\ op[s] = "free"
  /\ IsCurrent(s, task[s][k].state, ExpectedNode(s, k))

ApplyPcs == {"fail", "begin", "tested", "gate", "archive", "settle"}

Discard_OnlyTimeout(s, k) ==   \* a stale result waits to become current
  /\ task[s][k].pc \in ApplyPcs /\ op[s] # "free"
  /\ End(s, k)
  /\ UNCHANGED <<led, op, inbox, asked, bounds>> /\ UnchangedRepo

\* The result is stale and dropped, or the lock was not to be had in 5 s and
\* the hook ends with an exception.
Discard(s, k) ==
  /\ task[s][k].pc \in ApplyPcs
  /\ op[s] # "free" \/ ~IsCurrent(s, task[s][k].state, ExpectedNode(s, k))
  /\ End(s, k)
  /\ UNCHANGED <<led, op, inbox, asked, bounds>> /\ UnchangedRepo

\* Out of budget: wait for a human.  Otherwise a new attempt and its prompt.
Rework(s, k, reason, escalate) ==
  LET state == task[s][k].state IN
  /\ IF state.attempt >= MaxAttempts \/ escalate
     THEN Record(s, Waiting(state, reason)) /\ UNCHANGED inbox
     ELSE Record(s, NextAttempt(state)) /\ Followup(s)
  /\ End(s, k)

ReportedFailure(s, k) ==
  /\ Applies(s, k, "fail")
  /\ Rework(s, k, "FAILURE_REVIEW", FailEscalates)
  /\ UNCHANGED <<op, asked, bounds>> /\ UnchangedRepo

BeginVerify(s, k) ==
  /\ Applies(s, k, "begin")
  /\ LET verifying == [task[s][k].state EXCEPT !.node = "verify"] IN
     /\ Record(s, verifying)
     /\ Go(s, k, [task[s][k] EXCEPT !.pc = "commands", !.state = verifying])
  /\ UNCHANGED <<op, inbox, asked, bounds>> /\ UnchangedRepo

\* The acceptance commands run without the lock, on the files as they are.
RunCommands(s, k, passed) ==
  /\ At(s, k, "commands")
  /\ Go(s, k, [task[s][k] EXCEPT !.pc = "tested", !.ok = passed, !.seen = git.work])
  /\ hist' = [hist EXCEPT !.late = @ \ {<<s, k>>}]
  /\ UNCHANGED <<led, op, inbox, asked, git, ws, started, bounds>>

\* Their result, then the verdict of the gate, are applied under the lock.
ApplyCommands(s, k) ==
  /\ Applies(s, k, "tested")
  /\ IF task[s][k].ok THEN GoTo(s, k, "gate") /\ UNCHANGED <<led, inbox>>
                      ELSE Rework(s, k, "QUALITY_REVIEW", FALSE)
  /\ UNCHANGED <<op, asked, bounds>> /\ UnchangedRepo

ApplyGate(s, k, passed) ==
  /\ Applies(s, k, "gate")
  /\ IF passed THEN GoTo(s, k, "archive") /\ UNCHANGED <<led, inbox>>
               ELSE Rework(s, k, "QUALITY_REVIEW", FALSE)
  /\ UNCHANGED <<op, asked, bounds>> /\ UnchangedRepo

\* The reports are archived under the lock, and git status is read after it.
ReadScope(s, k) ==
  /\ Applies(s, k, "archive")
  /\ Go(s, k, [task[s][k] EXCEPT !.pc = "settle", !.ok = InScope])
  /\ UNCHANGED <<led, op, inbox, asked, bounds>> /\ UnchangedRepo

ScopeReview(s, k) ==
  /\ Applies(s, k, "settle") /\ ~task[s][k].ok
  /\ Record(s, Waiting(task[s][k].state, "SCOPE_REVIEW"))
  /\ End(s, k)
  /\ UNCHANGED <<op, inbox, asked, bounds>> /\ UnchangedRepo

\* In scope: the lock is kept over the awaits that follow.
SettleLock(s, k) ==
  /\ Applies(s, k, "settle") /\ task[s][k].ok
  /\ Lock(s, k) /\ GoTo(s, k, "prepare")
  /\ UNCHANGED <<led, inbox, asked, bounds>> /\ UnchangedRepo

Prepare_NotAdded(s, k) ==   \* write-tree of the index as it was
  /\ At(s, k, "prepare")
  /\ git' = [git EXCEPT !.commits = Append(@, [tree |-> git.index, parent |-> git.head])]
  /\ Go(s, k, [task[s][k] EXCEPT !.pc = "review", !.prep = Len(git.commits) + 1])
  /\ UNCHANGED <<led, op, inbox, asked, bounds, ws, started, hist>>

\* prepareGitCandidate: add, write-tree, commit-tree; without changes it throws.
Prepare(s, k) ==
  /\ At(s, k, "prepare")
  /\ IF HasChanges
     THEN /\ git' = [git EXCEPT !.index = git.work,
                     !.commits = Append(@, [tree |-> git.work, parent |-> git.head])]
          /\ Go(s, k, [task[s][k] EXCEPT !.pc = "review", !.prep = Len(git.commits) + 1])
          /\ UNCHANGED op
     ELSE End(s, k) /\ Unlock(s, k) /\ UNCHANGED git
  /\ UNCHANGED <<led, inbox, asked, bounds, ws, started, hist>>

\* The fingerprint is taken; a human reviews it, or the promotion goes on.
Review(s, k) ==
  /\ At(s, k, "review")
  /\ LET reviewed == [task[s][k].state EXCEPT !.fp = Fingerprint, !.prep = task[s][k].prep] IN
     IF RequireApproval
     THEN /\ Record(s, Waiting(reviewed, "PROMOTION_REVIEW"))
          /\ End(s, k) /\ Unlock(s, k)
     ELSE /\ Go(s, k, [task[s][k] EXCEPT !.pc = "approve", !.state = reviewed])
          /\ UNCHANGED <<led, op>>
  /\ UNCHANGED <<inbox, asked, bounds>> /\ UnchangedRepo
-----------------------------------------------------------------------------
(* /loop approve and promotePreparedCandidate.                             *)

Approve(s) ==
  /\ At(s, "command", "idle")
  /\ led[s].status = "WAITING_HITL" /\ led[s].reason = "PROMOTION_REVIEW"
  /\ Lock(s, "command")
  /\ Go(s, "command", [NoTask EXCEPT !.pc = "approve", !.state = led[s]])
  /\ UNCHANGED <<led, inbox, asked, bounds>> /\ UnchangedRepo

Compare_Skipped(s, k) ==   \* the candidate is taken for unchanged
  /\ At(s, k, "approve")
  /\ GoTo(s, k, "head")
  /\ UNCHANGED <<led, op, inbox, asked, bounds>> /\ UnchangedRepo

\* The fingerprint is compared before anything moves.
Compare(s, k) ==
  /\ At(s, k, "approve")
  /\ IF Fingerprint = task[s][k].state.fp /\ task[s][k].state.prep # 0
     THEN GoTo(s, k, "head") /\ UNCHANGED op
     ELSE End(s, k) /\ Unlock(s, k)
  /\ UNCHANGED <<led, inbox, asked, bounds>> /\ UnchangedRepo

TagOf(state) == git.tags[<<state.wf, state.attempt>>]

\* An existing tag settles it; then HEAD and the index must be as prepared.
PromoteHead(s, k) ==
  /\ At(s, k, "head")
  /\ LET state == task[s][k].state IN
     \/ /\ TagOf(state) # 0
        /\ IF TagOf(state) = state.prep THEN GoTo(s, k, "complete") /\ UNCHANGED op
                                        ELSE End(s, k) /\ Unlock(s, k)
        /\ UNCHANGED git
     \/ /\ TagOf(state) = 0
        /\ IF /\ git.head = git.commits[state.prep].parent
              /\ git.index = Tree(state.prep)
           THEN /\ git' = [git EXCEPT !.head = state.prep]
                /\ GoTo(s, k, "tag") /\ UNCHANGED op
           ELSE End(s, k) /\ Unlock(s, k) /\ UNCHANGED git
  /\ UNCHANGED <<led, inbox, asked, bounds, ws, started, hist>>

PromoteTag_Forgotten(s, k) ==
  /\ At(s, k, "tag")
  /\ GoTo(s, k, "complete")
  /\ UNCHANGED <<led, op, inbox, asked, bounds>> /\ UnchangedRepo

PromoteTag(s, k) ==
  /\ At(s, k, "tag")
  /\ LET state == task[s][k].state IN
     git' = [git EXCEPT !.tags[<<state.wf, state.attempt>>] = state.prep]
  /\ GoTo(s, k, "complete")
  /\ UNCHANGED <<led, op, inbox, asked, bounds, ws, started, hist>>

Complete(s, k) ==
  /\ At(s, k, "complete")
  /\ LET state == task[s][k].state IN
     Record(s, KeepReason(s, [state EXCEPT !.status = "COMPLETED", !.node = "complete",
                                           !.versions = @ \cup {state.prep}]))
  /\ GoTo(s, k, "release")
  /\ UNCHANGED <<op, inbox, asked, bounds>> /\ UnchangedRepo

\* releaseWorkspaceLock refuses a lock of another workflow.
Release(s, k) ==
  /\ At(s, k, "release")
  /\ ws' = IF ws = task[s][k].state.wf THEN 0 ELSE ws
  /\ End(s, k) /\ Unlock(s, k)
  /\ UNCHANGED <<led, inbox, asked, bounds, git, started, hist>>
-----------------------------------------------------------------------------
(* Pause, resume, retry.  None of them awaits anything under the lock.     *)

\* cancel() stops the turn at work and keeps the prompts behind it.
Pause(s) ==
  /\ LockFree(s) /\ led[s].status = "RUNNING" /\ bounds.pauses < MaxPauses
  /\ bounds' = [bounds EXCEPT !.pauses = @ + 1]
  /\ Record(s, [led[s] EXCEPT !.status = "PAUSED"])
  /\ \/ UNCHANGED inbox
     \/ inbox[s] > 0 /\ inbox' = [inbox EXCEPT ![s] = @ - 1]
  /\ UNCHANGED <<task, asked>> /\ UnchangedRepo

Resume(s) ==
  /\ LockFree(s) /\ led[s].status = "PAUSED"
  /\ Record(s, [led[s] EXCEPT !.status = "RUNNING"])
  /\ Followup(s)
  /\ UNCHANGED <<task, asked, bounds>> /\ UnchangedRepo

Retry_Unlimited(s) ==   \* the iteration limit of the LoopSpec is not looked at
  /\ LockFree(s) /\ led[s].status = "WAITING_HITL"
  /\ Record(s, [NextAttempt(led[s]) EXCEPT !.status = "RUNNING"])
  /\ Followup(s)
  /\ UNCHANGED <<task, asked, bounds>> /\ UnchangedRepo

Retry(s) ==
  /\ LockFree(s) /\ led[s].status = "WAITING_HITL"
  /\ led[s].attempt - 1 < MaxIterations
  /\ Record(s, [NextAttempt(led[s]) EXCEPT !.status = "RUNNING"])
  /\ Followup(s)
  /\ UNCHANGED <<task, asked, bounds>> /\ UnchangedRepo
-----------------------------------------------------------------------------
(* Reject, recover and what they share.                                    *)

Reject(s) ==
  /\ At(s, "command", "idle") /\ led[s].status = "WAITING_HITL"
  /\ Lock(s, "command")
  /\ Go(s, "command", [NoTask EXCEPT !.pc = "restore", !.state = led[s]])
  /\ UNCHANGED <<led, inbox, asked, bounds>> /\ UnchangedRepo

\* rejectCandidate refuses changes outside allowedFiles; the changed files
\* become what they are at the baseline, in the index and the worktree.
Restore(s, k) ==
  /\ At(s, k, "restore")
  /\ LET base == Tree(task[s][k].state.base) IN
     IF HasChanges /\ ~InScope
     THEN End(s, k) /\ Unlock(s, k) /\ UNCHANGED git
     ELSE /\ git' = IF HasChanges THEN [git EXCEPT !.index = base, !.work = base] ELSE git
          /\ GoTo(s, k, "failed") /\ UNCHANGED op
  /\ UNCHANGED <<led, inbox, asked, bounds, ws, started, hist>>

Fail(s, k) ==
  /\ At(s, k, "failed")
  /\ Record(s, KeepReason(s, [task[s][k].state EXCEPT !.status = "FAILED", !.node = "failed"]))
  /\ GoTo(s, k, "release")
  /\ UNCHANGED <<op, inbox, asked, bounds>> /\ UnchangedRepo

\* recover() as the command calls it, under the lock, or as promptRecovery
\* does, without.  Both look at the state when they are called.
Recovering(s, k) ==
  /\ led[s].status = "UNCERTAIN" /\ At(s, k, "idle")
  /\ IF k = "prompt" THEN asked[s] /\ asked' = [asked EXCEPT ![s] = FALSE]
                     ELSE op[s] = "free" /\ UNCHANGED asked

\* verify-existing takes the lock itself and gives it back.
RecoverVerify(s, k) ==
  /\ Recovering(s, k) /\ LockFree(s)
  /\ LET running == [led[s] EXCEPT !.status = "RUNNING", !.node = "verify"] IN
     /\ Record(s, running)
     /\ Go(s, k, [NoTask EXCEPT !.pc = "begin", !.state = running])
  /\ UNCHANGED <<inbox, bounds>> /\ UnchangedRepo

RecoverRetry(s, k) ==
  /\ Recovering(s, k)
  /\ Record(s, [led[s] EXCEPT !.status = "RUNNING", !.node = "execute"])
  /\ Followup(s)
  /\ UNCHANGED <<op, task, bounds>> /\ UnchangedRepo

RecoverLock(s, k) == IF k = "prompt" THEN UNCHANGED op ELSE Lock(s, k)

\* restore-baseline awaits Git before it writes; abort-preserve writes first.
RecoverRestore(s, k) ==
  /\ Recovering(s, k) /\ RecoverLock(s, k)
  /\ Go(s, k, [NoTask EXCEPT !.pc = "restore", !.state = led[s]])
  /\ UNCHANGED <<led, inbox, bounds>> /\ UnchangedRepo

RecoverAbort(s, k) ==
  /\ Recovering(s, k) /\ RecoverLock(s, k)
  /\ Record(s, [led[s] EXCEPT !.status = "FAILED", !.node = "failed"])
  /\ Go(s, k, [NoTask EXCEPT !.pc = "release", !.state = led[s]])
  /\ UNCHANGED <<inbox, bounds>> /\ UnchangedRepo

Recover(s) ==
  \/ \E k \in {"verify", "prompt"} : RecoverVerify(s, k)
  \/ \E k \in {"command", "prompt"} :
       RecoverRetry(s, k) \/ RecoverRestore(s, k) \/ RecoverAbort(s, k)

\* gitRollback checks out a version of the workflow in the workspace, which it
\* has no lock of any more.
Rollback(s) ==
  /\ LockFree(s) /\ led[s].status = "COMPLETED" /\ ~HasChanges
  /\ \E c \in led[s].versions :
       git' = [git EXCEPT !.head = c, !.index = Tree(c), !.work = Tree(c)]
  /\ UNCHANGED <<led, task, inbox, asked, ws, started, hist, bounds>>

\* The process of a session ends at any await and a new one folds the ledger;
\* agent/created turns RUNNING into a question.  The lock of the old process
\* is taken over.
Restart(s) ==
  /\ bounds.restarts < MaxRestarts
  /\ bounds' = [bounds EXCEPT !.restarts = @ + 1]
  /\ task' = [task EXCEPT ![s] = [k \in Kinds |-> NoTask]]
  /\ op' = [op EXCEPT ![s] = "free"]
  /\ inbox' = [inbox EXCEPT ![s] = 0]
  /\ asked' = [asked EXCEPT ![s] = AsksRecovery /\ led[s].status = "RUNNING"]
  /\ IF led[s].status = "RUNNING"
     THEN Record(s, [led[s] EXCEPT !.status = "UNCERTAIN", !.node = "human_gate",
                                   !.reason = "UNCERTAIN_RECOVERY"])
     ELSE UNCHANGED led
  /\ UnchangedRepo
-----------------------------------------------------------------------------
Starting(s) == StartClean(s) \/ StartAcquire(s) \/ StartIdle(s) \/ StartRunning(s)

\* The rest of handleAssistantResult once the agent's result is read.
Verification(s, k) ==
  \/ Discard(s, k) \/ ReportedFailure(s, k) \/ BeginVerify(s, k)
  \/ \E passed \in BOOLEAN : RunCommands(s, k, passed) \/ ApplyGate(s, k, passed)
  \/ ApplyCommands(s, k) \/ ReadScope(s, k)
  \/ ScopeReview(s, k) \/ SettleLock(s, k) \/ Prepare(s, k) \/ Review(s, k)

Promotion(s, k) ==
  Compare(s, k) \/ PromoteHead(s, k) \/ PromoteTag(s, k) \/ Complete(s, k) \/ Release(s, k)

TaskStep(s, k) == Verification(s, k) \/ Promotion(s, k) \/ Restore(s, k) \/ Fail(s, k)

Human(s) ==
  StartHead(s) \/ Approve(s) \/ Pause(s) \/ Resume(s) \/ Retry(s)
  \/ Reject(s) \/ Recover(s) \/ Rollback(s)

Next ==
  \/ Edit
  \/ \E s \in Sessions :
       \/ Human(s) \/ Starting(s) \/ Restart(s)
       \/ \E result \in {"pass", "fail", "none"} : TurnStops(s, result)
       \/ \E k \in Kinds : TaskStep(s, k)

Spec == Init /\ [][Next]_vars

\* Git, the acceptance commands (300 s) and the gate end and their awaits
\* return.  Nobody has to start, answer or resume anything.
FairSpec ==
  Spec /\ \A s \in Sessions : WF_vars(Starting(s))
                              /\ \A k \in Kinds : WF_vars(TaskStep(s, k))
-----------------------------------------------------------------------------
(* Properties.                                                             *)

\* "Git common-dir lock" (TRD D-016): a workflow that is not finished has the
\* workspace to itself.
OneActivePerWorkspace ==
  \A s \in Sessions : led[s].status \in Active => ws = led[s].wf

\* A pause is withdrawn by a resume only; nothing the verification that was
\* running finds out is written over it (TRD D-021).
PauseHolds ==
  [][\A s \in Sessions : led[s].status = "PAUSED" =>
       led'[s] \in {led[s], [led[s] EXCEPT !.status = "RUNNING"]}]_vars

\* No task writes a state it read before somebody else moved the workflow on:
\* attempts do not go back and a workflow that ended stays as it ended.
WritesAreCurrent ==
  [][\A s \in Sessions : led'[s].wf = led[s].wf =>
       /\ led'[s].attempt >= led[s].attempt
       /\ led[s].status \in {"COMPLETED", "FAILED"} => led'[s].status = led[s].status]_vars

\* What is put before the human, or promoted without one, is the content the
\* acceptance commands passed on, whatever other sessions did in between:
\* only an edit of the files after the commands makes it another.
CandidateIsTested ==
  \A s \in Sessions, k \in Kinds :
    At(s, k, "review") /\ <<s, k>> \notin hist.late
      => Tree(task[s][k].prep) = task[s][k].seen

\* An approval of the files in the workspace is one of the candidate (TRD D-022):
\* while HEAD is where the candidate was prepared, and unless the files were edited
\* between the candidate and its fingerprint, it is accepted only if the files are
\* those of the commit that PromoteHead would move HEAD to.
ApprovalFitsCandidate ==
  [][\A s \in Sessions, k \in Kinds :
       LET candidate == task[s][k].state.prep IN
       At(s, k, "approve") /\ task'[s][k].pc = "head"
         /\ candidate \notin hist.loose
         /\ git.head = git.commits[candidate].parent => git.work = Tree(candidate)]_vars

\* A completed workflow has its tag, on one of its versions.
CompletedIsTagged ==
  \A s \in Sessions : led[s].status = "COMPLETED" =>
    TagOf(led[s]) # 0 /\ TagOf(led[s]) \in led[s].versions

\* Every task ends: a verification whose result is stale is dropped and does
\* not wait for the lock forever.
TasksEnd ==
  \A s \in Sessions, k \in Kinds : task[s][k].pc # "idle" ~> task[s][k].pc = "idle"

\* "loop paused; pending work retained": a workflow that is RUNNING in its
\* verify node is being verified.
PendingWorkRetained ==
  \A s \in Sessions : led[s].status = "RUNNING" /\ led[s].node = "verify" =>
    \E k \in Kinds : task[s][k].pc # "idle"
=============================================================================
