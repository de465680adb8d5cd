# Verification of loopgraph-supervisor

TLA+ models, TLC runs and TLAPS proofs for the LoopGraph supervisor. The code comes in two
halves: **A**, the Python control plane (`src/loopgraph_supervisor`), and **B**, the TypeScript
plugin for DSH (`src/packages/dsh-loopgraph-supervisor/src`). Both drive an agent (DSH) through
execute, verify, human review and promotion of a Git candidate, and keep enough on disk to go
on after a crash. Paths below are relative to `src/`; "TRD" is `TRD.md`.

## Inventory

| Component | State it keeps | Operations | What must hold |
|---|---|---|---|
| Workflow engine `supervisor.py`, `domain.py` | none of its own; one lock per workflow | `start`, `run`, `pause`, `resume`, `decide_hitl`, `recover_uncertain`, `rollback`; nodes `_execute`, `_verify`, `_promote` | one request at a time per workflow; no DSH call unasked after an unknown outcome; nothing unverified or unapproved enters Git; the budget; every request ends |
| Store `store.py` | SQLite: workflows, contracts, attempts, intents, verifications, proposals, requests, versions, logs | one statement and one commit each | what a restart reads is a state the engine can go on from |
| Git worktree `git_workspace.py`, `workspace.py` | HEAD, index, files, candidate tags | fingerprint, prepare, promote, tag, switch, restore | the promoted commit is the reviewed one; tags and version rows agree |
| Adapters `adapters.py` | none | DSH call, acceptance commands | outcomes only |
| API, CLI `api.py`, `main.py`, `cli.py` | server threads | one operation per request | requests overlap |
| LoopSpec `loopspec.py`, `loopspec_interpreter.py`, `graph_validator.py`, `spec_store.py` | spec revisions and their status | validate, next node, save, activate | exactly the graphs whose nodes are all reachable and can finish are accepted; a workflow on one is never without a route and ends; one ACTIVE revision, immutable revisions |
| Evolution `evolution_trigger.py`, `proposal_worker.py`, `evolution_run.py`, `evolution.py` | triggers, runs | request, claim, requeue, consume, finish | one worker per trigger; a run in review has a candidate that passed; a worker's call ends |
| Candidates `candidate_store.py`, `candidates.py`, `activation.py`, `pr_promotion.py`, `github_adapter.py` | candidates and their status, PRs on GitHub, the version that runs | intake, transition, open PR, merge, activate, roll back | what is active was proven and approved; no PR is left open unnoticed; the version recorded is the one that runs |
| Coordination `coordination.py` | candidates and a selection per parent | register, select, authorise | the PRs of a parent are of one candidate, with the approved head |
| Evaluation `evaluation.py`, `filesystem_evaluation.py`, `arena.py`, `holdout.py`, `quality_gate.py` | none | replay, score, compare | sequential |
| Builder and containers `builder*.py`, `docker_runtime.py`, `container_gate.py`, `egress_relay.py`, `sandbox.py`, `security_probe.py`, `runtime_facts.py` | processes | run a builder in isolation | I/O |
| B ledger `ledger.ts` | JSONL file, lock file, reaper file | lock, append, repair, fold | one writer; a torn tail loses only itself |
| B supervisor `index.ts`, `git.ts`, `verifier.ts`, `model.ts` | the fold of the ledger, the workspace lock in the Git directory | `/loop` start, pause, resume, retry, recover, approve, reject, rollback; the hook after a turn; recovery after a restart | a decision made during an await is not overwritten; one unfinished workflow per workspace; what was tested is what is reviewed and promoted |
| B LoopSpec `loopspec.ts` | none | as A | as A |

How they interact: the API calls the engine in one thread per request; the engine calls store,
Git, DSH and verifier synchronously, holding the workflow lock for `run`, `decide_hitl`,
`recover_uncertain` and `rollback`, and no lock for `start`, `pause` and `resume`. Verification
failures queue evolution triggers, which a worker consumes into candidates; an approved candidate
becomes the active revision, or a PR whose merged version is activated behind a canary. Server,
workers and operators' processes share one SQLite file, each with a connection of its own. B talks
to A through nothing but the shared design.

The hard behaviours are the windows between two durable writes (SQLite, Git refs and the
worktree are not one transaction), the row that is read before and saved whole after another
request changed it, and content that changes between the moment it is checked and the moment
it is used. `PROJECT.json` lists them as hazards with the property aimed at each.

## Modules

* **`GitWorkspace.tla`**: constants and operators for the worktree. A file tree is one member of
  `Contents`; a commit is the attempt it was prepared for and its tree; `Stray` are trees that
  touch paths outside `allowed_files`. `CandidateFingerprint` has HEAD, whether anything is
  changed, and the file contents, and not the index, as in the code.
* **`Supervisor.tla`**: the engine and its store for one workflow. `db` is SQLite, `git` the
  worktree, `lock` the RLock of the workflow, `pc`, `mem` and `loc` the request threads (where each
  is, its `Workflow` object, its other locals), `hist` counts DSH calls and human retry decisions
  per attempt for properties only, `bounds` counts crashes, edits, overlaps and overwritten spec
  revisions. One action is the code between two durable writes, so a crash may fall between any two,
  and each is named for the method and the step (`VerifySavePrepared`, `RecoverClose`). An exception
  is an action that ends the request and releases the lock (`NodeRaise`, `VerifyRaise`). Of the
  LoopSpec the model has what `_workflow_spec` tests: whether the revision the row is bound to still
  has the hash it had (`SpecAvailable`), which `spec_store.py:39` may change under a running
  workflow (`Overwrite`); the routes are those of the shipped coding graph. `Contracts` are the
  acceptance contracts a `start` may carry; the contract a thread acts on is what `get_workflow`
  found, which is `NoContract` when `start` crashed before `save_contract`.
* **`WorkflowLifecycle.tla`**: the abstract specification: status, attempt number and whether
  the candidate is cleared for promotion. `Supervisor!FollowsLifecycle` instantiates it with
  the saved row (`cleared` is "the saved node is past the review").
* **`MCSupervisor.tla`**: the contract sets and the symmetry of the threads.
* **`SupervisorProofs.tla`**: what holds whatever the requests, crashes and edits;
  **`SupervisorPromotionProofs.tla`**: what is promoted was verified; **`SupervisorSerialProofs.tla`**:
  what holds of requests served one at a time, the refinement of `WorkflowLifecycle` among it.

* **`LedgerLock.tla`** (B `ledger.ts:168-258`): the lock file that serializes ledger appends and
  the operations of a session. `file` is the file at the path (who created it, whether its pid is
  written, whether it is older than 30 s), `reaper` the second file under which a stale lock is
  taken over, `pc`, `tries` and `seen` the callers, `alive` the processes. One action is one
  system call; actors of one process interleave only where they await (`Scheduled`).
* **`Plugin.tla`** (B `index.ts`, `git.ts`): sessions in one Git workspace. `led` is the fold of a
  session's ledger, `op` its operation lock, `task` the tasks that interleave at awaits (the hook
  after a turn, a command, the verification of `recover verify-existing`, the answer to the
  recovery question), `inbox` the queued prompts, `ws` the workspace lock, `git` HEAD, index,
  files, commits and tags. `Applies` is `applyToCurrentExecution`: lock and `isCurrentExecution`.
  A key set to `undefined` keeps its old value in the fold (`KeepReason`), as JSON drops it.
  The operation lock is one cell here; that the lock file behaves like one is what `LedgerLock`
  examines.
* **`MCLedgerLock.tla`**, **`MCPlugin.tla`**: process assignments, symmetry of the sessions.
* **`LedgerLockProofs.tla`**, **`PluginProofs.tla`**: their theorems.

* **`GraphValidator.tla`** (`loopspec.py`, `graph_validator.py`, `loopspec_interpreter.py`): an
  artifact goes through the constructor (`Construct`), the forward search (`Visit`, one node of the
  queue per step in any order), the rules for each node (`Shape`), the backward search (`Grow`, one
  addition per step, since the code lets the set grow during a pass) and the coding rules
  (`Decide`). A coding graph that is accepted is then walked with the outcomes each kind of node
  produces (`Walk`), under the iteration limit, as the supervisor and the evaluation replay do.
  `Executable` is the gate's promise without its searches. An edge with several outcomes is one
  element per outcome; an edge without outcomes counts for the searches though nothing routes along
  it, as in the code.
* **`Evolution.tla`** (`evolution_trigger.py`, `proposal_worker.py`, `evolution.py`,
  `candidate_store.py`, `spec_store.py`, `evolution_run.py`, the seeding in `supervisor.py`):
  `triggers`, `failed`, `specs`, `candidates` and `runs` are the tables, `holder` the connection
  with an open write transaction, `pc` and `loc` the processes. One action is one commit, or the
  reads of one check: `SaveCheck` and the writes that rely on it are apart, as SELECT opens no write
  transaction. The content of a revision is the sequence of graphs that leads to it, since its hash
  covers the hash of its predecessor. A `with db` block rolls back on an exception; a refused CAS
  outside one keeps the write lock (`Refused`), and a writer behind it gives up after 5 s (`Locked`).
  The signature of repeated failures is the bag of all failures (the last 100), as in the code.
* **`Promotion.tla`** (`coordination.py`, `pr_promotion.py`, `github_adapter.py`, `activation.py`,
  the rest of `evolution_run.py`): `registered` and `selections` are the tables, `runs` the
  evolution runs, `remote` and `prs` GitHub, `pc` and `loc` the processes that coordinate and open,
  `live`, `recorded`, `apc` and `act` the activation. `lost` remembers the pull requests whose
  opener died or never got gh's answer. GitHub, the people who push, merge and close, and the
  activation callbacks are external.
* **`MCGraphValidator.tla`**, **`MCEvolution.tla`**, **`MCPromotion.tla`**: the artifacts, the
  shipped chain, the competing candidates; **`GraphValidatorProofs.tla`**,
  **`EvolutionProofs.tla`**, **`PromotionProofs.tla`**: their theorems.

`Evolution` and `Promotion` meet in the run of a trigger: the first takes it from PROCESSING to
PROMOTION_REVIEW, where `Promotion!Init` finds it. `Plugin` and `LedgerLock` meet in the operation
lock, `Supervisor` and `Evolution` in the failed verifications and in the active revision a
workflow is bound to at its start.

Operators named `Something_Change` above an operator `Something` are mutated versions of it, each
a plausible bug; a property of a passing run is violated when one of them replaces its original.

## Runs

| Run | Instance | Shows |
|---|---|---|
| `SupervisorSerial` | 1 thread, 4 trees (1 out of scope), 2 of 3 attempts, 2 outside edits between requests, 1 retry decision | with requests one after the other and no crash: the type invariant; what is promoted is what its approved request showed; UNCERTAIN can be recovered and WAITING_HITL answered; the rows implement `WorkflowLifecycle`; every request ends |
| `SupervisorCrash` | 1 thread, all kinds of contract, 3 trees (1 out of scope), 2 attempts (numbers up to 3), 1 crash, 1 edit, 1 overwritten spec revision, 1 retry decision | after a crash anywhere: a promoted commit was verified in scope; an attempt without a decision to retry is called once, and otherwise once more for each decision and crash at most; a workflow without its contract promotes nothing |
| `SupervisorThreads` | 2 threads (symmetric), 2 trees, 1 attempt (numbers up to 5), 2 overlapping requests, 1 crash | lock, DSH calls, closed intents and version rows against Git tags under races of `pause` and `resume` with `run` |
| `SupervisorReconcile` | 1 thread, 1 crash | **violation**: a crash after `update-ref` and before `tag` cannot be reconciled (TRD D-015 says it can) |
| `LedgerLock` | 3 processes with one writer each, 2 turns of the loop, 1 death | no takeover removes a lock in use (so there is one holder at a time), takeovers exclude each other, every acquire ends, the lock of a dead process is removed |
| `Plugin` | 1 session, 2 trees, automatic promotion, 2 attempts (up to 3 by a human), 2 pauses, 2 restarts, 1 edit | a pause withstands a verification under way; no task writes a state that is out of date; every task ends |
| `PluginSessions` | 2 sessions (symmetric), 3 trees (1 out of scope), 2 workflows, human approval, 1 restart, 1 edit | one unfinished workflow per workspace; candidates are what was tested unless the files were edited after the test; a completed workflow has its tag; while HEAD has not moved, an approval is of the candidate's files unless they were edited before its fingerprint |
| `PluginPauseInVerify` | 1 session, 1 pause | **violation**: a workflow paused during its verification is driven by nothing after resume (`index.ts:500`) |
| `GraphValidator` | every single edit of the repository's coding graph (an edge dropped, retargeted or added, a role, kind or entrypoint changed, a node removed or put in the way), and all graphs of 3 nodes with up to 2 edges without outcomes | the searches accept exactly the executable graphs; a walk over an accepted coding graph has one route for every outcome and ends |
| `Evolution` | a server and a worker process, 1 human request, 2 failures, 2 graphs of which 1 passes, 1 crash, 1 requeue | at most one active revision, shipped or proven and approved; one worker per trigger; runs in review are proven and stay in review; every call of a worker ends |
| `Promotion` | 2 openers (symmetric), 2 candidates of one parent, one of them with two heads under one id, 2 branches (symmetric), 2 PRs, 1 push | one candidate per parent has PRs; no PR stays open unnoticed; the version recorded runs |
| `EvolutionOverwrite` | as `Evolution` | **violation**: two workers that both passed the check of `save` write the same revision, and the second replaces the first (`spec_store.py:12` says immutable) |

Deadlock is checked in the runs of the engine and of the lock: a pause can always be requested
once a workflow exists, and a lock can always be asked for. A session whose workflows are used up
by the bound `MaxStarts` stops, so the `Plugin` runs do not check it; nor does `GraphValidator`,
whose gate ends with a verdict and whose walk ends in a terminal.

Bounds. `AttemptCap` is the highest attempt number of the model; it exceeds `MaxAttempts`, so that a
step past the budget is visible and the cap never hides it. Two attempts are enough for an old and a
new one to be confused; three trees distinguish base, reviewed and other content. One crash is
enough for each window between two writes, and the run after it meets what it left. Two overlaps let
two whole-row savers surround one run. `MaxRetries` bounds human retry-same-attempt decisions (none
after that many decisions to retry), which the code does not bound. `MaxOverwrites` bounds how often
the bound spec revision is replaced; once is for good. Without its spec a workflow that is resumed
again and again makes an attempt each time, whatever its budget (below); `ResumeRead` stops that at
`AttemptCap`. `MaxAttempts` is any integer up to `AttemptCap`, as `start` refuses none; the first
attempt is made even with a budget of 0. Outside edits fall between requests, or inside `_verify`
where `EditDuringVerify` says so (no run does: between prepare and fingerprint such an edit
separates what is approved from what is promoted), never during the DSH call, which may write
anything itself.

`MaxTries` stands for the 500 turns of the acquire loop; two are enough for a turn after another was
counted. `MaxDeaths` and `MaxStalls` bound exits of processes and stalls of 30 s between two calls.
Any number of deaths is harmless, as the theorem says, but for one that falls into the window of
`NoExitUnderJudgement`; a run with one death never meets it, hence `MaxDeaths` = 1. In `Plugin`,
`MaxIterations` is the limit of the LoopSpec, which stops human retries; `MaxInbox` caps queued
prompts (a further one is dropped); `MaxStarts` workflows over all sessions, two so that one follows
another in the same workspace. Edits fall at any point, by the agent at its prompt or by somebody
else; `hist` remembers whether one fell between the acceptance commands and the candidate (`late`),
or between the candidate and its fingerprint (`loose`), for the two properties that except those.

`Evolution` ships a chain of one revision, so that the candidates are revisions 2 and 3; its
theorems hold for every chain, and the seeding of longer ones is in the model (`SeedWrite`).
`MaxFailures` = 2 is the threshold of a task trigger; two processes, a human request and a task
trigger let two workers build on one active revision. `EarlyRequeue` = FALSE says that an operator
queues a trigger again only when no worker is at it; the code cannot tell, and with TRUE
`OneBuilderPerTrigger` fails. `Promotion` has two pull requests, the least for one to be superfluous,
and one push, which moves a head under an opener. `Focus` leaves out states where activations and
openings are both under way: they share nothing but the status of runs, and the theorems do without
it. The three heads of candidates are the least for an immutable id, a conflict and a competitor.
The small graphs of `GraphValidator` have 3 nodes, the least for a branch that is reachable and
cannot finish.

Fairness. `FairSpec` has weak fairness per thread on the steps that move a request on: the
interpreter schedules its thread, a DSH call returns or raises and verifier commands end (they
have a 300 s timeout, `adapters.py`; the DSH call has none, so its end is an assumption). No
fairness is assumed for requests, crashes or edits. `RequestsEnd` is the liveness result.
`LedgerLock` assumes that the timer of a waiting actor fires even if its process has other work in
between (strong fairness of `Acquire`), that a release runs to its end and that time passes;
nothing says how long an operation keeps the lock, nor that anybody asks for it. `Plugin` assumes
that Git, the acceptance commands (300 s, `verifier.ts`) and the gate return (weak fairness of a
task); nobody has to start, answer or resume anything. `Evolution` assumes weak fairness of each
process's own steps (`Step`), the end of the builder and the SQLite timeout of 5 s included: a
writer that stays locked out may raise. No fairness for requests, claims, approvals or crashes.

What holds only without crashes or overlaps. `UncertainIsRecoverable`, `WaitingIsAnswerable`,
`FollowsLifecycle` and `ApprovedPromotion` pass in `SupervisorSerial`; they are claimed for
requests one at a time, without a crash and with an unchanged spec revision, and fail beyond that:
`recover_uncertain`, `decide_hitl` and `_verify` each make a first commit that presupposes the
second (`supervisor.py:164` and `186`, `147` and `149`, `291` and `307`), and a crash between the
two leaves a row no request moves on. Two promises of the design are therefore no properties here:

* That VERIFY can be started again (`TRD.md` 9.6). Its requests and proposals have fixed ids
  (`supervisor.py:291`, `299`, `304`) and are inserted before the row is saved; if the process dies
  in between, or `_workflow_spec` raises there (`352`), the row says VERIFY, and each `run` verifies,
  inserts and raises again.
* That a requested pause takes effect at the next node (D-006, `TRD.md:89`). A node that is running
  saves its whole row over a pause requested meanwhile (`supervisor.py:106`), and it is lost.

`ApprovedPromotion` (TRD D-022) really fails with one crash and two edits, though no run here
shows it: the process dies after the request for review is inserted and before the row is saved;
the next `run` verifies again, with files that were edited meanwhile, saves a new candidate
(`supervisor.py:285`) and raises at the second INSERT; the files are edited back. Now the
fingerprint, which covers HEAD and the files and neither the index nor the prepared commit
(`git_workspace.py:55`), is that of the first request, so its approval promotes the second
candidate, whose content nobody was shown. With one crash and one edit it does not happen.

Known behaviours the passing runs exclude by their bounds, and which their documents do not have:

* A crash after the result of an attempt is saved and before its intent is closed
  (`supervisor.py:251`) makes a finished attempt UNCERTAIN; `TRD.md:85` says the result is reused.
* An approved retry stays approved until its result is saved (`supervisor.py:221-231`,
  `TRD.md:478`): a crash during the repeated call makes the next `run` call DSH once more, unasked.
  `NoUnapprovedRepeat` allows just that; without a decision nothing is called twice.
* `decide_hitl` answers any open request, whatever the status of the workflow and the attempt the
  request is about (`supervisor.py:120`): a retry of an older one sets an UNCERTAIN workflow RUNNING
  again, whose intent is still open.
* A spec revision that another candidate overwrites under a workflow (the finding of
  `EvolutionOverwrite`) makes each node raise after its commits: a VERIFY that has inserted its
  request is stuck, and an attempt whose intent is finished and whose row is not is followed by a
  further DSH call at each `resume`, beyond the budget.
* An owner of the ledger's lock that releases it and exits while a reaper is between the read of
  that owner and its `kill(pid, 0)` makes the reaper remove the file of whoever has acquired it
  since (`ledger.ts:213`, `237`; `PLUGIN_TRD.md:56`); two actors then hold the lock.
* An edit between the acceptance commands and the candidate (`index.ts:227`, `275`) gives a candidate
  nobody tested, and one between the candidate and its fingerprint an approval of other files.
* The answer to the recovery question runs without the operation lock (`index.ts:362`,
  `TRD.md:468`) and may write over a newer attempt; `AsksRecovery` = FALSE leaves the question out.
* The worker: a rejected candidate, or a crash after CONSUMED, leaves its run in PROCESSING for
  good; a rejected graph keeps revision N+1, so that another content for it is refused; an intake
  of the same content that races an activation turns the ACTIVE row back to CANDIDATE
  (`spec_store.py:39`), and then nothing is active; a crash while the chain is seeded leaves a
  shorter chain active; a run that is queued again keeps its first baseline. None of these
  contradicts a property here: at most one revision is active, and a proven one.
* Pull requests: if gh's answer to the creation is lost, or the head moves before it is looked at
  (`github_adapter.py:48`), the request stays open and blocks another on the same branch; those are
  the exceptions of `OpenPrsAreAccounted`. A request closed by people leaves its run in PR_OPEN.
  An exception of the second verification (`activation.py:29`) ends the call without a rollback
  and the run stays MERGED, the exception of `RecordedVersionIsLive`.

## Proofs

For every set of threads, contents and contracts, every attempt cap and every bound:

* `TypeCorrect`: `Spec => []TypeOK`, one lemma per operation, with lemmas for the shared steps
  (`Begin`, `Return`, `Write`) and for each record a commit updates.
* `LockIsExclusive`: `Spec => []MutualExclusion`. A step keeps its thread on its side of the
  lock, acquires the free lock, or releases its own.
* `NoCallAfterResultHolds`, `VersionsAreTaggedHolds`. Neither is inductive. `SafetyInv` adds
  what a thread relies on between its steps (`LocalInv`): at `calling` the attempt has no
  result, at `tag` the tag does not exist, at `version` it names the prepared commit, and the
  active version of every row in memory exists, since `pause` and `resume` may save it later.
  Most steps are `Quiet` (they promote nothing), which one lemma settles; the others have a
  lemma each. Other threads keep their facts because a step that writes attempts or tags ends
  inside the lock.
* `IntentsStayClosedHolds`: `Spec => IntentsStayClosed`. Only `start_execution`, which inserts
  once, `retry-same-attempt`, which needs an open intent, and the closing updates write intents.
* `NoVersionWithoutContractHolds`. `ContractInv`: who read a contract read it from SQLite, and
  a contract is saved wherever the node is VERSION_PROMOTE, in SQLite or in the memory of a
  thread that may save it later. Only two steps clear a candidate, and both show the contract:
  the automatic promotion (without a contract the review is on) and the approval (needs Git).
* `VerifiedPromotionHolds`, assuming `~EditDuringVerify`. `VerifiedInv`: every commit that HEAD, a
  tag, a candidate row, a version row or a local names has passed, and at `verify` and
  `prepare` the worktree is what the verifier saw. DSH, rollback and restore write the worktree
  inside the lock, so they are not between the two; an edit from outside would be, hence the
  assumption, which the code does not enforce. Crashes, overlaps and other edits are free.

The other results about the engine need requests that are served one at a time (`MaxOverlaps = 0`;
`pause` and `resume` read a row and save it whole without the lock, `supervisor.py:106`, so that an
overlap puts back an older row, even one whose next attempt number is used already), and some need
that the process does not crash and the spec stays (`MaxCrashes = 0`, `MaxOverwrites = 0`; the code
makes two commits where the property needs one, see above). Threads, attempts, contracts, trees,
retries, rollbacks and outside edits stay unbounded. The proof is in layers, each an invariant that
the next ones use; under them lies one lemma per step that says what it does to the tables and to
its thread (the lemmas named `...Does`), so that the actions of the module are expanded there and
hardly anywhere else:

* `CallsInv`, with any number of crashes: an open intent is of the attempt that SQLite has as
  current, no call was made for a later one, and `RETRY_APPROVED` means that a human decided.
* `SeesInv`, with any number of crashes: the request that is served works on the row and the
  contract as they are in SQLite until it saves what it has worked out.
* `RepeatInv`, with any number of crashes, gives `NoUnapprovedRepeatHolds`. An attempt is `Covered`
  when a decision or a crash is left to account for its next call; wherever a request may come to an
  approved retry without a further decision, each attempt with one is (`Spare`). It fails only from
  the call to the finished intent, where a crash restores it, and at an UNCERTAIN row, where the
  decision that must come first does.
* `CalmInv`, without crashes and overwritten revisions. `Backed` says that the tables hold what a
  request needs that loads the row: an open intent for UNCERTAIN, an open human request for
  WAITING_HITL, an artifact whose verification has inserted nothing for VERIFY, the approval for
  VERSION_PROMOTE. It is true of the row in SQLite except between the write of a table and that of
  the row, where it is true of the row about to be saved (`InSave`); `InNode` and `InAnswer` say how
  a request gets there, `OneOpen` that one human request is open at most, `Ahead` that no table
  knows of an attempt to come. `UncertainIsRecoverableHolds` reads it off a workflow at rest.
* `FollowsLifecycleHolds`: the refinement, for every integer budget. `RowSteps` lists the few steps
  that write the row, and `CalmInv` shows each to be a step of `WorkflowLifecycle`, with its guard:
  no attempt past the budget, no clearance by the verifier where every contract asks for a review,
  no completion of what is not cleared, no new attempt of what is.
* `ApprovedPromotionHolds`, assuming `~EditDuringVerify` as well. `ApprovedInv`: the candidate of an
  attempt has the tree its review shows, and each commit that HEAD, a tag, a version row or a
  thread about to promote names is approved. At a review the worktree is still the tree of the
  candidate, because only an edit from outside could come between the two commits. A candidate
  is replaced only while no review of its attempt exists (`CalmInv` again), which is just what a
  crash between the review and the row breaks.

For the lock of the ledger, for every number of actors and processes:

* `LockTypeCorrect`, `OneReaperHolds`: `Bookkeeping` says that an actor past the creation of the
  reaper file is the one the file names. Unconditional.
* `HolderKeepsFile`: without a stall of 30 s, and as long as every step is one of
  `NoExitUnderJudgement`, whoever acquired the lock owns the file, however many processes exit. So
  at most one actor is in the critical section. `SafeLock`: an actor that means to unlink the file
  has found it abandoned, and it stays so, because only the one reaper removes an abandoned file.

For the plugin, for every number of sessions, workflows, attempts, restarts and edits, and every
policy of review; but for `TypeCorrect` assuming `~AsksRecovery`, because the answer to the
recovery question is the one command that runs without the operation lock, and with it the
properties fail (see the known behaviours). One invariant in four layers:

* `TypeCorrect`: types, and `Begun`: the save that starts an attempt has a saved state to go on from.
* `SessionInv`: of a session's turn, commands, verification and prompt only one is under way, and
  it has the operation lock exactly while the code is inside it (`Alone`); what it remembers is the
  ledger, but for a pause that came between and the candidate it is about to record (`Knows`), so
  that `applyToCurrentExecution` finds a pause before anything is written. It gives `PauseIsKept`.
* `WorkspaceInv`: workflows are numbered as they take the workspace, no two sessions have the same
  one (`Numbered`), the number of one that is being started is in no ledger yet (`Fresh`), and an
  active one holds the workspace lock: `WorkspaceIsExclusive` and `WritesFollow`.
* `ContentInv`: at each step of a verification, an approval and a promotion, what the task knows
  of HEAD, index, files, candidate and tag (`TaskContent`, `Bound`): `ReviewsAreTested`,
  `CompletionIsTagged` and `ApprovalsFit`. An edit, or a rollback of another session that takes no
  workspace lock, may fall between any two steps; so the invariant says what the comparison of
  fingerprints still shows then, and `ApprovalFitsCandidate` says it of HEAD unmoved. Where the code
  notices no edit, the invariant asks `hist` whether there was one.

For the gate, for every set of artifacts of any size:

* `GateIsExact`: `Inv` says that what the forward search has marked is reachable (it lies in every
  closed set around the entrypoint) and that marked nodes outside the queue have their targets
  marked, so an empty queue means a closed set; the backward search alike, from the terminals.
* `WalkIsRouted`, `WalkIsFinite`: the required routes determine the successor's role for every
  outcome, so the node keeps a role of its kind; `Rank` grows with every step that does not go
  back, so that `iteration` stays within `max` plus the rank of the node's role.

For promotion, for every number of processes, candidates, parents and branches:

* `OneCandidate`: rows of candidates are never replaced, and a parent with two of them authorizes
  none. Not inductive as it stands: `Coordinated` counts the openers past `authorize_pr` with the
  pull requests (`Committed`) and says that no two of them have the same parent and another
  candidate.
* `PrsAccounted`: an opener holds the pull request it has created until it is attached or closed;
  a run that is attached has the number of one. `LiveIsRecorded`: from the first callback to the
  record, the activated run is MERGED and only its version or the recorded one is live.

For evolution, for every number of processes, triggers, graphs and every shipped chain, assuming
`~EarlyRequeue`:

* `OneBuilder`: a worker has a trigger that is PROCESSING, and a trigger with a worker is not
  requeued, so a claim finds none.
* `ReviewEarned`, `ReviewKept`: a consumed trigger has a decided candidate and no worker before its
  last save; only that one writes PROMOTION_REVIEW, and `ReviewIsKept` follows since the other two
  saves are of triggers not yet consumed.
* `ProvenActive`: a manifest that has passed names content that passes, manifests never change
  their hash nor go back (`CandidatesGrow`), and a process past a check of `activate` carries the
  content its manifest names, a process that seeds a shipped one (`ThreadOK`). So a row that was
  overwritten since the check does not matter: the approval writes what was proven, in one
  transaction with its manifest, and supersedes what was active.

The proofs use the named ASSUMEs of the modules, which TLC evaluates in the runs. Only
model-checked are the liveness properties `RequestsEnd`, `AcquireEnds`, `StuckLockIsReaped`,
`TasksEnd` and `WorkEnds`: liveness under fairness is out of the prover's reach. `CalmInv`,
`ApprovedInv` and `RepeatInv` were checked as invariants of small instances before they were proved.

## Not modelled, and the plan

Left out for good: builder containers, sandbox, egress relay and their probes (command lines and
processes), web console, `review_status` (it only reads), evaluation of filesystem tasks, arena and
quality gate (sequential arithmetic over files without shared state), worktree creation; the legacy
`GitWorkspace.promote`; events and decision records, which nothing reads back. The library services
of `Promotion` are called by tests and by operators' scripts: the order of calls is the caller's,
and the model lets any caller call anything whose precondition the code checks. Two things it takes
from the caller: one activation at a time, and the version recorded last as the previous one. That a
merge is recorded for a merged request only is the host's word too.

The loop over the paths in `restore_baseline`, which may stop half way, is one step
(`RecoverRestore`). What the DSH agent commits of its own accord is left out (it edits and stages).
`GraphValidator` has sets of nodes, outcomes and routes, so that the duplicates `loopspec.py:44-56`
rejects are not expressible.

In `Evolution` each process is one connection; the threads of the API server in fact share theirs
(`store.py:23`, `api.py:108`), so that the commit of one may end the transaction of another, which is
left out. The reads of one check are one step. A refused CAS
keeps the write lock in `Promotion`'s `attach_pr` too, where it is left out (the connection is
closed with the failed call).

Left out of `Plugin` so far: `/loop evolve` and the LoopSpec candidate, archived reports (archiving
also deletes files of the workspace, `git.ts:126-134`), the active version a rollback records, logs
and todos. Known and not claimed: rollback checks out another commit under the active workflow of
another session (it takes no workspace lock), the baseline is read before the workspace lock is
taken, and a crash beside the lock leaves it held.

What would come next, in this order:

1. `Ledger.tla` (B `ledger.ts:39-166`, `285-303`): append, torn tail, checksum chain and fold
   with crashes, composed with the lock.
2. `/loop evolve` in `Plugin`, with the keys that outlive their workflow in the fold, and the
   LoopSpec of B against `GraphValidator`.
3. The workflow engine bound to a revision of `Evolution`, so that an activation during a workflow
   is part of the model.
4. More theorems: the weaker forms of the properties of requests one at a time that survive a
   crash (which rows a crash can leave, and which of them no request goes on from), and the
   composition of the lock with the ledger's fold.
