---------------------- MODULE SupervisorPromotionProofs ----------------------
(***************************************************************************)
(* What may be promoted, for any number of threads, attempts, edits and    *)
(* crashes: nothing without the contract of the workflow, and no content   *)
(* that was not verified.                                                  *)
(***************************************************************************)
EXTENDS SupervisorProofs

\* One field of the database is written.
LEMMA Written ==
  ASSUME TypeOK, NEW x, NEW i
  PROVE  /\ db' = [db EXCEPT !.wf = x] =>
              /\ db'.wf = x /\ db'.contract = db.contract /\ db'.versions = db.versions
              /\ db'.attempts = db.attempts /\ db'.verified = db.verified
              /\ db'.intents = db.intents /\ db'.hitl = db.hitl
         /\ db' = [db EXCEPT !.contract = x] =>
              /\ db'.contract = x /\ db'.wf = db.wf /\ db'.versions = db.versions
              /\ db'.attempts = db.attempts /\ db'.verified = db.verified
              /\ db'.intents = db.intents /\ db'.hitl = db.hitl
         /\ db' = [db EXCEPT !.attempts[i] = x] =>
              /\ db'.attempts = [db.attempts EXCEPT ![i] = x]
              /\ db'.wf = db.wf /\ db'.contract = db.contract /\ db'.versions = db.versions
              /\ db'.verified = db.verified /\ db'.intents = db.intents /\ db'.hitl = db.hitl
         /\ db' = [db EXCEPT !.intents[i] = x] =>
              /\ db'.intents = [db.intents EXCEPT ![i] = x]
              /\ db'.wf = db.wf /\ db'.contract = db.contract /\ db'.versions = db.versions
              /\ db'.attempts = db.attempts /\ db'.verified = db.verified /\ db'.hitl = db.hitl
         /\ db' = [db EXCEPT !.versions[i] = x] =>
              /\ db'.versions = [db.versions EXCEPT ![i] = x]
              /\ db'.wf = db.wf /\ db'.contract = db.contract /\ db'.attempts = db.attempts
              /\ db'.verified = db.verified /\ db'.intents = db.intents /\ db'.hitl = db.hitl
BY DEF TypeOK, Database
-----------------------------------------------------------------------------
(* The contract.                                                           *)

\* A thread that read a contract read it from the database, but for the start that is
\* about to save it; and the database has one wherever a promotion is under way.
ContractKnown(t) ==
  /\ pc[t] = "contract" => loc[t].acceptance \in Terms
  /\ pc[t] # "contract" /\ loc[t].acceptance # NoContract => db.contract # NoContract
  /\ pc[t] \in {"baseline", "tag", "version"} \/ mem[t].node = "VERSION_PROMOTE" =>
       db.contract # NoContract
ContractInv ==
  /\ db.wf.node = "VERSION_PROMOTE" => db.contract # NoContract
  /\ NoVersionWithoutContract
  /\ \A t \in Threads : ContractKnown(t)

\* The steps that clear no candidate for promotion and save neither a contract nor a version.
Carries(t) ==
  \/ loc'[t].acceptance \in {NoContract, db.contract}
  \/ pc[t] # "contract" /\ loc'[t].acceptance = loc[t].acceptance
Moves(t, x) == x.node \in {db.wf.node, mem[t].node} \cup (Nodes \ {"VERSION_PROMOTE"})
Uncleared(t) ==
  /\ OnlyThread(t)
  /\ db'.contract = db.contract /\ db'.versions = db.versions
  /\ Moves(t, db'.wf) /\ Moves(t, mem'[t])
  /\ pc'[t] \notin {"contract", "baseline", "tag", "version"}
  /\ Carries(t)

LEMMA UnclearedKeeps ==
  ASSUME ContractInv, NEW t \in Threads, Uncleared(t) PROVE ContractInv'
<1>1. db'.wf.node = "VERSION_PROMOTE" \/ mem'[t].node = "VERSION_PROMOTE" => db.contract # NoContract
  BY DEF Uncleared, Moves, ContractInv, ContractKnown
<1>2. loc'[t].acceptance # NoContract => db.contract # NoContract
  BY DEF Uncleared, Carries, ContractInv, ContractKnown
<1>3. ContractKnown(t)'
  BY <1>1, <1>2 DEF Uncleared, ContractKnown
<1>4. ASSUME NEW u \in Threads \ {t} PROVE ContractKnown(u)'
  BY DEF Uncleared, OnlyThread, ContractInv, ContractKnown
<1>5. NoVersionWithoutContract'
  BY DEF Uncleared, ContractInv, NoVersionWithoutContract
<1> QED BY <1>1, <1>3, <1>4, <1>5 DEF Uncleared, ContractInv

LEMMA WriteIsUncleared ==
  ASSUME TypeOK, NEW t \in Threads, NEW from, NEW to, NEW new, Write(t, from, to, new),
         from # "contract", to \notin {"contract", "baseline", "tag", "version"},
         new.contract = db.contract, new.versions = db.versions, Moves(t, new.wf)
  PROVE  Uncleared(t)
BY DEF TypeOK, Write, Goto, Uncleared, OnlyThread, Moves, Carries

LEMMA ReturnIsUncleared ==
  ASSUME TypeOK, NEW t \in Threads, Return(t),
         db'.contract = db.contract, db'.versions = db.versions, Moves(t, db'.wf)
  PROVE  Uncleared(t)
<1>1. OnlyThread(t) /\ pc'[t] = "idle" /\ mem'[t] = NoRow /\ loc'[t] = NoLocals
  BY DEF TypeOK, Return, OnlyThread
<1>2. Moves(t, mem'[t]) /\ Carries(t)
  BY <1>1 DEF NoRow, NoLocals, Moves, Carries, Nodes
<1> QED BY <1>1, <1>2 DEF Uncleared

\* A request that begins with the row as it is, or with its node moved.
LEMMA BeginIsUncleared ==
  ASSUME TypeOK, NEW t \in Threads, NEW to, Begin(t, to), OnlyThread(t),
         to \notin {"contract", "baseline", "tag", "version"},
         loc'[t].acceptance = loc[t].acceptance,
         db'.contract = db.contract, db'.versions = db.versions, db'.wf = db.wf,
         Moves(t, mem'[t])
  PROVE  Uncleared(t)
<1>1. pc[t] = "idle" /\ pc'[t] = to
  BY DEF Begin, Goto, TypeOK
<1> QED BY <1>1 DEF Uncleared, Moves, Carries

LEMMA MovedRow ==
  ASSUME NEW t, NEW x, NEW y, x \in {db.wf, mem[t]}, y.node = x.node \/ y.node \in Nodes \ {"VERSION_PROMOTE"}
  PROVE  Moves(t, y)
BY DEF Moves

\* What save_workflow leaves alone.
LEMMA SavedRows ==
  ASSUME TypeOK, NEW t \in Threads
  PROVE  LET new == WorkflowSaved(t) IN
         new.contract = db.contract /\ new.versions = db.versions /\ Moves(t, new.wf)
BY DEF TypeOK, Database, WorkflowSaved, Moves

LEMMA ContractStart ==
  ASSUME TypeOK, ContractInv, NEW t \in Threads, Start(t) PROVE ContractInv'
<1>1. ASSUME NEW c \in Contracts, StartCreate(t, c) PROVE ContractInv'
  <2>1. /\ OnlyThread(t) /\ pc'[t] = "contract" /\ mem'[t] = NewRow /\ loc'[t].acceptance = c
        /\ db'.wf = NewRow /\ db'.contract = db.contract /\ db'.versions = db.versions
    BY <1>1, Written DEF StartCreate, Begin, Goto, TypeOK, OnlyThread, Locals
  <2>2. c \in Terms /\ NewRow.node # "VERSION_PROMOTE"
    BY Parameters DEF NewRow, NoRow
  <2>3. ContractKnown(t)'
    BY <2>1, <2>2 DEF ContractKnown
  <2>4. ASSUME NEW u \in Threads \ {t} PROVE ContractKnown(u)'
    BY <2>1 DEF OnlyThread, ContractInv, ContractKnown
  <2> QED BY <2>1, <2>2, <2>3, <2>4 DEF ContractInv, NoVersionWithoutContract
<1>2. CASE StartContract(t)
  <2>1. /\ OnlyThread(t) /\ pc[t] = "contract" /\ pc'[t] \in {"baseline", "run"} /\ UNCHANGED <<mem, loc>>
        /\ db' = [db EXCEPT !.contract = loc[t].acceptance]
    BY <1>2 DEF StartContract, Write, Goto, TypeOK, OnlyThread
  <2>2. db'.contract = loc[t].acceptance /\ db'.wf = db.wf /\ db'.versions = db.versions
    BY <2>1, Written
  <2>3. db'.contract # NoContract
    <3>1. loc[t].acceptance \in Terms
      BY <2>1 DEF ContractInv, ContractKnown
    <3> QED BY <2>2, <3>1 DEF Terms, NoContract
  <2>4. ContractKnown(t)'
    BY <2>1, <2>3 DEF ContractKnown
  <2>5. ASSUME NEW u \in Threads \ {t} PROVE ContractKnown(u)'
    BY <2>1, <2>3 DEF OnlyThread, ContractInv, ContractKnown
  <2> QED BY <2>3, <2>4, <2>5 DEF ContractInv, NoVersionWithoutContract
<1>3. CASE StartBaseline(t)
  <2>1. /\ OnlyThread(t) /\ pc[t] = "baseline" /\ pc'[t] = "started" /\ UNCHANGED loc
        /\ mem'[t].node = mem[t].node /\ db'.wf = db.wf /\ db'.contract = db.contract
    BY <1>3, Written DEF StartBaseline, Goto, TypeOK, OnlyThread, Row
  <2>2. db.contract # NoContract
    BY <2>1 DEF ContractInv, ContractKnown
  <2>3. ContractKnown(t)'
    BY <2>1, <2>2 DEF ContractKnown
  <2>4. ASSUME NEW u \in Threads \ {t} PROVE ContractKnown(u)'
    BY <2>1 DEF OnlyThread, ContractInv, ContractKnown
  <2> QED BY <2>1, <2>2, <2>3, <2>4 DEF ContractInv, NoVersionWithoutContract
<1>4. CASE StartSave(t)
  <2>1. Write(t, "started", "run", WorkflowSaved(t))
    BY <1>4 DEF StartSave
  <2> QED BY <2>1, SavedRows, WriteIsUncleared, UnclearedKeeps
<1> QED BY <1>1, <1>2, <1>3, <1>4 DEF Start

\* Once the contract is saved nothing can go wrong.
LEMMA KnownKeeps ==
  ASSUME ContractInv, NEW t \in Threads, OnlyThread(t), pc'[t] # "contract",
         db.contract # NoContract, db'.contract = db.contract
  PROVE  ContractInv'
<1>1. ContractKnown(t)'
  BY DEF ContractKnown
<1>2. ASSUME NEW u \in Threads \ {t} PROVE ContractKnown(u)'
  BY DEF OnlyThread, ContractInv, ContractKnown
<1> QED BY <1>1, <1>2 DEF ContractInv, NoVersionWithoutContract

LEMMA ContractRun ==
  ASSUME TypeOK, ContractInv, NEW t \in Threads, Run(t) PROVE ContractInv'
<1>1. CASE RunLock(t) \/ RunReload(t)
  <2>1. /\ OnlyThread(t) /\ UNCHANGED db /\ pc'[t] = "loop"
        /\ mem'[t] = db.wf /\ loc'[t].acceptance = db.contract
    BY <1>1 DEF RunLock, RunReload, Load, Goto, OnlyThread, TypeOK, NoLocals
  <2> QED BY <2>1, UnclearedKeeps DEF Uncleared, Moves, Carries
<1>2. CASE RunPause(t)
  <2>1. PausedRow(t) \in Row /\ PausedRow(t).node = mem[t].node
    BY DEF PausedRow, TypeOK, Row, Statuses
  <2>2. db'.wf = PausedRow(t) /\ db'.contract = db.contract /\ db'.versions = db.versions
    BY <1>2, Written DEF RunPause
  <2> QED BY <1>2, <2>1, <2>2, ReturnIsUncleared, UnclearedKeeps DEF RunPause, Moves
<1>3. CASE RunExit(t) \/ NodeRaise(t)
  BY <1>3, ReturnIsUncleared, UnclearedKeeps DEF RunExit, NodeRaise, Moves
<1> QED BY <1>1, <1>2, <1>3 DEF Run

LEMMA ContractExecute ==
  ASSUME TypeOK, ContractInv, NEW t \in Threads, Execute(t) PROVE ContractInv'
<1> SUFFICES Uncleared(t)
  BY UnclearedKeeps
<1>1. ASSUME NEW a \in Attempts, ExecuteUncertain(t, a) PROVE Uncleared(t)
  <2> DEFINE r == [mem[t] EXCEPT !.attempt = a, !.status = "UNCERTAIN"]
  <2>1. r.node = mem[t].node
    BY DEF TypeOK, Row
  <2> HIDE DEF r
  <2>2. db' = [db EXCEPT !.wf = r] /\ pc' = [pc EXCEPT ![t] = "reload"] /\ UNCHANGED <<mem, loc>>
        /\ pc[t] = "loop"
    BY <1>1 DEF ExecuteUncertain, At, r
  <2> QED BY <2>1, <2>2, Written DEF TypeOK, Uncleared, OnlyThread, Moves, Carries
<1>2. ASSUME NEW a \in Attempts, ExecuteApprovedRetry(t, a) PROVE Uncleared(t)
  <2>1. mem'[t].node = mem[t].node
    BY <1>2 DEF ExecuteApprovedRetry, TypeOK, Row
  <2> QED BY <1>2, <2>1 DEF ExecuteApprovedRetry, At, TypeOK, Uncleared, OnlyThread, Moves, Carries
<1>3. CASE ExecuteNew(t)
  <2> DEFINE r == [mem[t] EXCEPT !.attempt = @ + 1]
  <2>1. r.node = mem[t].node
    BY DEF TypeOK, Row
  <2> HIDE DEF r
  <2>2. /\ db' = [db EXCEPT !.wf = r] /\ mem' = [mem EXCEPT ![t] = r]
        /\ pc' = [pc EXCEPT ![t] = "intent"] /\ UNCHANGED loc /\ pc[t] = "loop"
    BY <1>3 DEF ExecuteNew, At, r
  <2>3. OnlyThread(t) /\ pc'[t] = "intent" /\ mem'[t] = r /\ loc'[t] = loc[t]
    BY <2>2 DEF TypeOK, OnlyThread
  <2>4. db'.wf = r /\ db'.contract = db.contract /\ db'.versions = db.versions
    BY <2>2, Written
  <2> QED BY <2>1, <2>2, <2>3, <2>4 DEF Uncleared, Moves, Carries
<1>4. CASE ExecuteIntent(t)
  <2> DEFINE new == StartExecution(Attempt(t))
  <2>1. new.versions = db.versions /\ new.contract = db.contract /\ new.wf = db.wf
    BY DEF TypeOK, Database, StartExecution
  <2>2. Write(t, "intent", "check", new)
    BY <1>4 DEF ExecuteIntent
  <2>3. Moves(t, new.wf)
    BY <2>1 DEF Moves
  <2> HIDE DEF new
  <2> QED BY <2>1, <2>2, <2>3, WriteIsUncleared
<1>5. CASE ExecuteReuse(t) \/ ExecuteFinish(t)
  <2> DEFINE new == [db EXCEPT !.intents[Attempt(t)] = "COMPLETED"]
  <2>1. new.versions = db.versions /\ new.contract = db.contract /\ new.wf = db.wf
    BY DEF TypeOK, Database
  <2>2. Write(t, "check", "executed", new) \/ Write(t, "finish", "executed", new)
    BY <1>5 DEF ExecuteReuse, ExecuteFinish
  <2>3. Moves(t, new.wf)
    BY <2>1 DEF Moves
  <2> HIDE DEF new
  <2> QED BY <2>1, <2>2, <2>3, WriteIsUncleared
<1>6. CASE ExecuteCall(t) \/ DshWrite(t)
  <2>1. /\ OnlyThread(t) /\ UNCHANGED <<db, mem, loc>> /\ pc'[t] = "calling"
        /\ pc[t] # "contract"
    BY <1>6 DEF ExecuteCall, DshWrite, Goto, OnlyThread, TypeOK
  <2> QED BY <2>1 DEF Uncleared, Moves, Carries
<1>7. CASE DshReturn(t)
  <2> DEFINE new == [db EXCEPT !.attempts[Attempt(t)] = [output |-> "dsh", prep |-> NoPrepared]]
  <2>1. new.versions = db.versions /\ new.contract = db.contract /\ new.wf = db.wf
    BY DEF TypeOK, Database
  <2>2. Write(t, "calling", "finish", new)
    BY <1>7 DEF DshReturn
  <2>3. Moves(t, new.wf)
    BY <2>1 DEF Moves
  <2> HIDE DEF new
  <2> QED BY <2>1, <2>2, <2>3, WriteIsUncleared
<1>8. CASE DshRaise(t)
  <2> DEFINE new == UnknownOutcome(t)
  <2>1. /\ new.versions = db.versions /\ new.contract = db.contract
        /\ new.wf.node = mem[t].node
    BY DEF UnknownOutcome, UncertainRow, TypeOK, Database, Row
  <2>2. Write(t, "calling", "reload", new)
    BY <1>8 DEF DshRaise
  <2>3. Moves(t, new.wf)
    BY <2>1 DEF Moves
  <2> HIDE DEF new
  <2> QED BY <2>1, <2>2, <2>3, WriteIsUncleared
<1>9. CASE ExecuteDone(t)
  <2> DEFINE new == [db EXCEPT !.wf = [mem[t] EXCEPT !.node = "VERIFY"]]
  <2>1. /\ new.versions = db.versions /\ new.contract = db.contract /\ new.wf.node = "VERIFY"
    BY DEF TypeOK, Database, Row
  <2>2. Write(t, "executed", "reload", new)
    BY <1>9 DEF ExecuteDone
  <2>3. Moves(t, new.wf)
    BY <2>1 DEF Moves, Nodes
  <2> HIDE DEF new
  <2> QED BY <2>1, <2>2, <2>3, WriteIsUncleared
<1> QED BY <1>1, <1>2, <1>3, <1>4, <1>5, <1>6, <1>7, <1>8, <1>9 DEF Execute

LEMMA ContractVerify ==
  ASSUME TypeOK, ContractInv, NEW t \in Threads, Verify(t), ~VerifyAutoPromote(t)
  PROVE  ContractInv'
<1> SUFFICES Uncleared(t)
  BY UnclearedKeeps
<1>1. ASSUME NEW result \in BOOLEAN, VerifyRun(t, result) PROVE Uncleared(t)
  <2>1. loc'[t].acceptance = loc[t].acceptance /\ \A u \in Threads \ {t} : loc'[u] = loc[u]
    BY <1>1 DEF VerifyRun, TypeOK, Locals
  <2> QED BY <1>1, <2>1 DEF VerifyRun, At, TypeOK, Uncleared, OnlyThread, Moves, Carries
<1>2. CASE VerifyRaise(t)
  BY <1>2, ReturnIsUncleared DEF VerifyRaise, Moves
<1>3. CASE VerifyRecord(t)
  <2>1. db'.versions = db.versions /\ db'.contract = db.contract /\ db'.wf = db.wf
    BY <1>3 DEF VerifyRecord, TypeOK, Database
  <2>2. /\ OnlyThread(t) /\ UNCHANGED <<mem, loc>> /\ pc[t] = "verify"
        /\ pc'[t] \in {"gate_failed", "prepare", "gate"}
    BY <1>3 DEF VerifyRecord, Goto, TypeOK, OnlyThread
  <2> QED BY <2>1, <2>2 DEF Uncleared, Moves, Carries
<1>4. CASE VerifyPrepare(t)
  <2>1. loc'[t].acceptance = loc[t].acceptance /\ \A u \in Threads \ {t} : loc'[u] = loc[u]
    BY <1>4 DEF VerifyPrepare, TypeOK, Locals
  <2> QED BY <1>4, <2>1 DEF VerifyPrepare, Goto, TypeOK, Uncleared, OnlyThread, Moves, Carries
<1>5. CASE VerifySavePrepared(t)
  <2> DEFINE new == [db EXCEPT !.attempts[Attempt(t)].prep = loc[t].prep]
  <2>1. new.versions = db.versions /\ new.contract = db.contract /\ new.wf = db.wf
    BY DEF TypeOK, Database
  <2>2. Write(t, "prepared", "gate", new)
    BY <1>5 DEF VerifySavePrepared
  <2>3. Moves(t, new.wf)
    BY <2>1 DEF Moves
  <2> HIDE DEF new
  <2> QED BY <2>1, <2>2, <2>3, WriteIsUncleared
<1>6. CASE VerifyReview(t) \/ VerifyExhausted(t)
  <2>1. db'.versions = db.versions /\ db'.contract = db.contract /\ db'.wf = db.wf
    BY <1>6 DEF VerifyReview, VerifyExhausted, NewRequest, TypeOK, Database
  <2>2. mem'[t].node = "WAIT_HITL" /\ \A u \in Threads \ {t} : mem'[u] = mem[u]
    BY <1>6 DEF VerifyReview, VerifyExhausted, WaitForHuman, TypeOK, Row
  <2>3. OnlyThread(t) /\ UNCHANGED loc /\ pc[t] # "contract" /\ pc'[t] = "save"
    BY <1>6, <2>2 DEF VerifyReview, VerifyExhausted, Goto, TypeOK, OnlyThread
  <2> QED BY <2>1, <2>2, <2>3 DEF Uncleared, Moves, Carries, Nodes
<1>7. CASE VerifyRetry(t)
  <2>1. db'.versions = db.versions /\ db'.contract = db.contract /\ db'.wf = db.wf
    BY <1>7 DEF VerifyRetry, TypeOK, Database
  <2>2. RetryRow(t).node = "AGENT_EXECUTE"
    BY DEF RetryRow, TypeOK, Row
  <2>3. /\ OnlyThread(t) /\ UNCHANGED loc /\ pc[t] # "contract" /\ pc'[t] = "save"
        /\ mem'[t] = RetryRow(t)
    BY <1>7 DEF VerifyRetry, Goto, TypeOK, OnlyThread
  <2> QED BY <2>1, <2>2, <2>3 DEF Uncleared, Moves, Carries, Nodes
<1>8. CASE VerifyDone(t)
  BY <1>8, SavedRows, WriteIsUncleared DEF VerifyDone
<1> QED BY <1>1, <1>2, <1>3, <1>4, <1>5, <1>6, <1>7, <1>8 DEF Verify

\* Without a contract the review is on: a workflow that skips it has one.
LEMMA ContractAutoPromote ==
  ASSUME TypeOK, ContractInv, NEW t \in Threads, VerifyAutoPromote(t) PROVE ContractInv'
<1>1. /\ OnlyThread(t) /\ pc[t] = "gate" /\ pc'[t] = "save" /\ UNCHANGED db
  BY DEF VerifyAutoPromote, Goto, TypeOK, OnlyThread
<1>2. loc[t].acceptance # NoContract
  BY DEF VerifyAutoPromote, Approval, NoContract
<1>3. db.contract # NoContract
  BY <1>1, <1>2 DEF ContractInv, ContractKnown
<1> QED BY <1>1, <1>3, KnownKeeps

LEMMA ContractPromote ==
  ASSUME TypeOK, ContractInv, NEW t \in Threads, Promote(t) PROVE ContractInv'
<1>1. CASE PromoteDone(t)
  BY <1>1, SavedRows, WriteIsUncleared, UnclearedKeeps DEF PromoteDone
<1>2. CASE PromotePlain(t) \/ PromoteTagged(t) \/ PromoteHead(t)
  <2>1. OnlyThread(t) /\ pc'[t] # "contract" /\ UNCHANGED db
    BY <1>2 DEF PromotePlain, PromoteTagged, PromoteHead, OnlyThread, TypeOK
  <2>2. mem[t].node = "VERSION_PROMOTE"
    BY <1>2 DEF PromotePlain, PromoteTagged, PromoteHead, At
  <2> QED BY <2>1, <2>2, KnownKeeps DEF ContractInv, ContractKnown
<1>3. CASE PromoteTag(t) \/ PromoteVersion(t)
  <2>1. OnlyThread(t) /\ pc[t] \in {"tag", "version"} /\ pc'[t] # "contract"
    BY <1>3 DEF PromoteTag, PromoteVersion, Goto, OnlyThread, TypeOK
  <2>2. db'.contract = db.contract
    BY <1>3 DEF PromoteTag, PromoteVersion, TypeOK, Database
  <2> QED BY <2>1, <2>2, KnownKeeps DEF ContractInv, ContractKnown
<1> QED BY <1>1, <1>2, <1>3 DEF Promote

LEMMA ContractPauseResume ==
  ASSUME TypeOK, ContractInv, NEW t \in Threads, PauseResume(t) PROVE ContractInv'
<1> SUFFICES Uncleared(t)
  BY UnclearedKeeps
<1>1. CASE PauseRead(t) \/ ResumeRead(t)
  <2> DEFINE p == [db.wf EXCEPT !.pause = TRUE]
             q == [db.wf EXCEPT !.pause = FALSE,
                     !.status = IF @ = "PAUSED" THEN "RUNNING" ELSE @]
  <2>1. p.node = db.wf.node /\ q.node = db.wf.node
    BY DEF TypeOK, Database, Row
  <2>2. mem' = [mem EXCEPT ![t] = p] \/ mem' = [mem EXCEPT ![t] = q]
    BY <1>1 DEF PauseRead, ResumeRead
  <2> HIDE DEF p, q
  <2>3. mem'[t].node = db.wf.node /\ \A u \in Threads \ {t} : mem'[u] = mem[u]
    BY <2>1, <2>2 DEF TypeOK
  <2>4. OnlyThread(t) /\ UNCHANGED <<db, loc>> /\ (Begin(t, "pause") \/ Begin(t, "resume"))
    BY <1>1, <2>3 DEF PauseRead, ResumeRead, Begin, Goto, TypeOK, OnlyThread
  <2>5. Moves(t, mem'[t])
    BY <2>3 DEF Moves
  <2> QED BY <2>4, <2>5, BeginIsUncleared
<1>2. CASE PauseSave(t)
  <2>1. Return(t) /\ db' = WorkflowSaved(t)
    BY <1>2 DEF PauseSave, WriteAndReturn
  <2> QED BY <2>1, SavedRows, ReturnIsUncleared
<1>3. CASE ResumeSave(t)
  BY <1>3, SavedRows, WriteIsUncleared DEF ResumeSave
<1> QED BY <1>1, <1>2, <1>3 DEF PauseResume

LEMMA ContractDecideHitl ==
  ASSUME TypeOK, ContractInv, NEW t \in Threads, DecideHitl(t) PROVE ContractInv'
<1>1. ASSUME NEW r, NEW a, NEW choice, NEW status, NEW node,
             Decide(t, r, a, choice, status, node)
      PROVE  /\ OnlyThread(t) /\ UNCHANGED db /\ pc[t] = "idle" /\ pc'[t] = "resolve"
             /\ mem'[t].node = node
             /\ loc'[t].acceptance = loc[t].acceptance
  <2>1. mem'[t].node = node /\ \A u \in Threads \ {t} : mem'[u] = mem[u]
    BY <1>1 DEF Decide, TypeOK, Database, Row
  <2>2. loc'[t].acceptance = loc[t].acceptance /\ \A u \in Threads \ {t} : loc'[u] = loc[u]
    BY <1>1 DEF Decide, TypeOK, Locals
  <2> QED BY <1>1, <2>1, <2>2 DEF Decide, Begin, Goto, TypeOK, OnlyThread
<1>2. ASSUME NEW a \in Attempts, DecideApprove(t, a) PROVE ContractInv'
  <2>1. db.contract # NoContract
    BY <1>2 DEF DecideApprove, NoContract
  <2>2. OnlyThread(t) /\ UNCHANGED db /\ pc'[t] = "resolve"
    BY <1>1, <1>2 DEF DecideApprove
  <2> QED BY <2>1, <2>2, KnownKeeps
<1>3. ASSUME NEW r \in Reasons, NEW a \in Attempts, DecideRetry(t, r, a) \/ DecideReject(t, r, a)
      PROVE  ContractInv'
  <2>1. /\ OnlyThread(t) /\ UNCHANGED db /\ pc[t] = "idle" /\ pc'[t] = "resolve"
        /\ mem'[t].node \in {"AGENT_EXECUTE", "FAILED"}
        /\ loc'[t].acceptance = loc[t].acceptance
    BY <1>1, <1>3 DEF DecideRetry, DecideReject
  <2> QED BY <2>1, UnclearedKeeps DEF Uncleared, Moves, Carries, Nodes
<1>4. CASE DecideResolve(t)
  <2> DEFINE new == [db EXCEPT !.hitl[loc[t].reason][loc[t].about].state = loc[t].choice]
  <2>1. new.versions = db.versions /\ new.contract = db.contract /\ new.wf = db.wf
    BY DEF TypeOK, Database
  <2>2. Write(t, "resolve", "decided", new)
    BY <1>4 DEF DecideResolve
  <2>3. Moves(t, new.wf)
    BY <2>1 DEF Moves
  <2> HIDE DEF new
  <2> QED BY <2>1, <2>2, <2>3, WriteIsUncleared, UnclearedKeeps
<1>5. CASE DecideSave(t)
  <2>1. /\ OnlyThread(t) /\ UNCHANGED <<mem, loc>> /\ pc[t] = "decided" /\ pc'[t] = "run"
        /\ db' = WorkflowSaved(t)
    BY <1>5 DEF DecideSave, Goto, TypeOK, OnlyThread
  <2> QED BY <2>1, SavedRows, UnclearedKeeps DEF Uncleared, Moves, Carries
<1> QED BY <1>2, <1>3, <1>4, <1>5 DEF DecideHitl

LEMMA ContractRecoverUncertain ==
  ASSUME TypeOK, ContractInv, NEW t \in Threads, RecoverUncertain(t) PROVE ContractInv'
<1> SUFFICES Uncleared(t)
  BY UnclearedKeeps
<1>1. ASSUME NEW a, NEW action, NEW to \in {"close", "recovered"}, NEW status,
             NEW node \in {"VERIFY", "AGENT_EXECUTE", "FAILED"},
             Recover(t, a, action, to, status, node),
             db'.wf = db.wf, db'.contract = db.contract, db'.versions = db.versions
      PROVE  Uncleared(t)
  <2>1. mem'[t].node = node /\ \A u \in Threads \ {t} : mem'[u] = mem[u]
    BY <1>1 DEF Recover, TypeOK, Database, Row
  <2>2. loc'[t].acceptance = loc[t].acceptance /\ \A u \in Threads \ {t} : loc'[u] = loc[u]
    BY <1>1 DEF Recover, TypeOK, Locals
  <2>3. OnlyThread(t) /\ pc[t] = "idle" /\ pc'[t] = to
    BY <1>1, <2>1, <2>2 DEF Recover, Begin, Goto, TypeOK, OnlyThread
  <2>4. Moves(t, mem'[t])
    BY <2>1 DEF Moves, Nodes
  <2> QED BY <1>1, <2>2, <2>3, <2>4 DEF Uncleared, Moves, Carries
<1>2. ASSUME NEW a \in Attempts, RecoverVerifyExisting(t, a) PROVE Uncleared(t)
  <2>1. db'.wf = db.wf /\ db'.contract = db.contract /\ db'.versions = db.versions
    BY <1>2, Written DEF RecoverVerifyExisting
  <2> QED BY <1>1, <1>2, <2>1 DEF RecoverVerifyExisting
<1>3. ASSUME NEW a \in Attempts, RecoverRetry(t, a) PROVE Uncleared(t)
  <2>1. db'.wf = db.wf /\ db'.contract = db.contract /\ db'.versions = db.versions
    BY <1>3, Written DEF RecoverRetry
  <2> QED BY <1>1, <1>3, <2>1 DEF RecoverRetry
<1>4. ASSUME NEW a \in Attempts, RecoverRestore(t, a) \/ RecoverAbort(t, a) PROVE Uncleared(t)
  BY <1>1, <1>4 DEF RecoverRestore, RecoverAbort
<1>5. CASE RecoverClose(t)
  <2> DEFINE new == [db EXCEPT !.intents[loc[t].about] = Outcome(loc[t].action)]
  <2>1. new.versions = db.versions /\ new.contract = db.contract /\ new.wf = db.wf
    BY DEF TypeOK, Database
  <2>2. Write(t, "close", "recovered", new)
    BY <1>5 DEF RecoverClose
  <2>3. Moves(t, new.wf)
    BY <2>1 DEF Moves
  <2> HIDE DEF new
  <2> QED BY <2>1, <2>2, <2>3, WriteIsUncleared
<1>6. CASE RecoverSave(t)
  <2>1. CASE mem[t].status = "RUNNING" /\ ~Return(t)
    <3>1. /\ OnlyThread(t) /\ UNCHANGED <<mem, loc>> /\ pc[t] = "recovered" /\ pc'[t] = "run"
          /\ db' = WorkflowSaved(t)
      BY <1>6, <2>1 DEF RecoverSave, WriteAndReturn, Goto, TypeOK, OnlyThread
    <3> QED BY <3>1, SavedRows DEF Uncleared, Moves, Carries
  <2>2. CASE Return(t)
    <3>1. db' = WorkflowSaved(t)
      BY <1>6 DEF RecoverSave, WriteAndReturn
    <3> QED BY <2>2, <3>1, SavedRows, ReturnIsUncleared
  <2> QED BY <1>6, <2>1, <2>2 DEF RecoverSave, WriteAndReturn
<1> QED BY <1>2, <1>3, <1>4, <1>5, <1>6 DEF RecoverUncertain

LEMMA ContractRollBack ==
  ASSUME TypeOK, ContractInv, NEW t \in Threads, RollBack(t) PROVE ContractInv'
<1> SUFFICES Uncleared(t)
  BY UnclearedKeeps
<1>1. ASSUME NEW v \in VersionIds, Rollback(t, v) PROVE Uncleared(t)
  <2>1. mem'[t].node = db.wf.node /\ \A u \in Threads \ {t} : mem'[u] = mem[u]
    BY <1>1 DEF Rollback, TypeOK, Database, Row
  <2>2. OnlyThread(t) /\ UNCHANGED <<db, loc>> /\ pc[t] = "idle" /\ pc'[t] = "rollback"
    BY <1>1, <2>1 DEF Rollback, Begin, Goto, TypeOK, OnlyThread
  <2> QED BY <2>1, <2>2 DEF Uncleared, Moves, Carries
<1>2. CASE RollbackSave(t)
  <2>1. Return(t) /\ db' = WorkflowSaved(t)
    BY <1>2 DEF RollbackSave, WriteAndReturn
  <2> QED BY <2>1, SavedRows, ReturnIsUncleared
<1> QED BY <1>1, <1>2 DEF RollBack

LEMMA ContractInit == Init => ContractInv
BY DEF Init, ContractInv, ContractKnown, NoVersionWithoutContract, NoRow, NoLocals

LEMMA ContractStep == TypeOK /\ ContractInv /\ [Next]_vars => ContractInv'
<1> SUFFICES ASSUME TypeOK, ContractInv, [Next]_vars PROVE ContractInv'
  OBVIOUS
<1>1. ASSUME NEW t \in Threads, ThreadStep(t) PROVE ContractInv'
  BY <1>1, ContractStart, ContractRun, ContractExecute, ContractVerify, ContractAutoPromote,
     ContractPromote, ContractPauseResume, ContractDecideHitl, ContractRecoverUncertain,
     ContractRollBack DEF ThreadStep
<1>2. CASE Crash
  <2>1. UNCHANGED db /\ \A t \in Threads :
          pc'[t] = "idle" /\ mem'[t] = NoRow /\ loc'[t] = NoLocals
    BY <1>2 DEF Crash
  <2>2. ASSUME NEW t \in Threads PROVE ContractKnown(t)'
    BY <2>1 DEF ContractKnown, NoRow, NoLocals
  <2> QED BY <2>1, <2>2 DEF ContractInv, NoVersionWithoutContract
<1>3. CASE OutsideEdit \/ Overwrite \/ UNCHANGED vars
  <2>1. UNCHANGED <<db, pc, mem, loc>>
    BY <1>3 DEF OutsideEdit, Overwrite, vars
  <2> QED BY <2>1 DEF ContractInv, ContractKnown, NoVersionWithoutContract
<1> QED BY <1>1, <1>2, <1>3 DEF Next

\* D-011: a workflow whose start crashed before its contract was saved never records
\* a version, for any number of threads, attempts, edits and crashes.
THEOREM NoVersionWithoutContractHolds == Spec => []NoVersionWithoutContract
<1>1. ContractInv => NoVersionWithoutContract
  BY DEF ContractInv
<1> QED BY <1>1, TypeCorrect, ContractInit, ContractStep, PTL DEF Spec
-----------------------------------------------------------------------------
(* Verified content.  The verifier examines the worktree and a later step  *)
(* commits it: in between the lock keeps out DSH, rollback and recovery,   *)
(* and nothing but the absence of outside edits keeps out everybody else.  *)

\* Commit c is the baseline, no commit, or content that passed for its attempt.
Passed(c) == c.att \in Attempts => <<c.att, c.tree>> \in db.verified

CommitsPassed ==
  /\ Passed(git.head)
  /\ \A a \in Attempts : Passed(git.tags[a]) /\ Passed(db.attempts[a].prep.commit)
  /\ \A v \in VersionIds : Passed(db.versions[v].commit)

Examined(t) ==
  /\ Passed(loc[t].prep.commit)
  /\ pc[t] \in {"verify", "prepare"} => git.work = loc[t].seen
  /\ pc[t] = "prepare" => <<Attempt(t), loc[t].seen>> \in db.verified

VerifiedInv == CommitsPassed /\ \A t \in Threads : Examined(t)

\* The steps that examine nothing, create no commit, move no ref, and edit the worktree
\* under the lock only.
Plain(t) ==
  /\ OnlyThread(t)
  /\ git'.head = git.head /\ git'.tags = git.tags
  /\ git'.work = git.work \/ lock' = t
  /\ db'.verified = db.verified /\ db'.versions = db.versions
  /\ \A a \in Attempts : db'.attempts[a].prep.commit \in
       {db.attempts[a].prep.commit, loc[t].prep.commit, NoCommit}
  /\ loc'[t].prep.commit \in {loc[t].prep.commit, NoCommit}
  /\ pc'[t] \notin {"verify", "prepare"}

LEMMA NoCommitPassed == Passed(NoCommit) /\ Passed(BaseCommit)
BY Parameters DEF Passed, NoCommit, BaseCommit, Attempts

\* What the other threads examined stays as they saw it.
LEMMA OthersExamined ==
  ASSUME MutualExclusion', VerifiedInv, NEW t \in Threads, OnlyThread(t),
         git'.work = git.work \/ lock' = t, db.verified \subseteq db'.verified,
         NEW u \in Threads \ {t}
  PROVE  Examined(u)'
<1>1. Examined(u) /\ pc'[u] = pc[u] /\ mem'[u] = mem[u] /\ loc'[u] = loc[u]
  BY DEF VerifiedInv, OnlyThread
<1>2. CASE git'.work = git.work
  BY <1>1, <1>2 DEF Examined, Passed, Attempt
<1>3. CASE lock' = t
  <2>1. pc'[u] \notin LockedPcs
    BY <1>3 DEF MutualExclusion
  <2> QED BY <1>1, <2>1 DEF Examined, Passed, LockedPcs
<1> QED BY <1>2, <1>3

LEMMA PlainKeeps ==
  ASSUME MutualExclusion', VerifiedInv, NEW t \in Threads, Plain(t) PROVE VerifiedInv'
<1>1. Passed(loc[t].prep.commit) /\ Passed(NoCommit)
  BY NoCommitPassed DEF VerifiedInv, Examined
<1>2. CommitsPassed'
  <2>1. ASSUME NEW a \in Attempts PROVE Passed(git.tags[a])'
    BY DEF Plain, VerifiedInv, CommitsPassed, Passed
  <2>2. ASSUME NEW a \in Attempts PROVE Passed(db.attempts[a].prep.commit)'
    BY <1>1 DEF Plain, VerifiedInv, CommitsPassed, Passed
  <2>3. Passed(git.head)' /\ \A v \in VersionIds : Passed(db.versions[v].commit)'
    BY DEF Plain, VerifiedInv, CommitsPassed, Passed
  <2> QED BY <2>1, <2>2, <2>3 DEF CommitsPassed
<1>3. Examined(t)'
  BY <1>1 DEF Plain, Examined, Passed
<1> QED BY <1>2, <1>3, OthersExamined DEF VerifiedInv, Plain

\* The rows that Plain reads.
SameContent(new) ==
  new.verified = db.verified /\ new.versions = db.versions /\ new.attempts = db.attempts

LEMMA WriteIsPlain ==
  ASSUME TypeOK, NEW t \in Threads, NEW from, NEW to, NEW new, Write(t, from, to, new),
         to \notin {"verify", "prepare"}, SameContent(new)
  PROVE  Plain(t)
BY DEF TypeOK, Write, Goto, SameContent, Plain, OnlyThread

LEMMA ReturnIsPlain ==
  ASSUME TypeOK, NEW t \in Threads, Return(t), UNCHANGED git, SameContent(db')
  PROVE  Plain(t)
BY DEF TypeOK, Return, NoLocals, NoPrepared, SameContent, Plain, OnlyThread

LEMMA SavedContent ==
  ASSUME TypeOK, NEW t \in Threads PROVE SameContent(WorkflowSaved(t))
BY DEF TypeOK, Database, WorkflowSaved, SameContent

LEMMA PlainStart ==
  ASSUME TypeOK, NEW t \in Threads, Start(t), ~StartBaseline(t) PROVE Plain(t)
<1>1. ASSUME NEW c \in Contracts, StartCreate(t, c) PROVE Plain(t)
  <2>1. SameContent(db')
    BY <1>1, Written DEF StartCreate, SameContent
  <2>2. loc'[t].prep = loc[t].prep /\ \A u \in Threads \ {t} : loc'[u] = loc[u]
    BY <1>1 DEF StartCreate, TypeOK, Locals
  <2>3. OnlyThread(t) /\ UNCHANGED git /\ pc'[t] = "contract"
    BY <1>1, <2>2 DEF StartCreate, Begin, Goto, TypeOK, OnlyThread
  <2> QED BY <2>1, <2>2, <2>3 DEF Plain, SameContent
<1>2. CASE StartContract(t)
  <2> DEFINE new == [db EXCEPT !.contract = loc[t].acceptance]
  <2>1. SameContent(new)
    BY DEF TypeOK, Database, SameContent
  <2>2. Write(t, "contract", "baseline", new) \/ Write(t, "contract", "run", new)
    BY <1>2 DEF StartContract
  <2> HIDE DEF new
  <2> QED BY <2>1, <2>2, WriteIsPlain
<1>3. CASE StartSave(t)
  BY <1>3, SavedContent, WriteIsPlain DEF StartSave
<1> QED BY <1>1, <1>2, <1>3 DEF Start

\* The baseline version is the baseline commit.
LEMMA VerifiedBaseline ==
  ASSUME TypeOK, MutualExclusion', VerifiedInv, NEW t \in Threads, StartBaseline(t)
  PROVE  VerifiedInv'
<1>1. /\ OnlyThread(t) /\ UNCHANGED <<git, loc>> /\ pc'[t] = "started"
      /\ db' = [db EXCEPT !.versions[0] = [exists |-> TRUE, commit |-> BaseCommit]]
  BY DEF StartBaseline, Goto, TypeOK, OnlyThread
<1>2. /\ db'.versions = [db.versions EXCEPT ![0] = [exists |-> TRUE, commit |-> BaseCommit]]
      /\ db'.attempts = db.attempts /\ db'.verified = db.verified
  BY <1>1, Written
<1>3. \A v \in VersionIds : db'.versions[v].commit \in {db.versions[v].commit, BaseCommit}
  BY <1>2 DEF TypeOK, Database
<1>4. CommitsPassed'
  <2>1. ASSUME NEW v \in VersionIds PROVE Passed(db.versions[v].commit)'
    BY <1>2, <1>3, NoCommitPassed DEF VerifiedInv, CommitsPassed, Passed
  <2> QED BY <1>1, <1>2, <2>1 DEF VerifiedInv, CommitsPassed, Passed
<1>5. Examined(t)'
  BY <1>1, <1>2 DEF VerifiedInv, Examined, Passed
<1> QED BY <1>1, <1>2, <1>4, <1>5, OthersExamined DEF VerifiedInv

LEMMA PlainRun ==
  ASSUME TypeOK, NEW t \in Threads, Run(t) PROVE Plain(t)
<1>1. CASE RunLock(t) \/ RunReload(t)
  <2>1. /\ OnlyThread(t) /\ UNCHANGED <<db, git>> /\ pc'[t] = "loop"
        /\ loc'[t].prep.commit = NoCommit
    BY <1>1 DEF RunLock, RunReload, Load, Goto, OnlyThread, TypeOK, NoLocals, NoPrepared
  <2> QED BY <2>1 DEF Plain
<1>2. CASE RunPause(t)
  <2>1. SameContent(db')
    BY <1>2, Written DEF RunPause, SameContent
  <2> QED BY <1>2, <2>1, ReturnIsPlain DEF RunPause
<1>3. CASE RunExit(t) \/ NodeRaise(t)
  BY <1>3, ReturnIsPlain DEF RunExit, NodeRaise, SameContent
<1> QED BY <1>1, <1>2, <1>3 DEF Run

LEMMA PlainExecute ==
  ASSUME TypeOK, MutualExclusion', NEW t \in Threads, Execute(t) PROVE Plain(t)
<1>1. ASSUME NEW a \in Attempts, ExecuteUncertain(t, a) PROVE Plain(t)
  <2>1. SameContent(db')
    BY <1>1, Written DEF ExecuteUncertain, SameContent
  <2> QED BY <1>1, <2>1 DEF ExecuteUncertain, TypeOK, SameContent, Plain, OnlyThread
<1>2. ASSUME NEW a \in Attempts, ExecuteApprovedRetry(t, a) PROVE Plain(t)
  BY <1>2 DEF ExecuteApprovedRetry, TypeOK, Plain, OnlyThread
<1>3. CASE ExecuteNew(t)
  <2>1. SameContent(db')
    BY <1>3, Written DEF ExecuteNew, SameContent
  <2> QED BY <1>3, <2>1 DEF ExecuteNew, TypeOK, SameContent, Plain, OnlyThread
<1>4. CASE ExecuteIntent(t)
  <2> DEFINE new == StartExecution(Attempt(t))
  <2>1. SameContent(new)
    BY DEF TypeOK, Database, StartExecution, SameContent
  <2>2. Write(t, "intent", "check", new)
    BY <1>4 DEF ExecuteIntent
  <2> HIDE DEF new
  <2> QED BY <2>1, <2>2, WriteIsPlain
<1>5. CASE ExecuteReuse(t) \/ ExecuteFinish(t)
  <2> DEFINE new == [db EXCEPT !.intents[Attempt(t)] = "COMPLETED"]
  <2>1. SameContent(new)
    BY DEF TypeOK, Database, SameContent
  <2>2. Write(t, "check", "executed", new) \/ Write(t, "finish", "executed", new)
    BY <1>5 DEF ExecuteReuse, ExecuteFinish
  <2> HIDE DEF new
  <2> QED BY <2>1, <2>2, WriteIsPlain
<1>6. CASE ExecuteCall(t)
  BY <1>6 DEF ExecuteCall, Goto, TypeOK, Plain, OnlyThread
<1>7. CASE DshWrite(t)
  <2>1. lock' = t
    BY <1>7 DEF DshWrite, MutualExclusion, LockedPcs
  <2>2. git'.head = git.head /\ git'.tags = git.tags
    BY <1>7 DEF DshWrite, StageAll, TypeOK, Worktree
  <2> QED BY <1>7, <2>1, <2>2 DEF DshWrite, Plain, OnlyThread
<1>8. CASE DshReturn(t)
  <2>1. db' = [db EXCEPT !.attempts[Attempt(t)] = [output |-> "dsh", prep |-> NoPrepared]]
    BY <1>8 DEF DshReturn, Write
  <2>2. /\ db'.attempts = [db.attempts EXCEPT ![Attempt(t)] = [output |-> "dsh", prep |-> NoPrepared]]
        /\ db'.verified = db.verified /\ db'.versions = db.versions
    BY <2>1, Written
  <2>3. \A a \in Attempts : db'.attempts[a].prep.commit \in {db.attempts[a].prep.commit, NoCommit}
    BY <2>2 DEF TypeOK, Database, NoPrepared
  <2>4. OnlyThread(t) /\ UNCHANGED <<git, loc>> /\ pc'[t] = "finish"
    BY <1>8 DEF DshReturn, Write, Goto, TypeOK, OnlyThread
  <2> QED BY <2>2, <2>3, <2>4 DEF Plain
<1>9. CASE DshRaise(t)
  <2> DEFINE new == UnknownOutcome(t)
  <2>1. SameContent(new)
    BY DEF UnknownOutcome, TypeOK, Database, SameContent
  <2>2. Write(t, "calling", "reload", new)
    BY <1>9 DEF DshRaise
  <2> HIDE DEF new
  <2> QED BY <2>1, <2>2, WriteIsPlain
<1>10. CASE ExecuteDone(t)
  <2> DEFINE new == [db EXCEPT !.wf = [mem[t] EXCEPT !.node = "VERIFY"]]
  <2>1. SameContent(new)
    BY DEF TypeOK, Database, SameContent
  <2>2. Write(t, "executed", "reload", new)
    BY <1>10 DEF ExecuteDone
  <2> HIDE DEF new
  <2> QED BY <2>1, <2>2, WriteIsPlain
<1> QED BY <1>1, <1>2, <1>3, <1>4, <1>5, <1>6, <1>7, <1>8, <1>9, <1>10 DEF Execute

LEMMA PlainVerify ==
  ASSUME TypeOK, NEW t \in Threads,
         \/ VerifyRaise(t) \/ VerifySavePrepared(t) \/ VerifyReview(t) \/ VerifyAutoPromote(t)
         \/ VerifyRetry(t) \/ VerifyExhausted(t) \/ VerifyDone(t)
  PROVE  Plain(t)
<1>1. CASE VerifyRaise(t)
  BY <1>1, ReturnIsPlain DEF VerifyRaise, SameContent
<1>2. CASE VerifySavePrepared(t)
  <2> DEFINE row == [db.attempts[Attempt(t)] EXCEPT !.prep = loc[t].prep]
  <2>1. /\ db'.attempts = [db.attempts EXCEPT ![Attempt(t)] = row]
        /\ db'.verified = db.verified /\ db'.versions = db.versions
    BY <1>2 DEF VerifySavePrepared, Write, TypeOK, Database
  <2>2. \A a \in Attempts :
          db'.attempts[a].prep.commit \in {db.attempts[a].prep.commit, loc[t].prep.commit}
    BY <2>1 DEF TypeOK, Database, AttemptRow
  <2>3. OnlyThread(t) /\ UNCHANGED <<git, loc>> /\ pc'[t] = "gate"
    BY <1>2 DEF VerifySavePrepared, Write, Goto, TypeOK, OnlyThread
  <2> QED BY <2>1, <2>2, <2>3 DEF Plain
<1>3. CASE VerifyReview(t) \/ VerifyExhausted(t)
  <2>1. SameContent(db')
    BY <1>3 DEF VerifyReview, VerifyExhausted, NewRequest, SameContent, TypeOK, Database
  <2>2. \A u \in Threads \ {t} : mem'[u] = mem[u]
    BY <1>3 DEF VerifyReview, VerifyExhausted, WaitForHuman, TypeOK
  <2>3. OnlyThread(t) /\ UNCHANGED <<git, loc>> /\ pc'[t] = "save"
    BY <1>3, <2>2 DEF VerifyReview, VerifyExhausted, Goto, TypeOK, OnlyThread
  <2> QED BY <2>1, <2>3 DEF Plain, SameContent
<1>4. CASE VerifyAutoPromote(t)
  BY <1>4 DEF VerifyAutoPromote, Goto, TypeOK, Plain, OnlyThread
<1>5. CASE VerifyRetry(t)
  <2>1. SameContent(db')
    BY <1>5 DEF VerifyRetry, SameContent, TypeOK, Database
  <2> QED BY <1>5, <2>1 DEF VerifyRetry, Goto, TypeOK, Plain, SameContent, OnlyThread
<1>6. CASE VerifyDone(t)
  BY <1>6, SavedContent, WriteIsPlain DEF VerifyDone
<1> QED BY <1>1, <1>2, <1>3, <1>4, <1>5, <1>6

\* The verifier sees the worktree, a pass is recorded for what it saw, and the candidate
\* is made of the worktree: the same content.
LEMMA VerifiedVerify ==
  ASSUME TypeOK, MutualExclusion', VerifiedInv, NEW t \in Threads,
         \/ \E result \in BOOLEAN : VerifyRun(t, result)
         \/ VerifyRecord(t) \/ VerifyPrepare(t)
  PROVE  VerifiedInv'
<1>1. ASSUME NEW result \in BOOLEAN, VerifyRun(t, result) PROVE VerifiedInv'
  <2>1. loc'[t].prep = loc[t].prep /\ loc'[t].seen = git.work
    BY <1>1 DEF VerifyRun, TypeOK, Locals
  <2>2. OnlyThread(t) /\ UNCHANGED <<db, git>> /\ pc'[t] = "verify"
    BY <1>1 DEF VerifyRun, TypeOK, OnlyThread
  <2>3. Examined(t)' /\ CommitsPassed'
    BY <2>1, <2>2 DEF VerifiedInv, Examined, CommitsPassed, Passed
  <2> QED BY <2>2, <2>3, OthersExamined DEF VerifiedInv
<1>2. CASE VerifyRecord(t)
  <2> DEFINE new == [db EXCEPT !.verified = @ \cup {<<Attempt(t), loc[t].seen>>}]
  <2>1. /\ new.verified = db.verified \cup {<<Attempt(t), loc[t].seen>>}
        /\ new.versions = db.versions /\ new.attempts = db.attempts
    BY DEF TypeOK, Database
  <2>2. db' = IF PassedInScope(t) THEN new ELSE db
    BY <1>2 DEF VerifyRecord
  <2> HIDE DEF new
  <2>3. /\ db'.versions = db.versions /\ db'.attempts = db.attempts
        /\ db.verified \subseteq db'.verified
        /\ PassedInScope(t) => <<Attempt(t), loc[t].seen>> \in db'.verified
    BY <2>1, <2>2
  <2>4. /\ OnlyThread(t) /\ UNCHANGED <<git, mem, loc>> /\ pc[t] = "verify"
        /\ pc'[t] \in {"gate_failed", "prepare", "gate"} /\ (pc'[t] = "prepare" => Verdict(t))
    BY <1>2 DEF VerifyRecord, Goto, TypeOK, OnlyThread
  <2>5. CommitsPassed'
    BY <2>3, <2>4 DEF VerifiedInv, CommitsPassed, Passed
  <2>6. Examined(t)'
    <3>1. Passed(loc[t].prep.commit)'
      BY <2>3, <2>4 DEF VerifiedInv, Examined, Passed
    <3>2. git'.work = loc'[t].seen
      BY <2>4 DEF VerifiedInv, Examined
    <3>3. pc'[t] = "prepare" => (<<Attempt(t), loc[t].seen>> \in db.verified)'
      BY <2>3, <2>4 DEF Verdict, Attempt
    <3> QED BY <3>1, <3>2, <3>3 DEF Examined
  <2> QED BY <2>3, <2>4, <2>5, <2>6, OthersExamined DEF VerifiedInv
<1>3. CASE VerifyPrepare(t)
  <2>1. /\ git'.head = git.head /\ git'.tags = git.tags /\ git'.work = git.work
        /\ UNCHANGED db /\ pc[t] = "prepare" /\ pc'[t] = "prepared"
    BY <1>3 DEF VerifyPrepare, StageAll, Goto, TypeOK, Worktree
  <2>2. loc'[t].prep.commit = [att |-> Attempt(t), tree |-> git.work]
    BY <1>3 DEF VerifyPrepare, PreparedCandidate, TypeOK, Locals
  <2>3. OnlyThread(t)
    BY <1>3 DEF VerifyPrepare, Goto, TypeOK, OnlyThread
  <2>4. <<Attempt(t), git.work>> \in db.verified
    BY <2>1 DEF VerifiedInv, Examined
  <2>5. Examined(t)' /\ CommitsPassed'
    BY <2>1, <2>2, <2>4 DEF VerifiedInv, Examined, CommitsPassed, Passed
  <2> QED BY <2>1, <2>3, <2>5, OthersExamined DEF VerifiedInv
<1> QED BY <1>1, <1>2, <1>3

LEMMA VerifiedPromote ==
  ASSUME TypeOK, MutualExclusion', VerifiedInv, NEW t \in Threads, Promote(t)
  PROVE  VerifiedInv'
<1>1. CASE PromotePlain(t)
  <2>1. Plain(t)
    BY <1>1 DEF PromotePlain, TypeOK, Plain, OnlyThread
  <2> QED BY <2>1, PlainKeeps
<1>2. CASE PromoteTagged(t) \/ PromoteHead(t)
  <2>1. /\ OnlyThread(t) /\ UNCHANGED db /\ pc'[t] \in {"version", "tag"}
        /\ git'.tags = git.tags /\ git'.work = git.work
        /\ git'.head \in {git.head, Candidate(t).commit}
    BY <1>2 DEF PromoteTagged, PromoteHead, TypeOK, Worktree, OnlyThread
  <2>2. loc'[t].prep = Candidate(t)
    BY <1>2 DEF PromoteTagged, PromoteHead, TypeOK, Locals
  <2>3. Passed(Candidate(t).commit)
    BY <1>2 DEF PromoteTagged, PromoteHead, HasAttempt, Candidate, VerifiedInv, CommitsPassed
  <2>4. Examined(t)' /\ CommitsPassed'
    BY <2>1, <2>2, <2>3 DEF VerifiedInv, Examined, CommitsPassed, Passed
  <2> QED BY <2>1, <2>4, OthersExamined DEF VerifiedInv
<1>3. CASE PromoteTag(t)
  <2>1. /\ OnlyThread(t) /\ UNCHANGED <<db, loc>> /\ pc'[t] = "version"
        /\ git'.head = git.head /\ git'.work = git.work
        /\ git'.tags = [git.tags EXCEPT ![Attempt(t)] = loc[t].prep.commit]
    BY <1>3 DEF PromoteTag, Goto, TypeOK, Worktree, OnlyThread
  <2>2. \A a \in Attempts : git'.tags[a] \in {git.tags[a], loc[t].prep.commit}
    BY <2>1 DEF TypeOK, Worktree
  <2>3. Passed(loc[t].prep.commit)
    BY DEF VerifiedInv, Examined
  <2>4. Examined(t)' /\ CommitsPassed'
    BY <2>1, <2>2, <2>3 DEF VerifiedInv, Examined, CommitsPassed, Passed
  <2> QED BY <2>1, <2>4, OthersExamined DEF VerifiedInv
<1>4. CASE PromoteVersion(t)
  <2> DEFINE row == [exists |-> TRUE, commit |-> loc[t].prep.commit]
  <2>1. OnlyThread(t) /\ UNCHANGED <<git, loc>> /\ pc'[t] = "promoted"
    BY <1>4 DEF PromoteVersion, Goto, TypeOK, OnlyThread
  <2>2. /\ db'.versions = [db.versions EXCEPT ![Attempt(t)] = row]
        /\ db'.attempts = db.attempts /\ db'.verified = db.verified
    BY <1>4, Written DEF PromoteVersion
  <2>3. \A v \in VersionIds :
          db'.versions[v].commit \in {db.versions[v].commit, loc[t].prep.commit}
    BY <2>2 DEF TypeOK, Database
  <2>4. Passed(loc[t].prep.commit)
    BY DEF VerifiedInv, Examined
  <2>5. Examined(t)'
    BY <2>1, <2>2, <2>4 DEF Examined, Passed
  <2>6. CommitsPassed'
    <3>1. ASSUME NEW v \in VersionIds PROVE Passed(db.versions[v].commit)'
      BY <2>2, <2>3, <2>4 DEF VerifiedInv, CommitsPassed, Passed
    <3> QED BY <2>1, <2>2, <3>1 DEF VerifiedInv, CommitsPassed, Passed
  <2> QED BY <2>1, <2>2, <2>5, <2>6, OthersExamined DEF VerifiedInv
<1>5. CASE PromoteDone(t)
  BY <1>5, SavedContent, WriteIsPlain, PlainKeeps DEF PromoteDone
<1> QED BY <1>1, <1>2, <1>3, <1>4, <1>5 DEF Promote

LEMMA PlainPauseResume ==
  ASSUME TypeOK, NEW t \in Threads, PauseResume(t) PROVE Plain(t)
<1>1. CASE PauseRead(t) \/ ResumeRead(t)
  <2>1. \A u \in Threads \ {t} : mem'[u] = mem[u]
    BY <1>1 DEF PauseRead, ResumeRead, TypeOK
  <2>2. OnlyThread(t) /\ UNCHANGED <<db, git, loc>> /\ pc'[t] \in {"pause", "resume"}
    BY <1>1, <2>1 DEF PauseRead, ResumeRead, Begin, Goto, TypeOK, OnlyThread
  <2> QED BY <2>2 DEF Plain
<1>2. CASE PauseSave(t)
  <2>1. Return(t) /\ UNCHANGED git /\ db' = WorkflowSaved(t)
    BY <1>2 DEF PauseSave, WriteAndReturn
  <2> QED BY <2>1, SavedContent, ReturnIsPlain
<1>3. CASE ResumeSave(t)
  BY <1>3, SavedContent, WriteIsPlain DEF ResumeSave
<1> QED BY <1>1, <1>2, <1>3 DEF PauseResume

LEMMA PlainDecideHitl ==
  ASSUME TypeOK, NEW t \in Threads, DecideHitl(t) PROVE Plain(t)
<1>1. ASSUME NEW r, NEW a, NEW choice, NEW status, NEW node,
             Decide(t, r, a, choice, status, node)
      PROVE  Plain(t)
  <2>1. \A u \in Threads \ {t} : mem'[u] = mem[u] /\ loc'[u] = loc[u]
    BY <1>1 DEF Decide, TypeOK
  <2>2. loc'[t].prep = loc[t].prep
    BY <1>1 DEF Decide, TypeOK, Locals
  <2>3. OnlyThread(t) /\ UNCHANGED <<db, git>> /\ pc'[t] = "resolve"
    BY <1>1, <2>1 DEF Decide, Begin, Goto, TypeOK, OnlyThread
  <2> QED BY <2>2, <2>3 DEF Plain
<1>2. CASE DecideResolve(t)
  <2> DEFINE new == [db EXCEPT !.hitl[loc[t].reason][loc[t].about].state = loc[t].choice]
  <2>1. SameContent(new)
    BY DEF TypeOK, Database, SameContent
  <2>2. Write(t, "resolve", "decided", new)
    BY <1>2 DEF DecideResolve
  <2> HIDE DEF new
  <2> QED BY <2>1, <2>2, WriteIsPlain
<1>3. CASE DecideSave(t)
  <2>1. /\ OnlyThread(t) /\ UNCHANGED <<git, loc>> /\ pc'[t] = "run"
        /\ db' = WorkflowSaved(t)
    BY <1>3 DEF DecideSave, Goto, TypeOK, OnlyThread
  <2> QED BY <2>1, SavedContent DEF Plain, SameContent
<1> QED BY <1>1, <1>2, <1>3 DEF DecideHitl, DecideApprove, DecideRetry, DecideReject

LEMMA PlainRecoverUncertain ==
  ASSUME TypeOK, NEW t \in Threads, RecoverUncertain(t) PROVE Plain(t)
<1>1. ASSUME NEW a, NEW action, NEW to \in {"close", "recovered"}, NEW status, NEW node,
             Recover(t, a, action, to, status, node)
      PROVE  /\ OnlyThread(t) /\ pc'[t] = to /\ lock' = t /\ loc'[t].prep = loc[t].prep
  <2>1. \A u \in Threads \ {t} : mem'[u] = mem[u] /\ loc'[u] = loc[u]
    BY <1>1 DEF Recover, TypeOK
  <2>2. loc'[t].prep = loc[t].prep
    BY <1>1 DEF Recover, TypeOK, Locals
  <2> QED BY <1>1, <2>1, <2>2 DEF Recover, Begin, Goto, TypeOK, OnlyThread
<1>2. ASSUME NEW a \in Attempts, RecoverVerifyExisting(t, a) PROVE Plain(t)
  <2>1. /\ db'.attempts = [db.attempts EXCEPT ![a] = [output |-> "recovered", prep |-> NoPrepared]]
        /\ db'.verified = db.verified /\ db'.versions = db.versions
    BY <1>2, Written DEF RecoverVerifyExisting
  <2>2. \A b \in Attempts : db'.attempts[b].prep.commit \in {db.attempts[b].prep.commit, NoCommit}
    BY <2>1 DEF TypeOK, Database, NoPrepared
  <2>3. OnlyThread(t) /\ UNCHANGED git /\ pc'[t] = "close" /\ loc'[t].prep = loc[t].prep
    BY <1>1, <1>2 DEF RecoverVerifyExisting
  <2> QED BY <2>1, <2>2, <2>3 DEF Plain
<1>3. ASSUME NEW a \in Attempts, RecoverRetry(t, a) PROVE Plain(t)
  <2>1. SameContent(db')
    BY <1>3, Written DEF RecoverRetry, SameContent
  <2>2. OnlyThread(t) /\ UNCHANGED git /\ pc'[t] = "recovered" /\ loc'[t].prep = loc[t].prep
    BY <1>1, <1>3 DEF RecoverRetry
  <2> QED BY <2>1, <2>2 DEF Plain, SameContent
<1>4. ASSUME NEW a \in Attempts, RecoverRestore(t, a) \/ RecoverAbort(t, a) PROVE Plain(t)
  <2>1. git'.head = git.head /\ git'.tags = git.tags
    BY <1>4 DEF RecoverRestore, RecoverAbort, RestoreContractPaths, TypeOK, Worktree
  <2>2. /\ OnlyThread(t) /\ UNCHANGED db /\ pc'[t] = "close" /\ lock' = t
        /\ loc'[t].prep = loc[t].prep
    BY <1>1, <1>4 DEF RecoverRestore, RecoverAbort
  <2> QED BY <2>1, <2>2 DEF Plain
<1>5. CASE RecoverClose(t)
  <2> DEFINE new == [db EXCEPT !.intents[loc[t].about] = Outcome(loc[t].action)]
  <2>1. SameContent(new)
    BY DEF TypeOK, Database, SameContent
  <2>2. Write(t, "close", "recovered", new)
    BY <1>5 DEF RecoverClose
  <2> HIDE DEF new
  <2> QED BY <2>1, <2>2, WriteIsPlain
<1>6. CASE RecoverSave(t)
  <2>1. UNCHANGED git /\ db' = WorkflowSaved(t)
    BY <1>6 DEF RecoverSave, WriteAndReturn
  <2>2. CASE Return(t)
    BY <2>1, <2>2, SavedContent, ReturnIsPlain
  <2>3. CASE ~Return(t)
    <3>1. OnlyThread(t) /\ UNCHANGED loc /\ pc'[t] = "run"
      BY <1>6, <2>3 DEF RecoverSave, WriteAndReturn, Goto, TypeOK, OnlyThread
    <3> QED BY <2>1, <3>1, SavedContent DEF Plain, SameContent
  <2> QED BY <2>2, <2>3
<1> QED BY <1>2, <1>3, <1>4, <1>5, <1>6 DEF RecoverUncertain

\* A rollback checks out the commit of a version.
LEMMA VerifiedRollBack ==
  ASSUME TypeOK, MutualExclusion', VerifiedInv, NEW t \in Threads, RollBack(t)
  PROVE  VerifiedInv'
<1>1. ASSUME NEW v \in VersionIds, Rollback(t, v) PROVE VerifiedInv'
  <2>1. \A u \in Threads \ {t} : mem'[u] = mem[u]
    BY <1>1 DEF Rollback, TypeOK
  <2>2. OnlyThread(t) /\ UNCHANGED <<db, loc>> /\ pc'[t] = "rollback" /\ lock' = t
    BY <1>1, <2>1 DEF Rollback, Begin, Goto, TypeOK, OnlyThread
  <2>3. git'.tags = git.tags /\ git'.head \in {git.head, db.versions[v].commit}
    BY <1>1 DEF Rollback, SwitchTo, TypeOK, Worktree
  <2>4. Examined(t)' /\ CommitsPassed'
    BY <2>2, <2>3 DEF VerifiedInv, Examined, CommitsPassed, Passed
  <2> QED BY <2>2, <2>4, OthersExamined DEF VerifiedInv
<1>2. CASE RollbackSave(t)
  <2>1. Return(t) /\ UNCHANGED git /\ db' = WorkflowSaved(t)
    BY <1>2 DEF RollbackSave, WriteAndReturn
  <2> QED BY <2>1, SavedContent, ReturnIsPlain, PlainKeeps
<1> QED BY <1>1, <1>2 DEF RollBack

LEMMA VerifiedInit == Init => VerifiedInv
<1> SUFFICES ASSUME Init PROVE VerifiedInv
  OBVIOUS
<1>1. CommitsPassed
  BY NoCommitPassed DEF Init, CommitsPassed, FreshWorktree, NoAttemptRow, NoPrepared
<1>2. \A t \in Threads : Examined(t)
  BY NoCommitPassed DEF Init, Examined, NoLocals, NoPrepared
<1> QED BY <1>1, <1>2 DEF VerifiedInv

LEMMA VerifiedStep ==
  ASSUME ~EditDuringVerify, TypeOK, MutualExclusion', VerifiedInv, [Next]_vars
  PROVE  VerifiedInv'
<1>1. ASSUME NEW t \in Threads, Plain(t) PROVE VerifiedInv'
  BY <1>1, PlainKeeps
<1>2. ASSUME NEW t \in Threads, ThreadStep(t) PROVE VerifiedInv'
  <2>1. CASE Start(t)
    BY <1>1, <2>1, PlainStart, VerifiedBaseline
  <2>2. CASE Run(t) \/ Execute(t)
    BY <1>1, <2>2, PlainRun, PlainExecute
  <2>3. CASE Verify(t)
    BY <1>1, <2>3, PlainVerify, VerifiedVerify DEF Verify
  <2>4. CASE PauseResume(t) \/ DecideHitl(t) \/ RecoverUncertain(t)
    BY <1>1, <2>4, PlainPauseResume, PlainDecideHitl, PlainRecoverUncertain
  <2>5. CASE Promote(t) \/ RollBack(t)
    BY <2>5, VerifiedPromote, VerifiedRollBack
  <2> QED BY <1>2, <2>1, <2>2, <2>3, <2>4, <2>5 DEF ThreadStep
<1>3. CASE Crash
  <2>1. UNCHANGED <<db, git>> /\ \A t \in Threads : pc'[t] = "idle" /\ loc'[t] = NoLocals
    BY <1>3 DEF Crash
  <2>2. CommitsPassed'
    BY <2>1 DEF VerifiedInv, CommitsPassed, Passed
  <2>3. ASSUME NEW t \in Threads PROVE Examined(t)'
    BY <2>1, NoCommitPassed DEF Examined, Passed, NoLocals, NoPrepared
  <2> QED BY <2>2, <2>3 DEF VerifiedInv
<1>4. CASE OutsideEdit
  <2>1. UNCHANGED <<db, pc, mem, loc>> /\ git'.head = git.head /\ git'.tags = git.tags
    BY <1>4 DEF OutsideEdit, StageAll, TypeOK, Worktree
  <2>2. \A t \in Threads : pc'[t] \notin {"verify", "prepare"}
    BY <1>4 DEF OutsideEdit, VerifyWindow
  <2>3. CommitsPassed'
    BY <2>1 DEF VerifiedInv, CommitsPassed, Passed
  <2>4. ASSUME NEW t \in Threads PROVE Examined(t)'
    BY <2>1, <2>2 DEF VerifiedInv, Examined, Passed
  <2> QED BY <2>3, <2>4 DEF VerifiedInv
<1>5. CASE Overwrite \/ UNCHANGED vars
  BY <1>5 DEF Overwrite, vars, VerifiedInv, CommitsPassed, Examined, Passed, Attempt
<1> QED BY <1>2, <1>3, <1>4, <1>5 DEF Next

\* D-011: as long as nobody edits the worktree between the verifier's commands and the
\* preparation of the candidate, no commit reaches HEAD or a tag whose content did not
\* pass: for any number of threads and attempts, with crashes at any point and with
\* edits before and after.
THEOREM VerifiedPromotionHolds ==
  ASSUME ~EditDuringVerify PROVE Spec => []VerifiedPromotion
<1>1. VerifiedInv => VerifiedPromotion
  BY DEF VerifiedInv, CommitsPassed, Passed, VerifiedPromotion, Promoted
<1>2. TypeOK /\ MutualExclusion' /\ VerifiedInv /\ [Next]_vars => VerifiedInv'
  BY VerifiedStep
<1> QED BY <1>1, <1>2, TypeCorrect, LockIsExclusive, VerifiedInit, PTL DEF Spec
=============================================================================
