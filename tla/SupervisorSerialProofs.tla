----------------------- MODULE SupervisorSerialProofs -----------------------
(***************************************************************************)
(* What holds of requests that are served one at a time: no call beyond    *)
(* the ones a human chose and the ones a crash repeats; and, as long as    *)
(* the process does not crash and the bound LoopSpec revision is not       *)
(* overwritten, a state every request can go on from, the state machine of *)
(* the design, and promotion of what was approved.                         *)
(***************************************************************************)
EXTENDS SupervisorPromotionProofs

(* Attempts and intents, for requests that are served one at a time.       *)

Serial == \A t, u \in Threads : pc[t] # "idle" /\ pc[u] # "idle" => t = u

\* The row of the request that is being served is about the attempt SQLite names.
Current(t) ==
  pc[t] # "idle" => /\ mem[t].attempt = db.wf.attempt
                    /\ mem[t].status # "ABSENT" /\ Exists

\* An open intent belongs to the current attempt, no call was made for a later one,
\* and an approval for a retry is counted.
CallsAreNumbered ==
  /\ ~Exists => db.wf.attempt = 0
  /\ \A a \in Attempts : /\ OpenIntent(a) => a = db.wf.attempt
                         /\ hist.calls[a] > 0 => a <= db.wf.attempt
                         /\ db.intents[a] = "RETRY_APPROVED" => hist.retries[a] > 0

CallsInv == Serial /\ CallsAreNumbered /\ \A t \in Threads : Current(t)

\* The steps that open no intent, number no attempt and prepare no call.
Served(t) ==
  /\ OnlyThread(t) /\ (pc[t] = "idle" => AllIdle) /\ hist'.calls = hist.calls
  /\ \A a \in Attempts : hist.retries[a] > 0 => hist'.retries[a] > 0
  /\ db'.wf.attempt = db.wf.attempt /\ Exists'
  /\ pc'[t] # "idle" => mem'[t].attempt = db.wf.attempt /\ mem'[t].status # "ABSENT"
  /\ pc'[t] \notin {"intent", "check"}
  /\ \A a \in Attempts : db'.intents[a] = db.intents[a] \/ db'.intents[a] \notin OpenIntents

\* Whoever takes a step is alone.
LEMMA AloneInStep ==
  ASSUME CallsInv, NEW t \in Threads, pc[t] = "idle" => AllIdle, OnlyThread(t)
  PROVE  \A u \in Threads \ {t} : pc[u] = "idle" /\ pc'[u] = "idle"
BY DEF CallsInv, Serial, AllIdle, OnlyThread

LEMMA AloneKeeps ==
  ASSUME CallsInv, NEW t \in Threads, pc[t] = "idle" => AllIdle, OnlyThread(t),
         CallsAreNumbered', Current(t)'
  PROVE  CallsInv'
<1>1. \A u \in Threads \ {t} : pc'[u] = "idle"
  BY AloneInStep
<1>2. Serial'
  BY <1>1 DEF Serial
<1>3. ASSUME NEW u \in Threads \ {t} PROVE Current(u)'
  BY <1>1 DEF Current
<1> QED BY <1>2, <1>3 DEF CallsInv

LEMMA ServedKeeps ==
  ASSUME CallsInv, NEW t \in Threads, Served(t) PROVE CallsInv'
<1>1. CallsAreNumbered'
  BY DEF CallsInv, CallsAreNumbered, Served, OpenIntent, OpenIntents
<1>2. Current(t)'
  BY DEF Served, Current
<1> QED BY <1>1, <1>2, AloneKeeps DEF Served

\* A request begins when no other is served.
LEMMA BeginsAlone ==
  ASSUME MaxOverlaps = 0, TypeOK, NEW t \in Threads, NEW to, Begin(t, to) PROVE AllIdle
BY DEF TypeOK, Begin

LEMMA WriteIsServed ==
  ASSUME TypeOK, CallsInv, NEW t \in Threads, NEW from, NEW to, NEW new,
         Write(t, from, to, new), from # "idle", to \notin {"intent", "check"},
         new.wf.attempt = db.wf.attempt, new.wf.status # "ABSENT",
         \A a \in Attempts : new.intents[a] = db.intents[a] \/ new.intents[a] \notin OpenIntents
  PROVE  Served(t)
<1>1. OnlyThread(t) /\ pc[t] # "idle" /\ pc'[t] = to /\ UNCHANGED <<mem, hist>> /\ db' = new
  BY DEF TypeOK, Write, Goto, OnlyThread
<1>2. mem[t].attempt = db.wf.attempt /\ mem[t].status # "ABSENT"
  BY <1>1 DEF CallsInv, Current
<1> QED BY <1>1, <1>2 DEF Served, Exists

LEMMA ReturnIsServed ==
  ASSUME TypeOK, NEW t \in Threads, Return(t), pc[t] # "idle", UNCHANGED hist,
         db'.wf.attempt = db.wf.attempt, db'.wf.status # "ABSENT",
         db'.intents = db.intents
  PROVE  Served(t)
BY DEF TypeOK, Return, Served, OnlyThread, Exists

\* save_workflow writes the attempt that is there already.
LEMMA SavedServed ==
  ASSUME TypeOK, CallsInv, NEW t \in Threads, pc[t] # "idle"
  PROVE  LET new == WorkflowSaved(t) IN
         /\ new.wf.attempt = db.wf.attempt /\ new.wf.status # "ABSENT"
         /\ new.intents = db.intents
<1>1. mem[t].attempt = db.wf.attempt /\ mem[t].status # "ABSENT"
  BY DEF CallsInv, Current
<1> QED BY <1>1, SavedWorkflow

LEMMA SaveIsServed ==
  ASSUME TypeOK, CallsInv, NEW t \in Threads, pc[t] # "idle", db' = WorkflowSaved(t),
         OnlyThread(t), UNCHANGED <<mem, hist>>, pc'[t] \notin {"intent", "check"}
  PROVE  Served(t)
<1>1. mem[t].attempt = db.wf.attempt /\ mem[t].status # "ABSENT"
  BY DEF CallsInv, Current
<1> QED BY <1>1, SavedServed DEF Served, Exists

LEMMA SaveAndReturnIsServed ==
  ASSUME TypeOK, CallsInv, NEW t \in Threads, pc[t] # "idle", WriteAndReturn(t, WorkflowSaved(t))
  PROVE  Served(t)
<1>1. Return(t) /\ db' = WorkflowSaved(t) /\ UNCHANGED hist
  BY DEF WriteAndReturn
<1> QED BY <1>1, SavedServed, ReturnIsServed

LEMMA CallsStart ==
  ASSUME MaxOverlaps = 0, TypeOK, CallsInv, NEW t \in Threads, Start(t) PROVE Served(t)
<1>1. ASSUME NEW c \in Contracts, StartCreate(t, c) PROVE Served(t)
  <2>1. AllIdle /\ ~Exists /\ db.wf.attempt = 0
    BY <1>1, BeginsAlone DEF StartCreate, CallsInv, CallsAreNumbered
  <2>2. db'.wf = NewRow /\ db'.intents = db.intents
    BY <1>1, Written DEF StartCreate
  <2>3. OnlyThread(t) /\ mem'[t] = NewRow /\ pc'[t] = "contract" /\ UNCHANGED hist
    BY <1>1 DEF StartCreate, Begin, Goto, TypeOK, OnlyThread
  <2> QED BY <2>1, <2>2, <2>3 DEF Served, NewRow, NoRow, Exists
<1>2. CASE StartContract(t)
  <2> DEFINE new == [db EXCEPT !.contract = loc[t].acceptance]
  <2>1. new.wf = db.wf /\ new.intents = db.intents
    BY DEF TypeOK, Database
  <2>2. Write(t, "contract", "baseline", new) \/ Write(t, "contract", "run", new)
    BY <1>2 DEF StartContract
  <2>3. db.wf.status # "ABSENT"
    BY <1>2 DEF StartContract, Write, Goto, CallsInv, Current, Exists
  <2> HIDE DEF new
  <2> QED BY <2>1, <2>2, <2>3, WriteIsServed
<1>3. CASE StartBaseline(t)
  <2>1. db'.wf = db.wf /\ db'.intents = db.intents
    BY <1>3, Written DEF StartBaseline
  <2>2. mem'[t].attempt = mem[t].attempt /\ mem'[t].status = mem[t].status
    BY <1>3 DEF StartBaseline, TypeOK, Row
  <2>3. OnlyThread(t) /\ pc[t] = "baseline" /\ pc'[t] = "started" /\ UNCHANGED hist
    BY <1>3 DEF StartBaseline, Goto, TypeOK, OnlyThread
  <2> QED BY <2>1, <2>2, <2>3 DEF Served, CallsInv, Current, Exists
<1>4. CASE StartSave(t)
  <2>1. /\ OnlyThread(t) /\ UNCHANGED <<mem, hist>> /\ db' = WorkflowSaved(t)
        /\ pc[t] = "started" /\ pc'[t] = "run"
    BY <1>4 DEF StartSave, Write, Goto, TypeOK, OnlyThread
  <2> QED BY <2>1, SaveIsServed
<1> QED BY <1>1, <1>2, <1>3, <1>4 DEF Start

LEMMA CallsRun ==
  ASSUME TypeOK, CallsInv, NEW t \in Threads, Run(t) PROVE Served(t)
<1>1. CASE RunLock(t) \/ RunReload(t)
  <2>1. /\ OnlyThread(t) /\ UNCHANGED <<db, hist>> /\ pc[t] # "idle" /\ pc'[t] = "loop"
        /\ mem'[t] = db.wf
    BY <1>1 DEF RunLock, RunReload, Load, Goto, OnlyThread, TypeOK
  <2> QED BY <2>1 DEF Served, CallsInv, Current, Exists
<1>2. CASE RunPause(t)
  <2>1. PausedRow(t) \in Row /\ PausedRow(t).attempt = mem[t].attempt
        /\ PausedRow(t).status = "PAUSED"
    BY DEF PausedRow, TypeOK, Row, Statuses
  <2>2. db'.wf = PausedRow(t) /\ db'.intents = db.intents
    BY <1>2, Written DEF RunPause
  <2>3. pc[t] = "loop" /\ mem[t].attempt = db.wf.attempt
    BY <1>2 DEF RunPause, CallsInv, Current
  <2> QED BY <1>2, <2>1, <2>2, <2>3, ReturnIsServed DEF RunPause
<1>3. CASE RunExit(t) \/ NodeRaise(t)
  <2>1. pc[t] # "idle" /\ UNCHANGED <<db, hist>> /\ Return(t)
    BY <1>3 DEF RunExit, NodeRaise, NodeFails, At
  <2>2. db.wf.status # "ABSENT"
    BY <2>1 DEF CallsInv, Current, Exists
  <2> QED BY <2>1, <2>2, ReturnIsServed
<1> QED BY <1>1, <1>2, <1>3 DEF Run

\* The open intent is the current attempt's, so nothing is skipped or repeated.
LEMMA CallsNumber ==
  ASSUME TypeOK, CallsInv, NEW t \in Threads, ExecuteNew(t) PROVE CallsInv'
<1> DEFINE next == [mem[t] EXCEPT !.attempt = @ + 1]
<1>1. next.attempt = mem[t].attempt + 1 /\ next.status = mem[t].status
  BY DEF TypeOK, Row
<1> HIDE DEF next
<1>2. /\ db' = [db EXCEPT !.wf = next] /\ mem' = [mem EXCEPT ![t] = next]
      /\ pc' = [pc EXCEPT ![t] = "intent"] /\ pc[t] = "loop" /\ UNCHANGED <<loc, hist>>
      /\ NothingPending
  BY DEF ExecuteNew, At, next
<1>3. db'.wf = next /\ db'.intents = db.intents
  BY <1>2, Written
<1>4. OnlyThread(t) /\ mem'[t] = next /\ pc'[t] = "intent"
  BY <1>2 DEF TypeOK, OnlyThread
<1>5. mem[t].attempt = db.wf.attempt /\ mem[t].status # "ABSENT" /\ db.wf.attempt \in Nat
  BY <1>2, Parameters DEF CallsInv, Current, TypeOK, Database, Row, Numbers
<1>6. CallsAreNumbered'
  <2>1. ASSUME NEW a \in Attempts
        PROVE  /\ ~OpenIntent(a)'
               /\ hist'.calls[a] > 0 => a <= db'.wf.attempt
               /\ db'.intents[a] = "RETRY_APPROVED" => hist'.retries[a] > 0
    <3>1. ~OpenIntent(a)'
      BY <1>2, <1>3 DEF NothingPending, OpenIntent
    <3>2. hist'.calls[a] > 0 => a <= db'.wf.attempt
      BY <1>1, <1>2, <1>3, <1>5 DEF CallsInv, CallsAreNumbered, Attempts
    <3>3. db'.intents[a] = "RETRY_APPROVED" => hist'.retries[a] > 0
      BY <1>2, <1>3 DEF CallsInv, CallsAreNumbered
    <3> QED BY <3>1, <3>2, <3>3
  <2>2. Exists'
    BY <1>1, <1>3, <1>5 DEF Exists
  <2> QED BY <2>1, <2>2 DEF CallsAreNumbered
<1>7. Current(t)'
  BY <1>1, <1>3, <1>4, <1>5 DEF Current, Exists
<1> QED BY <1>2, <1>4, <1>6, <1>7, AloneKeeps

LEMMA CallsIntent ==
  ASSUME TypeOK, CallsInv, NEW t \in Threads,
         \/ ExecuteIntent(t)
         \/ \E a \in Attempts : ExecuteApprovedRetry(t, a)
  PROVE  CallsInv'
<1>1. CASE ExecuteIntent(t)
  <2> DEFINE new == StartExecution(Attempt(t))
             b == Attempt(t)
  <2>1. /\ new.wf = db.wf
        /\ \A a \in Attempts :
             new.intents[a] = db.intents[a] \/ (a = b /\ new.intents[a] = "STARTED")
    BY DEF TypeOK, Database, StartExecution
  <2> HIDE DEF new
  <2>2. /\ OnlyThread(t) /\ pc[t] = "intent" /\ pc'[t] = "check" /\ db' = new
        /\ UNCHANGED <<mem, hist>>
    BY <1>1 DEF ExecuteIntent, Write, Goto, TypeOK, OnlyThread, new
  <2>3. b = db.wf.attempt
    BY <2>2 DEF CallsInv, Current, Attempt
  <2>4. CallsAreNumbered'
    BY <2>1, <2>2, <2>3 DEF CallsInv, CallsAreNumbered, OpenIntent, Exists
  <2>5. Current(t)'
    BY <2>1, <2>2 DEF CallsInv, Current, Exists
  <2> QED BY <2>2, <2>4, <2>5, AloneKeeps
<1>2. ASSUME NEW a \in Attempts, ExecuteApprovedRetry(t, a) PROVE CallsInv'
  <2>1. mem'[t].attempt = a /\ mem'[t].status = mem[t].status
    BY <1>2 DEF ExecuteApprovedRetry, TypeOK, Row
  <2>2. /\ OnlyThread(t) /\ pc[t] = "loop" /\ pc'[t] = "check" /\ UNCHANGED <<db, hist>>
        /\ OpenIntent(a) /\ db.intents[a] = "RETRY_APPROVED"
    BY <1>2 DEF ExecuteApprovedRetry, At, Pending, Resumable, TypeOK, OnlyThread
  <2>3. a = db.wf.attempt
    BY <2>2 DEF CallsInv, CallsAreNumbered
  <2>4. CallsAreNumbered'
    BY <2>2 DEF CallsInv, CallsAreNumbered, OpenIntent, Exists
  <2>5. Current(t)'
    BY <2>1, <2>2, <2>3 DEF CallsInv, Current, Exists
  <2> QED BY <2>2, <2>4, <2>5, AloneKeeps
<1> QED BY <1>1, <1>2

LEMMA CallsCall ==
  ASSUME TypeOK, CallsInv, NEW t \in Threads, ExecuteCall(t) PROVE CallsInv'
<1> DEFINE b == Attempt(t)
<1>1. /\ OnlyThread(t) /\ UNCHANGED <<db, mem>> /\ pc[t] = "check" /\ pc'[t] = "calling"
      /\ hist' = [hist EXCEPT !.calls[b] = @ + 1]
  BY DEF ExecuteCall, Goto, TypeOK, OnlyThread
<1>2. /\ hist'.calls = [hist.calls EXCEPT ![b] = @ + 1] /\ hist'.retries = hist.retries
  BY <1>1 DEF TypeOK
<1>3. b = db.wf.attempt /\ b \in Int
  BY <1>1, Parameters DEF CallsInv, Current, Attempt, TypeOK, Row, Numbers
<1>4. \A a \in Attempts : a # b => hist'.calls[a] = hist.calls[a]
  BY <1>2 DEF TypeOK
<1> HIDE DEF b
<1>5. CallsAreNumbered'
  <2>1. \A a \in Attempts : hist'.calls[a] > 0 => a <= db'.wf.attempt
    BY <1>1, <1>3, <1>4 DEF CallsInv, CallsAreNumbered
  <2> QED BY <1>1, <1>2, <2>1 DEF CallsInv, CallsAreNumbered, OpenIntent, Exists
<1>6. Current(t)'
  BY <1>1 DEF CallsInv, Current, Exists
<1> QED BY <1>1, <1>5, <1>6, AloneKeeps

LEMMA CallsExecute ==
  ASSUME TypeOK, CallsInv, NEW t \in Threads,
         \/ \E a \in Attempts : ExecuteUncertain(t, a)
         \/ ExecuteReuse(t) \/ DshWrite(t) \/ DshReturn(t) \/ DshRaise(t) \/ ExecuteFinish(t)
         \/ ExecuteDone(t)
  PROVE  Served(t)
<1>1. ASSUME NEW a \in Attempts, ExecuteUncertain(t, a) PROVE Served(t)
  <2> DEFINE r == [mem[t] EXCEPT !.attempt = a, !.status = "UNCERTAIN"]
  <2>1. r.attempt = a /\ r.status = "UNCERTAIN"
    BY DEF TypeOK, Row
  <2> HIDE DEF r
  <2>2. /\ OnlyThread(t) /\ UNCHANGED <<mem, hist>> /\ db' = [db EXCEPT !.wf = r]
        /\ pc[t] = "loop" /\ pc'[t] = "reload" /\ OpenIntent(a)
    BY <1>1 DEF ExecuteUncertain, At, Pending, TypeOK, OnlyThread, r
  <2>3. db'.wf = r /\ db'.intents = db.intents
    BY <2>2, Written
  <2>4. a = db.wf.attempt /\ mem[t].attempt = db.wf.attempt /\ mem[t].status # "ABSENT"
    BY <2>2 DEF CallsInv, CallsAreNumbered, Current
  <2> QED BY <2>1, <2>2, <2>3, <2>4 DEF Served, Exists
<1>2. CASE ExecuteReuse(t) \/ ExecuteFinish(t)
  <2> DEFINE new == [db EXCEPT !.intents[Attempt(t)] = "COMPLETED"]
  <2>1. new.wf = db.wf
    BY DEF TypeOK, Database
  <2>2. \A a \in Attempts : new.intents[a] \in {db.intents[a], "COMPLETED"}
    BY DEF TypeOK, Database
  <2>3. Write(t, "check", "executed", new) \/ Write(t, "finish", "executed", new)
    BY <1>2 DEF ExecuteReuse, ExecuteFinish
  <2>4. db.wf.status # "ABSENT"
    BY <2>3 DEF Write, Goto, CallsInv, Current, Exists
  <2> HIDE DEF new
  <2> QED BY <2>1, <2>2, <2>3, <2>4, WriteIsServed DEF OpenIntents
<1>3. CASE DshWrite(t)
  <2>1. OnlyThread(t) /\ UNCHANGED <<db, mem, hist>> /\ pc[t] = "calling" /\ pc'[t] = "calling"
    BY <1>3 DEF DshWrite, OnlyThread
  <2> QED BY <2>1 DEF Served, CallsInv, Current, Exists
<1>4. CASE DshReturn(t)
  <2> DEFINE new == [db EXCEPT !.attempts[Attempt(t)] = [output |-> "dsh", prep |-> NoPrepared]]
  <2>1. new.wf = db.wf /\ new.intents = db.intents
    BY DEF TypeOK, Database
  <2>2. Write(t, "calling", "finish", new)
    BY <1>4 DEF DshReturn
  <2>3. db.wf.status # "ABSENT"
    BY <2>2 DEF Write, Goto, CallsInv, Current, Exists
  <2> HIDE DEF new
  <2> QED BY <2>1, <2>2, <2>3, WriteIsServed
<1>5. CASE DshRaise(t)
  <2> DEFINE new == UnknownOutcome(t)
  <2>1. /\ new.wf.attempt = mem[t].attempt /\ new.wf.status = "UNCERTAIN"
        /\ new.intents = db.intents
    BY DEF UnknownOutcome, UncertainRow, TypeOK, Database, Row
  <2>2. Write(t, "calling", "reload", new)
    BY <1>5 DEF DshRaise
  <2>3. mem[t].attempt = db.wf.attempt
    BY <2>2 DEF Write, Goto, CallsInv, Current
  <2> HIDE DEF new
  <2> QED BY <2>1, <2>2, <2>3, WriteIsServed
<1>6. CASE ExecuteDone(t)
  <2> DEFINE new == [db EXCEPT !.wf = [mem[t] EXCEPT !.node = "VERIFY"]]
  <2>1. /\ new.wf.attempt = mem[t].attempt /\ new.wf.status = mem[t].status
        /\ new.intents = db.intents
    BY DEF TypeOK, Database, Row
  <2>2. Write(t, "executed", "reload", new)
    BY <1>6 DEF ExecuteDone
  <2>3. mem[t].attempt = db.wf.attempt /\ mem[t].status # "ABSENT"
    BY <2>2 DEF Write, Goto, CallsInv, Current
  <2> HIDE DEF new
  <2> QED BY <2>1, <2>2, <2>3, WriteIsServed
<1> QED BY <1>1, <1>2, <1>3, <1>4, <1>5, <1>6

\* The steps of a request that leave the row's attempt and the intents alone.
LEMMA KeptIsServed ==
  ASSUME TypeOK, CallsInv, NEW t \in Threads, OnlyThread(t), pc[t] # "idle", UNCHANGED hist,
         db'.wf = db.wf, db'.intents = db.intents, pc'[t] \notin {"intent", "check"},
         mem'[t].attempt = mem[t].attempt, mem'[t].status # "ABSENT"
  PROVE  Served(t)
BY DEF Served, CallsInv, Current, Exists

LEMMA CallsVerify ==
  ASSUME TypeOK, CallsInv, NEW t \in Threads, Verify(t) PROVE Served(t)
<1>1. ASSUME pc[t] # "idle" PROVE mem[t].status # "ABSENT" /\ db.wf.status # "ABSENT"
  BY <1>1 DEF CallsInv, Current, Exists
<1>2. ASSUME NEW result \in BOOLEAN, VerifyRun(t, result) PROVE Served(t)
  <2>1. OnlyThread(t) /\ pc[t] = "loop" /\ pc'[t] = "verify" /\ UNCHANGED <<db, mem, hist>>
    BY <1>2 DEF VerifyRun, At, TypeOK, OnlyThread
  <2> QED BY <1>1, <2>1, KeptIsServed
<1>3. CASE VerifyRaise(t)
  <2>1. Return(t) /\ pc[t] = "loop" /\ UNCHANGED <<db, hist>>
    BY <1>3 DEF VerifyRaise, At
  <2> QED BY <1>1, <2>1, ReturnIsServed
<1>4. CASE VerifyRecord(t) \/ VerifyPrepare(t) \/ VerifySavePrepared(t)
  <2>1. db'.wf = db.wf /\ db'.intents = db.intents
    BY <1>4 DEF VerifyRecord, VerifyPrepare, VerifySavePrepared, Write, TypeOK, Database
  <2>2. \A u \in Threads \ {t} : loc'[u] = loc[u]
    BY <1>4 DEF VerifyRecord, VerifyPrepare, VerifySavePrepared, Write, TypeOK
  <2>3. /\ OnlyThread(t) /\ UNCHANGED <<mem, hist>> /\ pc[t] # "idle"
        /\ pc'[t] \in {"gate_failed", "prepare", "gate", "prepared"}
    BY <1>4, <2>2 DEF VerifyRecord, VerifyPrepare, VerifySavePrepared, Write, Goto, TypeOK, OnlyThread
  <2> QED BY <1>1, <2>1, <2>3, KeptIsServed
<1>5. CASE VerifyReview(t) \/ VerifyExhausted(t)
  <2>1. db'.wf = db.wf /\ db'.intents = db.intents
    BY <1>5, NewRequestKeeps DEF VerifyReview, VerifyExhausted
  <2>2. /\ mem'[t].attempt = mem[t].attempt /\ mem'[t].status = "WAITING_HITL"
        /\ \A u \in Threads \ {t} : mem'[u] = mem[u]
    BY <1>5 DEF VerifyReview, VerifyExhausted, WaitForHuman, TypeOK, Row
  <2>3. OnlyThread(t) /\ UNCHANGED hist /\ pc[t] # "idle" /\ pc'[t] = "save"
    BY <1>5, <2>2 DEF VerifyReview, VerifyExhausted, Goto, TypeOK, OnlyThread
  <2> QED BY <2>1, <2>2, <2>3, KeptIsServed
<1>6. CASE VerifyAutoPromote(t) \/ VerifyRetry(t)
  <2>1. db'.wf = db.wf /\ db'.intents = db.intents
    BY <1>6 DEF VerifyAutoPromote, VerifyRetry, TypeOK, Database
  <2>2. /\ mem'[t].attempt = mem[t].attempt /\ mem'[t].status = mem[t].status
        /\ \A u \in Threads \ {t} : mem'[u] = mem[u]
    BY <1>6 DEF VerifyAutoPromote, VerifyRetry, RetryRow, TypeOK, Row
  <2>3. OnlyThread(t) /\ UNCHANGED hist /\ pc[t] # "idle" /\ pc'[t] = "save"
    BY <1>6, <2>2 DEF VerifyAutoPromote, VerifyRetry, Goto, TypeOK, OnlyThread
  <2> QED BY <1>1, <2>1, <2>2, <2>3, KeptIsServed
<1>7. CASE VerifyDone(t)
  <2>1. /\ OnlyThread(t) /\ UNCHANGED <<mem, hist>> /\ db' = WorkflowSaved(t)
        /\ pc[t] = "save" /\ pc'[t] = "reload"
    BY <1>7 DEF VerifyDone, Write, Goto, TypeOK, OnlyThread
  <2> QED BY <2>1, SaveIsServed
<1> QED BY <1>2, <1>3, <1>4, <1>5, <1>6, <1>7 DEF Verify

LEMMA CallsPromote ==
  ASSUME TypeOK, CallsInv, NEW t \in Threads, Promote(t) PROVE Served(t)
<1>1. ASSUME pc[t] # "idle" PROVE mem[t].status # "ABSENT"
  BY <1>1 DEF CallsInv, Current
<1>2. CASE PromotePlain(t) \/ PromoteTagged(t) \/ PromoteHead(t) \/ PromoteTag(t)
  <2>1. \A u \in Threads \ {t} : loc'[u] = loc[u]
    BY <1>2 DEF PromotePlain, PromoteTagged, PromoteHead, PromoteTag, TypeOK
  <2>2. /\ OnlyThread(t) /\ UNCHANGED <<db, mem, hist>> /\ pc[t] # "idle"
        /\ pc'[t] \in {"tag", "version"}
    BY <1>2, <2>1 DEF PromotePlain, PromoteTagged, PromoteHead, PromoteTag, At, Goto, TypeOK, OnlyThread
  <2> QED BY <1>1, <2>2, KeptIsServed
<1>3. CASE PromoteVersion(t)
  <2>1. db'.wf = db.wf /\ db'.intents = db.intents
    BY <1>3, Written DEF PromoteVersion
  <2>2. /\ mem'[t].attempt = mem[t].attempt /\ mem'[t].status = "COMPLETED"
        /\ \A u \in Threads \ {t} : mem'[u] = mem[u]
    BY <1>3 DEF PromoteVersion, TypeOK, Row
  <2>3. OnlyThread(t) /\ UNCHANGED hist /\ pc[t] # "idle" /\ pc'[t] = "promoted"
    BY <1>3, <2>2 DEF PromoteVersion, Goto, TypeOK, OnlyThread
  <2> QED BY <2>1, <2>2, <2>3, KeptIsServed
<1>4. CASE PromoteDone(t)
  <2>1. /\ OnlyThread(t) /\ UNCHANGED <<mem, hist>> /\ db' = WorkflowSaved(t)
        /\ pc[t] = "promoted" /\ pc'[t] = "reload"
    BY <1>4 DEF PromoteDone, Write, Goto, TypeOK, OnlyThread
  <2> QED BY <2>1, SaveIsServed
<1> QED BY <1>2, <1>3, <1>4 DEF Promote

\* A request that reads the row and changes neither its attempt nor an intent.
LEMMA BeginIsServed ==
  ASSUME MaxOverlaps = 0, TypeOK, NEW t \in Threads, NEW to, Begin(t, to), OnlyThread(t),
         Exists, to \notin {"intent", "check"}, hist'.calls = hist.calls,
         \A a \in Attempts : hist.retries[a] > 0 => hist'.retries[a] > 0,
         mem'[t].attempt = db.wf.attempt, mem'[t].status # "ABSENT",
         db'.wf = db.wf, db'.intents = db.intents
  PROVE  Served(t)
<1>1. AllIdle
  BY BeginsAlone
<1>2. pc'[t] = to
  BY DEF Begin, Goto, TypeOK
<1> QED BY <1>1, <1>2 DEF Served, Exists

LEMMA CallsPauseResume ==
  ASSUME MaxOverlaps = 0, TypeOK, CallsInv, NEW t \in Threads, PauseResume(t) PROVE Served(t)
<1>1. CASE PauseRead(t) \/ ResumeRead(t)
  <2> DEFINE p == [db.wf EXCEPT !.pause = TRUE]
             q == [db.wf EXCEPT !.pause = FALSE,
                     !.status = IF @ = "PAUSED" THEN "RUNNING" ELSE @]
  <2>1. /\ p.attempt = db.wf.attempt /\ q.attempt = db.wf.attempt
        /\ Exists => p.status # "ABSENT" /\ q.status # "ABSENT"
    BY DEF TypeOK, Database, Row, Exists
  <2>2. mem' = [mem EXCEPT ![t] = p] \/ mem' = [mem EXCEPT ![t] = q]
    BY <1>1 DEF PauseRead, ResumeRead
  <2> HIDE DEF p, q
  <2>3. /\ mem'[t].attempt = db.wf.attempt /\ (Exists => mem'[t].status # "ABSENT")
        /\ \A u \in Threads \ {t} : mem'[u] = mem[u]
    BY <2>1, <2>2 DEF TypeOK
  <2>4. /\ OnlyThread(t) /\ UNCHANGED <<db, hist>> /\ Exists
        /\ Begin(t, "pause") \/ Begin(t, "resume")
    BY <1>1, <2>3 DEF PauseRead, ResumeRead, Begin, Goto, TypeOK, OnlyThread
  <2> QED BY <2>3, <2>4, BeginIsServed
<1>2. CASE PauseSave(t)
  BY <1>2, SaveAndReturnIsServed DEF PauseSave
<1>3. CASE ResumeSave(t)
  <2>1. /\ OnlyThread(t) /\ UNCHANGED <<mem, hist>> /\ db' = WorkflowSaved(t)
        /\ pc[t] = "resume" /\ pc'[t] = "run"
    BY <1>3 DEF ResumeSave, Write, Goto, TypeOK, OnlyThread
  <2> QED BY <2>1, SaveIsServed
<1> QED BY <1>1, <1>2, <1>3 DEF PauseResume

LEMMA CallsDecideHitl ==
  ASSUME MaxOverlaps = 0, TypeOK, CallsInv, NEW t \in Threads, DecideHitl(t) PROVE Served(t)
<1>1. ASSUME NEW r, NEW a, NEW choice, NEW status \in {"RUNNING", "FAILED"}, NEW node,
             Decide(t, r, a, choice, status, node), hist'.calls = hist.calls,
             \A b \in Attempts : hist.retries[b] > 0 => hist'.retries[b] > 0
      PROVE  Served(t)
  <2>1. /\ mem'[t].attempt = db.wf.attempt /\ mem'[t].status # "ABSENT"
        /\ \A u \in Threads \ {t} : mem'[u] = mem[u]
    BY <1>1 DEF Decide, TypeOK, Database, Row
  <2>2. \A u \in Threads \ {t} : loc'[u] = loc[u]
    BY <1>1 DEF Decide, TypeOK
  <2>3. OnlyThread(t) /\ UNCHANGED db /\ Begin(t, "resolve") /\ Exists
    BY <1>1, <2>1, <2>2 DEF Decide, Begin, Goto, TypeOK, OnlyThread
  <2> QED BY <1>1, <2>1, <2>3, BeginIsServed
<1>2. CASE DecideResolve(t)
  <2> DEFINE new == [db EXCEPT !.hitl[loc[t].reason][loc[t].about].state = loc[t].choice]
  <2>1. new.wf = db.wf /\ new.intents = db.intents
    BY DEF TypeOK, Database
  <2>2. Write(t, "resolve", "decided", new)
    BY <1>2 DEF DecideResolve
  <2>3. db.wf.status # "ABSENT"
    BY <2>2 DEF Write, Goto, CallsInv, Current, Exists
  <2> HIDE DEF new
  <2> QED BY <2>1, <2>2, <2>3, WriteIsServed
<1>3. CASE DecideSave(t)
  <2>1. /\ OnlyThread(t) /\ UNCHANGED <<mem, hist>> /\ db' = WorkflowSaved(t)
        /\ pc[t] = "decided" /\ pc'[t] = "run"
    BY <1>3 DEF DecideSave, Goto, TypeOK, OnlyThread
  <2> QED BY <2>1, SaveIsServed
<1>4. ASSUME NEW r \in Reasons, NEW a \in Attempts, DecideRetry(t, r, a) PROVE Served(t)
  <2>1. \A b \in Attempts : hist.retries[b] \in Nat
    BY DEF TypeOK
  <2>2. /\ hist'.calls = hist.calls
        /\ \A b \in Attempts : hist.retries[b] > 0 => hist'.retries[b] > 0
    BY <1>4, <2>1, RetryCounted
  <2> QED BY <1>1, <1>4, <2>2 DEF DecideRetry
<1> QED BY <1>1, <1>2, <1>3, <1>4 DEF DecideHitl, DecideApprove, DecideReject

LEMMA RecoverIsCurrent ==
  ASSUME MaxOverlaps = 0, TypeOK, CallsInv, NEW t \in Threads, NEW a \in Attempts,
         NEW action, NEW to, NEW status \in {"RUNNING", "FAILED"}, NEW node,
         Recover(t, a, action, to, status, node)
  PROVE  /\ OnlyThread(t) /\ AllIdle /\ Exists /\ a = db.wf.attempt /\ pc'[t] = to
         /\ mem'[t].attempt = db.wf.attempt /\ mem'[t].status # "ABSENT"
<1>1. Exists /\ a = db.wf.attempt
  BY DEF Recover, Pending, CallsInv, CallsAreNumbered, Exists
<1>2. /\ mem'[t].attempt = db.wf.attempt /\ mem'[t].status = status
      /\ \A u \in Threads \ {t} : mem'[u] = mem[u]
  BY <1>1 DEF Recover, TypeOK, Database, Row
<1>3. \A u \in Threads \ {t} : loc'[u] = loc[u]
  BY DEF Recover, TypeOK
<1>4. OnlyThread(t) /\ AllIdle /\ pc'[t] = to
  BY <1>2, <1>3, BeginsAlone DEF Recover, Begin, Goto, TypeOK, OnlyThread
<1> QED BY <1>1, <1>2, <1>4

LEMMA CallsRecoverUncertain ==
  ASSUME MaxOverlaps = 0, TypeOK, CallsInv, NEW t \in Threads, RecoverUncertain(t)
  PROVE  CallsInv'
<1>1. ASSUME NEW a \in Attempts,
             RecoverVerifyExisting(t, a) \/ RecoverRestore(t, a) \/ RecoverAbort(t, a)
      PROVE  Served(t)
  <2>1. /\ OnlyThread(t) /\ AllIdle /\ Exists /\ pc'[t] = "close"
        /\ mem'[t].attempt = db.wf.attempt /\ mem'[t].status # "ABSENT"
    BY <1>1, RecoverIsCurrent DEF RecoverVerifyExisting, RecoverRestore, RecoverAbort
  <2>2. db'.wf = db.wf /\ db'.intents = db.intents /\ UNCHANGED hist
    BY <1>1, Written DEF RecoverVerifyExisting, RecoverRestore, RecoverAbort
  <2> QED BY <2>1, <2>2 DEF Served, Exists
<1>2. ASSUME NEW a \in Attempts, RecoverRetry(t, a) PROVE CallsInv'
  <2>1. /\ OnlyThread(t) /\ AllIdle /\ Exists /\ a = db.wf.attempt /\ pc'[t] = "recovered"
        /\ mem'[t].attempt = db.wf.attempt /\ mem'[t].status # "ABSENT"
    BY <1>2, RecoverIsCurrent DEF RecoverRetry
  <2>2. db'.wf = db.wf /\ db'.intents = [db.intents EXCEPT ![a] = "RETRY_APPROVED"]
    BY <1>2, Written DEF RecoverRetry
  <2>3. hist'.calls = hist.calls /\ hist'.retries = [hist.retries EXCEPT ![a] = @ + 1]
    BY <1>2 DEF RecoverRetry, TypeOK
  <2>4. hist'.retries[a] > 0 /\ \A b \in Attempts : hist.retries[b] > 0 => hist'.retries[b] > 0
    BY <2>3 DEF TypeOK
  <2>5. \A b \in Attempts \ {a} : db'.intents[b] = db.intents[b]
    BY <2>2 DEF TypeOK, Database
  <2>6. CallsAreNumbered'
    BY <2>1, <2>2, <2>3, <2>4, <2>5 DEF CallsInv, CallsAreNumbered, OpenIntent, Exists
  <2>7. Current(t)'
    BY <2>1, <2>2 DEF Current, Exists
  <2> QED BY <2>1, <2>6, <2>7, AloneKeeps
<1>3. CASE RecoverClose(t)
  <2> DEFINE new == [db EXCEPT !.intents[loc[t].about] = Outcome(loc[t].action)]
  <2>1. new.wf = db.wf /\ \A a \in Attempts :
          new.intents[a] = db.intents[a] \/ new.intents[a] = Outcome(loc[t].action)
    BY DEF TypeOK, Database
  <2>2. Outcome(loc[t].action) \notin OpenIntents
    BY DEF Outcome, OpenIntents
  <2>3. Write(t, "close", "recovered", new)
    BY <1>3 DEF RecoverClose
  <2>4. db.wf.status # "ABSENT"
    BY <2>3 DEF Write, Goto, CallsInv, Current, Exists
  <2> HIDE DEF new
  <2>5. \A a \in Attempts : new.intents[a] = db.intents[a] \/ new.intents[a] \notin OpenIntents
    BY <2>1, <2>2
  <2> QED BY <2>1, <2>3, <2>4, <2>5, WriteIsServed, ServedKeeps
<1>4. CASE RecoverSave(t)
  <2>1. pc[t] = "recovered"
    BY <1>4 DEF RecoverSave, Goto
  <2>2. CASE WriteAndReturn(t, WorkflowSaved(t))
    BY <2>1, <2>2, SaveAndReturnIsServed, ServedKeeps
  <2>3. CASE ~WriteAndReturn(t, WorkflowSaved(t))
    <3>1. /\ OnlyThread(t) /\ UNCHANGED <<mem, hist>> /\ db' = WorkflowSaved(t)
          /\ pc'[t] = "run"
      BY <1>4, <2>3 DEF RecoverSave, Goto, TypeOK, OnlyThread
    <3> QED BY <2>1, <3>1, SaveIsServed, ServedKeeps
  <2> QED BY <2>2, <2>3
<1> QED BY <1>1, <1>2, <1>3, <1>4, ServedKeeps DEF RecoverUncertain

LEMMA CallsRollBack ==
  ASSUME MaxOverlaps = 0, TypeOK, CallsInv, NEW t \in Threads, RollBack(t) PROVE Served(t)
<1>1. ASSUME NEW v \in VersionIds, Rollback(t, v) PROVE Served(t)
  <2>1. /\ mem'[t].attempt = db.wf.attempt /\ mem'[t].status = db.wf.status
        /\ \A u \in Threads \ {t} : mem'[u] = mem[u]
    BY <1>1 DEF Rollback, TypeOK, Database, Row
  <2>2. /\ OnlyThread(t) /\ UNCHANGED <<db, hist>> /\ Begin(t, "rollback")
        /\ db.wf.status \in {"COMPLETED", "FAILED"}
    BY <1>1, <2>1 DEF Rollback, Begin, Goto, TypeOK, OnlyThread
  <2> QED BY <2>1, <2>2, BeginIsServed DEF Exists
<1>2. CASE RollbackSave(t)
  BY <1>2, SaveAndReturnIsServed DEF RollbackSave
<1> QED BY <1>1, <1>2 DEF RollBack

LEMMA CallsInit == Init => CallsInv
<1> SUFFICES ASSUME Init PROVE CallsInv
  OBVIOUS
<1>1. \A t \in Threads : pc[t] = "idle"
  BY DEF Init
<1>2. CallsAreNumbered
  BY DEF Init, CallsAreNumbered, Exists, OpenIntent, OpenIntents, NoRow
<1> QED BY <1>1, <1>2 DEF CallsInv, Serial, Current

LEMMA CallsStep ==
  ASSUME MaxOverlaps = 0, TypeOK, CallsInv, [Next]_vars PROVE CallsInv'
<1>1. ASSUME NEW t \in Threads, Served(t) PROVE CallsInv'
  BY <1>1, ServedKeeps
<1>2. ASSUME NEW t \in Threads, ThreadStep(t) PROVE CallsInv'
  <2>1. CASE Start(t) \/ Run(t) \/ Verify(t) \/ Promote(t)
    BY <1>1, <2>1, CallsStart, CallsRun, CallsVerify, CallsPromote
  <2>2. CASE Execute(t)
    BY <1>1, <2>2, CallsExecute, CallsNumber, CallsIntent, CallsCall DEF Execute
  <2>3. CASE PauseResume(t) \/ DecideHitl(t) \/ RecoverUncertain(t) \/ RollBack(t)
    BY <1>1, <2>3, CallsPauseResume, CallsDecideHitl, CallsRecoverUncertain, CallsRollBack
  <2> QED BY <1>2, <2>1, <2>2, <2>3 DEF ThreadStep
<1>3. CASE Crash
  <2>1. UNCHANGED <<db, hist>> /\ \A t \in Threads : pc'[t] = "idle"
    BY <1>3 DEF Crash
  <2>2. CallsAreNumbered'
    BY <2>1 DEF CallsInv, CallsAreNumbered, Exists, OpenIntent
  <2> QED BY <2>1, <2>2 DEF CallsInv, Serial, Current
<1>4. CASE OutsideEdit \/ Overwrite \/ UNCHANGED vars
  <2>1. UNCHANGED <<db, pc, mem, hist>>
    BY <1>4 DEF OutsideEdit, Overwrite, vars
  <2> QED BY <2>1 DEF CallsInv, Serial, CallsAreNumbered, Current, Exists, OpenIntent
<1> QED BY <1>2, <1>3, <1>4 DEF Next

-----------------------------------------------------------------------------
(* What each step does to the tables and to the locals of its thread.      *)

Stands(x, status, node) == x.status = status /\ x.node = node

\* Thread t goes from one point to another; if it begins a request it is alone.
Steps(t, from, to) ==
  OnlyThread(t) /\ pc[t] = from /\ pc'[t] = to /\ (from = "idle" => AllIdle)

\* All tables but the one of workflows; with that one.
KeepsTables(new) ==
  /\ new.contract = db.contract /\ new.attempts = db.attempts /\ new.intents = db.intents
  /\ new.proposals = db.proposals /\ new.hitl = db.hitl /\ new.versions = db.versions
KeepsRows(new) == new.wf = db.wf /\ KeepsTables(new)

\* Rows x and y are about the same attempt and the same pause request.
SameWork(x, y) == x.attempt = y.attempt /\ x.pause = y.pause

LEMMA RowWritten ==
  ASSUME TypeOK, NEW x, db' = [db EXCEPT !.wf = x]
  PROVE  db'.wf = x /\ KeepsTables(db')
BY DEF TypeOK, Database, KeepsTables

LEMMA WriteSteps ==
  ASSUME TypeOK, NEW t \in Threads, NEW from, from # "idle", NEW to, NEW new,
         Write(t, from, to, new)
  PROVE  Steps(t, from, to) /\ db' = new /\ UNCHANGED <<git, mem, loc>>
BY DEF TypeOK, Write, Goto, Steps, OnlyThread

LEMMA SaveSteps ==
  ASSUME TypeOK, NEW t \in Threads, NEW from, from # "idle", NEW to,
         Write(t, from, to, WorkflowSaved(t))
  PROVE  /\ Steps(t, from, to) /\ UNCHANGED <<git, mem, loc>>
         /\ db'.wf = mem[t] /\ KeepsTables(db')
BY WriteSteps, RowWritten DEF WorkflowSaved

LEMMA ReturnSteps ==
  ASSUME TypeOK, NEW t \in Threads, pc[t] # "idle", Return(t)
  PROVE  Steps(t, pc[t], "idle")
BY DEF TypeOK, Return, Steps, OnlyThread

LEMMA SaveReturns ==
  ASSUME TypeOK, NEW t \in Threads, pc[t] # "idle", WriteAndReturn(t, WorkflowSaved(t))
  PROVE  Steps(t, pc[t], "idle") /\ UNCHANGED git /\ db'.wf = mem[t] /\ KeepsTables(db')
BY ReturnSteps, RowWritten DEF WriteAndReturn, WorkflowSaved

LEMMA CreateDoes ==
  ASSUME MaxOverlaps = 0, TypeOK, NEW t \in Threads, NEW c \in Contracts, StartCreate(t, c)
  PROVE  /\ Steps(t, "idle", "contract") /\ ~Exists /\ UNCHANGED git
         /\ mem'[t] = NewRow /\ loc'[t].acceptance = c
         /\ db'.wf = NewRow /\ KeepsTables(db')
<1>1. loc'[t].acceptance = c /\ OnlyThread(t) /\ mem'[t] = NewRow
  BY DEF StartCreate, Begin, Goto, TypeOK, Locals, OnlyThread
<1>2. Steps(t, "idle", "contract")
  BY <1>1, BeginsAlone DEF StartCreate, Begin, Goto, TypeOK, Steps
<1> QED BY <1>1, <1>2, RowWritten DEF StartCreate

LEMMA ContractDoes ==
  ASSUME TypeOK, NEW t \in Threads, StartContract(t)
  PROVE  /\ Steps(t, "contract", "baseline") \/ Steps(t, "contract", "run")
         /\ UNCHANGED <<git, mem, loc>> /\ db'.contract = loc[t].acceptance
         /\ db'.wf = db.wf /\ db'.attempts = db.attempts /\ db'.intents = db.intents
         /\ db'.proposals = db.proposals /\ db'.hitl = db.hitl /\ db'.versions = db.versions
<1>1. db' = [db EXCEPT !.contract = loc[t].acceptance]
  BY DEF StartContract, Write
<1>2. /\ db'.contract = loc[t].acceptance
      /\ db'.wf = db.wf /\ db'.attempts = db.attempts /\ db'.intents = db.intents
      /\ db'.proposals = db.proposals /\ db'.hitl = db.hitl /\ db'.versions = db.versions
  BY <1>1 DEF TypeOK, Database
<1> QED BY <1>2, WriteSteps DEF StartContract

LEMMA BaselineDoes ==
  ASSUME TypeOK, NEW t \in Threads, StartBaseline(t)
  PROVE  /\ Steps(t, "baseline", "started") /\ UNCHANGED <<git, loc>>
         /\ SameWork(mem'[t], mem[t]) /\ Stands(mem'[t], mem[t].status, mem[t].node)
         /\ db'.versions = [db.versions EXCEPT ![0] = [exists |-> TRUE, commit |-> BaseCommit]]
         /\ db'.wf = db.wf /\ db'.attempts = db.attempts /\ db'.intents = db.intents
         /\ db'.proposals = db.proposals /\ db'.hitl = db.hitl /\ db'.contract = db.contract
<1>1. db' = [db EXCEPT !.versions[0] = [exists |-> TRUE, commit |-> BaseCommit]]
  BY DEF StartBaseline
<1>2. /\ db'.versions = [db.versions EXCEPT ![0] = [exists |-> TRUE, commit |-> BaseCommit]]
      /\ db'.wf = db.wf /\ db'.attempts = db.attempts /\ db'.intents = db.intents
      /\ db'.proposals = db.proposals /\ db'.hitl = db.hitl /\ db'.contract = db.contract
  BY <1>1 DEF TypeOK, Database
<1>3. SameWork(mem'[t], mem[t]) /\ Stands(mem'[t], mem[t].status, mem[t].node)
  BY DEF StartBaseline, TypeOK, Row, SameWork, Stands
<1>4. Steps(t, "baseline", "started") /\ UNCHANGED <<git, loc>>
  BY DEF StartBaseline, Goto, TypeOK, Steps, OnlyThread
<1> QED BY <1>2, <1>3, <1>4

LEMMA LoadDoes ==
  ASSUME TypeOK, NEW t \in Threads, RunLock(t) \/ RunReload(t)
  PROVE  /\ Steps(t, "run", "loop") \/ Steps(t, "reload", "loop")
         /\ mem'[t] = db.wf /\ loc'[t].acceptance = db.contract /\ UNCHANGED <<db, git>>
BY DEF RunLock, RunReload, Load, Goto, TypeOK, NoLocals, Steps, OnlyThread

LEMMA PauseDoes ==
  ASSUME TypeOK, NEW t \in Threads, RunPause(t)
  PROVE  /\ Steps(t, "loop", "idle") /\ mem[t].status = "RUNNING" /\ UNCHANGED git
         /\ SameWork(db'.wf, mem[t]) /\ Stands(db'.wf, "PAUSED", mem[t].node)
         /\ KeepsTables(db')
<1>1. SameWork(PausedRow(t), mem[t]) /\ Stands(PausedRow(t), "PAUSED", mem[t].node)
  BY DEF PausedRow, TypeOK, Row, SameWork, Stands
<1>2. db'.wf = PausedRow(t) /\ KeepsTables(db')
  BY RowWritten DEF RunPause
<1> QED BY <1>1, <1>2, ReturnSteps DEF RunPause

\* Where a node raises; at the last three only if its spec is not available.
Failing == {"loop", "prepare", "gate", "gate_failed", "executed", "save", "promoted"}

LEMMA RaiseDoes ==
  ASSUME TypeOK, NEW t \in Threads, RunExit(t) \/ NodeRaise(t) \/ VerifyRaise(t)
  PROVE  /\ UNCHANGED <<db, git>>
         /\ \E from \in Failing : Steps(t, from, "idle")
         /\ SpecAvailable =>
              \E from \in {"loop", "prepare", "gate", "gate_failed"} : Steps(t, from, "idle")
<1>1. /\ pc[t] \in Failing
      /\ SpecAvailable => pc[t] \in {"loop", "prepare", "gate", "gate_failed"}
  BY DEF RunExit, VerifyRaise, NodeRaise, NodeFails, At, Failing
<1> QED BY <1>1, ReturnSteps DEF RunExit, NodeRaise, VerifyRaise, Failing

LEMMA UncertainDoes ==
  ASSUME TypeOK, NEW t \in Threads, NEW a \in Attempts, ExecuteUncertain(t, a)
  PROVE  /\ Steps(t, "loop", "reload") /\ UNCHANGED <<git, mem, loc>>
         /\ Stands(mem[t], "RUNNING", "AGENT_EXECUTE") /\ Pending(a) /\ db.intents[a] = "STARTED"
         /\ db'.wf.pause = mem[t].pause /\ db'.wf.attempt = a
         /\ Stands(db'.wf, "UNCERTAIN", mem[t].node) /\ KeepsTables(db')
<1> DEFINE x == [mem[t] EXCEPT !.attempt = a, !.status = "UNCERTAIN"]
<1>1. x.pause = mem[t].pause /\ x.attempt = a /\ Stands(x, "UNCERTAIN", mem[t].node)
  BY DEF TypeOK, Row, Stands
<1>2. db' = [db EXCEPT !.wf = x]
  BY DEF ExecuteUncertain
<1> HIDE DEF x
<1>3. db'.wf = x /\ KeepsTables(db')
  BY <1>2, RowWritten
<1>4. /\ Steps(t, "loop", "reload") /\ UNCHANGED <<git, mem, loc>>
      /\ Stands(mem[t], "RUNNING", "AGENT_EXECUTE") /\ Pending(a) /\ db.intents[a] = "STARTED"
  BY DEF ExecuteUncertain, At, Stands, TypeOK, Steps, OnlyThread
<1> QED BY <1>1, <1>3, <1>4

LEMMA ApprovedRetryDoes ==
  ASSUME TypeOK, NEW t \in Threads, NEW a \in Attempts, ExecuteApprovedRetry(t, a)
  PROVE  /\ Steps(t, "loop", "check") /\ UNCHANGED <<db, git, loc>>
         /\ Stands(mem[t], "RUNNING", "AGENT_EXECUTE") /\ Pending(a) /\ Resumable(a)
         /\ mem'[t] = [mem[t] EXCEPT !.attempt = a]
BY DEF ExecuteApprovedRetry, At, Stands, TypeOK, Steps, OnlyThread

LEMMA NewDoes ==
  ASSUME TypeOK, NEW t \in Threads, ExecuteNew(t)
  PROVE  /\ Steps(t, "loop", "intent") /\ UNCHANGED <<git, loc>> /\ NothingPending
         /\ Stands(mem[t], "RUNNING", "AGENT_EXECUTE") /\ Attempt(t) < AttemptCap
         /\ mem'[t] = db'.wf /\ db'.wf.attempt = Attempt(t) + 1 /\ db'.wf.pause = mem[t].pause
         /\ Stands(db'.wf, "RUNNING", "AGENT_EXECUTE") /\ KeepsTables(db')
<1> DEFINE x == [mem[t] EXCEPT !.attempt = @ + 1]
<1>1. x.pause = mem[t].pause /\ x.attempt = Attempt(t) + 1 /\ Stands(x, mem[t].status, mem[t].node)
  BY DEF TypeOK, Row, Stands, Attempt
<1>2. db' = [db EXCEPT !.wf = x] /\ mem' = [mem EXCEPT ![t] = x]
  BY DEF ExecuteNew
<1> HIDE DEF x
<1>3. db'.wf = x /\ KeepsTables(db') /\ mem'[t] = x /\ \A u \in Threads \ {t} : mem'[u] = mem[u]
  BY <1>2, RowWritten DEF TypeOK
<1>4. /\ Steps(t, "loop", "intent") /\ UNCHANGED <<git, loc>> /\ NothingPending
      /\ mem[t].status = "RUNNING" /\ mem[t].node = "AGENT_EXECUTE" /\ Attempt(t) < AttemptCap
  BY <1>3 DEF ExecuteNew, At, TypeOK, Steps, OnlyThread
<1> QED BY <1>1, <1>3, <1>4 DEF Stands

\* Only the table of intents was written.
KeepsButIntents ==
  /\ db'.wf = db.wf /\ db'.contract = db.contract /\ db'.attempts = db.attempts
  /\ db'.proposals = db.proposals /\ db'.hitl = db.hitl /\ db'.versions = db.versions
KeepsButAttempts ==
  /\ db'.wf = db.wf /\ db'.contract = db.contract /\ db'.intents = db.intents
  /\ db'.proposals = db.proposals /\ db'.hitl = db.hitl /\ db'.versions = db.versions

LEMMA IntentDoes ==
  ASSUME TypeOK, NEW t \in Threads, ExecuteIntent(t)
  PROVE  /\ Steps(t, "intent", "check") /\ UNCHANGED <<git, mem, loc>> /\ KeepsButIntents
         /\ \A a \in Attempts :
              db'.intents[a] = IF a = Attempt(t) /\ db.intents[a] = "NONE" THEN "STARTED"
                                                                          ELSE db.intents[a]
<1>1. db' = StartExecution(Attempt(t))
  BY DEF ExecuteIntent, Write
<1>2. KeepsButIntents
  BY <1>1 DEF TypeOK, Database, StartExecution, KeepsButIntents
<1>3. \A a \in Attempts :
        db'.intents[a] = IF a = Attempt(t) /\ db.intents[a] = "NONE" THEN "STARTED"
                                                                    ELSE db.intents[a]
  BY <1>1 DEF TypeOK, Database, StartExecution
<1> QED BY <1>2, <1>3, WriteSteps DEF ExecuteIntent

LEMMA CallDoes ==
  ASSUME TypeOK, NEW t \in Threads, ExecuteCall(t)
  PROVE  Steps(t, "check", "calling") /\ UNCHANGED <<db, git, mem, loc>>
BY DEF ExecuteCall, Goto, TypeOK, Steps, OnlyThread

LEMMA FinishDoes ==
  ASSUME TypeOK, NEW t \in Threads, ExecuteReuse(t) \/ ExecuteFinish(t)
  PROVE  /\ \/ Steps(t, "check", "executed") /\ HasAttempt(Attempt(t))
            \/ Steps(t, "finish", "executed")
         /\ UNCHANGED <<git, mem, loc>> /\ KeepsButIntents
         /\ \A a \in Attempts :
              db'.intents[a] = IF a = Attempt(t) THEN "COMPLETED" ELSE db.intents[a]
<1>1. db' = [db EXCEPT !.intents[Attempt(t)] = "COMPLETED"]
  BY DEF ExecuteReuse, ExecuteFinish, Write
<1>2. KeepsButIntents
  BY <1>1 DEF TypeOK, Database, KeepsButIntents
<1>3. \A a \in Attempts : db'.intents[a] = IF a = Attempt(t) THEN "COMPLETED" ELSE db.intents[a]
  BY <1>1 DEF TypeOK, Database
<1> QED BY <1>2, <1>3, WriteSteps DEF ExecuteReuse, ExecuteFinish

LEMMA DshWriteDoes ==
  ASSUME TypeOK, NEW t \in Threads, DshWrite(t)
  PROVE  /\ Steps(t, "calling", "calling") /\ UNCHANGED <<db, mem, loc>>
         /\ git'.head = git.head /\ git'.tags = git.tags
BY DEF DshWrite, StageAll, TypeOK, Worktree, Steps, OnlyThread

LEMMA DshReturnDoes ==
  ASSUME TypeOK, NEW t \in Threads, DshReturn(t)
  PROVE  /\ Steps(t, "calling", "finish") /\ UNCHANGED <<git, mem, loc>> /\ KeepsButAttempts
         /\ \A a \in Attempts :
              db'.attempts[a] = IF a = Attempt(t) THEN [output |-> "dsh", prep |-> NoPrepared]
                                                  ELSE db.attempts[a]
<1>1. db' = [db EXCEPT !.attempts[Attempt(t)] = [output |-> "dsh", prep |-> NoPrepared]]
  BY DEF DshReturn, Write
<1>2. KeepsButAttempts
  BY <1>1 DEF TypeOK, Database, KeepsButAttempts
<1>3. \A a \in Attempts :
        db'.attempts[a] = IF a = Attempt(t) THEN [output |-> "dsh", prep |-> NoPrepared]
                                            ELSE db.attempts[a]
  BY <1>1 DEF TypeOK, Database
<1> QED BY <1>2, <1>3, WriteSteps DEF DshReturn

LEMMA DshRaiseDoes ==
  ASSUME TypeOK, NEW t \in Threads, DshRaise(t)
  PROVE  /\ Steps(t, "calling", "reload") /\ UNCHANGED <<git, mem, loc>>
         /\ SameWork(db'.wf, mem[t]) /\ Stands(db'.wf, "UNCERTAIN", mem[t].node)
         /\ KeepsTables(db')
<1>1. SameWork(UncertainRow(t), mem[t]) /\ Stands(UncertainRow(t), "UNCERTAIN", mem[t].node)
  BY DEF UncertainRow, TypeOK, Row, SameWork, Stands
<1>2. db' = [db EXCEPT !.wf = UncertainRow(t)]
  BY DEF DshRaise, UnknownOutcome, Write
<1> QED BY <1>1, <1>2, RowWritten, WriteSteps DEF DshRaise

LEMMA DoneDoes ==
  ASSUME TypeOK, NEW t \in Threads, ExecuteDone(t)
  PROVE  /\ Steps(t, "executed", "reload") /\ UNCHANGED <<git, mem, loc>>
         /\ SameWork(db'.wf, mem[t]) /\ Stands(db'.wf, mem[t].status, "VERIFY")
         /\ KeepsTables(db')
<1> DEFINE x == [mem[t] EXCEPT !.node = "VERIFY"]
<1>1. SameWork(x, mem[t]) /\ Stands(x, mem[t].status, "VERIFY")
  BY DEF TypeOK, Row, SameWork, Stands
<1>2. db' = [db EXCEPT !.wf = x]
  BY DEF ExecuteDone, Write
<1> HIDE DEF x
<1> QED BY <1>1, <1>2, RowWritten, WriteSteps DEF ExecuteDone

LEMMA VerifyRunDoes ==
  ASSUME TypeOK, NEW t \in Threads, NEW result \in BOOLEAN, VerifyRun(t, result)
  PROVE  /\ Steps(t, "loop", "verify") /\ UNCHANGED <<db, git, mem>>
         /\ Stands(mem[t], "RUNNING", "VERIFY") /\ loc'[t].acceptance = loc[t].acceptance
<1>1. loc'[t].acceptance = loc[t].acceptance /\ \A u \in Threads \ {t} : loc'[u] = loc[u]
  BY DEF VerifyRun, TypeOK, Locals
<1> QED BY <1>1 DEF VerifyRun, At, Stands, TypeOK, Steps, OnlyThread

LEMMA RecordDoes ==
  ASSUME TypeOK, NEW t \in Threads, VerifyRecord(t)
  PROVE  /\ UNCHANGED <<git, mem, loc>> /\ KeepsRows(db')
         /\ \/ Steps(t, "verify", "gate_failed")
            \/ Steps(t, "verify", "prepare") /\ Kind(t) = "git"
            \/ Steps(t, "verify", "gate") /\ Kind(t) # "git"
<1>1. KeepsRows(db')
  BY DEF VerifyRecord, TypeOK, Database, KeepsRows, KeepsTables
<1> QED BY <1>1 DEF VerifyRecord, Goto, TypeOK, Steps, OnlyThread

LEMMA PrepareDoes ==
  ASSUME TypeOK, NEW t \in Threads, VerifyPrepare(t)
  PROVE  /\ Steps(t, "prepare", "prepared") /\ UNCHANGED <<db, mem>>
         /\ git'.head = git.head /\ git'.tags = git.tags /\ git'.work = git.work
         /\ loc'[t].acceptance = loc[t].acceptance
         /\ loc'[t].prep.commit = [att |-> Attempt(t), tree |-> git.work]
<1>1. /\ loc'[t].acceptance = loc[t].acceptance /\ loc'[t].prep = PreparedCandidate(git, Attempt(t))
      /\ \A u \in Threads \ {t} : loc'[u] = loc[u]
  BY DEF VerifyPrepare, TypeOK, Locals
<1>2. git'.head = git.head /\ git'.tags = git.tags /\ git'.work = git.work
  BY DEF VerifyPrepare, StageAll, TypeOK, Worktree
<1>3. Steps(t, "prepare", "prepared") /\ UNCHANGED <<db, mem>>
  BY <1>1 DEF VerifyPrepare, Goto, TypeOK, Steps, OnlyThread
<1> QED BY <1>1, <1>2, <1>3 DEF PreparedCandidate

LEMMA SavePreparedDoes ==
  ASSUME TypeOK, NEW t \in Threads, VerifySavePrepared(t)
  PROVE  /\ Steps(t, "prepared", "gate") /\ UNCHANGED <<git, mem, loc>> /\ KeepsButAttempts
         /\ \A a \in Attempts :
              /\ db'.attempts[a].output = db.attempts[a].output
              /\ db'.attempts[a].prep = IF a = Attempt(t) THEN loc[t].prep ELSE db.attempts[a].prep
<1>1. db' = [db EXCEPT !.attempts[Attempt(t)].prep = loc[t].prep]
  BY DEF VerifySavePrepared, Write
<1>2. KeepsButAttempts
  BY <1>1 DEF TypeOK, Database, KeepsButAttempts
<1>3. \A a \in Attempts :
        /\ db'.attempts[a].output = db.attempts[a].output
        /\ db'.attempts[a].prep = IF a = Attempt(t) THEN loc[t].prep ELSE db.attempts[a].prep
  BY <1>1 DEF TypeOK, Database, AttemptRow
<1> QED BY <1>2, <1>3, WriteSteps DEF VerifySavePrepared

\* Only the table of human requests, or that of proposals, was written.
KeepsButHitl ==
  /\ db'.wf = db.wf /\ db'.contract = db.contract /\ db'.intents = db.intents
  /\ db'.proposals = db.proposals /\ db'.attempts = db.attempts /\ db'.versions = db.versions
KeepsButProposals ==
  /\ db'.wf = db.wf /\ db'.contract = db.contract /\ db'.intents = db.intents
  /\ db'.hitl = db.hitl /\ db'.attempts = db.attempts /\ db'.versions = db.versions

LEMMA RequestDoes ==
  ASSUME TypeOK, NEW r \in Reasons, NEW a, NEW fp, NewRequest(r, a, fp)
  PROVE  /\ KeepsButHitl /\ db.hitl[r][a].state = "absent"
         /\ \A s \in Reasons, b \in Attempts :
              db'.hitl[s][b] = IF s = r /\ b = a
                               THEN [state |-> "open", fp |-> fp, created |-> db.clock]
                               ELSE db.hitl[s][b]
<1>1. KeepsButHitl
  BY DEF NewRequest, TypeOK, Database, KeepsButHitl
<1>2. \A s \in Reasons, b \in Attempts :
        db'.hitl[s][b] = IF s = r /\ b = a
                         THEN [state |-> "open", fp |-> fp, created |-> db.clock]
                         ELSE db.hitl[s][b]
  BY DEF NewRequest, TypeOK, Database
<1> QED BY <1>1, <1>2 DEF NewRequest

LEMMA WaitDoes ==
  ASSUME TypeOK, NEW t \in Threads, WaitForHuman(t)
  PROVE  /\ SameWork(mem'[t], mem[t]) /\ Stands(mem'[t], "WAITING_HITL", "WAIT_HITL")
         /\ \A u \in Threads \ {t} : mem'[u] = mem[u]
BY DEF WaitForHuman, TypeOK, Row, SameWork, Stands

LEMMA ReviewDoes ==
  ASSUME TypeOK, NEW t \in Threads, VerifyReview(t)
  PROVE  /\ Steps(t, "gate", "save") /\ UNCHANGED <<git, loc>> /\ Approval(t)
         /\ SameWork(mem'[t], mem[t]) /\ Stands(mem'[t], "WAITING_HITL", "WAIT_HITL")
         /\ \E fp : /\ NewRequest("promotion_review", Attempt(t), fp)
                    /\ Kind(t) = "git" => fp.work = git.work
<1>1. Steps(t, "gate", "save") /\ UNCHANGED <<git, loc>> /\ Approval(t)
  BY WaitDoes DEF VerifyReview, Goto, TypeOK, Steps, OnlyThread
<1>2. \E fp : /\ NewRequest("promotion_review", Attempt(t), fp)
              /\ Kind(t) = "git" => fp.work = git.work
  BY DEF VerifyReview, CandidateFingerprint
<1> QED BY <1>1, <1>2, WaitDoes DEF VerifyReview

LEMMA ExhaustedDoes ==
  ASSUME TypeOK, NEW t \in Threads, VerifyExhausted(t)
  PROVE  /\ Steps(t, "gate_failed", "save") /\ UNCHANGED <<git, loc>>
         /\ SameWork(mem'[t], mem[t]) /\ Stands(mem'[t], "WAITING_HITL", "WAIT_HITL")
         /\ NewRequest("max_attempts_reached", Attempt(t), NoFingerprint)
<1>1. Steps(t, "gate_failed", "save") /\ UNCHANGED <<git, loc>>
  BY WaitDoes DEF VerifyExhausted, Goto, TypeOK, Steps, OnlyThread
<1> QED BY <1>1, WaitDoes DEF VerifyExhausted

LEMMA AutoPromoteDoes ==
  ASSUME TypeOK, NEW t \in Threads, VerifyAutoPromote(t)
  PROVE  /\ Steps(t, "gate", "save") /\ UNCHANGED <<db, git, loc>> /\ ~Approval(t)
         /\ SameWork(mem'[t], mem[t]) /\ Stands(mem'[t], mem[t].status, "VERSION_PROMOTE")
<1>1. /\ SameWork(mem'[t], mem[t]) /\ Stands(mem'[t], mem[t].status, "VERSION_PROMOTE")
      /\ \A u \in Threads \ {t} : mem'[u] = mem[u]
  BY DEF VerifyAutoPromote, TypeOK, Row, SameWork, Stands
<1> QED BY <1>1 DEF VerifyAutoPromote, Goto, TypeOK, Steps, OnlyThread

LEMMA RetryDoes ==
  ASSUME TypeOK, NEW t \in Threads, VerifyRetry(t)
  PROVE  /\ Steps(t, "gate_failed", "save") /\ UNCHANGED <<git, loc>> /\ BudgetLeft(Attempt(t))
         /\ SameWork(mem'[t], mem[t]) /\ Stands(mem'[t], mem[t].status, "AGENT_EXECUTE")
         /\ KeepsButProposals /\ db'.proposals = db.proposals \cup {Attempt(t)}
<1>1. /\ SameWork(mem'[t], mem[t]) /\ Stands(mem'[t], mem[t].status, "AGENT_EXECUTE")
      /\ \A u \in Threads \ {t} : mem'[u] = mem[u]
  BY DEF VerifyRetry, RetryRow, TypeOK, Row, SameWork, Stands
<1>2. KeepsButProposals /\ db'.proposals = db.proposals \cup {Attempt(t)}
  BY DEF VerifyRetry, TypeOK, Database, KeepsButProposals
<1> QED BY <1>1, <1>2 DEF VerifyRetry, Goto, TypeOK, Steps, OnlyThread

\* The steps that save the row they have worked out.
LEMMA SaveDoes ==
  ASSUME TypeOK, NEW t \in Threads,
         \/ StartSave(t) \/ VerifyDone(t) \/ PromoteDone(t) \/ PauseSave(t) \/ ResumeSave(t)
         \/ DecideSave(t) \/ RecoverSave(t) \/ RollbackSave(t)
  PROVE  /\ db'.wf = mem[t] /\ KeepsTables(db') /\ UNCHANGED git
         /\ \/ /\ UNCHANGED <<mem, loc>>
               /\ \/ Steps(t, "started", "run") \/ Steps(t, "resume", "run")
                  \/ Steps(t, "decided", "run")
                  \/ Steps(t, "recovered", "run")
                  \/ Steps(t, "save", "reload") \/ Steps(t, "promoted", "reload")
            \/ Steps(t, "pause", "idle") \/ Steps(t, "rollback", "idle")
            \/ Steps(t, "recovered", "idle")
<1>1. CASE StartSave(t) \/ VerifyDone(t) \/ PromoteDone(t) \/ ResumeSave(t)
  BY <1>1, SaveSteps DEF StartSave, VerifyDone, PromoteDone, ResumeSave
<1>2. CASE PauseSave(t) \/ RollbackSave(t)
  BY <1>2, SaveReturns DEF PauseSave, RollbackSave
<1>3. ASSUME NEW from \in {"decided", "recovered"}, Goto(t, from, "run"), db' = WorkflowSaved(t),
             UNCHANGED <<git, mem, loc>>
      PROVE  /\ Steps(t, from, "run") /\ UNCHANGED <<git, mem, loc>>
             /\ db'.wf = mem[t] /\ KeepsTables(db')
  BY <1>3, RowWritten DEF WorkflowSaved, Goto, TypeOK, Steps, OnlyThread
<1>4. CASE DecideSave(t) \/ RecoverSave(t)
  BY <1>3, <1>4, SaveReturns DEF DecideSave, RecoverSave
<1> QED BY <1>1, <1>2, <1>4

LEMMA PromoteKnownDoes ==
  ASSUME TypeOK, NEW t \in Threads, PromotePlain(t) \/ PromoteTagged(t)
  PROVE  /\ Steps(t, "loop", "version") /\ UNCHANGED <<db, git, mem>>
         /\ Stands(mem[t], "RUNNING", "VERSION_PROMOTE")
         /\ loc'[t].acceptance = loc[t].acceptance
<1>1. loc'[t].acceptance = loc[t].acceptance /\ \A u \in Threads \ {t} : loc'[u] = loc[u]
  BY DEF PromotePlain, PromoteTagged, TypeOK, Locals
<1> QED BY <1>1 DEF PromotePlain, PromoteTagged, At, Stands, TypeOK, Steps, OnlyThread

LEMMA PromoteHeadDoes ==
  ASSUME TypeOK, NEW t \in Threads, PromoteHead(t)
  PROVE  /\ Steps(t, "loop", "tag") /\ UNCHANGED <<db, mem>> /\ Kind(t) = "git"
         /\ Stands(mem[t], "RUNNING", "VERSION_PROMOTE")
         /\ loc'[t].acceptance = loc[t].acceptance /\ loc'[t].prep = Candidate(t)
         /\ git'.head = Candidate(t).commit /\ git'.tags = git.tags
<1>1. /\ loc'[t].acceptance = loc[t].acceptance /\ loc'[t].prep = Candidate(t)
      /\ \A u \in Threads \ {t} : loc'[u] = loc[u]
  BY DEF PromoteHead, TypeOK, Locals
<1>2. git'.head = Candidate(t).commit /\ git'.tags = git.tags
  BY DEF PromoteHead, TypeOK, Worktree
<1> QED BY <1>1, <1>2 DEF PromoteHead, At, Stands, TypeOK, Steps, OnlyThread

LEMMA TagDoes ==
  ASSUME TypeOK, NEW t \in Threads, PromoteTag(t)
  PROVE  /\ Steps(t, "tag", "version") /\ UNCHANGED <<db, mem, loc>> /\ git'.head = git.head
         /\ \A a \in Attempts :
              git'.tags[a] = IF a = Attempt(t) THEN loc[t].prep.commit ELSE git.tags[a]
<1>1. /\ git'.head = git.head
      /\ \A a \in Attempts :
           git'.tags[a] = IF a = Attempt(t) THEN loc[t].prep.commit ELSE git.tags[a]
  BY DEF PromoteTag, TypeOK, Worktree
<1> QED BY <1>1 DEF PromoteTag, Goto, TypeOK, Steps, OnlyThread

KeepsButVersions ==
  /\ db'.wf = db.wf /\ db'.contract = db.contract /\ db'.intents = db.intents
  /\ db'.hitl = db.hitl /\ db'.attempts = db.attempts /\ db'.proposals = db.proposals

LEMMA VersionDoes ==
  ASSUME TypeOK, NEW t \in Threads, PromoteVersion(t)
  PROVE  /\ Steps(t, "version", "promoted") /\ UNCHANGED <<git, loc>> /\ KeepsButVersions
         /\ SameWork(mem'[t], mem[t]) /\ Stands(mem'[t], "COMPLETED", "COMPLETED")
         /\ \A v \in VersionIds : db'.versions[v] =
              IF v = Attempt(t) THEN [exists |-> TRUE, commit |-> loc[t].prep.commit]
                                ELSE db.versions[v]
<1>1. KeepsButVersions
  BY DEF PromoteVersion, TypeOK, Database, KeepsButVersions
<1>2. \A v \in VersionIds : db'.versions[v] =
        IF v = Attempt(t) THEN [exists |-> TRUE, commit |-> loc[t].prep.commit]
                          ELSE db.versions[v]
  BY DEF PromoteVersion, TypeOK, Database
<1>3. /\ SameWork(mem'[t], mem[t]) /\ Stands(mem'[t], "COMPLETED", "COMPLETED")
      /\ \A u \in Threads \ {t} : mem'[u] = mem[u]
  BY DEF PromoteVersion, TypeOK, Row, SameWork, Stands
<1>4. Steps(t, "version", "promoted") /\ UNCHANGED <<git, loc>>
  BY <1>3 DEF PromoteVersion, Goto, TypeOK, Steps, OnlyThread
<1> QED BY <1>1, <1>2, <1>3, <1>4

LEMMA PauseReadDoes ==
  ASSUME MaxOverlaps = 0, TypeOK, NEW t \in Threads, PauseRead(t)
  PROVE  /\ Steps(t, "idle", "pause") /\ Exists /\ UNCHANGED <<db, git>>
         /\ Stands(mem'[t], db.wf.status, db.wf.node)
         /\ mem'[t].attempt = db.wf.attempt /\ mem'[t].pause = TRUE
<1>1. /\ Stands(mem'[t], db.wf.status, db.wf.node)
      /\ mem'[t].attempt = db.wf.attempt /\ mem'[t].pause = TRUE
      /\ \A u \in Threads \ {t} : mem'[u] = mem[u]
  BY DEF PauseRead, TypeOK, Database, Row, Stands
<1>2. Steps(t, "idle", "pause") /\ Exists /\ UNCHANGED <<db, git>>
  BY <1>1, BeginsAlone DEF PauseRead, Begin, Goto, TypeOK, Steps, OnlyThread
<1> QED BY <1>1, <1>2

LEMMA ResumeReadDoes ==
  ASSUME MaxOverlaps = 0, TypeOK, NEW t \in Threads, ResumeRead(t)
  PROVE  /\ Steps(t, "idle", "resume") /\ Exists /\ UNCHANGED <<db, git>>
         /\ mem'[t].attempt = db.wf.attempt /\ mem'[t].node = db.wf.node
         /\ mem'[t].status = IF db.wf.status = "PAUSED" THEN "RUNNING" ELSE db.wf.status
<1> DEFINE x == [db.wf EXCEPT !.pause = FALSE,
                   !.status = IF @ = "PAUSED" THEN "RUNNING" ELSE @]
<1>1. /\ x.attempt = db.wf.attempt /\ x.node = db.wf.node
      /\ x.status = IF db.wf.status = "PAUSED" THEN "RUNNING" ELSE db.wf.status
  BY DEF TypeOK, Database, Row
<1>2. mem' = [mem EXCEPT ![t] = x]
  BY DEF ResumeRead
<1> HIDE DEF x
<1>3. mem'[t] = x /\ \A u \in Threads \ {t} : mem'[u] = mem[u]
  BY <1>2 DEF TypeOK
<1>4. Steps(t, "idle", "resume") /\ Exists /\ UNCHANGED <<db, git>>
  BY <1>3, BeginsAlone DEF ResumeRead, Begin, Goto, TypeOK, Steps, OnlyThread
<1> QED BY <1>1, <1>3, <1>4

LEMMA DecideDoes ==
  ASSUME MaxOverlaps = 0, TypeOK, NEW t \in Threads, NEW r \in Reasons, NEW a \in Attempts,
         NEW choice, NEW status, NEW node, Decide(t, r, a, choice, status, node)
  PROVE  /\ Steps(t, "idle", "resolve") /\ UNCHANGED <<db, git>> /\ IsOpen(r, a)
         /\ SameWork(mem'[t], db.wf) /\ Stands(mem'[t], status, node)
         /\ loc'[t].reason = r /\ loc'[t].about = a /\ loc'[t].choice = choice
<1>1. /\ SameWork(mem'[t], db.wf) /\ Stands(mem'[t], status, node)
      /\ \A u \in Threads \ {t} : mem'[u] = mem[u]
  BY DEF Decide, TypeOK, Database, Row, SameWork, Stands
<1>2. /\ loc'[t].reason = r /\ loc'[t].about = a /\ loc'[t].choice = choice
      /\ \A u \in Threads \ {t} : loc'[u] = loc[u]
  BY DEF Decide, TypeOK, Locals
<1>3. Steps(t, "idle", "resolve") /\ UNCHANGED <<db, git>> /\ IsOpen(r, a)
  BY <1>1, <1>2, BeginsAlone DEF Decide, Latest, Begin, Goto, TypeOK, Steps, OnlyThread
<1> QED BY <1>1, <1>2, <1>3

LEMMA ResolveDoes ==
  ASSUME TypeOK, NEW t \in Threads, DecideResolve(t)
  PROVE  /\ Steps(t, "resolve", "decided") /\ UNCHANGED <<git, mem, loc>> /\ KeepsButHitl
         /\ \A r \in Reasons, a \in Attempts :
              /\ db'.hitl[r][a].fp = db.hitl[r][a].fp
              /\ db'.hitl[r][a].state = IF r = loc[t].reason /\ a = loc[t].about
                                        THEN loc[t].choice ELSE db.hitl[r][a].state
<1>1. db' = [db EXCEPT !.hitl[loc[t].reason][loc[t].about].state = loc[t].choice]
  BY DEF DecideResolve, Write
<1>2. KeepsButHitl
  BY <1>1 DEF TypeOK, Database, KeepsButHitl
<1>3. \A r \in Reasons, a \in Attempts :
        /\ db'.hitl[r][a].fp = db.hitl[r][a].fp
        /\ db'.hitl[r][a].state = IF r = loc[t].reason /\ a = loc[t].about
                                  THEN loc[t].choice ELSE db.hitl[r][a].state
  BY <1>1 DEF TypeOK, Database, Request, Locals
<1> QED BY <1>2, <1>3, WriteSteps DEF DecideResolve

Strategies == {"verify-existing", "retry-same-attempt", "restore-baseline", "abort-preserve"}

LEMMA RecoverDoes ==
  ASSUME MaxOverlaps = 0, TypeOK, NEW t \in Threads, NEW a \in Attempts,
         NEW action \in Strategies, NEW to \in {"close", "recovered"},
         NEW status \in {"RUNNING", "FAILED"}, NEW node \in Nodes,
         Recover(t, a, action, to, status, node)
  PROVE  /\ Steps(t, "idle", to) /\ db.wf.status = "UNCERTAIN" /\ Pending(a)
         /\ mem'[t].pause = db.wf.pause /\ Stands(mem'[t], status, node)
         /\ mem'[t].attempt \in {db.wf.attempt, a}
         /\ loc'[t].about = a /\ loc'[t].action = action
<1> DEFINE x == [db.wf EXCEPT !.status = status, !.node = node,
                   !.attempt = IF status = "RUNNING" THEN a ELSE @]
<1>1. /\ x.pause = db.wf.pause /\ Stands(x, status, node) /\ x.attempt \in {db.wf.attempt, a}
  BY DEF TypeOK, Database, Row, Stands
<1>2. mem' = [mem EXCEPT ![t] = x]
  BY DEF Recover
<1> HIDE DEF x
<1>3. mem'[t] = x /\ \A u \in Threads \ {t} : mem'[u] = mem[u]
  BY <1>2 DEF TypeOK
<1>4. /\ loc'[t].about = a /\ loc'[t].action = action
      /\ \A u \in Threads \ {t} : loc'[u] = loc[u]
  BY DEF Recover, TypeOK, Locals
<1>5. Steps(t, "idle", to) /\ db.wf.status = "UNCERTAIN" /\ Pending(a)
  BY <1>3, <1>4, BeginsAlone DEF Recover, Begin, Goto, TypeOK, Steps, OnlyThread
<1> QED BY <1>1, <1>3, <1>4, <1>5

\* What the four strategies write when they begin.
LEMMA StrategyDoes ==
  ASSUME TypeOK, NEW t \in Threads, NEW a \in Attempts
  PROVE  /\ RecoverVerifyExisting(t, a) =>
              /\ Recover(t, a, "verify-existing", "close", "RUNNING", "VERIFY")
              /\ UNCHANGED git /\ KeepsButAttempts
              /\ \A b \in Attempts : db'.attempts[b] =
                   IF b = a THEN [output |-> "recovered", prep |-> NoPrepared] ELSE db.attempts[b]
         /\ RecoverRetry(t, a) =>
              /\ Recover(t, a, "retry-same-attempt", "recovered", "RUNNING", "AGENT_EXECUTE")
              /\ UNCHANGED git /\ KeepsButIntents
              /\ \A b \in Attempts : db'.intents[b] =
                   IF b = a THEN "RETRY_APPROVED" ELSE db.intents[b]
         /\ RecoverRestore(t, a) \/ RecoverAbort(t, a) =>
              /\ \E action \in Strategies : Recover(t, a, action, "close", "FAILED", "FAILED")
              /\ UNCHANGED db /\ git'.head = git.head /\ git'.tags = git.tags
<1>1. ASSUME RecoverVerifyExisting(t, a)
      PROVE  /\ KeepsButAttempts
             /\ \A b \in Attempts : db'.attempts[b] =
                  IF b = a THEN [output |-> "recovered", prep |-> NoPrepared] ELSE db.attempts[b]
  BY <1>1 DEF RecoverVerifyExisting, TypeOK, Database, KeepsButAttempts
<1>2. ASSUME RecoverRetry(t, a)
      PROVE  /\ KeepsButIntents
             /\ \A b \in Attempts : db'.intents[b] =
                  IF b = a THEN "RETRY_APPROVED" ELSE db.intents[b]
  BY <1>2 DEF RecoverRetry, TypeOK, Database, KeepsButIntents
<1>3. ASSUME RecoverRestore(t, a) \/ RecoverAbort(t, a)
      PROVE  git'.head = git.head /\ git'.tags = git.tags
  BY <1>3 DEF RecoverRestore, RecoverAbort, RestoreContractPaths, TypeOK, Worktree
<1> QED BY <1>1, <1>2, <1>3
       DEF RecoverVerifyExisting, RecoverRetry, RecoverRestore, RecoverAbort, Strategies

LEMMA CloseDoes ==
  ASSUME TypeOK, NEW t \in Threads, RecoverClose(t)
  PROVE  /\ Steps(t, "close", "recovered") /\ UNCHANGED <<git, mem, loc>> /\ KeepsButIntents
         /\ \A a \in Attempts : db'.intents[a] =
              IF a = loc[t].about THEN Outcome(loc[t].action) ELSE db.intents[a]
<1>1. db' = [db EXCEPT !.intents[loc[t].about] = Outcome(loc[t].action)]
  BY DEF RecoverClose, Write
<1>2. KeepsButIntents /\ \A a \in Attempts : db'.intents[a] =
        IF a = loc[t].about THEN Outcome(loc[t].action) ELSE db.intents[a]
  BY <1>1 DEF TypeOK, Database, KeepsButIntents
<1> QED BY <1>2, WriteSteps DEF RecoverClose

LEMMA RollbackDoes ==
  ASSUME MaxOverlaps = 0, TypeOK, NEW t \in Threads, NEW v \in VersionIds, Rollback(t, v)
  PROVE  /\ Steps(t, "idle", "rollback") /\ UNCHANGED db
         /\ db.wf.status \in {"COMPLETED", "FAILED"}
         /\ SameWork(mem'[t], db.wf) /\ Stands(mem'[t], db.wf.status, db.wf.node)
         /\ git'.tags = git.tags /\ git'.head \in {git.head, db.versions[v].commit}
<1>1. /\ SameWork(mem'[t], db.wf) /\ Stands(mem'[t], db.wf.status, db.wf.node)
      /\ \A u \in Threads \ {t} : mem'[u] = mem[u]
  BY DEF Rollback, TypeOK, Database, Row, SameWork, Stands
<1>2. git'.tags = git.tags /\ git'.head \in {git.head, db.versions[v].commit}
  BY DEF Rollback, SwitchTo, TypeOK, Worktree
<1>3. /\ Steps(t, "idle", "rollback") /\ UNCHANGED db
      /\ db.wf.status \in {"COMPLETED", "FAILED"}
  BY <1>1, BeginsAlone DEF Rollback, Begin, Goto, TypeOK, Steps, OnlyThread
<1> QED BY <1>1, <1>2, <1>3
-----------------------------------------------------------------------------
(* What a request knows.  It works on the row as it is in the database, and *)
(* on a copy of it before it saves what it has worked out.                  *)

Working == {"intent", "check", "calling", "finish", "executed"}
Verifying == {"verify", "prepare", "prepared", "gate", "gate_failed"}
Loaded == Working \cup Verifying \cup {"loop", "tag", "version"}

Sees(t) ==
  /\ pc[t] \in Loaded \cup {"contract", "baseline"} => mem[t] = db.wf
  /\ pc[t] \in Loaded => loc[t].acceptance = db.contract
  /\ pc[t] = "contract" => db.wf.attempt = 0 /\ loc[t].acceptance \in Contracts
  /\ pc[t] \in {"started", "pause", "rollback"} => Stands(mem[t], db.wf.status, db.wf.node)
  /\ pc[t] = "resume" =>
       /\ mem[t].node = db.wf.node
       /\ mem[t].status = IF db.wf.status = "PAUSED" THEN "RUNNING" ELSE db.wf.status

SeesInv ==
  /\ db.contract \in Contracts \cup {NoContract}
  /\ ~Exists => db.wf = NoRow
  /\ \A t \in Threads : Sees(t)

LEMMA SeesKeeps ==
  ASSUME CallsInv, NEW t \in Threads, NEW from, NEW to, Steps(t, from, to),
         db'.contract \in Contracts \cup {NoContract}, Exists', Sees(t)'
  PROVE  SeesInv'
<1>1. \A u \in Threads \ {t} : pc'[u] = "idle"
  BY AloneInStep DEF Steps
<1>2. ASSUME NEW u \in Threads \ {t} PROVE Sees(u)'
  BY <1>1 DEF Sees, Loaded, Working, Verifying
<1> QED BY <1>2 DEF SeesInv

\* A request that ends sees nothing.
LEMMA EndsSeeing ==
  ASSUME CallsInv, SeesInv, NEW t \in Threads, NEW from, Steps(t, from, "idle"),
         db'.contract = db.contract, Exists'
  PROVE  SeesInv'
<1>1. Sees(t)'
  BY DEF Steps, Sees, Loaded, Working, Verifying
<1> QED BY <1>1, SeesKeeps DEF SeesInv

LEMMA SeesStart ==
  ASSUME MaxOverlaps = 0, TypeOK, CallsInv, SeesInv, NEW t \in Threads,
         \/ \E c \in Contracts : StartCreate(t, c)
         \/ StartContract(t) \/ StartBaseline(t)
  PROVE  SeesInv'
<1>1. ASSUME NEW c \in Contracts, StartCreate(t, c) PROVE SeesInv'
  <2>1. /\ Steps(t, "idle", "contract") /\ mem'[t] = NewRow /\ loc'[t].acceptance = c
        /\ db'.wf = NewRow /\ KeepsTables(db')
    BY <1>1, CreateDoes
  <2>2. NewRow.attempt = 0 /\ NewRow.status # "ABSENT"
    BY DEF NewRow, NoRow
  <2>3. Sees(t)' /\ Exists' /\ db'.contract = db.contract
    BY <2>1, <2>2 DEF Steps, KeepsTables, Sees, Loaded, Working, Verifying, Exists
  <2> QED BY <2>1, <2>3, SeesKeeps DEF SeesInv
<1>2. CASE StartContract(t)
  <2>1. /\ Steps(t, "contract", "baseline") \/ Steps(t, "contract", "run")
        /\ UNCHANGED mem /\ db'.contract = loc[t].acceptance /\ db'.wf = db.wf
    BY <1>2, ContractDoes
  <2>2. mem[t] = db.wf /\ loc[t].acceptance \in Contracts /\ Exists
    BY <2>1 DEF Steps, SeesInv, Sees, CallsInv, Current
  <2>3. Sees(t)' /\ Exists'
    BY <2>1, <2>2 DEF Steps, Sees, Loaded, Working, Verifying, Exists
  <2> QED BY <2>1, <2>2, <2>3, SeesKeeps
<1>3. CASE StartBaseline(t)
  <2>1. /\ Steps(t, "baseline", "started") /\ SameWork(mem'[t], mem[t])
        /\ Stands(mem'[t], mem[t].status, mem[t].node)
        /\ db'.wf = db.wf /\ db'.contract = db.contract
    BY <1>3, BaselineDoes
  <2>2. mem[t] = db.wf /\ Exists
    BY <2>1 DEF Steps, SeesInv, Sees, CallsInv, Current
  <2>3. Sees(t)' /\ Exists'
    BY <2>1, <2>2 DEF Steps, SameWork, Stands, Sees, Loaded, Working, Verifying, Exists
  <2> QED BY <2>1, <2>3, SeesKeeps DEF SeesInv
<1> QED BY <1>1, <1>2, <1>3

LEMMA SeesRun ==
  ASSUME TypeOK, CallsInv, SeesInv, NEW t \in Threads, Run(t) PROVE SeesInv'
<1>1. CASE RunLock(t) \/ RunReload(t)
  <2>1. /\ Steps(t, "run", "loop") \/ Steps(t, "reload", "loop")
        /\ mem'[t] = db.wf /\ loc'[t].acceptance = db.contract /\ UNCHANGED db
    BY <1>1, LoadDoes
  <2>2. Sees(t)' /\ Exists'
    BY <2>1 DEF Steps, CallsInv, Current, Sees, Exists
  <2> QED BY <2>1, <2>2, SeesKeeps DEF SeesInv
<1>2. CASE RunPause(t)
  <2>1. Steps(t, "loop", "idle") /\ Stands(db'.wf, "PAUSED", mem[t].node) /\ KeepsTables(db')
    BY <1>2, PauseDoes
  <2> QED BY <2>1, EndsSeeing DEF Stands, KeepsTables, Exists
<1>3. CASE RunExit(t) \/ NodeRaise(t)
  <2>1. PICK from \in Failing : Steps(t, from, "idle")
    BY <1>3, RaiseDoes
  <2>2. UNCHANGED db /\ Exists
    BY <1>3, <2>1, RaiseDoes DEF Steps, CallsInv, Current, Failing
  <2> QED BY <2>1, <2>2, EndsSeeing DEF Exists
<1> QED BY <1>1, <1>2, <1>3 DEF Run

\* The row that is saved, or kept, is the one the request works on.
LEMMA SeesExecute ==
  ASSUME TypeOK, CallsInv, SeesInv, NEW t \in Threads, Execute(t) PROVE SeesInv'
<1>0. pc[t] # "idle" => mem[t].attempt = db.wf.attempt /\ mem[t].status # "ABSENT" /\ Exists
  BY DEF CallsInv, Current
<1>l. pc[t] \in Loaded => mem[t] = db.wf /\ loc[t].acceptance = db.contract
  BY DEF SeesInv, Sees
<1>k. db.contract \in Contracts \cup {NoContract}
  BY DEF SeesInv
<1>1. ASSUME NEW a \in Attempts, ExecuteUncertain(t, a) PROVE SeesInv'
  <2>1. /\ Steps(t, "loop", "reload") /\ UNCHANGED mem
        /\ db'.wf.pause = mem[t].pause /\ Stands(db'.wf, "UNCERTAIN", mem[t].node)
        /\ KeepsTables(db')
    BY <1>1, UncertainDoes
  <2>2. Sees(t)' /\ Exists' /\ db'.contract = db.contract
    BY <2>1 DEF Steps, Stands, KeepsTables, Sees, Loaded, Working, Verifying, Exists
  <2> QED BY <1>k, <2>1, <2>2, SeesKeeps
<1>2. ASSUME NEW a \in Attempts, ExecuteApprovedRetry(t, a) PROVE SeesInv'
  <2>1. /\ Steps(t, "loop", "check") /\ UNCHANGED <<db, loc>>
        /\ Pending(a) /\ mem'[t] = [mem[t] EXCEPT !.attempt = a]
    BY <1>2, ApprovedRetryDoes
  <2>2. mem[t] = db.wf /\ loc[t].acceptance = db.contract /\ Exists /\ a = db.wf.attempt
    BY <1>0, <1>l, <2>1 DEF Steps, Loaded, Pending, CallsInv, CallsAreNumbered
  <2>3. mem'[t] = db.wf
    BY <2>1, <2>2 DEF TypeOK, Database, Row
  <2>4. Sees(t)' /\ Exists'
    BY <2>1, <2>2, <2>3 DEF Steps, Sees, Exists
  <2> QED BY <1>k, <2>1, <2>4, SeesKeeps
<1>3. CASE ExecuteNew(t)
  <2>1. /\ Steps(t, "loop", "intent") /\ UNCHANGED loc /\ mem'[t] = db'.wf
        /\ Stands(db'.wf, "RUNNING", "AGENT_EXECUTE") /\ KeepsTables(db')
    BY <1>3, NewDoes
  <2>2. loc[t].acceptance = db.contract
    BY <1>l, <2>1 DEF Steps, Loaded
  <2>3. Sees(t)' /\ Exists' /\ db'.contract = db.contract
    BY <2>1, <2>2 DEF Steps, Stands, KeepsTables, Sees, Exists
  <2> QED BY <1>k, <2>1, <2>3, SeesKeeps
<1>4. ASSUME NEW from \in Working, NEW to \in Working, Steps(t, from, to), UNCHANGED <<mem, loc>>,
             db'.wf = db.wf, db'.contract = db.contract
      PROVE  SeesInv'
  <2>1. Sees(t)' /\ Exists'
    BY <1>0, <1>l, <1>4 DEF Steps, Sees, Loaded, Working, Verifying, Exists
  <2> QED BY <1>k, <1>4, <2>1, SeesKeeps
<1>5. CASE \/ ExecuteIntent(t) \/ ExecuteCall(t) \/ ExecuteReuse(t) \/ ExecuteFinish(t)
           \/ DshWrite(t) \/ DshReturn(t)
  BY <1>4, <1>5, IntentDoes, CallDoes, FinishDoes, DshWriteDoes, DshReturnDoes
     DEF Working, KeepsButIntents, KeepsButAttempts
<1>6. CASE DshRaise(t) \/ ExecuteDone(t)
  <2>1. /\ Steps(t, "calling", "reload") \/ Steps(t, "executed", "reload")
        /\ UNCHANGED mem /\ SameWork(db'.wf, mem[t]) /\ KeepsTables(db')
        /\ db'.wf.status \in {"UNCERTAIN", mem[t].status}
    BY <1>6, DshRaiseDoes, DoneDoes DEF Stands
  <2>2. Sees(t)' /\ Exists' /\ db'.contract = db.contract
    BY <1>0, <2>1 DEF Steps, SameWork, KeepsTables, Sees, Loaded, Working, Verifying, Exists
  <2> QED BY <1>k, <2>1, <2>2, SeesKeeps
<1> QED BY <1>1, <1>2, <1>3, <1>5, <1>6 DEF Execute

\* The steps of a node that write neither the row nor the contract.
LEMMA SeesNode ==
  ASSUME CallsInv, SeesInv, NEW t \in Threads, NEW from \in Loaded, NEW to \in Loaded,
         Steps(t, from, to), mem'[t] = mem[t], loc'[t].acceptance = loc[t].acceptance,
         db'.wf = db.wf, db'.contract = db.contract
  PROVE  SeesInv'
<1>1. mem[t] = db.wf /\ loc[t].acceptance = db.contract /\ Exists
  BY DEF Steps, SeesInv, Sees, CallsInv, Current, Loaded, Working, Verifying
<1>2. Sees(t)' /\ Exists'
  BY <1>1 DEF Steps, Sees, Loaded, Working, Verifying, Exists
<1> QED BY <1>2, SeesKeeps DEF SeesInv

\* The steps that work out a row and leave it to be saved.
LEMMA SeesWorked ==
  ASSUME CallsInv, SeesInv, NEW t \in Threads, NEW from, NEW to, Steps(t, from, to),
         to \in {"save", "promoted", "decided", "recovered"}, pc[t] # "idle",
         db'.wf = db.wf, db'.contract = db.contract
  PROVE  SeesInv'
<1>1. Exists
  BY DEF Steps, SeesInv, Sees, CallsInv, Current
<1>2. Sees(t)' /\ Exists'
  BY <1>1 DEF Steps, Sees, Loaded, Working, Verifying, Exists
<1> QED BY <1>2, SeesKeeps DEF SeesInv

LEMMA SeesSaved ==
  ASSUME TypeOK, CallsInv, SeesInv, NEW t \in Threads,
         \/ StartSave(t) \/ VerifyDone(t) \/ PromoteDone(t) \/ PauseSave(t) \/ ResumeSave(t)
         \/ DecideSave(t) \/ RecoverSave(t) \/ RollbackSave(t)
  PROVE  SeesInv'
<1>1. /\ db'.wf = mem[t] /\ KeepsTables(db')
      /\ \/ /\ UNCHANGED mem /\ \E from, to : Steps(t, from, to) /\ to \in {"run", "reload"}
         \/ \E from : Steps(t, from, "idle")
      /\ pc[t] # "idle"
  BY SaveDoes DEF Steps
<1>2. Exists' /\ db'.contract = db.contract
  BY <1>1 DEF CallsInv, Current, Exists, KeepsTables
<1>3. CASE UNCHANGED mem /\ \E from, to : Steps(t, from, to) /\ to \in {"run", "reload"}
  <2>1. PICK from, to : Steps(t, from, to) /\ to \in {"run", "reload"}
    BY <1>3
  <2>2. Sees(t)'
    BY <1>1, <1>3, <2>1 DEF Steps, Sees, Loaded, Working, Verifying
  <2> QED BY <1>2, <2>1, <2>2, SeesKeeps DEF SeesInv
<1> QED BY <1>1, <1>2, <1>3, EndsSeeing

LEMMA SeesVerify ==
  ASSUME TypeOK, CallsInv, SeesInv, NEW t \in Threads, Verify(t) PROVE SeesInv'
<1>1. ASSUME NEW result \in BOOLEAN, VerifyRun(t, result) PROVE SeesInv'
  BY <1>1, VerifyRunDoes, SeesNode DEF Loaded, Verifying
<1>2. CASE VerifyRaise(t)
  <2>1. PICK from \in Failing : Steps(t, from, "idle")
    BY <1>2, RaiseDoes
  <2>2. UNCHANGED db /\ Exists
    BY <1>2, <2>1, RaiseDoes DEF Steps, CallsInv, Current, Failing
  <2> QED BY <2>1, <2>2, EndsSeeing DEF Exists
<1>3. CASE VerifyRecord(t) \/ VerifyPrepare(t) \/ VerifySavePrepared(t)
  <2>1. /\ \E from \in Verifying, to \in Verifying : Steps(t, from, to)
        /\ UNCHANGED mem /\ loc'[t].acceptance = loc[t].acceptance
        /\ db'.wf = db.wf /\ db'.contract = db.contract
    BY <1>3, RecordDoes, PrepareDoes, SavePreparedDoes
       DEF Verifying, KeepsRows, KeepsTables, KeepsButAttempts
  <2> QED BY <2>1, SeesNode DEF Loaded
<1>4. CASE VerifyReview(t) \/ VerifyExhausted(t)
  <2>1. /\ Steps(t, "gate", "save") \/ Steps(t, "gate_failed", "save")
        /\ SameWork(mem'[t], mem[t]) /\ KeepsButHitl
    BY <1>4, ReviewDoes, ExhaustedDoes, RequestDoes DEF Reasons
  <2> QED BY <2>1, SeesWorked DEF Steps, SameWork, KeepsButHitl
<1>5. CASE VerifyAutoPromote(t) \/ VerifyRetry(t)
  <2>1. /\ Steps(t, "gate", "save") \/ Steps(t, "gate_failed", "save")
        /\ SameWork(mem'[t], mem[t]) /\ db'.wf = db.wf /\ db'.contract = db.contract
    BY <1>5, AutoPromoteDoes, RetryDoes DEF KeepsButProposals
  <2> QED BY <2>1, SeesWorked DEF Steps, SameWork
<1> QED BY <1>1, <1>2, <1>3, <1>4, <1>5, SeesSaved DEF Verify

LEMMA SeesPromote ==
  ASSUME TypeOK, CallsInv, SeesInv, NEW t \in Threads, Promote(t) PROVE SeesInv'
<1>1. CASE PromotePlain(t) \/ PromoteTagged(t) \/ PromoteHead(t)
  BY <1>1, PromoteKnownDoes, PromoteHeadDoes, SeesNode DEF Loaded
<1>2. CASE PromoteTag(t)
  BY <1>2, TagDoes, SeesNode DEF Loaded
<1>3. CASE PromoteVersion(t)
  <2>1. /\ Steps(t, "version", "promoted") /\ SameWork(mem'[t], mem[t])
        /\ db'.wf = db.wf /\ db'.contract = db.contract
    BY <1>3, VersionDoes DEF KeepsButVersions
  <2> QED BY <2>1, SeesWorked DEF Steps, SameWork
<1> QED BY <1>1, <1>2, <1>3, SeesSaved DEF Promote

LEMMA SeesPauseResume ==
  ASSUME MaxOverlaps = 0, TypeOK, CallsInv, SeesInv, NEW t \in Threads,
         PauseRead(t) \/ ResumeRead(t)
  PROVE  SeesInv'
<1>1. CASE PauseRead(t)
  <2>1. /\ Steps(t, "idle", "pause") /\ Exists /\ UNCHANGED db
        /\ Stands(mem'[t], db.wf.status, db.wf.node) /\ mem'[t].pause = TRUE
    BY <1>1, PauseReadDoes
  <2>2. Sees(t)' /\ Exists'
    BY <2>1 DEF Steps, Stands, Sees, Loaded, Working, Verifying, Exists
  <2> QED BY <2>1, <2>2, SeesKeeps DEF SeesInv
<1>2. CASE ResumeRead(t)
  <2>1. /\ Steps(t, "idle", "resume") /\ Exists /\ UNCHANGED db /\ mem'[t].node = db.wf.node
        /\ mem'[t].status = IF db.wf.status = "PAUSED" THEN "RUNNING" ELSE db.wf.status
    BY <1>2, ResumeReadDoes
  <2>2. Sees(t)' /\ Exists'
    BY <2>1 DEF Steps, Sees, Loaded, Working, Verifying, Exists
  <2> QED BY <2>1, <2>2, SeesKeeps DEF SeesInv
<1> QED BY <1>1, <1>2

LEMMA SeesDecideHitl ==
  ASSUME MaxOverlaps = 0, TypeOK, CallsInv, SeesInv, NEW t \in Threads, DecideHitl(t)
  PROVE  SeesInv'
<1>1. ASSUME NEW r \in Reasons, NEW a \in Attempts, NEW choice, NEW status, NEW node,
             Decide(t, r, a, choice, status, node)
      PROVE  SeesInv'
  <2>1. /\ Steps(t, "idle", "resolve") /\ UNCHANGED db /\ SameWork(mem'[t], db.wf) /\ Exists
    BY <1>1, DecideDoes DEF Decide
  <2>2. Sees(t)' /\ Exists'
    BY <2>1 DEF Steps, SameWork, Sees, Loaded, Working, Verifying, Exists
  <2> QED BY <2>1, <2>2, SeesKeeps DEF SeesInv
<1>2. CASE DecideResolve(t)
  BY <1>2, ResolveDoes, SeesWorked DEF Steps, KeepsButHitl
<1>3. CASE DecideSave(t)
  BY <1>3, SeesSaved
<1>4. "promotion_review" \in Reasons
  BY DEF Reasons
<1> QED BY <1>1, <1>2, <1>3, <1>4 DEF DecideHitl, DecideApprove, DecideRetry, DecideReject

LEMMA SeesRecoverUncertain ==
  ASSUME MaxOverlaps = 0, TypeOK, CallsInv, SeesInv, NEW t \in Threads, RecoverUncertain(t)
  PROVE  SeesInv'
<1>1. ASSUME NEW a \in Attempts, NEW action \in Strategies, NEW to \in {"close", "recovered"},
             NEW status \in {"RUNNING", "FAILED"}, NEW node \in Nodes,
             Recover(t, a, action, to, status, node),
             db'.wf = db.wf, db'.contract = db.contract
      PROVE  SeesInv'
  <2>1. Steps(t, "idle", to) /\ db.wf.status = "UNCERTAIN" /\ mem'[t].pause = db.wf.pause
    BY <1>1, RecoverDoes
  <2>2. Sees(t)' /\ Exists'
    BY <1>1, <2>1 DEF Steps, Sees, Loaded, Working, Verifying, Exists
  <2> QED BY <1>1, <2>1, <2>2, SeesKeeps DEF SeesInv
<1>2. ASSUME NEW a \in Attempts, \/ RecoverVerifyExisting(t, a) \/ RecoverRetry(t, a)
                                 \/ RecoverRestore(t, a) \/ RecoverAbort(t, a)
      PROVE  SeesInv'
  BY <1>1, <1>2, StrategyDoes DEF KeepsButAttempts, KeepsButIntents, Strategies, Nodes
<1>3. CASE RecoverClose(t)
  BY <1>3, CloseDoes, SeesWorked DEF Steps, KeepsButIntents
<1> QED BY <1>2, <1>3, SeesSaved DEF RecoverUncertain

LEMMA SeesRollback ==
  ASSUME MaxOverlaps = 0, TypeOK, CallsInv, SeesInv, NEW t \in Threads, NEW v \in VersionIds,
         Rollback(t, v)
  PROVE  SeesInv'
<1>1. /\ Steps(t, "idle", "rollback") /\ UNCHANGED db /\ SameWork(mem'[t], db.wf)
      /\ Stands(mem'[t], db.wf.status, db.wf.node)
      /\ db.wf.status \in {"COMPLETED", "FAILED"}
  BY RollbackDoes
<1>2. Sees(t)' /\ Exists'
  BY <1>1 DEF Steps, SameWork, Stands, Sees, Loaded, Working, Verifying, Exists
<1> QED BY <1>1, <1>2, SeesKeeps DEF SeesInv

LEMMA SeesInit == Init => SeesInv
BY DEF Init, SeesInv, Sees, Loaded, Working, Verifying, Exists

LEMMA SeesStep ==
  ASSUME MaxOverlaps = 0, TypeOK, CallsInv, SeesInv, [Next]_vars PROVE SeesInv'
<1>1. ASSUME NEW t \in Threads, ThreadStep(t) PROVE SeesInv'
  <2>1. CASE Start(t)
    BY <2>1, SeesStart, SeesSaved DEF Start
  <2>2. CASE Run(t) \/ Execute(t) \/ Verify(t) \/ Promote(t)
    BY <2>2, SeesRun, SeesExecute, SeesVerify, SeesPromote
  <2>3. CASE PauseResume(t)
    BY <2>3, SeesPauseResume, SeesSaved DEF PauseResume
  <2>4. CASE DecideHitl(t) \/ RecoverUncertain(t)
    BY <2>4, SeesDecideHitl, SeesRecoverUncertain
  <2>5. CASE RollBack(t)
    BY <2>5, SeesRollback, SeesSaved DEF RollBack
  <2> QED BY <1>1, <2>1, <2>2, <2>3, <2>4, <2>5 DEF ThreadStep
<1>2. CASE Crash
  <2>1. UNCHANGED db /\ \A t \in Threads : pc'[t] = "idle"
    BY <1>2 DEF Crash
  <2> QED BY <2>1 DEF SeesInv, Sees, Loaded, Working, Verifying, Exists
<1>3. CASE OutsideEdit \/ Overwrite \/ UNCHANGED vars
  <2>1. UNCHANGED <<db, pc, mem, loc>>
    BY <1>3 DEF OutsideEdit, Overwrite, vars
  <2> QED BY <2>1 DEF SeesInv, Sees, Exists
<1> QED BY <1>1, <1>2, <1>3 DEF Next
-----------------------------------------------------------------------------
(* The steps that write the workflow row, and what they write.             *)

Saving == {"started", "pause", "resume", "save", "promoted", "decided", "recovered", "rollback"}

\* What the run loop writes to the row it works on; a new attempt alone moves on.
Writes(t) ==
  \/ /\ pc[t] = "loop" /\ mem[t].status = "RUNNING"
     /\ db'.wf.attempt = mem[t].attempt /\ Stands(db'.wf, "PAUSED", mem[t].node)
  \/ /\ pc[t] = "loop" /\ Stands(mem[t], "RUNNING", "AGENT_EXECUTE") /\ ~NothingPending
     /\ db'.wf.attempt = mem[t].attempt /\ Stands(db'.wf, "UNCERTAIN", "AGENT_EXECUTE")
  \/ /\ pc[t] = "loop" /\ Stands(mem[t], "RUNNING", "AGENT_EXECUTE") /\ NothingPending
     /\ db'.wf.attempt = mem[t].attempt + 1 /\ Stands(db'.wf, "RUNNING", "AGENT_EXECUTE")
  \/ /\ pc[t] = "calling"
     /\ db'.wf.attempt = mem[t].attempt /\ Stands(db'.wf, "UNCERTAIN", mem[t].node)
  \/ /\ pc[t] = "executed"
     /\ db'.wf.attempt = mem[t].attempt /\ Stands(db'.wf, mem[t].status, "VERIFY")

RowStep(t) ==
  \/ db'.wf = db.wf
  \/ ~Exists /\ db'.wf = NewRow
  \/ pc[t] \in Saving /\ db'.wf = mem[t]
  \/ Writes(t)

LEMMA RowSteps ==
  ASSUME MaxOverlaps = 0, TypeOK, CallsInv, NEW t \in Threads, ThreadStep(t) PROVE RowStep(t)
<1>1. CASE Start(t)
  BY <1>1, CreateDoes, ContractDoes, BaselineDoes, SaveDoes DEF Start, RowStep, Steps, Saving
<1>2. CASE Run(t)
  <2>1. CASE RunPause(t)
    BY <2>1, PauseDoes DEF RowStep, Writes, Steps, SameWork
  <2> QED BY <1>2, <2>1, LoadDoes, RaiseDoes DEF Run, RowStep
<1>3. CASE Execute(t)
  <2>1. ASSUME NEW a \in Attempts, ExecuteUncertain(t, a) PROVE RowStep(t)
    <3>1. ~NothingPending /\ a = db.wf.attempt
      BY <2>1, UncertainDoes DEF Pending, NothingPending, CallsInv, CallsAreNumbered
    <3>2. mem[t].attempt = db.wf.attempt
      BY <2>1, UncertainDoes DEF Steps, CallsInv, Current
    <3> QED BY <2>1, <3>1, <3>2, UncertainDoes DEF RowStep, Writes, Steps, Stands
  <2>2. CASE ExecuteNew(t)
    BY <2>2, NewDoes DEF RowStep, Writes, Steps, Attempt
  <2>3. CASE DshRaise(t)
    BY <2>3, DshRaiseDoes DEF RowStep, Writes, Steps, SameWork
  <2>4. CASE ExecuteDone(t)
    BY <2>4, DoneDoes DEF RowStep, Writes, Steps, SameWork
  <2>5. ASSUME NEW a \in Attempts, ExecuteApprovedRetry(t, a) PROVE RowStep(t)
    BY <2>5, ApprovedRetryDoes DEF RowStep
  <2>6. CASE \/ ExecuteIntent(t) \/ ExecuteCall(t) \/ ExecuteReuse(t) \/ ExecuteFinish(t)
             \/ DshWrite(t) \/ DshReturn(t)
    BY <2>6, IntentDoes, CallDoes, FinishDoes, DshWriteDoes, DshReturnDoes
       DEF KeepsButIntents, KeepsButAttempts, RowStep
  <2> QED BY <1>3, <2>1, <2>2, <2>3, <2>4, <2>5, <2>6 DEF Execute
<1>4. CASE Verify(t)
  <2>1. CASE \/ VerifyRaise(t) \/ VerifyRecord(t) \/ VerifyPrepare(t) \/ VerifySavePrepared(t)
             \/ VerifyAutoPromote(t) \/ VerifyRetry(t) \/ VerifyDone(t)
    BY <2>1, RaiseDoes, RecordDoes, PrepareDoes, SavePreparedDoes, AutoPromoteDoes, RetryDoes,
       SaveDoes DEF KeepsRows, KeepsButAttempts, KeepsButProposals, RowStep, Steps, Saving
  <2>2. CASE VerifyReview(t) \/ VerifyExhausted(t)
    BY <2>2, ReviewDoes, ExhaustedDoes, RequestDoes DEF Reasons, KeepsButHitl, RowStep
  <2>3. ASSUME NEW result \in BOOLEAN, VerifyRun(t, result) PROVE RowStep(t)
    BY <2>3, VerifyRunDoes DEF RowStep
  <2> QED BY <1>4, <2>1, <2>2, <2>3 DEF Verify
<1>5. CASE Promote(t)
  BY <1>5, PromoteKnownDoes, PromoteHeadDoes, TagDoes, VersionDoes, SaveDoes
     DEF Promote, KeepsButVersions, RowStep, Steps, Saving
<1>6. CASE PauseResume(t)
  BY <1>6, PauseReadDoes, ResumeReadDoes, SaveDoes DEF PauseResume, RowStep, Steps, Saving
<1>7. CASE DecideHitl(t)
  <2>1. CASE DecideResolve(t) \/ DecideSave(t)
    BY <2>1, ResolveDoes, SaveDoes DEF KeepsButHitl, RowStep, Steps, Saving
  <2>2. ASSUME NEW r, NEW a, NEW choice, NEW status, NEW node,
               Decide(t, r, a, choice, status, node)
        PROVE  RowStep(t)
    BY <2>2 DEF Decide, RowStep
  <2> QED BY <1>7, <2>1, <2>2 DEF DecideHitl, DecideApprove, DecideRetry, DecideReject
<1>8. CASE RecoverUncertain(t)
  <2>1. CASE RecoverClose(t) \/ RecoverSave(t)
    BY <2>1, CloseDoes, SaveDoes DEF KeepsButIntents, RowStep, Steps, Saving
  <2>2. ASSUME NEW a \in Attempts, \/ RecoverVerifyExisting(t, a) \/ RecoverRetry(t, a)
                                   \/ RecoverRestore(t, a) \/ RecoverAbort(t, a)
        PROVE  RowStep(t)
    BY <2>2, StrategyDoes DEF KeepsButAttempts, KeepsButIntents, RowStep
  <2> QED BY <1>8, <2>1, <2>2 DEF RecoverUncertain
<1>9. CASE RollBack(t)
  BY <1>9, RollbackDoes, SaveDoes DEF RollBack, RowStep, Steps, Saving
<1> QED BY <1>1, <1>2, <1>3, <1>4, <1>5, <1>6, <1>7, <1>8, <1>9 DEF ThreadStep

-----------------------------------------------------------------------------
(* Repeated calls.  An attempt is called again for a decision of a human,  *)
(* or because a crash came before the row said that its call had ended.    *)

\* A request that loads row x may come to an approved retry without another decision.
Rerun(x) == x.status # "UNCERTAIN" /\ x.node \in {"AGENT_EXECUTE", "VERIFY"}

\* A decision or a crash accounts for one more call of attempt a ...
Covered(a) == hist.calls[a] <= hist.retries[a] + bounds.crashes
\* ... and of every attempt with an approved retry.
Spare == \A a \in Attempts : db.intents[a] = "RETRY_APPROVED" => Covered(a)

\* Before it calls, and before it saves a row that leads to a call, a request is covered.
RepeatAt(t) ==
  /\ pc[t] \in Verifying \cup {"executed"} => Spare
  /\ pc[t] \in {"save", "promoted", "resolve", "decided", "recovered"} /\ Rerun(mem[t]) => Spare
  /\ pc[t] \in {"intent", "check"} /\ Attempt(t) \in Attempts =>
       \/ hist.calls[Attempt(t)] = 0
       \/ hist.retries[Attempt(t)] > 0 /\ Covered(Attempt(t))
  /\ pc[t] = "close" => loc[t].about = db.wf.attempt

Calling == {"calling", "finish"}

RepeatInv ==
  /\ NoUnapprovedRepeat
  /\ (\A t \in Threads : pc[t] \notin Calling) /\ Rerun(db.wf) => Spare
  /\ \A t \in Threads : RepeatAt(t)

\* Only the environment counts a crash.
LEMMA CrashesStay ==
  ASSUME TypeOK, NEW t \in Threads, ThreadStep(t) PROVE bounds'.crashes = bounds.crashes
<1>1. ASSUME NEW to, Begin(t, to) PROVE bounds'.crashes = bounds.crashes
  BY <1>1 DEF Begin, TypeOK
<1>2. CASE Start(t) \/ Run(t)
  BY <1>1, <1>2 DEF Start, Run, StartCreate, StartContract, StartBaseline, StartSave, RunLock,
     RunReload, RunExit, RunPause, NodeRaise, Write
<1>3. CASE Execute(t)
  BY <1>3 DEF Execute, ExecuteUncertain, ExecuteApprovedRetry, ExecuteNew, ExecuteIntent,
     ExecuteCall, ExecuteReuse, DshWrite, DshReturn, DshRaise, ExecuteFinish, ExecuteDone, Write
<1>4. CASE Verify(t)
  BY <1>4 DEF Verify, VerifyRun, VerifyRaise, VerifyRecord, VerifyPrepare, VerifySavePrepared,
     VerifyReview, VerifyAutoPromote, VerifyRetry, VerifyExhausted, VerifyDone, Write
<1>5. CASE Promote(t)
  BY <1>5 DEF Promote, PromotePlain, PromoteTagged, PromoteHead, PromoteTag, PromoteVersion,
     PromoteDone, Write
<1>6. CASE PauseResume(t) \/ RollBack(t)
  BY <1>1, <1>6 DEF PauseResume, RollBack, PauseRead, PauseSave, ResumeRead, ResumeSave, Rollback,
     RollbackSave, Write, WriteAndReturn
<1>7. CASE DecideHitl(t)
  BY <1>1, <1>7 DEF DecideHitl, DecideApprove, DecideRetry, DecideReject, Decide, DecideResolve,
     DecideSave, Write
<1>8. CASE RecoverUncertain(t)
  BY <1>1, <1>8 DEF RecoverUncertain, RecoverVerifyExisting, RecoverRetry, RecoverRestore,
     RecoverAbort, Recover, RecoverClose, RecoverSave, Write, WriteAndReturn
<1> QED BY <1>2, <1>3, <1>4, <1>5, <1>6, <1>7, <1>8 DEF ThreadStep

\* Where nobody calls and nobody decides.
LEMMA HistStays ==
  ASSUME NEW t \in Threads,
         Start(t) \/ Run(t) \/ Verify(t) \/ Promote(t) \/ PauseResume(t) \/ RollBack(t)
  PROVE  UNCHANGED hist
<1>1. CASE Start(t) \/ Run(t)
  BY <1>1 DEF Start, Run, StartCreate, StartContract, StartBaseline, StartSave, RunLock,
     RunReload, RunExit, RunPause, NodeRaise, Write
<1>2. CASE Verify(t)
  BY <1>2 DEF Verify, VerifyRun, VerifyRaise, VerifyRecord, VerifyPrepare, VerifySavePrepared,
     VerifyReview, VerifyAutoPromote, VerifyRetry, VerifyExhausted, VerifyDone, Write
<1>3. CASE Promote(t)
  BY <1>3 DEF Promote, PromotePlain, PromoteTagged, PromoteHead, PromoteTag, PromoteVersion,
     PromoteDone, Write
<1>4. CASE PauseResume(t) \/ RollBack(t)
  BY <1>4 DEF PauseResume, RollBack, PauseRead, PauseSave, ResumeRead, ResumeSave, Rollback,
     RollbackSave, Write, WriteAndReturn
<1> QED BY <1>1, <1>2, <1>3, <1>4

\* A step that calls nobody, decides nothing and approves no retry.
Plainly ==
  /\ UNCHANGED hist /\ bounds'.crashes = bounds.crashes
  /\ \A a \in Attempts : db'.intents[a] = "RETRY_APPROVED" => db.intents[a] = "RETRY_APPROVED"

LEMMA SpareStays == ASSUME Spare, Plainly PROVE Spare'
BY DEF Spare, Covered, Plainly

\* Between two steps of the request that is served.
LEMMA SpareNow ==
  ASSUME CallsInv, RepeatInv, NEW t \in Threads, NEW from, NEW to, Steps(t, from, to),
         from \notin Calling, Rerun(db.wf)
  PROVE  Spare
<1>1. \A u \in Threads : pc[u] \notin Calling
  BY AloneInStep DEF Steps, Calling
<1> QED BY <1>1 DEF RepeatInv

\* It is enough to look at the thread that takes the step.
LEMMA RepeatKeeps ==
  ASSUME CallsInv, RepeatInv, NEW t \in Threads, NEW from, NEW to, Steps(t, from, to),
         NoUnapprovedRepeat', RepeatAt(t)', to \notin Calling /\ Rerun(db'.wf) => Spare'
  PROVE  RepeatInv'
<1>1. \A u \in Threads \ {t} : pc'[u] = "idle"
  BY AloneInStep DEF Steps
<1>2. \A u \in Threads \ {t} : RepeatAt(u)'
  BY <1>1 DEF RepeatAt, Verifying
<1>3. pc'[t] = to
  BY DEF Steps
<1> QED BY <1>2, <1>3 DEF RepeatInv

LEMMA RepeatPlain ==
  ASSUME CallsInv, RepeatInv, NEW t \in Threads, NEW from, NEW to, Steps(t, from, to), Plainly,
         RepeatAt(t)', to \notin Calling /\ Rerun(db'.wf) => Spare'
  PROVE  RepeatInv'
<1>1. NoUnapprovedRepeat'
  BY DEF RepeatInv, NoUnapprovedRepeat, Plainly
<1> QED BY <1>1, RepeatKeeps

\* The points at which nothing is known but the row.
Elsewhere == {"idle", "contract", "baseline", "started", "pause", "resume", "run", "loop", "reload",
              "rollback", "tag", "version"}

\* Steps to a point where only the row counts, with a row that leads to no other call.
LEMMA RepeatRow ==
  ASSUME CallsInv, RepeatInv, NEW t \in Threads, NEW from, NEW to, Steps(t, from, to), Plainly,
         \/ to \in Calling
         \/ to \in Elsewhere /\ (Rerun(db'.wf) => Spare)
         \/ to \in Elsewhere /\ from \notin Calling /\ (Rerun(db'.wf) => Rerun(db.wf))
  PROVE  RepeatInv'
<1>1. RepeatAt(t)'
  BY DEF Steps, RepeatAt, Elsewhere, Calling, Verifying
<1>2. to \notin Calling /\ Rerun(db'.wf) => Spare'
  BY SpareNow, SpareStays
<1> QED BY <1>1, <1>2, RepeatPlain

LEMMA RepeatStart ==
  ASSUME MaxOverlaps = 0, TypeOK, CallsInv, SeesInv, RepeatInv, NEW t \in Threads, ThreadStep(t),
         Start(t), ~StartSave(t)
  PROVE  RepeatInv'
<1>0. UNCHANGED hist /\ bounds'.crashes = bounds.crashes
  BY CrashesStay, HistStays
<1>1. ASSUME NEW c \in Contracts, StartCreate(t, c) PROVE RepeatInv'
  <2>1. Steps(t, "idle", "contract") /\ ~Exists /\ KeepsTables(db')
    BY <1>1, CreateDoes
  <2>2. Rerun(db.wf)
    BY <2>1 DEF SeesInv, NoRow, Rerun
  <2> QED BY <1>0, <2>1, <2>2, RepeatRow DEF Plainly, KeepsTables, Elsewhere, Calling
<1>2. CASE StartContract(t) \/ StartBaseline(t)
  <2>1. /\ db'.intents = db.intents /\ db'.wf = db.wf
        /\ \/ Steps(t, "contract", "baseline") \/ Steps(t, "contract", "run")
           \/ Steps(t, "baseline", "started")
    BY <1>2, ContractDoes, BaselineDoes
  <2> QED BY <1>0, <2>1, RepeatRow DEF Plainly, Elsewhere, Calling
<1> QED BY <1>1, <1>2 DEF Start

LEMMA RepeatRun ==
  ASSUME MaxOverlaps = 0, TypeOK, CallsInv, SeesInv, RepeatInv, NEW t \in Threads, ThreadStep(t),
         Run(t) \/ VerifyRaise(t)
  PROVE  RepeatInv'
<1>0. UNCHANGED hist /\ bounds'.crashes = bounds.crashes
  BY CrashesStay, HistStays DEF Verify
<1>1. CASE RunLock(t) \/ RunReload(t)
  BY <1>0, <1>1, LoadDoes, RepeatRow DEF Plainly, Elsewhere, Calling
<1>2. CASE RunPause(t)
  <2>1. /\ Steps(t, "loop", "idle") /\ mem[t].status = "RUNNING"
        /\ Stands(db'.wf, "PAUSED", mem[t].node) /\ db'.intents = db.intents
    BY <1>2, PauseDoes DEF KeepsTables
  <2>2. mem[t] = db.wf
    BY <2>1 DEF Steps, SeesInv, Sees, Loaded
  <2>3. Rerun(db'.wf) => Rerun(db.wf)
    BY <2>1, <2>2 DEF Rerun, Stands
  <2> QED BY <1>0, <2>1, <2>3, RepeatRow DEF Plainly, Elsewhere, Calling
<1>3. CASE RunExit(t) \/ NodeRaise(t) \/ VerifyRaise(t)
  <2>1. UNCHANGED db /\ \E from \in Failing : Steps(t, from, "idle")
    BY <1>3, RaiseDoes
  <2> QED BY <1>0, <2>1, RepeatRow DEF Plainly, Elsewhere, Calling, Failing
<1> QED BY <1>1, <1>2, <1>3 DEF Run

\* When the current attempt's intent is not open none is, and nothing has to be covered.
LEMMA NoneApproved ==
  ASSUME CallsInv,
         \A a \in Attempts : \/ db'.intents[a] = db.intents[a] /\ a # db.wf.attempt
                             \/ db'.intents[a] # "RETRY_APPROVED"
  PROVE  Spare'
BY DEF CallsInv, CallsAreNumbered, OpenIntent, OpenIntents, Spare

LEMMA RepeatExecute ==
  ASSUME MaxOverlaps = 0, TypeOK, CallsInv, SeesInv, RepeatInv, NEW t \in Threads, ThreadStep(t),
         Execute(t)
  PROVE  RepeatInv'
<1>0. bounds'.crashes = bounds.crashes /\ (pc[t] \in Loaded => mem[t] = db.wf)
  BY CrashesStay DEF SeesInv, Sees
<1>1. ASSUME NEW a \in Attempts, ExecuteUncertain(t, a) PROVE RepeatInv'
  <2>1. /\ Steps(t, "loop", "reload") /\ db'.wf.status = "UNCERTAIN" /\ db'.intents = db.intents
        /\ UNCHANGED hist
    BY <1>1, UncertainDoes DEF KeepsTables, Stands, ExecuteUncertain
  <2> QED BY <1>0, <2>1, RepeatRow DEF Plainly, Elsewhere, Rerun
<1>2. ASSUME NEW a \in Attempts, ExecuteApprovedRetry(t, a) PROVE RepeatInv'
  <2>1. /\ Steps(t, "loop", "check") /\ UNCHANGED <<db, hist>>
        /\ Stands(mem[t], "RUNNING", "AGENT_EXECUTE") /\ db.intents[a] = "RETRY_APPROVED"
        /\ mem'[t] = [mem[t] EXCEPT !.attempt = a]
    BY <1>2, ApprovedRetryDoes DEF ExecuteApprovedRetry, Resumable
  <2>2. Rerun(db.wf)
    BY <1>0, <2>1 DEF Steps, Loaded, Stands, Rerun
  <2>3. Spare
    BY <2>1, <2>2, SpareNow DEF Calling
  <2>4. hist.retries[a] > 0 /\ Covered(a) /\ mem'[t].attempt = a
    BY <2>1, <2>3 DEF CallsInv, CallsAreNumbered, Spare, TypeOK, Row
  <2>5. Plainly /\ Spare'
    BY <1>0, <2>1, <2>3, SpareStays DEF Plainly
  <2>6. RepeatAt(t)'
    BY <2>1, <2>4, <2>5 DEF Steps, RepeatAt, Verifying, Covered, Plainly, Attempt
  <2> QED BY <2>1, <2>5, <2>6, RepeatPlain
<1>3. CASE ExecuteNew(t)
  <2>1. /\ Steps(t, "loop", "intent") /\ NothingPending /\ mem'[t] = db'.wf
        /\ db'.wf.attempt = Attempt(t) + 1 /\ db'.intents = db.intents /\ UNCHANGED hist
    BY <1>3, NewDoes DEF KeepsTables, ExecuteNew
  <2>2. mem[t] = db.wf /\ db.wf.attempt \in Nat
    BY <1>0, <2>1, Parameters DEF Steps, Loaded, TypeOK, Database, Row, Numbers
  <2>3. Spare'
    BY <2>1 DEF NothingPending, OpenIntent, OpenIntents, Spare
  <2>4. ASSUME mem'[t].attempt \in Attempts PROVE hist'.calls[mem'[t].attempt] = 0
    <3> DEFINE a == mem'[t].attempt
    <3>1. a = db.wf.attempt + 1
      BY <2>1, <2>2 DEF Attempt
    <3>2. ~(hist.calls[a] > 0)
      BY <2>2, <2>4, <3>1 DEF CallsInv, CallsAreNumbered
    <3>3. hist.calls[a] \in Nat
      BY <2>4 DEF TypeOK
    <3> QED BY <2>1, <3>2, <3>3
  <2>5. RepeatAt(t)'
    BY <2>1, <2>4 DEF Steps, RepeatAt, Verifying, Attempt
  <2>6. Plainly
    BY <1>0, <2>1 DEF Plainly
  <2> QED BY <2>1, <2>3, <2>5, <2>6, RepeatPlain
<1>4. CASE ExecuteIntent(t)
  <2>1. /\ Steps(t, "intent", "check") /\ UNCHANGED <<mem, hist>> /\ db'.wf = db.wf
        /\ \A a \in Attempts : db'.intents[a] \in {db.intents[a], "STARTED"}
    BY <1>4, IntentDoes DEF KeepsButIntents, ExecuteIntent, Write
  <2>2. Plainly
    BY <1>0, <2>1 DEF Plainly
  <2>3. RepeatAt(t)'
    BY <2>1, <2>2 DEF Steps, RepeatInv, RepeatAt, Verifying, Covered, Plainly, Attempt
  <2>4. Rerun(db'.wf) => Spare'
    BY <2>1, <2>2, SpareNow, SpareStays DEF Calling
  <2> QED BY <2>1, <2>2, <2>3, <2>4, RepeatPlain
<1>5. CASE ExecuteCall(t)
  <2> DEFINE b == Attempt(t)
  <2>1. /\ Steps(t, "check", "calling") /\ UNCHANGED db
        /\ hist' = [hist EXCEPT !.calls[b] = @ + 1]
    BY <1>5, CallDoes DEF ExecuteCall
  <2>2. /\ hist'.retries = hist.retries
        /\ \A a \in Attempts : hist'.calls[a] = IF a = b THEN hist.calls[a] + 1 ELSE hist.calls[a]
    BY <2>1 DEF TypeOK
  <2>3. b \in Attempts => hist.calls[b] = 0 \/ (hist.retries[b] > 0 /\ Covered(b))
    BY <2>1 DEF Steps, RepeatInv, RepeatAt
  <2>4. /\ bounds.crashes \in Nat
        /\ \A a \in Attempts : hist.calls[a] \in Nat /\ hist.retries[a] \in Nat
    BY DEF TypeOK
  <2> HIDE DEF b
  <2>5. NoUnapprovedRepeat'
    <3> SUFFICES ASSUME NEW a \in Attempts
                 PROVE  hist'.calls[a] <= 1 + IF hist'.retries[a] = 0 THEN 0
                                              ELSE hist'.retries[a] + bounds'.crashes
      BY DEF NoUnapprovedRepeat
    <3>1. CASE a = b
      BY <1>0, <2>2, <2>3, <2>4, <3>1 DEF Covered
    <3>2. CASE a # b
      BY <1>0, <2>2, <3>2 DEF RepeatInv, NoUnapprovedRepeat
    <3> QED BY <3>1, <3>2
  <2>6. RepeatAt(t)'
    BY <2>1 DEF Steps, RepeatAt, Verifying
  <2> QED BY <2>1, <2>5, <2>6, RepeatKeeps DEF Calling
<1>6. CASE DshWrite(t) \/ DshReturn(t)
  <2>1. /\ Steps(t, "calling", "calling") \/ Steps(t, "calling", "finish")
        /\ db'.intents = db.intents /\ UNCHANGED hist
    BY <1>6, DshWriteDoes, DshReturnDoes DEF KeepsButAttempts, DshWrite, DshReturn, Write
  <2> QED BY <1>0, <2>1, RepeatRow DEF Plainly, Calling
<1>7. CASE DshRaise(t)
  <2>1. /\ Steps(t, "calling", "reload") /\ db'.wf.status = "UNCERTAIN"
        /\ db'.intents = db.intents /\ UNCHANGED hist
    BY <1>7, DshRaiseDoes DEF KeepsTables, Stands, DshRaise, Write
  <2> QED BY <1>0, <2>1, RepeatRow DEF Plainly, Elsewhere, Rerun
<1>8. CASE ExecuteReuse(t) \/ ExecuteFinish(t)
  <2>1. /\ Steps(t, "check", "executed") \/ Steps(t, "finish", "executed")
        /\ UNCHANGED hist
        /\ \A a \in Attempts :
             db'.intents[a] = IF a = Attempt(t) THEN "COMPLETED" ELSE db.intents[a]
    BY <1>8, FinishDoes DEF ExecuteReuse, ExecuteFinish, Write
  <2>2. Attempt(t) = db.wf.attempt
    BY <2>1 DEF Steps, CallsInv, Current, Attempt
  <2>3. Spare' /\ Plainly
    BY <1>0, <2>1, <2>2, NoneApproved DEF Plainly
  <2>4. RepeatAt(t)'
    BY <2>1, <2>3 DEF Steps, RepeatAt
  <2> QED BY <2>1, <2>3, <2>4, RepeatPlain
<1>9. CASE ExecuteDone(t)
  <2>1. Steps(t, "executed", "reload") /\ db'.intents = db.intents /\ UNCHANGED hist
    BY <1>9, DoneDoes DEF KeepsTables, ExecuteDone, Write
  <2>2. Spare
    BY <2>1 DEF Steps, RepeatInv, RepeatAt
  <2> QED BY <1>0, <2>1, <2>2, RepeatRow DEF Plainly, Elsewhere
<1> QED BY <1>1, <1>2, <1>3, <1>4, <1>5, <1>6, <1>7, <1>8, <1>9 DEF Execute

\* A verification begins where no retry is left to be covered.
LEMMA RepeatVerify ==
  ASSUME MaxOverlaps = 0, TypeOK, CallsInv, SeesInv, RepeatInv, NEW t \in Threads, ThreadStep(t),
         Verify(t), ~VerifyDone(t), ~VerifyRaise(t)
  PROVE  RepeatInv'
<1>0. UNCHANGED hist /\ bounds'.crashes = bounds.crashes
  BY CrashesStay, HistStays
<1>1. ASSUME Spare, NEW from, NEW to \in {"save"} \cup Verifying, Steps(t, from, to),
             db'.intents = db.intents
      PROVE  RepeatInv'
  <2>1. Plainly /\ Spare'
    BY <1>0, <1>1, SpareStays DEF Plainly
  <2>2. RepeatAt(t)'
    BY <1>1, <2>1 DEF Steps, RepeatAt, Verifying
  <2> QED BY <1>1, <2>1, <2>2, RepeatPlain
<1>2. ASSUME NEW result \in BOOLEAN, VerifyRun(t, result) PROVE RepeatInv'
  <2>1. Steps(t, "loop", "verify") /\ UNCHANGED db /\ Stands(mem[t], "RUNNING", "VERIFY")
    BY <1>2, VerifyRunDoes
  <2>2. Rerun(db.wf)
    BY <2>1 DEF Steps, SeesInv, Sees, Loaded, Stands, Rerun
  <2>3. Spare
    BY <2>1, <2>2, SpareNow DEF Calling
  <2> QED BY <1>1, <2>1, <2>3 DEF Verifying
<1>3. ASSUME NEW from \in Verifying, NEW to \in {"save"} \cup Verifying, Steps(t, from, to),
             db'.intents = db.intents
      PROVE  RepeatInv'
  BY <1>1, <1>3 DEF Steps, RepeatInv, RepeatAt
<1>4. CASE VerifyRecord(t) \/ VerifyPrepare(t) \/ VerifySavePrepared(t)
  BY <1>3, <1>4, RecordDoes, PrepareDoes, SavePreparedDoes
     DEF Verifying, KeepsRows, KeepsTables, KeepsButAttempts
<1>5. CASE VerifyReview(t) \/ VerifyExhausted(t)
  BY <1>3, <1>5, ReviewDoes, ExhaustedDoes, RequestDoes DEF Reasons, Verifying, KeepsButHitl
<1>6. CASE VerifyAutoPromote(t) \/ VerifyRetry(t)
  BY <1>3, <1>6, AutoPromoteDoes, RetryDoes DEF Verifying, KeepsButProposals
<1> QED BY <1>2, <1>4, <1>5, <1>6 DEF Verify

LEMMA RepeatPromote ==
  ASSUME MaxOverlaps = 0, TypeOK, CallsInv, SeesInv, RepeatInv, NEW t \in Threads, ThreadStep(t),
         Promote(t), ~PromoteDone(t)
  PROVE  RepeatInv'
<1>0. UNCHANGED hist /\ bounds'.crashes = bounds.crashes
  BY CrashesStay, HistStays
<1>1. CASE PromotePlain(t) \/ PromoteTagged(t) \/ PromoteHead(t) \/ PromoteTag(t)
  <2>1. /\ \/ Steps(t, "loop", "version") \/ Steps(t, "loop", "tag") \/ Steps(t, "tag", "version")
        /\ UNCHANGED db
    BY <1>1, PromoteKnownDoes, PromoteHeadDoes, TagDoes
  <2> QED BY <1>0, <2>1, RepeatRow DEF Plainly, Elsewhere, Calling
<1>2. CASE PromoteVersion(t)
  <2>1. /\ Steps(t, "version", "promoted") /\ mem'[t].node = "COMPLETED"
        /\ db'.wf = db.wf /\ db'.intents = db.intents
    BY <1>2, VersionDoes DEF Stands, KeepsButVersions
  <2>2. Plainly
    BY <1>0, <2>1 DEF Plainly
  <2>3. RepeatAt(t)'
    BY <2>1 DEF Steps, RepeatAt, Verifying, Rerun
  <2>4. Rerun(db'.wf) => Spare'
    BY <2>1, <2>2, SpareNow, SpareStays DEF Calling
  <2> QED BY <2>1, <2>2, <2>3, <2>4, RepeatPlain
<1> QED BY <1>1, <1>2 DEF Promote

\* Each row that is saved was worked out from one that leads to no other call.
LEMMA RepeatSaving ==
  ASSUME TypeOK, CallsInv, SeesInv, RepeatInv, NEW t \in Threads, ThreadStep(t),
         \/ StartSave(t) \/ VerifyDone(t) \/ PromoteDone(t) \/ PauseSave(t) \/ ResumeSave(t)
         \/ DecideSave(t) \/ RecoverSave(t) \/ RollbackSave(t)
  PROVE  RepeatInv'
<1>1. PICK from \in Saving, to \in {"idle", "run", "reload"} :
        Steps(t, from, to) /\ db'.wf = mem[t] /\ db'.intents = db.intents
  BY SaveDoes DEF Saving, KeepsTables
<1>2. Plainly
  BY <1>1, CrashesStay
     DEF Plainly, StartSave, VerifyDone, PromoteDone, PauseSave, ResumeSave, DecideSave, RecoverSave,
         RollbackSave, Write, WriteAndReturn
<1>3. ASSUME Rerun(mem[t]) PROVE Spare
  <2>1. CASE from \in {"started", "pause", "rollback", "resume"}
    <3>1. Rerun(db.wf)
      BY <1>1, <1>3, <2>1 DEF Steps, SeesInv, Sees, Stands, Rerun
    <3> QED BY <1>1, <2>1, <3>1, SpareNow DEF Calling
  <2>2. CASE from \in {"save", "promoted", "decided", "recovered"}
    BY <1>1, <1>3, <2>2 DEF Steps, RepeatInv, RepeatAt
  <2> QED BY <2>1, <2>2 DEF Saving
<1> QED BY <1>1, <1>2, <1>3, RepeatRow DEF Elsewhere

LEMMA RepeatReads ==
  ASSUME MaxOverlaps = 0, TypeOK, CallsInv, RepeatInv, NEW t \in Threads, ThreadStep(t),
         PauseRead(t) \/ ResumeRead(t) \/ \E v \in VersionIds : Rollback(t, v)
  PROVE  RepeatInv'
<1>1. UNCHANGED hist /\ bounds'.crashes = bounds.crashes
  BY CrashesStay, HistStays DEF PauseResume, RollBack
<1>2. /\ \/ Steps(t, "idle", "pause") \/ Steps(t, "idle", "resume") \/ Steps(t, "idle", "rollback")
      /\ UNCHANGED db
  BY PauseReadDoes, ResumeReadDoes, RollbackDoes
<1> QED BY <1>1, <1>2, RepeatRow DEF Plainly, Elsewhere, Calling

\* A decision to retry accounts for the next call of the current attempt, to which every
\* approved retry belongs.
LEMMA RetryCovers ==
  ASSUME TypeOK, CallsInv, RepeatInv, bounds'.crashes = bounds.crashes, hist'.calls = hist.calls,
         \A a \in Attempts :
           /\ hist'.retries[a] = hist.retries[a] + IF a = db.wf.attempt THEN 1 ELSE 0
           /\ db'.intents[a] = "RETRY_APPROVED" => a = db.wf.attempt
  PROVE  NoUnapprovedRepeat' /\ Spare'
<1>1. /\ bounds.crashes \in Nat
      /\ \A a \in Attempts : hist.calls[a] \in Nat /\ hist.retries[a] \in Nat
  BY DEF TypeOK
<1>2. \A a \in Attempts : hist.calls[a] <= 1 + IF hist.retries[a] = 0 THEN 0
                                               ELSE hist.retries[a] + bounds.crashes
  BY DEF RepeatInv, NoUnapprovedRepeat
<1>3. ASSUME NEW a \in Attempts
      PROVE  hist'.calls[a] <= 1 + IF hist'.retries[a] = 0 THEN 0
                                   ELSE hist'.retries[a] + bounds'.crashes
  <2>1. CASE a = db.wf.attempt
    BY <1>1, <1>2, <2>1
  <2>2. CASE a # db.wf.attempt
    BY <1>1, <1>2, <2>2
  <2> QED BY <2>1, <2>2
<1>4. ASSUME NEW a \in Attempts, db'.intents[a] = "RETRY_APPROVED"
      PROVE  hist'.calls[a] <= hist'.retries[a] + bounds'.crashes
  BY <1>1, <1>2, <1>4
<1> QED BY <1>3, <1>4 DEF NoUnapprovedRepeat, Spare, Covered

LEMMA RepeatDecide ==
  ASSUME MaxOverlaps = 0, TypeOK, CallsInv, RepeatInv, NEW t \in Threads, ThreadStep(t),
         DecideHitl(t), ~DecideSave(t)
  PROVE  RepeatInv'
<1>0. bounds'.crashes = bounds.crashes
  BY CrashesStay
<1>1. ASSUME NEW r \in Reasons, NEW a \in Attempts, NEW choice, NEW status,
             NEW node \in {"VERSION_PROMOTE", "FAILED"}, Decide(t, r, a, choice, status, node),
             UNCHANGED hist
      PROVE  RepeatInv'
  <2>1. Steps(t, "idle", "resolve") /\ UNCHANGED db /\ mem'[t].node = node
    BY <1>1, DecideDoes DEF Stands
  <2>2. Plainly
    BY <1>0, <1>1, <2>1 DEF Plainly
  <2>3. RepeatAt(t)'
    BY <2>1 DEF Steps, RepeatAt, Verifying, Rerun
  <2>4. Rerun(db'.wf) => Spare'
    BY <2>1, <2>2, SpareNow, SpareStays DEF Calling
  <2> QED BY <2>1, <2>2, <2>3, <2>4, RepeatPlain
<1>2. ASSUME NEW r \in Reasons, NEW a \in Attempts, DecideRetry(t, r, a) PROVE RepeatInv'
  <2>1. Steps(t, "idle", "resolve") /\ UNCHANGED db
    BY <1>2, DecideDoes DEF DecideRetry
  <2>2. NoUnapprovedRepeat' /\ Spare'
    <3>1. \A b \in Attempts : db'.intents[b] = "RETRY_APPROVED" => b = db.wf.attempt
      BY <2>1 DEF CallsInv, CallsAreNumbered, OpenIntent, OpenIntents
    <3> QED BY <1>0, <1>2, <3>1, RetryCounted, RetryCovers
  <2>3. RepeatAt(t)'
    BY <2>1, <2>2 DEF Steps, RepeatAt
  <2> QED BY <2>1, <2>2, <2>3, RepeatKeeps
<1>3. CASE DecideResolve(t)
  <2>1. /\ Steps(t, "resolve", "decided") /\ UNCHANGED <<mem, hist>>
        /\ db'.wf = db.wf /\ db'.intents = db.intents
    BY <1>3, ResolveDoes DEF KeepsButHitl, DecideResolve, Write
  <2>2. Plainly
    BY <1>0, <2>1 DEF Plainly
  <2>3. RepeatAt(t)'
    BY <2>1, <2>2, SpareStays DEF Steps, RepeatInv, RepeatAt, Verifying
  <2>4. Rerun(db'.wf) => Spare'
    BY <2>1, <2>2, SpareNow, SpareStays DEF Calling
  <2> QED BY <2>1, <2>2, <2>3, <2>4, RepeatPlain
<1>4. "promotion_review" \in Reasons
  BY DEF Reasons
<1> QED BY <1>1, <1>2, <1>3, <1>4 DEF DecideHitl, DecideApprove, DecideReject

LEMMA RepeatRecover ==
  ASSUME MaxOverlaps = 0, TypeOK, CallsInv, RepeatInv, NEW t \in Threads, ThreadStep(t),
         RecoverUncertain(t), ~RecoverSave(t)
  PROVE  RepeatInv'
<1>0. bounds'.crashes = bounds.crashes
  BY CrashesStay
<1>1. ASSUME NEW a \in Attempts, NEW action \in Strategies, NEW status \in {"RUNNING", "FAILED"},
             NEW node \in Nodes, Recover(t, a, action, "close", status, node), UNCHANGED hist,
             db'.wf = db.wf, db'.intents = db.intents
      PROVE  RepeatInv'
  <2>1. Steps(t, "idle", "close") /\ loc'[t].about = a /\ Pending(a)
    BY <1>1, RecoverDoes
  <2>2. Plainly /\ a = db.wf.attempt
    BY <1>0, <1>1, <2>1 DEF Plainly, Pending, CallsInv, CallsAreNumbered
  <2>3. RepeatAt(t)'
    BY <1>1, <2>1, <2>2 DEF Steps, RepeatAt, Verifying
  <2>4. Rerun(db'.wf) => Spare'
    BY <1>1, <2>1, <2>2, SpareNow, SpareStays DEF Calling
  <2> QED BY <2>1, <2>2, <2>3, <2>4, RepeatPlain
<1>2. ASSUME NEW a \in Attempts,
             RecoverVerifyExisting(t, a) \/ RecoverRestore(t, a) \/ RecoverAbort(t, a)
      PROVE  RepeatInv'
  <2>1. UNCHANGED hist /\ db'.wf = db.wf /\ db'.intents = db.intents
    BY <1>2, StrategyDoes
       DEF KeepsButAttempts, RecoverVerifyExisting, RecoverRestore, RecoverAbort
  <2> QED BY <1>1, <1>2, <2>1, StrategyDoes DEF Strategies, Nodes
<1>3. ASSUME NEW a \in Attempts, RecoverRetry(t, a) PROVE RepeatInv'
  <2>1. /\ Recover(t, a, "retry-same-attempt", "recovered", "RUNNING", "AGENT_EXECUTE")
        /\ \A b \in Attempts :
             db'.intents[b] = IF b = a THEN "RETRY_APPROVED" ELSE db.intents[b]
    BY <1>3, StrategyDoes
  <2>2. Steps(t, "idle", "recovered") /\ Pending(a)
    BY <2>1, RecoverDoes DEF Strategies, Nodes
  <2>3. a = db.wf.attempt
    BY <2>2 DEF Pending, CallsInv, CallsAreNumbered
  <2>4. hist' = [hist EXCEPT !.retries[a] = @ + 1]
    BY <1>3 DEF RecoverRetry
  <2>5. /\ hist'.calls = hist.calls
        /\ \A b \in Attempts :
             hist'.retries[b] = hist.retries[b] + IF b = db.wf.attempt THEN 1 ELSE 0
    BY <2>3, <2>4 DEF TypeOK
  <2>6. \A b \in Attempts : db'.intents[b] = "RETRY_APPROVED" => b = db.wf.attempt
    BY <2>1, <2>3 DEF CallsInv, CallsAreNumbered, OpenIntent, OpenIntents
  <2>7. NoUnapprovedRepeat' /\ Spare'
    BY <1>0, <2>5, <2>6, RetryCovers
  <2>8. RepeatAt(t)'
    BY <2>2, <2>7 DEF Steps, RepeatAt
  <2> QED BY <2>2, <2>7, <2>8, RepeatKeeps
<1>4. CASE RecoverClose(t)
  <2>1. /\ Steps(t, "close", "recovered") /\ UNCHANGED hist
        /\ \A a \in Attempts : db'.intents[a] =
             IF a = loc[t].about THEN Outcome(loc[t].action) ELSE db.intents[a]
    BY <1>4, CloseDoes DEF RecoverClose, Write
  <2>2. loc[t].about = db.wf.attempt /\ Outcome(loc[t].action) # "RETRY_APPROVED"
    BY <2>1 DEF Steps, RepeatInv, RepeatAt, Outcome
  <2>3. Spare' /\ Plainly
    BY <1>0, <2>1, <2>2, NoneApproved DEF Plainly
  <2>4. RepeatAt(t)'
    BY <2>1, <2>3 DEF Steps, RepeatAt
  <2> QED BY <2>1, <2>3, <2>4, RepeatPlain
<1> QED BY <1>2, <1>3, <1>4 DEF RecoverUncertain

\* A crash leaves the approval of a retry that was used, and accounts for one more call.
LEMMA RepeatCrash ==
  ASSUME TypeOK, CallsInv, RepeatInv, Crash PROVE RepeatInv'
<1>1. /\ UNCHANGED <<db, hist>> /\ bounds'.crashes = bounds.crashes + 1
      /\ \A t \in Threads : pc'[t] = "idle"
  BY DEF Crash, TypeOK
<1>2. /\ bounds.crashes \in Nat
      /\ \A a \in Attempts : hist.calls[a] \in Nat /\ hist.retries[a] \in Nat
  BY DEF TypeOK
<1>3. \A a \in Attempts : hist.calls[a] <= 1 + IF hist.retries[a] = 0 THEN 0
                                               ELSE hist.retries[a] + bounds.crashes
  BY DEF RepeatInv, NoUnapprovedRepeat
<1>4. NoUnapprovedRepeat'
  <2> SUFFICES ASSUME NEW a \in Attempts
               PROVE  hist'.calls[a] <= 1 + IF hist'.retries[a] = 0 THEN 0
                                            ELSE hist'.retries[a] + bounds'.crashes
    BY DEF NoUnapprovedRepeat
  <2> QED BY <1>1, <1>2, <1>3
<1>5. Spare'
  <2> SUFFICES ASSUME NEW a \in Attempts, db.intents[a] = "RETRY_APPROVED"
               PROVE  hist.calls[a] <= hist.retries[a] + (bounds.crashes + 1)
    BY <1>1 DEF Spare, Covered
  <2>1. hist.retries[a] > 0
    BY DEF CallsInv, CallsAreNumbered
  <2> QED BY <1>2, <1>3, <2>1
<1>6. \A t \in Threads : RepeatAt(t)'
  BY <1>1 DEF RepeatAt, Verifying
<1> QED BY <1>4, <1>5, <1>6 DEF RepeatInv

LEMMA RepeatInit == Init => RepeatInv
<1> SUFFICES ASSUME Init PROVE RepeatInv
  OBVIOUS
<1>1. \A t \in Threads : RepeatAt(t)
  BY DEF Init, RepeatAt, Verifying
<1>2. NoUnapprovedRepeat /\ Spare
  BY DEF Init, NoUnapprovedRepeat, Spare
<1> QED BY <1>1, <1>2 DEF RepeatInv

LEMMA RepeatStep ==
  ASSUME MaxOverlaps = 0, TypeOK, CallsInv, SeesInv, RepeatInv, [Next]_vars PROVE RepeatInv'
<1>1. ASSUME NEW t \in Threads, ThreadStep(t) PROVE RepeatInv'
  <2>1. CASE Start(t) \/ Run(t) \/ Execute(t)
    BY <1>1, <2>1, RepeatStart, RepeatRun, RepeatExecute, RepeatSaving
  <2>2. CASE Verify(t) \/ Promote(t)
    BY <1>1, <2>2, RepeatRun, RepeatVerify, RepeatPromote, RepeatSaving
  <2>3. CASE PauseResume(t) \/ RollBack(t)
    BY <1>1, <2>3, RepeatReads, RepeatSaving DEF PauseResume, RollBack
  <2>4. CASE DecideHitl(t) \/ RecoverUncertain(t)
    BY <1>1, <2>4, RepeatDecide, RepeatRecover, RepeatSaving
  <2> QED BY <1>1, <2>1, <2>2, <2>3, <2>4 DEF ThreadStep
<1>2. CASE OutsideEdit \/ Overwrite \/ UNCHANGED vars
  <2>1. UNCHANGED <<db, pc, mem, loc, hist>> /\ bounds'.crashes = bounds.crashes
    BY <1>2 DEF OutsideEdit, Overwrite, vars, TypeOK
  <2>2. Spare' = Spare /\ NoUnapprovedRepeat' = NoUnapprovedRepeat
    BY <2>1 DEF Spare, Covered, NoUnapprovedRepeat
  <2>3. \A t \in Threads : RepeatAt(t)' = RepeatAt(t)
    BY <2>1, <2>2 DEF RepeatAt, Covered, Attempt
  <2> QED BY <2>1, <2>2, <2>3 DEF RepeatInv
<1> QED BY <1>1, <1>2, RepeatCrash DEF Next

\* D-023, of _execute, recover_uncertain and decide_hitl: while requests are served one at
\* a time, wherever the process crashes and however often, an attempt is called once and
\* once more for each decision of a human to retry; only where there was one does a crash
\* repeat the call unasked, at most once each.
THEOREM NoUnapprovedRepeatHolds ==
  ASSUME MaxOverlaps = 0 PROVE Spec => []NoUnapprovedRepeat
<1> DEFINE Inv == TypeOK /\ CallsInv /\ SeesInv /\ RepeatInv
<1>1. Inv /\ [Next]_vars => Inv'
  BY TypeStep, CallsStep, SeesStep, RepeatStep
<1>2. Init => Inv
  BY TypeInit, CallsInit, SeesInit, RepeatInit
<1>3. Inv => NoUnapprovedRepeat
  BY DEF RepeatInv
<1> QED BY <1>1, <1>2, <1>3, PTL DEF Spec
-----------------------------------------------------------------------------
(* Calm: requests one at a time, no crash and a spec that stays.  Then     *)
(* each commit leaves a row the next request can go on from.               *)

\* What the tables hold about attempt a.  No execution of any attempt is open:
NothingOpen(d) == \A b \in Attempts : d.intents[b] \notin OpenIntents
\* Its verification has inserted nothing yet:
Unverified(d, a) ==
  a \in Attempts /\ a \notin d.proposals /\ \A r \in Reasons : d.hitl[r][a].state = "absent"
\* Nobody knows how its DSH call ended:
Unknown(d, a) == Unverified(d, a) /\ d.intents[a] \in OpenIntents
\* A human has approved another call:
Again(d, a) == Unverified(d, a) /\ d.intents[a] = "RETRY_APPROVED"
\* Its artifact can be verified:
Testable(d, a) == Unverified(d, a) /\ d.attempts[a].output # "none" /\ NothingOpen(d)
\* A human is asked about it:
Asked(d, a) == a \in Attempts /\ NothingOpen(d) /\ \E r \in Reasons : d.hitl[r][a].state = "open"
\* It may be promoted:
Cleared(d, a) ==
  /\ a \in Attempts /\ NothingOpen(d)
  /\ d.contract.review => d.hitl["promotion_review"][a].state = "approve"

\* The tables hold what a request needs that loads row x.
Backed(d, x) ==
  /\ x.status = "UNCERTAIN" => x.node = "AGENT_EXECUTE" /\ Unknown(d, x.attempt)
  /\ x.status = "WAITING_HITL" => x.node = "WAIT_HITL" /\ Asked(d, x.attempt)
  /\ x.status \in {"RUNNING", "PAUSED"} =>
       \/ /\ x.node = "AGENT_EXECUTE" /\ NothingOpen(d)
          /\ x.attempt = 0 \/ BudgetLeft(x.attempt)
       \/ x.node = "AGENT_EXECUTE" /\ Again(d, x.attempt)
       \/ x.node = "VERIFY" /\ Testable(d, x.attempt)
       \/ x.node = "VERSION_PROMOTE" /\ Cleared(d, x.attempt)

\* Between these points the row in the database is behind the tables.
Saved == {"save", "promoted", "decided", "recovered"}
HalfSaved == Working \cup Saved

\* At most one human request is open, that of a row that waits, or is about to.
OneOpen(d, p, m) ==
  \A r \in Reasons, a \in Attempts : d.hitl[r][a].state = "open" =>
    /\ a = d.wf.attempt /\ p # "decided"
    /\ \/ d.wf.status = "WAITING_HITL"
       \/ p = "save" /\ m.status = "WAITING_HITL"
    /\ \A s \in Reasons : d.hitl[s][a].state = "open" => s = r

\* No table knows of an attempt that is still to come.
Ahead(d) ==
  \A a \in Attempts : a > d.wf.attempt => Unverified(d, a) /\ d.intents[a] = "NONE"

\* What holds of the attempt while a node works on it ...
InNode(d, p, a) ==
  /\ p \in Working => Stands(d.wf, "RUNNING", "AGENT_EXECUTE") /\ Unverified(d, a)
  /\ p = "intent" => NothingOpen(d) /\ d.intents[a] = "NONE"
  /\ p \in {"check", "calling", "finish"} => d.intents[a] \in OpenIntents
  /\ p \in {"finish", "executed"} => d.attempts[a].output # "none"
  /\ p = "executed" => NothingOpen(d)
  /\ p \in Verifying \cup {"save"} => Stands(d.wf, "RUNNING", "VERIFY")
  /\ p \in {"tag", "version", "promoted"} => Stands(d.wf, "RUNNING", "VERSION_PROMOTE")

\* ... while a decision or a recovery is carried out ...
InAnswer(d, p, m, l, a) ==
  /\ p \in {"resolve", "decided"} =>
       /\ Stands(d.wf, "WAITING_HITL", "WAIT_HITL") /\ a \in Attempts
       /\ \/ Stands(m, "RUNNING", "VERSION_PROMOTE")
          \/ Stands(m, "RUNNING", "AGENT_EXECUTE") /\ BudgetLeft(a)
          \/ Stands(m, "FAILED", "FAILED")
  /\ p = "resolve" =>
       /\ l.about = a /\ l.choice # "open" /\ d.hitl[l.reason][a].state = "open"
       /\ m.node = "VERSION_PROMOTE" => l.reason = "promotion_review" /\ l.choice = "approve"
  /\ p \in {"close", "recovered"} =>
       /\ Stands(d.wf, "UNCERTAIN", "AGENT_EXECUTE")
       /\ \/ Stands(m, "RUNNING", "VERIFY") \/ Stands(m, "RUNNING", "AGENT_EXECUTE")
          \/ Stands(m, "FAILED", "FAILED")
  /\ p = "close" =>
       /\ l.about = a /\ m.node # "AGENT_EXECUTE"
       /\ m.node = "VERIFY" => d.attempts[a].output # "none"

\* ... and of the row that it is about to save.
InSave(d, p, m) ==
  /\ p = "save" => \/ Stands(m, "WAITING_HITL", "WAIT_HITL")
                   \/ Stands(m, "RUNNING", "AGENT_EXECUTE") /\ BudgetLeft(m.attempt)
                   \/ Stands(m, "RUNNING", "VERSION_PROMOTE") /\ ~d.contract.review
  /\ p = "promoted" => Stands(m, "COMPLETED", "COMPLETED")
  /\ p \in Saved => Backed(d, m)

CalmAt(d, p, m, l) ==
  /\ p \notin HalfSaved => Backed(d, d.wf)
  /\ OneOpen(d, p, m)
  /\ InNode(d, p, d.wf.attempt)
  /\ InAnswer(d, p, m, l, d.wf.attempt)
  /\ InSave(d, p, m)

CalmInv ==
  /\ Ahead(db)
  /\ AllIdle => CalmAt(db, "idle", NoRow, NoLocals)
  /\ \A t \in Threads : pc[t] # "idle" => CalmAt(db, pc[t], mem[t], loc[t])

\* Two databases that agree on what Backed reads.
Agree(d, e) ==
  /\ e.contract = d.contract /\ e.proposals = d.proposals /\ e.intents = d.intents
  /\ \A a \in Attempts : e.attempts[a].output = d.attempts[a].output
  /\ \A r \in Reasons, a \in Attempts : e.hitl[r][a].state = d.hitl[r][a].state

LEMMA AgreeBacks ==
  ASSUME Agree(db, db'), Backed(db, db'.wf) PROVE Backed(db', db'.wf)
<1>1. ASSUME NEW a
      PROVE  /\ NothingOpen(db') = NothingOpen(db) /\ Unverified(db', a) = Unverified(db, a)
             /\ Unknown(db, a) => Unknown(db', a)
             /\ Again(db, a) => Again(db', a)
             /\ Testable(db, a) => Testable(db', a)
  BY DEF Agree, NothingOpen, Unverified, Unknown, Again, Testable
<1>2. ASSUME NEW a
      PROVE  /\ Asked(db, a) => Asked(db', a)
             /\ Cleared(db, a) => Cleared(db', a)
  BY DEF Agree, Asked, Cleared, NothingOpen, Reasons
<1> QED BY <1>1, <1>2 DEF Backed

\* The request that is served, or about to begin, finds things calm.
LEMMA CalmHas ==
  ASSUME CalmInv, NEW t \in Threads, NEW from, NEW to, Steps(t, from, to)
  PROVE  Ahead(db) /\ CalmAt(db, from, mem[t], loc[t])
<1>1. CASE from = "idle"
  <2>1. CalmAt(db, "idle", NoRow, NoLocals)
    BY <1>1 DEF CalmInv, Steps
  <2>2. CalmAt(db, "idle", mem[t], loc[t])
    BY <2>1 DEF CalmAt, OneOpen, InNode, InAnswer, InSave, HalfSaved, Working, Saved, Verifying
  <2> QED BY <1>1, <2>2 DEF CalmInv
<1> QED BY <1>1 DEF CalmInv, Steps

LEMMA CalmKeeps ==
  ASSUME CallsInv, NEW t \in Threads, NEW from, NEW to, Steps(t, from, to),
         Ahead(db'), CalmAt(db', to, mem'[t], loc'[t])
  PROVE  CalmInv'
<1>1. \A u \in Threads \ {t} : pc'[u] = "idle"
  BY AloneInStep DEF Steps
<1>2. pc'[t] = to
  BY DEF Steps
<1>3. ASSUME to = "idle" PROVE CalmAt(db', "idle", NoRow, NoLocals)
  BY <1>3 DEF CalmAt, OneOpen, InNode, InAnswer, InSave, HalfSaved, Working, Saved, Verifying
<1>4. \A u \in Threads : pc'[u] # "idle" => u = t
  BY <1>1
<1> QED BY <1>2, <1>3, <1>4 DEF CalmInv, AllIdle

\* Steps that leave the row and what it is backed by as they were.
LEMMA CalmStays ==
  ASSUME CallsInv, CalmInv, NEW t \in Threads, NEW from, NEW to, Steps(t, from, to),
         from \notin HalfSaved, from # "save", to # "decided", Agree(db, db'), db'.wf = db.wf,
         InNode(db', to, db'.wf.attempt), InAnswer(db', to, mem'[t], loc'[t], db'.wf.attempt),
         InSave(db', to, mem'[t])
  PROVE  CalmInv'
<1>1. Ahead(db) /\ CalmAt(db, from, mem[t], loc[t])
  BY CalmHas
<1>2. Ahead(db')
  BY <1>1 DEF Ahead, Unverified, Agree
<1>3. Backed(db', db'.wf)
  BY <1>1, AgreeBacks DEF CalmAt
<1>4. OneOpen(db', to, mem'[t])
  BY <1>1 DEF CalmAt, OneOpen, Agree
<1> QED BY <1>2, <1>3, <1>4, CalmKeeps DEF CalmAt

\* Steps that save a row without answering or asking anything.
LEMMA CalmSaves ==
  ASSUME CallsInv, CalmInv, NEW t \in Threads, NEW from, NEW to, Steps(t, from, to),
         to \in {"idle", "run", "reload"}, Agree(db, db'), db'.wf.attempt = db.wf.attempt,
         Backed(db, db'.wf),
         OneOpen(db', to, mem'[t])
  PROVE  CalmInv'
<1>1. Ahead(db')
  BY CalmHas DEF Ahead, Unverified, Agree
<1>2. Backed(db', db'.wf)
  BY AgreeBacks
<1>3. /\ InNode(db', to, db'.wf.attempt) /\ InSave(db', to, mem'[t])
      /\ InAnswer(db', to, mem'[t], loc'[t], db'.wf.attempt)
  BY DEF InNode, InAnswer, InSave, Working, Verifying, Saved
<1> QED BY <1>1, <1>2, <1>3, CalmKeeps DEF CalmAt

\* Nobody is asked while a node runs.
LEMMA NobodyAsked ==
  ASSUME NEW d, NEW p, NEW m, NEW l, CalmAt(d, p, m, l), d.wf.status # "WAITING_HITL",
         p # "save"
  PROVE  \A r \in Reasons, a \in Attempts : d.hitl[r][a].state # "open"
BY DEF CalmAt, OneOpen

LEMMA TablesAgree ==
  ASSUME KeepsTables(db') PROVE Agree(db, db')
BY DEF KeepsTables, Agree

\* The points where nothing is known but the row.
LEMMA CalmElsewhere ==
  ASSUME NEW d, NEW m, NEW l, NEW a,
         NEW p \in {"idle", "contract", "baseline", "started", "pause", "resume", "run", "loop",
                    "reload", "rollback"}
  PROVE  InNode(d, p, a) /\ InAnswer(d, p, m, l, a) /\ InSave(d, p, m)
BY DEF InNode, InAnswer, InSave, Working, Verifying, Saved

LEMMA CalmStart ==
  ASSUME MaxOverlaps = 0, TypeOK, CallsInv, SeesInv, CalmInv, NEW t \in Threads,
         \/ \E c \in Contracts : StartCreate(t, c)
         \/ StartContract(t) \/ StartBaseline(t)
  PROVE  CalmInv'
<1>1. ASSUME NEW c \in Contracts, StartCreate(t, c) PROVE CalmInv'
  <2>1. /\ Steps(t, "idle", "contract") /\ ~Exists /\ db'.wf = NewRow /\ KeepsTables(db')
    BY <1>1, CreateDoes
  <2>2. Ahead(db) /\ CalmAt(db, "idle", mem[t], loc[t]) /\ db.wf = NoRow
    BY <2>1, CalmHas DEF SeesInv
  <2>3. /\ NewRow.attempt = 0 /\ NoRow.attempt = 0
        /\ NewRow.status = "RUNNING" /\ NewRow.node = "AGENT_EXECUTE" /\ NoRow.status = "ABSENT"
    BY DEF NewRow, NoRow
  <2>4. \A a \in Attempts : a > 0
    BY Parameters DEF Attempts
  <2>5. Ahead(db') /\ NothingOpen(db')
    BY <2>1, <2>2, <2>3, <2>4 DEF Ahead, NothingOpen, Unverified, KeepsTables, OpenIntents
  <2>6. OneOpen(db', "contract", mem'[t])
    BY <2>1, <2>2, <2>3, NobodyAsked DEF OneOpen, KeepsTables
  <2>7. Backed(db', db'.wf)
    BY <2>1, <2>3, <2>5 DEF Backed
  <2> QED BY <2>1, <2>5, <2>6, <2>7, CalmKeeps, CalmElsewhere DEF CalmAt
<1>2. CASE StartContract(t)
  <2>1. PICK to \in {"baseline", "run"} :
          /\ Steps(t, "contract", to) /\ UNCHANGED mem /\ db'.wf = db.wf
          /\ db'.attempts = db.attempts /\ db'.intents = db.intents
          /\ db'.proposals = db.proposals /\ db'.hitl = db.hitl
    BY <1>2, ContractDoes
  <2>2. Ahead(db) /\ CalmAt(db, "contract", mem[t], loc[t]) /\ db.wf.attempt = 0
    BY <2>1, CalmHas DEF SeesInv, Sees, Steps
  <2>3. db.wf.attempt \notin Attempts
    BY <2>2, Parameters DEF Attempts
  <2>4. Backed(db', db'.wf)
    BY <2>1, <2>2, <2>3
       DEF CalmAt, HalfSaved, Working, Saved, Backed, Unknown, Again, Testable, Asked, Cleared,
           Unverified, NothingOpen
  <2>5. Ahead(db') /\ OneOpen(db', to, mem'[t])
    BY <2>1, <2>2 DEF CalmAt, Ahead, Unverified, OneOpen
  <2> QED BY <2>1, <2>4, <2>5, CalmKeeps, CalmElsewhere DEF CalmAt
<1>3. CASE StartBaseline(t)
  <2>1. Steps(t, "baseline", "started") /\ Agree(db, db') /\ db'.wf = db.wf
    BY <1>3, BaselineDoes DEF Agree
  <2> QED BY <2>1, CalmStays, CalmElsewhere DEF HalfSaved, Working, Saved
<1> QED BY <1>1, <1>2, <1>3

LEMMA CalmRun ==
  ASSUME SpecAvailable, TypeOK, CallsInv, SeesInv, CalmInv, NEW t \in Threads, Run(t)
  PROVE  CalmInv'
<1>1. CASE RunLock(t) \/ RunReload(t)
  <2>1. PICK from \in {"run", "reload"} : Steps(t, from, "loop") /\ UNCHANGED db
    BY <1>1, LoadDoes
  <2> QED BY <2>1, CalmStays, CalmElsewhere DEF HalfSaved, Working, Saved, Agree
<1>2. CASE RunPause(t)
  <2>1. /\ Steps(t, "loop", "idle") /\ mem[t].status = "RUNNING" /\ KeepsTables(db')
        /\ db'.wf.attempt = mem[t].attempt /\ Stands(db'.wf, "PAUSED", mem[t].node)
    BY <1>2, PauseDoes DEF SameWork
  <2>2. CalmAt(db, "loop", mem[t], loc[t]) /\ mem[t] = db.wf
    BY <2>1, CalmHas DEF SeesInv, Sees, Loaded, Steps
  <2>3. Backed(db, db'.wf)
    BY <2>1, <2>2 DEF CalmAt, HalfSaved, Working, Saved, Backed, Stands
  <2>4. OneOpen(db', "idle", mem'[t])
    BY <2>1, <2>2, NobodyAsked DEF OneOpen, KeepsTables
  <2> QED BY <2>1, <2>2, <2>3, <2>4, CalmSaves, TablesAgree
<1>3. CASE RunExit(t) \/ NodeRaise(t)
  <2>1. PICK from \in {"loop", "prepare", "gate", "gate_failed"} : Steps(t, from, "idle")
    BY <1>3, RaiseDoes
  <2>2. UNCHANGED db
    BY <1>3, RaiseDoes
  <2> QED BY <2>1, <2>2, CalmStays, CalmElsewhere DEF HalfSaved, Working, Saved, Agree
<1> QED BY <1>1, <1>2, <1>3 DEF Run

\* The intent that is closed was the only one open.
LEMMA ClosesLast ==
  ASSUME CallsInv, NEW to \in {"COMPLETED", "RECOVERED", "RESTORED", "ABORTED_UNCERTAIN"},
         \A a \in Attempts : db'.intents[a] = IF a = db.wf.attempt THEN to ELSE db.intents[a]
  PROVE  NothingOpen(db')
BY DEF CallsInv, CallsAreNumbered, OpenIntent, OpenIntents, NothingOpen

\* A step of a node that has the attempt in hand and asks nobody.
LEMMA CalmWorks ==
  ASSUME CallsInv, SeesInv, CalmInv, NEW t \in Threads, NEW from \in Working, NEW to \in Working,
         Steps(t, from, to), db'.wf = db.wf, db'.proposals = db.proposals, db'.hitl = db.hitl,
         \A a \in Attempts : a > db.wf.attempt => db'.intents[a] = db.intents[a],
         InNode(db', to, db.wf.attempt)
  PROVE  CalmInv'
<1>1. Ahead(db) /\ CalmAt(db, from, mem[t], loc[t])
  BY CalmHas
<1>2. Ahead(db')
  BY <1>1 DEF Ahead, Unverified
<1>3. db.wf.status # "WAITING_HITL" /\ from # "save" /\ to # "save"
  BY <1>1 DEF CalmAt, InNode, Stands, Working
<1>4. \A r \in Reasons, a \in Attempts : db.hitl[r][a].state # "open"
  BY <1>1, <1>3, NobodyAsked
<1>5. OneOpen(db', to, mem'[t]) /\ to \in HalfSaved
  BY <1>4 DEF OneOpen, HalfSaved
<1>6. InAnswer(db', to, mem'[t], loc'[t], db.wf.attempt) /\ InSave(db', to, mem'[t])
  BY DEF InAnswer, InSave, Working, Saved
<1> QED BY <1>2, <1>5, <1>6, CalmKeeps DEF CalmAt

LEMMA CalmBegins ==
  ASSUME TypeOK, CallsInv, SeesInv, CalmInv, NEW t \in Threads, ExecuteNew(t) PROVE CalmInv'
<1>1. /\ Steps(t, "loop", "intent") /\ NothingPending
      /\ Stands(mem[t], "RUNNING", "AGENT_EXECUTE") /\ Attempt(t) < AttemptCap
      /\ db'.wf.attempt = Attempt(t) + 1
      /\ Stands(db'.wf, "RUNNING", "AGENT_EXECUTE") /\ KeepsTables(db')
  BY NewDoes
<1>2. Ahead(db) /\ CalmAt(db, "loop", mem[t], loc[t]) /\ mem[t] = db.wf
  BY <1>1, CalmHas DEF SeesInv, Sees, Loaded, Steps
<1>3. db.wf.attempt \in Nat
  BY Parameters DEF TypeOK, Database, Row, Numbers
<1>4. /\ db'.wf.attempt \in Attempts /\ db'.wf.attempt > db.wf.attempt
      /\ \A a \in Attempts : a > db'.wf.attempt => a > db.wf.attempt
  BY <1>1, <1>2, <1>3, Parameters DEF Attempt, Attempts
<1>5. Ahead(db')
  BY <1>1, <1>2, <1>4 DEF Ahead, Unverified, KeepsTables
<1>6. /\ NothingOpen(db') /\ Unverified(db', db'.wf.attempt)
      /\ db'.intents[db'.wf.attempt] = "NONE"
  BY <1>1, <1>2, <1>4 DEF Ahead, Unverified, KeepsTables, NothingPending, OpenIntent, NothingOpen
<1>7. OneOpen(db', "intent", mem'[t])
  BY <1>1, <1>2, NobodyAsked DEF OneOpen, KeepsTables, Stands
<1>8. /\ InNode(db', "intent", db'.wf.attempt) /\ InSave(db', "intent", mem'[t])
      /\ InAnswer(db', "intent", mem'[t], loc'[t], db'.wf.attempt)
  BY <1>1, <1>6 DEF InNode, InAnswer, InSave, Working, Verifying, Saved
<1> QED BY <1>1, <1>5, <1>7, <1>8, CalmKeeps DEF CalmAt, HalfSaved, Working

LEMMA CalmExecute ==
  ASSUME TypeOK, CallsInv, SeesInv, CalmInv, NEW t \in Threads, Execute(t) PROVE CalmInv'
<1>0. pc[t] \in Loaded => mem[t] = db.wf
  BY DEF SeesInv, Sees
<1>1. ASSUME NEW a \in Attempts, Steps(t, "loop", "reload") \/ Steps(t, "loop", "check"),
             Stands(mem[t], "RUNNING", "AGENT_EXECUTE"), Pending(a)
      PROVE  /\ db.wf.attempt = a /\ Again(db, a)
             /\ Stands(db.wf, "RUNNING", "AGENT_EXECUTE")
  <2>1. CalmAt(db, "loop", mem[t], loc[t]) /\ mem[t] = db.wf
    BY <1>0, <1>1, CalmHas DEF Loaded, Steps
  <2>2. db.wf.attempt = a /\ ~NothingOpen(db)
    BY <1>1 DEF CallsInv, CallsAreNumbered, Pending, NothingOpen, OpenIntent
  <2> QED BY <1>1, <2>1, <2>2 DEF CalmAt, Backed, HalfSaved, Working, Saved, Stands
<1>2. ASSUME NEW a \in Attempts, ExecuteUncertain(t, a) PROVE CalmInv'
  BY <1>1, <1>2, UncertainDoes DEF Again
<1>3. ASSUME NEW a \in Attempts, ExecuteApprovedRetry(t, a) PROVE CalmInv'
  <2>1. /\ Steps(t, "loop", "check") /\ UNCHANGED db
        /\ db.wf.attempt = a /\ Again(db, a) /\ Stands(db.wf, "RUNNING", "AGENT_EXECUTE")
    BY <1>1, <1>3, ApprovedRetryDoes
  <2>2. Ahead(db) /\ CalmAt(db, "loop", mem[t], loc[t])
    BY <2>1, CalmHas
  <2>3. OneOpen(db, "check", mem'[t])
    BY <2>1, <2>2, NobodyAsked DEF OneOpen, Stands
  <2>4. /\ InNode(db, "check", db.wf.attempt) /\ InSave(db, "check", mem'[t])
        /\ InAnswer(db, "check", mem'[t], loc'[t], db.wf.attempt)
    BY <2>1 DEF InNode, InAnswer, InSave, Working, Verifying, Saved, Again, OpenIntents
  <2> QED BY <2>1, <2>2, <2>3, <2>4, CalmKeeps DEF CalmAt, HalfSaved, Working
<1>4. CASE ExecuteIntent(t)
  <2>1. /\ Steps(t, "intent", "check") /\ KeepsButIntents
        /\ \A a \in Attempts :
             db'.intents[a] = IF a = Attempt(t) /\ db.intents[a] = "NONE" THEN "STARTED"
                                                                         ELSE db.intents[a]
    BY <1>4, IntentDoes
  <2>2. CalmAt(db, "intent", mem[t], loc[t]) /\ Attempt(t) = db.wf.attempt
    BY <1>0, <2>1, CalmHas DEF Loaded, Working, Steps, Attempt
  <2>3. InNode(db', "check", db.wf.attempt)
    BY <2>1, <2>2 DEF CalmAt, InNode, Working, Verifying, Unverified, KeepsButIntents, OpenIntents
  <2>4. \A a \in Attempts : a > db.wf.attempt => db'.intents[a] = db.intents[a]
    BY <2>1, <2>2, Parameters DEF TypeOK, Database, Row, Numbers, Attempts
  <2> QED BY <2>1, <2>3, <2>4, CalmWorks DEF Working, KeepsButIntents
<1>5. CASE ExecuteCall(t) \/ DshWrite(t)
  <2>1. /\ Steps(t, "check", "calling") \/ Steps(t, "calling", "calling")
        /\ UNCHANGED db
    BY <1>5, CallDoes, DshWriteDoes
  <2>2. InNode(db, "calling", db.wf.attempt)
    BY <2>1, CalmHas DEF CalmAt, InNode, Working, Verifying
  <2> QED BY <2>1, <2>2, CalmWorks DEF Working
<1>6. CASE DshReturn(t)
  <2>1. /\ Steps(t, "calling", "finish") /\ KeepsButAttempts
        /\ \A a \in Attempts :
             db'.attempts[a] = IF a = Attempt(t) THEN [output |-> "dsh", prep |-> NoPrepared]
                                                 ELSE db.attempts[a]
    BY <1>6, DshReturnDoes
  <2>2. CalmAt(db, "calling", mem[t], loc[t]) /\ Attempt(t) = db.wf.attempt
    BY <1>0, <2>1, CalmHas DEF Loaded, Working, Steps, Attempt
  <2>3. InNode(db', "finish", db.wf.attempt)
    BY <2>1, <2>2 DEF CalmAt, InNode, Working, Verifying, Unverified, KeepsButAttempts
  <2> QED BY <2>1, <2>3, CalmWorks DEF Working, KeepsButAttempts
<1>7. CASE ExecuteReuse(t) \/ ExecuteFinish(t)
  <2>1. /\ \/ Steps(t, "check", "executed") /\ HasAttempt(Attempt(t))
           \/ Steps(t, "finish", "executed")
        /\ KeepsButIntents
        /\ \A a \in Attempts :
             db'.intents[a] = IF a = Attempt(t) THEN "COMPLETED" ELSE db.intents[a]
    BY <1>7, FinishDoes
  <2>2. PICK from \in {"check", "finish"} :
          /\ Steps(t, from, "executed")
          /\ from = "check" => HasAttempt(Attempt(t))
    BY <2>1
  <2>3. CalmAt(db, from, mem[t], loc[t]) /\ Attempt(t) = db.wf.attempt
    BY <1>0, <2>2, CalmHas DEF Loaded, Working, Steps, Attempt
  <2>4. db.attempts[db.wf.attempt].output # "none"
    BY <2>2, <2>3 DEF CalmAt, InNode, HasAttempt
  <2>5. NothingOpen(db')
    BY <2>1, <2>3, ClosesLast
  <2>6. InNode(db', "executed", db.wf.attempt)
    BY <2>1, <2>2, <2>3, <2>4, <2>5
       DEF CalmAt, InNode, Working, Verifying, Unverified, KeepsButIntents
  <2>7. \A a \in Attempts : a > db.wf.attempt => db'.intents[a] = db.intents[a]
    BY <2>1, <2>3, Parameters DEF TypeOK, Database, Row, Numbers, Attempts
  <2> QED BY <2>1, <2>2, <2>6, <2>7, CalmWorks DEF Working, KeepsButIntents
<1>8. CASE DshRaise(t) \/ ExecuteDone(t)
  <2>1. PICK from \in {"calling", "executed"} :
          /\ Steps(t, from, "reload") /\ SameWork(db'.wf, mem[t]) /\ KeepsTables(db')
          /\ \/ from = "calling" /\ Stands(db'.wf, "UNCERTAIN", mem[t].node)
             \/ from = "executed" /\ Stands(db'.wf, mem[t].status, "VERIFY")
    BY <1>8, DshRaiseDoes, DoneDoes
  <2>2. CalmAt(db, from, mem[t], loc[t]) /\ mem[t] = db.wf
    BY <1>0, <2>1, CalmHas DEF Loaded, Working, Steps
  <2>3. Stands(db.wf, "RUNNING", "AGENT_EXECUTE") /\ from # "save"
    BY <2>2 DEF CalmAt, InNode, Working
  <2>4. Backed(db, db'.wf)
    BY <2>1, <2>2, <2>3 DEF CalmAt, InNode, Backed, Stands, SameWork, Unknown, Testable, Working
  <2>5. OneOpen(db', "reload", mem'[t])
    BY <2>1, <2>2, <2>3, NobodyAsked DEF OneOpen, KeepsTables, Stands
  <2> QED BY <2>1, <2>2, <2>4, <2>5, CalmSaves, TablesAgree DEF SameWork
<1> QED BY <1>2, <1>3, <1>4, <1>5, <1>6, <1>7, <1>8, CalmBegins DEF Execute

\* A step of a node that writes neither the row nor what backs it.
LEMMA CalmPasses ==
  ASSUME CallsInv, SeesInv, CalmInv, NEW t \in Threads, Agree(db, db'), db'.wf = db.wf,
         NEW from \in {"loop", "tag"} \cup Verifying,
         NEW to \in {"tag", "version"} \cup Verifying, Steps(t, from, to),
         Stands(db.wf, "RUNNING", IF to \in Verifying THEN "VERIFY" ELSE "VERSION_PROMOTE")
  PROVE  CalmInv'
<1>1. /\ InNode(db', to, db'.wf.attempt) /\ InSave(db', to, mem'[t])
      /\ InAnswer(db', to, mem'[t], loc'[t], db'.wf.attempt)
  BY DEF InNode, InAnswer, InSave, Working, Verifying, Saved
<1> QED BY <1>1, CalmStays DEF HalfSaved, Working, Saved, Verifying

\* A request for a human, of an attempt that has none yet.
LEMMA CalmAsks ==
  ASSUME TypeOK, CallsInv, SeesInv, CalmInv, NEW t \in Threads,
         NEW from \in {"gate", "gate_failed"}, Steps(t, from, "save"),
         NEW r \in Reasons, NEW fp, NewRequest(r, Attempt(t), fp),
         SameWork(mem'[t], mem[t]), Stands(mem'[t], "WAITING_HITL", "WAIT_HITL")
  PROVE  CalmInv'
<1>1. Ahead(db) /\ CalmAt(db, from, mem[t], loc[t]) /\ mem[t] = db.wf
  BY CalmHas DEF SeesInv, Sees, Loaded, Verifying, Steps
<1>2. Stands(db.wf, "RUNNING", "VERIFY") /\ Testable(db, db.wf.attempt)
  BY <1>1 DEF CalmAt, InNode, Verifying, Backed, Stands, HalfSaved, Working, Saved
<1>3. /\ KeepsButHitl
      /\ \A s \in Reasons, b \in Attempts : db'.hitl[s][b].state =
           IF s = r /\ b = db.wf.attempt THEN "open" ELSE db.hitl[s][b].state
  <2>1. /\ KeepsButHitl
        /\ \A s \in Reasons, b \in Attempts : db'.hitl[s][b] =
             IF s = r /\ b = Attempt(t)
             THEN [state |-> "open", fp |-> fp, created |-> db.clock] ELSE db.hitl[s][b]
    BY RequestDoes
  <2>2. Attempt(t) = db.wf.attempt
    BY <1>1 DEF Attempt
  <2> QED BY <2>1, <2>2
<1>4. \A s \in Reasons, a \in Attempts : db.hitl[s][a].state # "open"
  BY <1>1, <1>2, NobodyAsked DEF Stands
<1>5. OneOpen(db', "save", mem'[t])
  BY <1>3, <1>4 DEF OneOpen, KeepsButHitl, Stands
<1>6. Ahead(db')
  <2>1. db.wf.attempt \in Nat
    BY Parameters DEF TypeOK, Database, Row, Numbers
  <2> QED BY <1>1, <1>3, <2>1 DEF Ahead, Unverified, KeepsButHitl, Attempts
<1>7. Asked(db', mem'[t].attempt)
  BY <1>1, <1>2, <1>3 DEF Asked, Testable, Unverified, NothingOpen, KeepsButHitl, SameWork
<1>8. /\ InNode(db', "save", db'.wf.attempt) /\ InSave(db', "save", mem'[t])
      /\ InAnswer(db', "save", mem'[t], loc'[t], db'.wf.attempt)
  BY <1>2, <1>3, <1>7 DEF InNode, InAnswer, InSave, Working, Verifying, Saved, KeepsButHitl,
                          Backed, Stands
<1> QED BY <1>5, <1>6, <1>8, CalmKeeps DEF CalmAt, HalfSaved, Saved

LEMMA CalmVerify ==
  ASSUME SpecAvailable, TypeOK, CallsInv, SeesInv, CalmInv, NEW t \in Threads, Verify(t), ~VerifyDone(t)
  PROVE  CalmInv'
<1>0. /\ pc[t] \in Loaded => mem[t] = db.wf /\ loc[t].acceptance = db.contract
      /\ pc[t] \in Verifying => Stands(db.wf, "RUNNING", "VERIFY")
  BY DEF SeesInv, Sees, CalmInv, CalmAt, InNode, Verifying
<1>1. ASSUME NEW result \in BOOLEAN, VerifyRun(t, result) PROVE CalmInv'
  <2>1. Steps(t, "loop", "verify") /\ UNCHANGED db /\ Stands(db.wf, "RUNNING", "VERIFY")
    BY <1>0, <1>1, VerifyRunDoes DEF Steps, Loaded
  <2> QED BY <2>1, CalmPasses DEF Agree, Verifying
<1>2. CASE VerifyRaise(t)
  <2>1. PICK from \in {"loop", "prepare", "gate", "gate_failed"} : Steps(t, from, "idle")
    BY <1>2, RaiseDoes
  <2>2. UNCHANGED db
    BY <1>2, RaiseDoes
  <2> QED BY <2>1, <2>2, CalmStays, CalmElsewhere DEF HalfSaved, Working, Saved, Agree
<1>3. CASE VerifyRecord(t) \/ VerifyPrepare(t) \/ VerifySavePrepared(t)
  <2>1. PICK from \in Verifying, to \in Verifying : Steps(t, from, to)
    BY <1>3, RecordDoes, PrepareDoes, SavePreparedDoes DEF Verifying
  <2>2. Agree(db, db') /\ db'.wf = db.wf
    BY <1>3, RecordDoes, PrepareDoes, SavePreparedDoes
       DEF Agree, KeepsRows, KeepsTables, KeepsButAttempts
  <2>3. Stands(db.wf, "RUNNING", "VERIFY")
    BY <1>0, <2>1 DEF Steps
  <2> QED BY <2>1, <2>2, <2>3, CalmPasses
<1>4. CASE VerifyReview(t)
  <2>1. PICK fp : NewRequest("promotion_review", Attempt(t), fp)
    BY <1>4, ReviewDoes
  <2>2. "promotion_review" \in Reasons
    BY DEF Reasons
  <2>3. /\ Steps(t, "gate", "save")
        /\ SameWork(mem'[t], mem[t]) /\ Stands(mem'[t], "WAITING_HITL", "WAIT_HITL")
    BY <1>4, ReviewDoes
  <2> QED BY <2>1, <2>2, <2>3, CalmAsks
<1>5. CASE VerifyExhausted(t)
  <2>1. "max_attempts_reached" \in Reasons
    BY DEF Reasons
  <2>2. /\ Steps(t, "gate_failed", "save")
        /\ SameWork(mem'[t], mem[t]) /\ Stands(mem'[t], "WAITING_HITL", "WAIT_HITL")
        /\ NewRequest("max_attempts_reached", Attempt(t), NoFingerprint)
    BY <1>5, ExhaustedDoes
  <2> QED BY <2>1, <2>2, CalmAsks
<1>6. CASE VerifyAutoPromote(t) \/ VerifyRetry(t)
  <2>1. PICK from \in {"gate", "gate_failed"} :
          /\ Steps(t, from, "save") /\ SameWork(mem'[t], mem[t])
          /\ db'.wf = db.wf /\ db'.contract = db.contract /\ db'.intents = db.intents
          /\ db'.hitl = db.hitl
          /\ \/ /\ ~Approval(t) /\ Stands(mem'[t], mem[t].status, "VERSION_PROMOTE")
                /\ db'.proposals = db.proposals
             \/ /\ BudgetLeft(Attempt(t)) /\ Stands(mem'[t], mem[t].status, "AGENT_EXECUTE")
                /\ db'.proposals = db.proposals \cup {Attempt(t)}
    BY <1>6, AutoPromoteDoes, RetryDoes DEF KeepsButProposals
  <2>2. /\ Ahead(db) /\ CalmAt(db, from, mem[t], loc[t])
        /\ mem[t] = db.wf /\ loc[t].acceptance = db.contract
    BY <1>0, <2>1, CalmHas DEF Loaded, Verifying, Steps
  <2>3. Stands(db.wf, "RUNNING", "VERIFY") /\ Testable(db, db.wf.attempt)
    BY <2>2 DEF CalmAt, InNode, Verifying, Backed, Stands, HalfSaved, Working, Saved
  <2>4. Ahead(db')
    <3>1. db.wf.attempt \in Nat
      BY Parameters DEF TypeOK, Database, Row, Numbers
    <3> QED BY <2>1, <2>2, <3>1 DEF Ahead, Unverified, Attempt, Attempts
  <2>5. OneOpen(db', "save", mem'[t])
    BY <2>1, <2>2, <2>3, NobodyAsked DEF OneOpen, Stands
  <2>6. Backed(db', mem'[t])
    BY <2>1, <2>2, <2>3 DEF Backed, Stands, SameWork, Testable, Unverified, Cleared, NothingOpen,
                            Approval, Attempt
  <2>7. /\ InNode(db', "save", db'.wf.attempt) /\ InSave(db', "save", mem'[t])
        /\ InAnswer(db', "save", mem'[t], loc'[t], db'.wf.attempt)
    BY <2>1, <2>2, <2>3, <2>6 DEF InNode, InAnswer, InSave, Working, Verifying, Saved, Stands,
                                  Approval, Attempt, SameWork
  <2> QED BY <2>1, <2>4, <2>5, <2>7, CalmKeeps DEF CalmAt, HalfSaved, Saved
<1> QED BY <1>1, <1>2, <1>3, <1>4, <1>5, <1>6 DEF Verify

LEMMA CalmPromote ==
  ASSUME TypeOK, CallsInv, SeesInv, CalmInv, NEW t \in Threads, Promote(t), ~PromoteDone(t)
  PROVE  CalmInv'
<1>0. pc[t] = "loop" => mem[t] = db.wf
  BY DEF SeesInv, Sees, Loaded
<1>1. CASE PromotePlain(t) \/ PromoteTagged(t) \/ PromoteHead(t)
  <2>1. PICK to \in {"tag", "version"} : Steps(t, "loop", to)
    BY <1>1, PromoteKnownDoes, PromoteHeadDoes
  <2>2. UNCHANGED db /\ Stands(db.wf, "RUNNING", "VERSION_PROMOTE")
    BY <1>0, <1>1, <2>1, PromoteKnownDoes, PromoteHeadDoes DEF Steps
  <2> QED BY <2>1, <2>2, CalmPasses DEF Agree, Verifying
<1>2. CASE PromoteTag(t)
  <2>1. Steps(t, "tag", "version") /\ UNCHANGED db
    BY <1>2, TagDoes
  <2>2. Stands(db.wf, "RUNNING", "VERSION_PROMOTE")
    BY <2>1, CalmHas DEF CalmAt, InNode
  <2> QED BY <2>1, <2>2, CalmPasses DEF Agree, Verifying
<1>3. CASE PromoteVersion(t)
  <2>1. /\ Steps(t, "version", "promoted") /\ KeepsButVersions
        /\ Stands(mem'[t], "COMPLETED", "COMPLETED")
    BY <1>3, VersionDoes
  <2>2. Ahead(db) /\ CalmAt(db, "version", mem[t], loc[t])
    BY <2>1, CalmHas
  <2>3. Stands(db.wf, "RUNNING", "VERSION_PROMOTE") /\ Ahead(db')
    BY <2>1, <2>2 DEF CalmAt, InNode, Ahead, Unverified, KeepsButVersions
  <2>4. OneOpen(db', "promoted", mem'[t])
    BY <2>1, <2>2, <2>3, NobodyAsked DEF OneOpen, KeepsButVersions, Stands
  <2>5. /\ InNode(db', "promoted", db'.wf.attempt) /\ InSave(db', "promoted", mem'[t])
        /\ InAnswer(db', "promoted", mem'[t], loc'[t], db'.wf.attempt)
    BY <2>1, <2>3 DEF InNode, InAnswer, InSave, Working, Verifying, Saved, Backed, Stands,
                      KeepsButVersions
  <2> QED BY <2>1, <2>3, <2>4, <2>5, CalmKeeps DEF CalmAt, HalfSaved, Saved
<1> QED BY <1>1, <1>2, <1>3 DEF Promote

LEMMA CalmSaving ==
  ASSUME TypeOK, CallsInv, SeesInv, CalmInv, NEW t \in Threads,
         \/ StartSave(t) \/ VerifyDone(t) \/ PromoteDone(t) \/ PauseSave(t) \/ ResumeSave(t)
         \/ DecideSave(t) \/ RecoverSave(t) \/ RollbackSave(t)
  PROVE  CalmInv'
<1>1. PICK from \in Saving, to \in {"idle", "run", "reload"} : Steps(t, from, to)
  BY SaveDoes DEF Saving
<1>2. db'.wf = mem[t] /\ KeepsTables(db')
  BY SaveDoes
<1>3. /\ CalmAt(db, from, mem[t], loc[t]) /\ Sees(t) /\ pc[t] = from
      /\ mem[t].attempt = db.wf.attempt
  BY <1>1, CalmHas DEF SeesInv, CallsInv, Current, Steps, Saving
<1>4. CASE from \in {"started", "pause", "rollback", "resume"}
  <2>1. /\ mem[t].node = db.wf.node
        /\ \/ mem[t].status = db.wf.status
           \/ mem[t].status = "RUNNING" /\ db.wf.status = "PAUSED"
    BY <1>3, <1>4 DEF Sees, Stands
  <2>2. Backed(db, mem[t])
    BY <1>3, <1>4, <2>1 DEF CalmAt, HalfSaved, Working, Saved, Backed
  <2>3. OneOpen(db', to, mem'[t])
    BY <1>1, <1>2, <1>3, <1>4, <2>1 DEF CalmAt, OneOpen, KeepsTables
  <2> QED BY <1>1, <1>2, <1>3, <2>2, <2>3, CalmSaves, TablesAgree
<1>5. CASE from \in Saved
  <2>1. Backed(db, mem[t])
    BY <1>3, <1>5 DEF CalmAt, InSave
  <2>2. from # "save" => \A r \in Reasons, a \in Attempts : db.hitl[r][a].state # "open"
    BY <1>3, <1>5 DEF CalmAt, OneOpen, InNode, InAnswer, Stands, Saved
  <2>3. OneOpen(db', to, mem'[t])
    BY <1>1, <1>2, <1>3, <2>2 DEF CalmAt, OneOpen, InNode, KeepsTables, Stands, Verifying
  <2> QED BY <1>1, <1>2, <1>3, <2>1, <2>3, CalmSaves, TablesAgree
<1> QED BY <1>4, <1>5 DEF Saving, Saved

LEMMA CalmPauseResume ==
  ASSUME MaxOverlaps = 0, TypeOK, CallsInv, SeesInv, CalmInv, NEW t \in Threads,
         PauseRead(t) \/ ResumeRead(t)
  PROVE  CalmInv'
<1>1. PICK to \in {"pause", "resume"} : Steps(t, "idle", to) /\ UNCHANGED db
  BY PauseReadDoes, ResumeReadDoes
<1> QED BY <1>1, CalmStays, CalmElsewhere DEF HalfSaved, Working, Saved, Agree

\* The request that is decided is the one the row waits for.
LEMMA CalmDecides ==
  ASSUME MaxOverlaps = 0, TypeOK, CallsInv, SeesInv, CalmInv, NEW t \in Threads,
         NEW r \in Reasons, NEW a \in Attempts,
         NEW choice \in {"approve", "retry", "reject"}, NEW status, NEW node,
         Decide(t, r, a, choice, status, node),
         \/ /\ status = "RUNNING" /\ node = "VERSION_PROMOTE"
            /\ r = "promotion_review" /\ choice = "approve"
         \/ status = "RUNNING" /\ node = "AGENT_EXECUTE" /\ BudgetLeft(db.wf.attempt)
         \/ status = "FAILED" /\ node = "FAILED"
  PROVE  CalmInv'
<1>1. /\ Steps(t, "idle", "resolve") /\ UNCHANGED db /\ IsOpen(r, a)
      /\ Stands(mem'[t], status, node)
      /\ loc'[t].reason = r /\ loc'[t].about = a /\ loc'[t].choice = choice
  BY DecideDoes
<1>2. CalmAt(db, "idle", mem[t], loc[t])
  BY <1>1, CalmHas
<1>3. /\ a = db.wf.attempt /\ Stands(db.wf, "WAITING_HITL", "WAIT_HITL")
      /\ db.hitl[r][a].state = "open"
  BY <1>1, <1>2 DEF IsOpen, CalmAt, OneOpen, Backed, HalfSaved, Working, Saved, Stands
<1>4. /\ InNode(db, "resolve", db.wf.attempt) /\ InSave(db, "resolve", mem'[t])
      /\ InAnswer(db, "resolve", mem'[t], loc'[t], db.wf.attempt)
  BY <1>1, <1>3 DEF InNode, InAnswer, InSave, Working, Verifying, Saved, Stands
<1> QED BY <1>1, <1>4, CalmStays DEF HalfSaved, Working, Saved, Agree

LEMMA CalmDecideHitl ==
  ASSUME MaxOverlaps = 0, TypeOK, CallsInv, SeesInv, CalmInv, NEW t \in Threads,
         DecideHitl(t), ~DecideSave(t)
  PROVE  CalmInv'
<1>1. ASSUME NEW a \in Attempts, DecideApprove(t, a) PROVE CalmInv'
  BY <1>1, CalmDecides DEF DecideApprove, Reasons
<1>2. ASSUME NEW r \in Reasons, NEW a \in Attempts, DecideRetry(t, r, a) \/ DecideReject(t, r, a)
      PROVE  CalmInv'
  BY <1>2, CalmDecides DEF DecideRetry, DecideReject
<1>3. CASE DecideResolve(t)
  <2>1. /\ Steps(t, "resolve", "decided") /\ UNCHANGED mem /\ KeepsButHitl
        /\ \A r \in Reasons, a \in Attempts :
             db'.hitl[r][a].state = IF r = loc[t].reason /\ a = loc[t].about
                                    THEN loc[t].choice ELSE db.hitl[r][a].state
    BY <1>3, ResolveDoes
  <2>2. /\ Ahead(db) /\ CalmAt(db, "resolve", mem[t], loc[t]) /\ loc[t].reason \in Reasons
        /\ mem[t].attempt = db.wf.attempt /\ db.wf.attempt \in Nat
    BY <2>1, CalmHas, Parameters
       DEF TypeOK, Database, Row, Numbers, Locals, Steps, CallsInv, Current
  <2>3. /\ loc[t].about = db.wf.attempt /\ db.wf.attempt \in Attempts /\ NothingOpen(db)
        /\ InAnswer(db, "resolve", mem[t], loc[t], db.wf.attempt)
    BY <2>2 DEF CalmAt, InAnswer, Backed, Asked, Stands, HalfSaved, Working, Saved
  <2>4. Ahead(db')
    BY <2>1, <2>2, <2>3 DEF Ahead, Unverified, KeepsButHitl, Attempts
  <2>5. \A r \in Reasons, a \in Attempts : db'.hitl[r][a].state # "open"
    BY <2>1, <2>2, <2>3 DEF CalmAt, OneOpen, InAnswer
  <2>6. NothingOpen(db')
    BY <2>1, <2>3 DEF NothingOpen, KeepsButHitl
  <2>7. Backed(db', mem[t])
    BY <2>1, <2>2, <2>3, <2>6 DEF InAnswer, Backed, Cleared, Stands, Reasons
  <2>8. /\ InNode(db', "decided", db'.wf.attempt) /\ InSave(db', "decided", mem'[t])
        /\ InAnswer(db', "decided", mem'[t], loc'[t], db'.wf.attempt)
    BY <2>1, <2>3, <2>7 DEF InNode, InAnswer, InSave, Working, Verifying, Saved, KeepsButHitl
  <2> QED BY <2>1, <2>4, <2>5, <2>8, CalmKeeps DEF CalmAt, OneOpen, HalfSaved, Saved
<1> QED BY <1>1, <1>2, <1>3 DEF DecideHitl

\* What is recovered is the call of the current attempt.
LEMMA CalmRecovers ==
  ASSUME MaxOverlaps = 0, TypeOK, CallsInv, SeesInv, CalmInv, NEW t \in Threads,
         NEW a \in Attempts, \/ RecoverVerifyExisting(t, a) \/ RecoverRetry(t, a)
                             \/ RecoverRestore(t, a) \/ RecoverAbort(t, a)
  PROVE  CalmInv'
<1>1. PICK action \in Strategies, to \in {"close", "recovered"}, status \in {"RUNNING", "FAILED"},
           node \in Nodes : Recover(t, a, action, to, status, node)
  BY StrategyDoes DEF Strategies, Nodes
<1>2. /\ pc[t] = "idle" /\ AllIdle /\ db.wf.status = "UNCERTAIN" /\ Pending(a)
  BY <1>1, RecoverDoes DEF Steps
<1>3. a = db.wf.attempt
  BY <1>2 DEF CallsInv, CallsAreNumbered, Pending
<1>4. /\ Ahead(db) /\ CalmAt(db, "idle", mem[t], loc[t])
  BY <1>1, CalmHas, RecoverDoes
<1>5. Stands(db.wf, "UNCERTAIN", "AGENT_EXECUTE") /\ Unknown(db, a)
  BY <1>2, <1>3, <1>4 DEF CalmAt, Backed, Stands, HalfSaved, Working, Saved
<1>6. \A r \in Reasons, b \in Attempts : db.hitl[r][b].state # "open"
  BY <1>4, <1>5, NobodyAsked DEF Stands
<1>7. CASE RecoverVerifyExisting(t, a) \/ RecoverRestore(t, a) \/ RecoverAbort(t, a)
  <2>1. /\ Steps(t, "idle", "close") /\ loc'[t].about = a
        /\ \/ Stands(mem'[t], "RUNNING", "VERIFY") /\ RecoverVerifyExisting(t, a)
           \/ Stands(mem'[t], "FAILED", "FAILED")
    BY <1>7, StrategyDoes, RecoverDoes DEF Strategies, Nodes
  <2>2. /\ db'.wf = db.wf /\ db'.intents = db.intents /\ db'.proposals = db.proposals
        /\ db'.hitl = db.hitl
        /\ RecoverVerifyExisting(t, a) => db'.attempts[a].output = "recovered"
    BY <1>7, StrategyDoes DEF KeepsButAttempts
  <2>3. Ahead(db') /\ OneOpen(db', "close", mem'[t]) /\ Backed(db', db'.wf)
    BY <1>3, <1>4, <1>5, <1>6, <2>2
       DEF Ahead, Unverified, OneOpen, Backed, Unknown, Stands
  <2>4. /\ InNode(db', "close", db'.wf.attempt) /\ InSave(db', "close", mem'[t])
        /\ InAnswer(db', "close", mem'[t], loc'[t], db'.wf.attempt)
    BY <1>3, <1>5, <2>1, <2>2 DEF InNode, InAnswer, InSave, Working, Verifying, Saved, Stands
  <2> QED BY <2>1, <2>3, <2>4, CalmKeeps DEF CalmAt
<1>8. CASE RecoverRetry(t, a)
  <2>1. /\ Steps(t, "idle", "recovered") /\ Stands(mem'[t], "RUNNING", "AGENT_EXECUTE")
        /\ mem'[t].attempt = a
    BY <1>3, <1>8, StrategyDoes, RecoverDoes DEF Strategies, Nodes
  <2>2. /\ KeepsButIntents
        /\ \A b \in Attempts : db'.intents[b] = IF b = a THEN "RETRY_APPROVED" ELSE db.intents[b]
    BY <1>8, StrategyDoes
  <2>3. Ahead(db')
    <3>1. db.wf.attempt \in Nat
      BY Parameters DEF TypeOK, Database, Row, Numbers
    <3> QED BY <1>3, <1>4, <2>2, <3>1 DEF Ahead, Unverified, KeepsButIntents, Attempts
  <2>4. OneOpen(db', "recovered", mem'[t]) /\ Backed(db', mem'[t])
    BY <1>3, <1>5, <1>6, <2>1, <2>2
       DEF OneOpen, Backed, Again, Unknown, Unverified, Stands, KeepsButIntents
  <2>5. /\ InNode(db', "recovered", db'.wf.attempt) /\ InSave(db', "recovered", mem'[t])
        /\ InAnswer(db', "recovered", mem'[t], loc'[t], db'.wf.attempt)
    BY <1>5, <2>1, <2>2, <2>4
       DEF InNode, InAnswer, InSave, Working, Verifying, Saved, Stands, KeepsButIntents
  <2> QED BY <2>1, <2>3, <2>4, <2>5, CalmKeeps DEF CalmAt, HalfSaved, Saved
<1> QED BY <1>7, <1>8

LEMMA CalmCloses ==
  ASSUME TypeOK, CallsInv, SeesInv, CalmInv, NEW t \in Threads, RecoverClose(t) PROVE CalmInv'
<1>1. /\ Steps(t, "close", "recovered") /\ UNCHANGED mem /\ KeepsButIntents
      /\ \A a \in Attempts : db'.intents[a] =
           IF a = loc[t].about THEN Outcome(loc[t].action) ELSE db.intents[a]
  BY CloseDoes
<1>2. /\ Ahead(db) /\ CalmAt(db, "close", mem[t], loc[t]) /\ mem[t].attempt = db.wf.attempt
  BY <1>1, CalmHas DEF CallsInv, Current, Steps
<1>3. /\ loc[t].about = db.wf.attempt /\ Stands(db.wf, "UNCERTAIN", "AGENT_EXECUTE")
      /\ Unknown(db, db.wf.attempt) /\ InAnswer(db, "close", mem[t], loc[t], db.wf.attempt)
  BY <1>2 DEF CalmAt, InAnswer, Backed, Stands, HalfSaved, Working, Saved
<1>4. Outcome(loc[t].action) \in {"RECOVERED", "RESTORED", "ABORTED_UNCERTAIN"}
  BY DEF Outcome
<1>5. NothingOpen(db')
  BY <1>1, <1>3, <1>4, ClosesLast
<1>6. Ahead(db')
  <2>1. db.wf.attempt \in Nat
    BY Parameters DEF TypeOK, Database, Row, Numbers
  <2> QED BY <1>1, <1>2, <1>3, <2>1 DEF Ahead, Unverified, KeepsButIntents, Attempts
<1>7. \A r \in Reasons, a \in Attempts : db.hitl[r][a].state # "open"
  BY <1>2, <1>3, NobodyAsked DEF Stands
<1>8. OneOpen(db', "recovered", mem'[t]) /\ Backed(db', mem[t])
  BY <1>1, <1>2, <1>3, <1>5, <1>7
     DEF OneOpen, Backed, Testable, Unknown, Unverified, InAnswer, Stands, KeepsButIntents
<1>9. /\ InNode(db', "recovered", db'.wf.attempt) /\ InSave(db', "recovered", mem'[t])
      /\ InAnswer(db', "recovered", mem'[t], loc'[t], db'.wf.attempt)
  BY <1>1, <1>3, <1>8
     DEF InNode, InAnswer, InSave, Working, Verifying, Saved, Stands, KeepsButIntents
<1> QED BY <1>1, <1>6, <1>8, <1>9, CalmKeeps DEF CalmAt, HalfSaved, Saved

LEMMA CalmRollback ==
  ASSUME MaxOverlaps = 0, TypeOK, CallsInv, SeesInv, CalmInv, NEW t \in Threads,
         NEW v \in VersionIds, Rollback(t, v)
  PROVE  CalmInv'
<1>1. Steps(t, "idle", "rollback") /\ UNCHANGED db
  BY RollbackDoes
<1> QED BY <1>1, CalmStays, CalmElsewhere DEF HalfSaved, Working, Saved, Agree

LEMMA CalmInit == Init => CalmInv
<1> SUFFICES ASSUME Init PROVE CalmInv
  OBVIOUS
<1>1. /\ db.wf = NoRow /\ db.proposals = {}
      /\ \A a \in Attempts : db.intents[a] = "NONE"
      /\ \A r \in Reasons, a \in Attempts : db.hitl[r][a].state = "absent"
  BY DEF Init, NoRequest
<1>2. Ahead(db)
  BY <1>1 DEF Ahead, Unverified
<1>3. CalmAt(db, "idle", NoRow, NoLocals)
  BY <1>1, CalmElsewhere DEF CalmAt, Backed, OneOpen, NoRow
<1> QED BY <1>2, <1>3 DEF CalmInv, Init

LEMMA CalmStep ==
  ASSUME MaxOverlaps = 0, MaxCrashes = 0, MaxOverwrites = 0,
         TypeOK, CallsInv, SeesInv, CalmInv, [Next]_vars
  PROVE  CalmInv'
<1>0. SpecAvailable
  BY DEF TypeOK, SpecAvailable
<1>1. ASSUME NEW t \in Threads, ThreadStep(t) PROVE CalmInv'
  <2>1. CASE Start(t)
    BY <2>1, CalmStart, CalmSaving DEF Start
  <2>2. CASE Run(t) \/ Execute(t) \/ Verify(t) \/ Promote(t)
    BY <1>0, <2>2, CalmRun, CalmExecute, CalmVerify, CalmPromote, CalmSaving
  <2>3. CASE PauseResume(t)
    BY <2>3, CalmPauseResume, CalmSaving DEF PauseResume
  <2>4. CASE DecideHitl(t)
    BY <2>4, CalmDecideHitl, CalmSaving
  <2>5. CASE RecoverUncertain(t)
    BY <2>5, CalmRecovers, CalmCloses, CalmSaving DEF RecoverUncertain
  <2>6. CASE RollBack(t)
    BY <2>6, CalmRollback, CalmSaving DEF RollBack
  <2> QED BY <1>1, <2>1, <2>2, <2>3, <2>4, <2>5, <2>6 DEF ThreadStep
<1>2. CASE Crash
  BY <1>2 DEF Crash, TypeOK
<1>3. CASE OutsideEdit \/ Overwrite \/ UNCHANGED vars
  <2>1. UNCHANGED <<db, pc, mem, loc>>
    BY <1>3 DEF OutsideEdit, Overwrite, vars
  <2> QED BY <2>1 DEF CalmInv, AllIdle
<1> QED BY <1>1, <1>2, <1>3 DEF Next

\* What every request finds, as long as requests are served one at a time, the process
\* does not crash and the spec stays.
LEMMA CalmHolds ==
  ASSUME MaxOverlaps = 0, MaxCrashes = 0, MaxOverwrites = 0
  PROVE  Spec => [](TypeOK /\ CallsInv /\ SeesInv /\ CalmInv)
<1> DEFINE Inv == TypeOK /\ CallsInv /\ SeesInv /\ CalmInv
<1>1. Inv /\ [Next]_vars => Inv'
  BY TypeStep, CallsStep, SeesStep, CalmStep
<1>2. Init => Inv
  BY TypeInit, CallsInit, SeesInit, CalmInit
<1> QED BY <1>1, <1>2, PTL DEF Spec

\* Of a workflow that nobody works on, the row can be gone on from.
LEMMA RestIsBacked ==
  ASSUME CalmInv, AllIdle PROVE Backed(db, db.wf)
BY DEF CalmInv, CalmAt, HalfSaved, Working, Saved

\* D-015, of _execute and recover_uncertain: whenever nobody works on an UNCERTAIN
\* workflow, the intent its recovery asks for is open, whatever calls raise; without a
\* crash, with which it fails, and with the spec the workflow was started with.
THEOREM UncertainIsRecoverableHolds ==
  ASSUME MaxOverlaps = 0, MaxCrashes = 0, MaxOverwrites = 0
  PROVE  Spec => []UncertainIsRecoverable
<1>1. CalmInv => UncertainIsRecoverable
  BY RestIsBacked
     DEF UncertainIsRecoverable, Backed, Unknown, Unverified, NothingPending, OpenIntent
<1> QED BY <1>1, CalmHolds, PTL

-----------------------------------------------------------------------------
(* The state machine of the design.                                        *)

\* Every write of the row is a step of WorkflowLifecycle or leaves it as it was.
LEMMA SavesFollow ==
  ASSUME TypeOK, CallsInv, SeesInv, CalmInv, NEW t \in Threads,
         pc[t] \in Saving, db'.wf = mem[t]
  PROVE  [Lifecycle!Next]_(Lifecycle!lifecycle)
<1>1. /\ CalmAt(db, pc[t], mem[t], loc[t]) /\ Sees(t) /\ mem[t].attempt = db.wf.attempt
  BY DEF CalmInv, SeesInv, CallsInv, Current, Saving
<1>2. CASE pc[t] \in {"started", "pause", "rollback", "resume"}
  <2>1. /\ mem[t].node = db.wf.node
        /\ \/ mem[t].status = db.wf.status
           \/ mem[t].status = "RUNNING" /\ db.wf.status = "PAUSED"
    BY <1>1, <1>2 DEF Sees, Stands
  <2> QED BY <1>1, <2>1 DEF Lifecycle!Next, Lifecycle!Resume, Lifecycle!Move, Lifecycle!lifecycle
<1>3. CASE pc[t] = "save"
  <2>1. Stands(db.wf, "RUNNING", "VERIFY") /\ InSave(db, "save", mem[t]) /\ Backed(db, mem[t])
    BY <1>1, <1>3 DEF CalmAt, InNode, InSave, Saved
  <2>2. CASE Stands(mem[t], "WAITING_HITL", "WAIT_HITL") \/ Stands(mem[t], "RUNNING", "AGENT_EXECUTE")
    BY <1>1, <2>1, <2>2 DEF Stands, Lifecycle!Next, Lifecycle!Stop, Lifecycle!lifecycle
  <2>3. CASE Stands(mem[t], "RUNNING", "VERSION_PROMOTE") /\ ~db.contract.review
    <3>1. db.wf.attempt > 0
      BY <1>1, <2>1, <2>3, Parameters DEF Backed, Cleared, Stands, Attempts
    <3>2. ~(\A contract \in Contracts : contract.review)
      BY <2>3 DEF SeesInv, NoContract
    <3> QED BY <1>1, <2>1, <2>3, <3>1, <3>2
            DEF Stands, Lifecycle!Next, Lifecycle!ClearUnreviewed, Lifecycle!lifecycle
  <2> QED BY <2>1, <2>2, <2>3 DEF InSave
<1>4. CASE pc[t] = "promoted"
  <2>1. Stands(db.wf, "RUNNING", "VERSION_PROMOTE") /\ Stands(mem[t], "COMPLETED", "COMPLETED")
    BY <1>1, <1>4 DEF CalmAt, InNode, InSave
  <2> QED BY <1>1, <2>1
          DEF Stands, Lifecycle!Next, Lifecycle!Complete, Lifecycle!Move, Lifecycle!lifecycle
<1>5. CASE pc[t] = "decided"
  <2>1. /\ Stands(db.wf, "WAITING_HITL", "WAIT_HITL") /\ db.wf.attempt > 0
        /\ \/ Stands(mem[t], "RUNNING", "VERSION_PROMOTE")
           \/ Stands(mem[t], "RUNNING", "AGENT_EXECUTE") /\ db.wf.attempt < MaxAttempts
           \/ Stands(mem[t], "FAILED", "FAILED")
    BY <1>1, <1>5, Parameters DEF CalmAt, InAnswer, BudgetLeft, Attempts
  <2> QED BY <1>1, <2>1
          DEF Stands, Lifecycle!Next, Lifecycle!Approve, Lifecycle!Retry, Lifecycle!Abandon,
              Lifecycle!Move, Lifecycle!lifecycle
<1>6. CASE pc[t] = "recovered"
  <2>1. /\ Stands(db.wf, "UNCERTAIN", "AGENT_EXECUTE")
        /\ \/ Stands(mem[t], "RUNNING", "VERIFY") \/ Stands(mem[t], "RUNNING", "AGENT_EXECUTE")
           \/ Stands(mem[t], "FAILED", "FAILED")
    BY <1>1, <1>6 DEF CalmAt, InAnswer
  <2> QED BY <1>1, <2>1
          DEF Stands, Lifecycle!Next, Lifecycle!Recover, Lifecycle!Abandon,
              Lifecycle!Move, Lifecycle!lifecycle
<1> QED BY <1>2, <1>3, <1>4, <1>5, <1>6 DEF Saving

LEMMA WritesFollowLifecycle ==
  ASSUME TypeOK, CallsInv, SeesInv, CalmInv, NEW t \in Threads, Writes(t)
  PROVE  [Lifecycle!Next]_(Lifecycle!lifecycle)
<1>1. CASE pc[t] = "loop"
  <2>1. mem[t] = db.wf /\ CalmAt(db, "loop", mem[t], loc[t])
    BY <1>1 DEF SeesInv, Sees, Loaded, CalmInv
  <2>2. Stands(db.wf, "RUNNING", "AGENT_EXECUTE") /\ NothingPending =>
          db.wf.attempt = 0 \/ db.wf.attempt < MaxAttempts
    BY <2>1 DEF CalmAt, HalfSaved, Working, Saved, Backed, Again, Stands, NothingPending,
                OpenIntent, OpenIntents, Unverified, BudgetLeft
  <2>3. CASE db'.wf.attempt = mem[t].attempt
    BY <1>1, <2>1, <2>3 DEF Writes, Stands, Lifecycle!Next, Lifecycle!Stop, Lifecycle!lifecycle
  <2>4. CASE /\ Stands(mem[t], "RUNNING", "AGENT_EXECUTE") /\ NothingPending
             /\ db'.wf.attempt = mem[t].attempt + 1 /\ Stands(db'.wf, "RUNNING", "AGENT_EXECUTE")
    BY <2>1, <2>2, <2>4 DEF Stands, Lifecycle!Next, Lifecycle!NextAttempt, Lifecycle!lifecycle
  <2> QED BY <1>1, <2>3, <2>4 DEF Writes
<1>2. CASE pc[t] \in {"calling", "executed"}
  <2>1. mem[t] = db.wf /\ Stands(db.wf, "RUNNING", "AGENT_EXECUTE")
    BY <1>2 DEF SeesInv, Sees, Loaded, CalmInv, CalmAt, InNode, Working
  <2> QED BY <1>2, <2>1 DEF Writes, Stands, Lifecycle!Next, Lifecycle!Stop, Lifecycle!lifecycle
<1> QED BY <1>1, <1>2 DEF Writes

LEMMA LifecycleStep ==
  ASSUME MaxOverlaps = 0, TypeOK, CallsInv, SeesInv, CalmInv, [Next]_vars
  PROVE  [Lifecycle!Next]_(Lifecycle!lifecycle)
<1>1. ASSUME NEW t \in Threads, ThreadStep(t) PROVE [Lifecycle!Next]_(Lifecycle!lifecycle)
  <2>1. CASE db'.wf = db.wf
    BY <2>1 DEF Lifecycle!lifecycle
  <2>2. CASE ~Exists /\ db'.wf = NewRow
    BY <2>2 DEF SeesInv, NoRow, NewRow, Lifecycle!Next, Lifecycle!Create, Lifecycle!Move
  <2> QED BY <1>1, <2>1, <2>2, RowSteps, SavesFollow, WritesFollowLifecycle DEF RowStep
<1>2. CASE Crash \/ OutsideEdit \/ Overwrite \/ UNCHANGED vars
  BY <1>2 DEF Crash, OutsideEdit, Overwrite, vars, Lifecycle!lifecycle
<1> QED BY <1>1, <1>2 DEF Next

\* TRD 7, of every function that saves the row: its status, its attempt and its
\* clearance for promotion move along the state machine of the design, for every
\* integer budget, also zero and the negative ones start does not refuse; without a
\* crash and with the spec the workflow was started with.
THEOREM FollowsLifecycleHolds ==
  ASSUME MaxOverlaps = 0, MaxCrashes = 0, MaxOverwrites = 0 PROVE Spec => FollowsLifecycle
<1>1. Init => Lifecycle!Init
  BY DEF Init, NoRow, Lifecycle!Init
<1>2. /\ TypeOK /\ CallsInv /\ SeesInv /\ CalmInv /\ [Next]_vars
      => [Lifecycle!Next]_(Lifecycle!lifecycle)
  BY LifecycleStep
<1> QED BY <1>1, <1>2, CalmHolds, PTL DEF Spec, FollowsLifecycle, Lifecycle!Spec
-----------------------------------------------------------------------------
(* Approved content.  The reviewer is shown the worktree of which the      *)
(* candidate was prepared; an approval is for that candidate only.         *)

Review(d, a) == d.hitl["promotion_review"][a]

\* Commit c may be promoted: no review is asked for, or it was shown and approved.
Approves(d, c) ==
  d.contract.review /\ c.att \in Attempts =>
    Review(d, c.att).state = "approve" /\ Review(d, c.att).fp.work = c.tree

\* A candidate is of its own attempt and is what its review shows.
Candidates(d) ==
  \A a \in Attempts :
    /\ d.attempts[a].prep.commit.att \in {a, -1}
    /\ d.contract.kind = "git" /\ Review(d, a).state # "absent" =>
         d.attempts[a].prep.commit.tree = Review(d, a).fp.work

RefsApproved(d, g) ==
  /\ Approves(d, g.head)
  /\ \A a \in Attempts : Approves(d, g.tags[a])
  /\ \A v \in VersionIds : Approves(d, d.versions[v].commit)

\* What a request knows of the content it handles.
Handles(d, g, p, l) ==
  /\ p = "contract" => d.contract = NoContract
  /\ p = "prepared" => l.prep.commit = [att |-> d.wf.attempt, tree |-> g.work]
  /\ p = "gate" /\ d.contract.kind = "git" =>
       d.attempts[d.wf.attempt].prep.commit.tree = g.work
  /\ p = "loop" => l.prep = NoPrepared
  /\ p \in {"tag", "version"} => Approves(d, l.prep.commit)

ApprovedInv ==
  /\ ~Exists => db.contract = NoContract
  /\ Candidates(db) /\ RefsApproved(db, git)
  /\ \A t \in Threads : Handles(db, git, pc[t], loc[t])

\* What ApprovedInv says apart from the requests stays true.
KeepsContent ==
  /\ db'.contract = db.contract /\ db'.hitl = db.hitl /\ db'.versions = db.versions
  /\ \A a \in Attempts : db'.attempts[a].prep = db.attempts[a].prep
  /\ git'.head = git.head /\ git'.tags = git.tags

LEMMA ExistsStays ==
  ASSUME MaxOverlaps = 0, TypeOK, CallsInv, NEW t \in Threads, ThreadStep(t), Exists
  PROVE  Exists'
<1>1. pc[t] # "idle" => mem[t].status # "ABSENT"
  BY DEF CallsInv, Current
<1> QED BY <1>1, RowSteps DEF RowStep, Writes, Stands, Saving, Exists

LEMMA ApprovedKeeps ==
  ASSUME MaxOverlaps = 0, TypeOK, CallsInv, ApprovedInv, NEW t \in Threads, ThreadStep(t),
         NEW from, NEW to, Steps(t, from, to),
         ~Exists => db'.contract = db.contract,
         Candidates(db'), RefsApproved(db', git'), Handles(db', git', to, loc'[t])
  PROVE  ApprovedInv'
<1>1. \A u \in Threads \ {t} : pc'[u] = "idle"
  BY AloneInStep DEF Steps
<1>2. \A u \in Threads \ {t} : Handles(db', git', pc'[u], loc'[u])
  BY <1>1 DEF Handles
<1>3. Handles(db', git', pc'[t], loc'[t])
  BY DEF Steps
<1>4. ~Exists' => db'.contract = NoContract
  BY ExistsStays DEF ApprovedInv
<1> QED BY <1>2, <1>3, <1>4 DEF ApprovedInv

LEMMA ContentKept ==
  ASSUME ApprovedInv, KeepsContent PROVE Candidates(db') /\ RefsApproved(db', git')
<1>1. ASSUME NEW c, Approves(db, c) PROVE Approves(db', c)
  BY <1>1 DEF KeepsContent, Approves, Review
<1>2. RefsApproved(db', git')
  BY <1>1 DEF ApprovedInv, KeepsContent, RefsApproved
<1>3. Candidates(db')
  BY DEF ApprovedInv, KeepsContent, Candidates, Review
<1> QED BY <1>2, <1>3

\* Steps that have to do with no content.
LEMMA ContentStays ==
  ASSUME MaxOverlaps = 0, TypeOK, CallsInv, ApprovedInv, NEW t \in Threads, ThreadStep(t),
         NEW from, NEW to, Steps(t, from, to), KeepsContent,
         to \notin {"contract", "prepared", "gate", "loop", "tag", "version"}
  PROVE  ApprovedInv'
<1>1. Handles(db', git', to, loc'[t])
  BY DEF Handles
<1> QED BY <1>1, ContentKept, ApprovedKeeps DEF KeepsContent

LEMMA RowKeepsContent ==
  ASSUME KeepsTables(db'), git'.head = git.head, git'.tags = git.tags PROVE KeepsContent
BY DEF KeepsTables, KeepsContent

LEMMA ApprovedStart ==
  ASSUME MaxOverlaps = 0, TypeOK, CallsInv, SeesInv, CalmInv, ApprovedInv, NEW t \in Threads,
         ThreadStep(t), \/ \E c \in Contracts : StartCreate(t, c)
                        \/ StartContract(t) \/ StartBaseline(t)
  PROVE  ApprovedInv'
<1>1. ASSUME NEW c \in Contracts, StartCreate(t, c) PROVE ApprovedInv'
  <2>1. Steps(t, "idle", "contract") /\ ~Exists /\ UNCHANGED git /\ KeepsTables(db')
    BY <1>1, CreateDoes
  <2>2. KeepsContent /\ Handles(db', git', "contract", loc'[t])
    BY <2>1, RowKeepsContent DEF ApprovedInv, Handles, KeepsTables
  <2> QED BY <2>1, <2>2, ContentKept, ApprovedKeeps DEF KeepsContent
<1>2. CASE StartContract(t)
  <2>1. PICK to \in {"baseline", "run"} :
          /\ Steps(t, "contract", to) /\ UNCHANGED git
          /\ db'.attempts = db.attempts /\ db'.hitl = db.hitl /\ db'.versions = db.versions
    BY <1>2, ContractDoes
  <2>2. Ahead(db) /\ db.wf.attempt = 0 /\ Exists
    BY <2>1, CalmHas DEF SeesInv, Sees, Steps, CallsInv, Current
  <2>3. \A a \in Attempts : Review(db, a).state = "absent"
    BY <2>2, Parameters DEF Ahead, Unverified, Attempts, Reasons, Review
  <2>4. db.contract.review
    BY <2>1 DEF ApprovedInv, Handles, Steps, NoContract
  <2>5. /\ git.head.att \notin Attempts /\ \A a \in Attempts : git.tags[a].att \notin Attempts
        /\ \A v \in VersionIds : db.versions[v].commit.att \notin Attempts
    BY <2>3, <2>4 DEF ApprovedInv, RefsApproved, Approves
  <2>6. RefsApproved(db', git')
    BY <2>1, <2>5 DEF RefsApproved, Approves
  <2>7. Candidates(db')
    BY <2>1, <2>3 DEF ApprovedInv, Candidates, Review
  <2>8. Handles(db', git', to, loc'[t])
    BY DEF Handles
  <2> QED BY <2>1, <2>2, <2>6, <2>7, <2>8, ApprovedKeeps
<1>3. CASE StartBaseline(t)
  <2>1. /\ Steps(t, "baseline", "started") /\ UNCHANGED git
        /\ db'.versions = [db.versions EXCEPT ![0] = [exists |-> TRUE, commit |-> BaseCommit]]
        /\ db'.attempts = db.attempts /\ db'.hitl = db.hitl /\ db'.contract = db.contract
    BY <1>3, BaselineDoes
  <2>2. \A v \in VersionIds : db'.versions[v].commit \in {db.versions[v].commit, BaseCommit}
    BY <2>1 DEF TypeOK, Database
  <2>3. BaseCommit.att \notin Attempts
    BY Parameters DEF BaseCommit, Attempts
  <2>4. Candidates(db')
    BY <2>1 DEF ApprovedInv, Candidates, Review
  <2>5. ASSUME NEW c, Approves(db, c) PROVE Approves(db', c)
    BY <2>1, <2>5 DEF Approves, Review
  <2>6. RefsApproved(db', git')
    <3>1. Approves(db', BaseCommit)
      BY <2>3 DEF Approves
    <3>2. \A v \in VersionIds : Approves(db', db'.versions[v].commit)
      BY <2>2, <2>5, <3>1 DEF ApprovedInv, RefsApproved
    <3> QED BY <2>1, <2>5, <3>2 DEF ApprovedInv, RefsApproved
  <2>7. Handles(db', git', "started", loc'[t])
    BY DEF Handles
  <2> QED BY <2>1, <2>4, <2>6, <2>7, ApprovedKeeps
<1> QED BY <1>1, <1>2, <1>3

LEMMA ApprovedRun ==
  ASSUME MaxOverlaps = 0, TypeOK, CallsInv, ApprovedInv, NEW t \in Threads, ThreadStep(t), Run(t)
  PROVE  ApprovedInv'
<1>1. CASE RunLock(t) \/ RunReload(t)
  <2>1. /\ Steps(t, "run", "loop") \/ Steps(t, "reload", "loop")
        /\ UNCHANGED <<db, git>> /\ loc'[t].prep = NoPrepared
    BY <1>1, LoadDoes DEF RunLock, RunReload, Load, TypeOK, NoLocals
  <2>2. KeepsContent /\ Handles(db', git', "loop", loc'[t])
    BY <2>1 DEF KeepsContent, Handles
  <2> QED BY <2>1, <2>2, ContentKept, ApprovedKeeps DEF KeepsContent
<1>2. CASE RunPause(t)
  <2>1. Steps(t, "loop", "idle") /\ KeepsContent
    BY <1>2, PauseDoes, RowKeepsContent
  <2> QED BY <2>1, ContentStays
<1>3. CASE RunExit(t) \/ NodeRaise(t)
  <2>1. KeepsContent /\ \E from \in Failing : Steps(t, from, "idle")
    BY <1>3, RaiseDoes DEF KeepsContent
  <2> QED BY <2>1, ContentStays
<1> QED BY <1>1, <1>2, <1>3 DEF Run

\* A new output withdraws the candidate of an attempt nobody was asked about.
LEMMA OutputReplaced ==
  ASSUME ApprovedInv, NEW a, Unverified(db, a), db'.hitl = db.hitl, db'.contract = db.contract,
         db'.versions = db.versions, UNCHANGED git,
         \A b \in Attempts : db'.attempts[b].prep =
           IF b = a THEN NoPrepared ELSE db.attempts[b].prep
  PROVE  Candidates(db') /\ RefsApproved(db', git')
<1>1. Review(db, a).state = "absent"
  BY DEF Unverified, Reasons, Review
<1>2. Candidates(db')
  BY <1>1 DEF ApprovedInv, Candidates, Review, NoPrepared, NoCommit
<1>3. ASSUME NEW c, Approves(db, c) PROVE Approves(db', c)
  BY <1>3 DEF Approves, Review
<1>4. RefsApproved(db', git')
  BY <1>3 DEF ApprovedInv, RefsApproved
<1> QED BY <1>2, <1>4

LEMMA ApprovedExecute ==
  ASSUME MaxOverlaps = 0, TypeOK, CallsInv, SeesInv, CalmInv, ApprovedInv, NEW t \in Threads,
         ThreadStep(t), Execute(t)
  PROVE  ApprovedInv'
<1>1. ASSUME NEW a \in Attempts, ExecuteUncertain(t, a) \/ ExecuteApprovedRetry(t, a)
      PROVE  ApprovedInv'
  <2>1. KeepsContent /\ (Steps(t, "loop", "reload") \/ Steps(t, "loop", "check"))
    BY <1>1, UncertainDoes, ApprovedRetryDoes, RowKeepsContent DEF KeepsContent
  <2> QED BY <2>1, ContentStays
<1>2. CASE ExecuteNew(t)
  <2>1. KeepsContent /\ Steps(t, "loop", "intent")
    BY <1>2, NewDoes, RowKeepsContent
  <2> QED BY <2>1, ContentStays
<1>3. CASE ExecuteIntent(t) \/ ExecuteReuse(t) \/ ExecuteFinish(t)
  <2>1. KeepsContent /\ \E from \in Working, to \in Working : Steps(t, from, to)
    BY <1>3, IntentDoes, FinishDoes DEF KeepsContent, KeepsButIntents, Working
  <2> QED BY <2>1, ContentStays DEF Working
<1>4. CASE ExecuteCall(t) \/ DshWrite(t)
  <2>1. KeepsContent /\ \E from \in Working, to \in Working : Steps(t, from, to)
    BY <1>4, CallDoes, DshWriteDoes DEF KeepsContent, Working
  <2> QED BY <2>1, ContentStays DEF Working
<1>5. CASE DshRaise(t) \/ ExecuteDone(t)
  <2>1. KeepsContent /\ \E from \in Working : Steps(t, from, "reload")
    BY <1>5, DshRaiseDoes, DoneDoes, RowKeepsContent DEF Working
  <2> QED BY <2>1, ContentStays
<1>6. CASE DshReturn(t)
  <2>1. /\ Steps(t, "calling", "finish") /\ UNCHANGED git /\ KeepsButAttempts
        /\ \A a \in Attempts :
             db'.attempts[a] = IF a = Attempt(t) THEN [output |-> "dsh", prep |-> NoPrepared]
                                                 ELSE db.attempts[a]
    BY <1>6, DshReturnDoes
  <2>2. Unverified(db, Attempt(t))
    BY <2>1, CalmHas DEF CalmAt, InNode, Working, SeesInv, Sees, Loaded, Attempt, Steps
  <2>3. Candidates(db') /\ RefsApproved(db', git')
    BY <2>1, <2>2, OutputReplaced DEF KeepsButAttempts
  <2>4. Handles(db', git', "finish", loc'[t])
    BY DEF Handles
  <2> QED BY <2>1, <2>3, <2>4, ApprovedKeeps DEF KeepsButAttempts
<1> QED BY <1>1, <1>2, <1>3, <1>4, <1>5, <1>6 DEF Execute

\* A request for a human says nothing about what is promoted already.
LEMMA RequestAsks ==
  ASSUME ApprovedInv, UNCHANGED git, NEW r \in Reasons, NEW a, NEW fp, KeepsButHitl,
         db.hitl[r][a].state = "absent",
         \A s \in Reasons, b \in Attempts :
           db'.hitl[s][b] = IF s = r /\ b = a
                            THEN [state |-> "open", fp |-> fp, created |-> db.clock]
                            ELSE db.hitl[s][b],
         r = "promotion_review" /\ db.contract.kind = "git" =>
           db.attempts[a].prep.commit.tree = fp.work
  PROVE  Candidates(db') /\ RefsApproved(db', git')
<1>1. \A b \in Attempts :
        \/ Review(db', b) = Review(db, b)
        \/ /\ b = a /\ r = "promotion_review" /\ Review(db, b).state = "absent"
           /\ Review(db', b).fp = fp
  BY DEF Review, Reasons
<1>2. Candidates(db')
  BY <1>1 DEF ApprovedInv, Candidates, KeepsButHitl
<1>3. ASSUME NEW c, Approves(db, c) PROVE Approves(db', c)
  BY <1>1, <1>3 DEF Approves, KeepsButHitl
<1>4. RefsApproved(db', git')
  BY <1>3 DEF ApprovedInv, RefsApproved, KeepsButHitl
<1> QED BY <1>2, <1>4

LEMMA ApprovedVerify ==
  ASSUME MaxOverlaps = 0, TypeOK, CallsInv, SeesInv, CalmInv, ApprovedInv, NEW t \in Threads,
         ThreadStep(t), Verify(t), ~VerifyDone(t)
  PROVE  ApprovedInv'
<1>0. /\ pc[t] \in Verifying => /\ Attempt(t) = db.wf.attempt /\ Kind(t) = db.contract.kind
                                /\ Testable(db, db.wf.attempt)
      /\ Handles(db, git, pc[t], loc[t])
  <2>1. Handles(db, git, pc[t], loc[t])
    BY DEF ApprovedInv
  <2>2. ASSUME pc[t] \in Verifying PROVE mem[t] = db.wf /\ loc[t].acceptance = db.contract
    BY <2>2 DEF SeesInv, Sees, Loaded
  <2>3. ASSUME pc[t] \in Verifying PROVE Testable(db, db.wf.attempt)
    BY <2>3 DEF CalmInv, CalmAt, InNode, HalfSaved, Working, Saved, Verifying, Backed, Stands
  <2> QED BY <2>1, <2>2, <2>3 DEF Attempt, Kind
<1>1. ASSUME NEW result \in BOOLEAN, VerifyRun(t, result) PROVE ApprovedInv'
  <2>1. KeepsContent /\ Steps(t, "loop", "verify")
    BY <1>1, VerifyRunDoes DEF KeepsContent
  <2> QED BY <2>1, ContentStays
<1>2. CASE VerifyRaise(t)
  <2>1. KeepsContent /\ \E from \in Failing : Steps(t, from, "idle")
    BY <1>2, RaiseDoes DEF KeepsContent
  <2> QED BY <2>1, ContentStays
<1>3. CASE VerifyRecord(t)
  <2>1. /\ KeepsContent
        /\ \/ Steps(t, "verify", "gate_failed") \/ Steps(t, "verify", "prepare")
           \/ Steps(t, "verify", "gate") /\ Kind(t) # "git"
    BY <1>3, RecordDoes DEF KeepsContent, KeepsRows, KeepsTables
  <2>2. CASE Steps(t, "verify", "gate_failed") \/ Steps(t, "verify", "prepare")
    BY <2>1, <2>2, ContentStays
  <2>3. CASE Steps(t, "verify", "gate") /\ Kind(t) # "git"
    <3>1. Handles(db', git', "gate", loc'[t])
      BY <1>0, <2>1, <2>3 DEF Handles, Steps, Verifying, KeepsContent
    <3> QED BY <2>1, <2>3, <3>1, ContentKept, ApprovedKeeps DEF KeepsContent
  <2> QED BY <2>1, <2>2, <2>3
<1>4. CASE VerifyPrepare(t)
  <2>1. /\ Steps(t, "prepare", "prepared") /\ KeepsContent /\ UNCHANGED db /\ git'.work = git.work
        /\ loc'[t].prep.commit = [att |-> Attempt(t), tree |-> git.work]
    BY <1>4, PrepareDoes DEF KeepsContent
  <2>2. Handles(db', git', "prepared", loc'[t])
    BY <1>0, <2>1 DEF Handles, Steps, Verifying
  <2> QED BY <2>1, <2>2, ContentKept, ApprovedKeeps
<1>5. CASE VerifySavePrepared(t)
  <2>1. /\ Steps(t, "prepared", "gate") /\ UNCHANGED git /\ KeepsButAttempts
        /\ \A a \in Attempts : db'.attempts[a].prep =
             IF a = Attempt(t) THEN loc[t].prep ELSE db.attempts[a].prep
    BY <1>5, SavePreparedDoes
  <2>2. /\ Attempt(t) = db.wf.attempt /\ Unverified(db, db.wf.attempt)
        /\ loc[t].prep.commit = [att |-> db.wf.attempt, tree |-> git.work]
    BY <1>0, <2>1 DEF Handles, Steps, Verifying, Testable
  <2>3. db.wf.attempt \in Attempts /\ Review(db, db.wf.attempt).state = "absent"
    BY <2>2 DEF Unverified, Review, Reasons
  <2>4. Candidates(db')
    BY <2>1, <2>2, <2>3 DEF ApprovedInv, Candidates, Review, KeepsButAttempts
  <2>5. RefsApproved(db', git')
    <3>1. ASSUME NEW c, Approves(db, c) PROVE Approves(db', c)
      BY <2>1, <3>1 DEF Approves, Review, KeepsButAttempts
    <3> QED BY <2>1, <3>1 DEF ApprovedInv, RefsApproved, KeepsButAttempts
  <2>6. Handles(db', git', "gate", loc'[t])
    BY <2>1, <2>2, <2>3 DEF Handles, KeepsButAttempts
  <2> QED BY <2>1, <2>4, <2>5, <2>6, ApprovedKeeps DEF KeepsButAttempts
<1>6. ASSUME NEW r \in Reasons, NEW fp, NewRequest(r, Attempt(t), fp), UNCHANGED git,
             NEW from, Steps(t, from, "save"),
             r = "promotion_review" /\ db.contract.kind = "git" =>
               db.attempts[Attempt(t)].prep.commit.tree = fp.work
      PROVE  ApprovedInv'
  <2>1. /\ KeepsButHitl /\ db.hitl[r][Attempt(t)].state = "absent"
        /\ \A s \in Reasons, b \in Attempts :
             db'.hitl[s][b] = IF s = r /\ b = Attempt(t)
                              THEN [state |-> "open", fp |-> fp, created |-> db.clock]
                              ELSE db.hitl[s][b]
    BY <1>6, RequestDoes
  <2>2. Candidates(db') /\ RefsApproved(db', git')
    BY <1>6, <2>1, RequestAsks
  <2>3. Handles(db', git', "save", loc'[t])
    BY DEF Handles
  <2> QED BY <1>6, <2>1, <2>2, <2>3, ApprovedKeeps DEF KeepsButHitl
<1>7. CASE VerifyReview(t)
  <2>1. PICK fp : /\ NewRequest("promotion_review", Attempt(t), fp)
                  /\ Kind(t) = "git" => fp.work = git.work
    BY <1>7, ReviewDoes
  <2>2. Steps(t, "gate", "save") /\ UNCHANGED git
    BY <1>7, ReviewDoes
  <2>3. db.contract.kind = "git" => db.attempts[Attempt(t)].prep.commit.tree = fp.work
    BY <1>0, <2>1, <2>2 DEF Handles, Steps, Verifying
  <2> QED BY <1>6, <2>1, <2>2, <2>3 DEF Reasons
<1>8. CASE VerifyExhausted(t)
  <2>1. /\ Steps(t, "gate_failed", "save") /\ UNCHANGED git
        /\ NewRequest("max_attempts_reached", Attempt(t), NoFingerprint)
    BY <1>8, ExhaustedDoes
  <2> QED BY <1>6, <2>1 DEF Reasons
<1>9. CASE VerifyAutoPromote(t) \/ VerifyRetry(t)
  <2>1. KeepsContent /\ \E from : Steps(t, from, "save")
    BY <1>9, AutoPromoteDoes, RetryDoes DEF KeepsContent, KeepsButProposals
  <2> QED BY <2>1, ContentStays
<1> QED BY <1>1, <1>2, <1>3, <1>4, <1>5, <1>7, <1>8, <1>9 DEF Verify

\* The candidate of an attempt that is cleared is the one that was approved.
LEMMA CandidateApproved ==
  ASSUME ApprovedInv, NEW a \in Attempts, db.contract.kind = "git", Cleared(db, a)
  PROVE  Approves(db, db.attempts[a].prep.commit)
BY DEF ApprovedInv, Candidates, Cleared, Approves, Review, Attempts

LEMMA ApprovedPromote ==
  ASSUME MaxOverlaps = 0, TypeOK, CallsInv, SeesInv, CalmInv, ApprovedInv, NEW t \in Threads,
         ThreadStep(t), Promote(t), ~PromoteDone(t)
  PROVE  ApprovedInv'
<1>0. Handles(db, git, pc[t], loc[t]) /\ RefsApproved(db, git)
  BY DEF ApprovedInv
<1>1. ASSUME pc[t] = "loop", Stands(mem[t], "RUNNING", "VERSION_PROMOTE")
      PROVE  /\ Attempt(t) = db.wf.attempt /\ Kind(t) = db.contract.kind
             /\ db.wf.attempt \in Attempts /\ Cleared(db, db.wf.attempt)
  <2>1. mem[t] = db.wf /\ loc[t].acceptance = db.contract
    BY <1>1 DEF SeesInv, Sees, Loaded
  <2>2. Backed(db, db.wf)
    BY <1>1 DEF CalmInv, CalmAt, HalfSaved, Working, Saved
  <2> QED BY <1>1, <2>1, <2>2 DEF Backed, Stands, Cleared, Attempt, Kind
<1>2. CASE PromotePlain(t) \/ PromoteTagged(t)
  <2>1. /\ Steps(t, "loop", "version") /\ UNCHANGED <<db, git>>
        /\ Stands(mem[t], "RUNNING", "VERSION_PROMOTE")
    BY <1>2, PromoteKnownDoes
  <2>2. Attempt(t) \in Attempts
    BY <1>1, <2>1 DEF Steps
  <2>3. loc'[t].prep.commit \in {NoCommit, git.tags[Attempt(t)]}
    <3>1. CASE PromotePlain(t)
      BY <1>0, <2>1, <3>1 DEF PromotePlain, Handles, Steps, NoPrepared
    <3>2. CASE PromoteTagged(t)
      BY <3>2 DEF PromoteTagged, AlreadyPromoted, TypeOK, Locals
    <3> QED BY <1>2, <3>1, <3>2
  <2>4. Approves(db, NoCommit)
    BY Parameters DEF Approves, NoCommit, Attempts
  <2>5. Handles(db', git', "version", loc'[t])
    BY <1>0, <2>1, <2>2, <2>3, <2>4 DEF Handles, RefsApproved
  <2>6. KeepsContent
    BY <2>1 DEF KeepsContent
  <2> QED BY <2>1, <2>5, <2>6, ContentKept, ApprovedKeeps
<1>3. CASE PromoteHead(t)
  <2>1. /\ Steps(t, "loop", "tag") /\ UNCHANGED db /\ Kind(t) = "git"
        /\ Stands(mem[t], "RUNNING", "VERSION_PROMOTE")
        /\ loc'[t].prep = Candidate(t)
        /\ git'.head = Candidate(t).commit /\ git'.tags = git.tags
    BY <1>3, PromoteHeadDoes
  <2>2. Approves(db, Candidate(t).commit)
    BY <1>1, <2>1, CandidateApproved DEF Steps, Candidate
  <2>3. RefsApproved(db', git') /\ Handles(db', git', "tag", loc'[t]) /\ Candidates(db')
    BY <1>0, <2>1, <2>2 DEF RefsApproved, Handles, ApprovedInv
  <2> QED BY <2>1, <2>3, ApprovedKeeps
<1>4. CASE PromoteTag(t)
  <2>1. /\ Steps(t, "tag", "version") /\ UNCHANGED <<db, loc>> /\ git'.head = git.head
        /\ \A a \in Attempts :
             git'.tags[a] = IF a = Attempt(t) THEN loc[t].prep.commit ELSE git.tags[a]
    BY <1>4, TagDoes
  <2>2. Approves(db, loc[t].prep.commit)
    BY <1>0, <2>1 DEF Handles, Steps
  <2>3. RefsApproved(db', git') /\ Handles(db', git', "version", loc'[t]) /\ Candidates(db')
    BY <1>0, <2>1, <2>2 DEF RefsApproved, Handles, ApprovedInv
  <2> QED BY <2>1, <2>3, ApprovedKeeps
<1>5. CASE PromoteVersion(t)
  <2>1. /\ Steps(t, "version", "promoted") /\ UNCHANGED git /\ KeepsButVersions
        /\ \A v \in VersionIds : db'.versions[v] =
             IF v = Attempt(t) THEN [exists |-> TRUE, commit |-> loc[t].prep.commit]
                               ELSE db.versions[v]
    BY <1>5, VersionDoes
  <2>2. Approves(db, loc[t].prep.commit)
    BY <1>0, <2>1 DEF Handles, Steps
  <2>3. \A v \in VersionIds : Approves(db, db'.versions[v].commit)
    BY <1>0, <2>1, <2>2 DEF RefsApproved
  <2>4. RefsApproved(db', git')
    <3>1. ASSUME NEW c, Approves(db, c) PROVE Approves(db', c)
      BY <2>1, <3>1 DEF Approves, Review, KeepsButVersions
    <3> QED BY <1>0, <2>1, <2>3, <3>1 DEF RefsApproved
  <2>5. Candidates(db') /\ Handles(db', git', "promoted", loc'[t])
    BY <2>1 DEF ApprovedInv, Candidates, Handles, Review, KeepsButVersions
  <2> QED BY <2>1, <2>4, <2>5, ApprovedKeeps DEF KeepsButVersions
<1> QED BY <1>2, <1>3, <1>4, <1>5 DEF Promote

LEMMA ApprovedSaving ==
  ASSUME MaxOverlaps = 0, TypeOK, CallsInv, ApprovedInv, NEW t \in Threads, ThreadStep(t),
         \/ StartSave(t) \/ VerifyDone(t) \/ PromoteDone(t) \/ PauseSave(t) \/ ResumeSave(t)
         \/ DecideSave(t) \/ RecoverSave(t) \/ RollbackSave(t)
  PROVE  ApprovedInv'
<1>1. PICK from \in Saving, to \in {"idle", "run", "reload"} : Steps(t, from, to)
  BY SaveDoes DEF Saving
<1>2. KeepsContent
  BY SaveDoes, RowKeepsContent
<1> QED BY <1>1, <1>2, ContentStays

LEMMA ApprovedPauseResume ==
  ASSUME MaxOverlaps = 0, TypeOK, CallsInv, ApprovedInv, NEW t \in Threads, ThreadStep(t),
         PauseRead(t) \/ ResumeRead(t)
  PROVE  ApprovedInv'
<1>1. PICK to \in {"pause", "resume"} : Steps(t, "idle", to) /\ UNCHANGED <<db, git>>
  BY PauseReadDoes, ResumeReadDoes
<1> QED BY <1>1, ContentStays DEF KeepsContent

\* A decision answers an open request: what was approved before stays approved.
LEMMA ApprovedDecideHitl ==
  ASSUME MaxOverlaps = 0, TypeOK, CallsInv, SeesInv, CalmInv, ApprovedInv, NEW t \in Threads,
         ThreadStep(t), DecideHitl(t), ~DecideSave(t)
  PROVE  ApprovedInv'
<1>1. ASSUME NEW r \in Reasons, NEW a \in Attempts, NEW choice, NEW status, NEW node,
             Decide(t, r, a, choice, status, node)
      PROVE  ApprovedInv'
  <2>1. Steps(t, "idle", "resolve") /\ UNCHANGED <<db, git>>
    BY <1>1, DecideDoes
  <2> QED BY <2>1, ContentStays DEF KeepsContent
<1>2. CASE DecideResolve(t)
  <2>1. /\ Steps(t, "resolve", "decided") /\ UNCHANGED git /\ KeepsButHitl
        /\ \A r \in Reasons, a \in Attempts :
             /\ db'.hitl[r][a].fp = db.hitl[r][a].fp
             /\ db'.hitl[r][a].state = IF r = loc[t].reason /\ a = loc[t].about
                                       THEN loc[t].choice ELSE db.hitl[r][a].state
    BY <1>2, ResolveDoes
  <2>2. CalmAt(db, "resolve", mem[t], loc[t])
    BY <2>1, CalmHas
  <2>3. db.hitl[loc[t].reason][loc[t].about].state = "open"
    BY <2>2 DEF CalmAt, InAnswer
  <2>4. \A a \in Attempts :
          /\ Review(db', a).fp = Review(db, a).fp
          /\ Review(db', a).state = Review(db, a).state \/ Review(db, a).state = "open"
    BY <2>1, <2>3 DEF Review, Reasons
  <2>5. Candidates(db')
    BY <2>1, <2>4 DEF ApprovedInv, Candidates, KeepsButHitl
  <2>6. ASSUME NEW c, Approves(db, c) PROVE Approves(db', c)
    BY <2>1, <2>4, <2>6 DEF Approves, KeepsButHitl
  <2>7. RefsApproved(db', git')
    BY <2>1, <2>6 DEF ApprovedInv, RefsApproved, KeepsButHitl
  <2>8. Handles(db', git', "decided", loc'[t])
    BY DEF Handles
  <2> QED BY <2>1, <2>5, <2>7, <2>8, ApprovedKeeps DEF KeepsButHitl
<1>3. "promotion_review" \in Reasons
  BY DEF Reasons
<1> QED BY <1>1, <1>2, <1>3 DEF DecideHitl, DecideApprove, DecideRetry, DecideReject

LEMMA ApprovedRecover ==
  ASSUME MaxOverlaps = 0, TypeOK, CallsInv, SeesInv, CalmInv, ApprovedInv, NEW t \in Threads,
         ThreadStep(t), RecoverUncertain(t), ~RecoverSave(t)
  PROVE  ApprovedInv'
<1>1. ASSUME NEW a \in Attempts, RecoverVerifyExisting(t, a) PROVE ApprovedInv'
  <2>1. /\ Recover(t, a, "verify-existing", "close", "RUNNING", "VERIFY")
        /\ UNCHANGED git /\ KeepsButAttempts
        /\ \A b \in Attempts : db'.attempts[b] =
             IF b = a THEN [output |-> "recovered", prep |-> NoPrepared] ELSE db.attempts[b]
    BY <1>1, StrategyDoes
  <2>2. Steps(t, "idle", "close") /\ db.wf.status = "UNCERTAIN" /\ Pending(a)
    BY <2>1, RecoverDoes DEF Strategies, Nodes
  <2>3. a = db.wf.attempt
    BY <2>2 DEF CallsInv, CallsAreNumbered, Pending
  <2>4. Unverified(db, a)
    BY <2>2, <2>3, CalmHas DEF CalmAt, Backed, Unknown, HalfSaved, Working, Saved
  <2>5. Candidates(db') /\ RefsApproved(db', git')
    BY <2>1, <2>4, OutputReplaced DEF KeepsButAttempts
  <2>6. Handles(db', git', "close", loc'[t])
    BY DEF Handles
  <2> QED BY <2>1, <2>2, <2>5, <2>6, ApprovedKeeps DEF KeepsButAttempts
<1>2. ASSUME NEW a \in Attempts, RecoverRetry(t, a) PROVE ApprovedInv'
  <2>1. /\ Recover(t, a, "retry-same-attempt", "recovered", "RUNNING", "AGENT_EXECUTE")
        /\ UNCHANGED git /\ KeepsButIntents
    BY <1>2, StrategyDoes
  <2>2. Steps(t, "idle", "recovered")
    BY <2>1, RecoverDoes DEF Strategies, Nodes
  <2> QED BY <2>1, <2>2, ContentStays DEF KeepsContent, KeepsButIntents
<1>3. ASSUME NEW a \in Attempts, RecoverRestore(t, a) \/ RecoverAbort(t, a) PROVE ApprovedInv'
  <2>1. PICK action \in Strategies : Recover(t, a, action, "close", "FAILED", "FAILED")
    BY <1>3, StrategyDoes
  <2>2. UNCHANGED db /\ git'.head = git.head /\ git'.tags = git.tags
    BY <1>3, StrategyDoes
  <2>3. Steps(t, "idle", "close")
    BY <2>1, RecoverDoes DEF Nodes
  <2> QED BY <2>2, <2>3, ContentStays DEF KeepsContent
<1>4. CASE RecoverClose(t)
  <2>1. Steps(t, "close", "recovered") /\ UNCHANGED git /\ KeepsButIntents
    BY <1>4, CloseDoes
  <2> QED BY <2>1, ContentStays DEF KeepsContent, KeepsButIntents
<1> QED BY <1>1, <1>2, <1>3, <1>4 DEF RecoverUncertain

\* A rollback goes to a version, and only approved commits become versions.
LEMMA ApprovedRollback ==
  ASSUME MaxOverlaps = 0, TypeOK, CallsInv, ApprovedInv, NEW t \in Threads, ThreadStep(t),
         NEW v \in VersionIds, Rollback(t, v)
  PROVE  ApprovedInv'
<1>1. /\ Steps(t, "idle", "rollback") /\ UNCHANGED db
      /\ git'.tags = git.tags /\ git'.head \in {git.head, db.versions[v].commit}
  BY RollbackDoes
<1>2. RefsApproved(db', git') /\ Candidates(db') /\ Handles(db', git', "rollback", loc'[t])
  BY <1>1 DEF ApprovedInv, RefsApproved, Handles
<1> QED BY <1>1, <1>2, ApprovedKeeps

LEMMA ApprovedInit == Init => ApprovedInv
<1> SUFFICES ASSUME Init PROVE ApprovedInv
  OBVIOUS
<1>1. /\ db.contract = NoContract /\ git.head = BaseCommit
      /\ \A a \in Attempts : /\ git.tags[a] = NoCommit /\ Review(db, a).state = "absent"
                             /\ db.attempts[a].prep.commit = NoCommit
      /\ \A v \in VersionIds : db.versions[v].commit = NoCommit
      /\ \A t \in Threads : pc[t] = "idle"
  BY DEF Init, FreshWorktree, Review, Reasons, NoRequest, NoAttemptRow, NoPrepared
<1>2. BaseCommit.att \notin Attempts /\ NoCommit.att \notin Attempts /\ NoCommit.att = -1
  BY Parameters DEF BaseCommit, NoCommit, Attempts
<1>3. RefsApproved(db, git)
  BY <1>1, <1>2 DEF RefsApproved, Approves
<1>4. Candidates(db)
  BY <1>1, <1>2 DEF Candidates
<1>5. \A t \in Threads : Handles(db, git, pc[t], loc[t])
  BY <1>1 DEF Handles
<1> QED BY <1>1, <1>3, <1>4, <1>5 DEF ApprovedInv

LEMMA ApprovedStep ==
  ASSUME MaxOverlaps = 0, MaxCrashes = 0, MaxOverwrites = 0, ~EditDuringVerify,
         TypeOK, CallsInv, SeesInv, CalmInv, ApprovedInv, [Next]_vars
  PROVE  ApprovedInv'
<1>1. ASSUME NEW t \in Threads, ThreadStep(t) PROVE ApprovedInv'
  <2>1. CASE Start(t)
    BY <1>1, <2>1, ApprovedStart, ApprovedSaving DEF Start
  <2>2. CASE Run(t) \/ Execute(t)
    BY <1>1, <2>2, ApprovedRun, ApprovedExecute
  <2>3. CASE Verify(t) \/ Promote(t)
    BY <1>1, <2>3, ApprovedVerify, ApprovedPromote, ApprovedSaving
  <2>4. CASE PauseResume(t)
    BY <1>1, <2>4, ApprovedPauseResume, ApprovedSaving DEF PauseResume
  <2>5. CASE DecideHitl(t) \/ RecoverUncertain(t)
    BY <1>1, <2>5, ApprovedDecideHitl, ApprovedRecover, ApprovedSaving
  <2>6. CASE RollBack(t)
    BY <1>1, <2>6, ApprovedRollback, ApprovedSaving DEF RollBack
  <2> QED BY <1>1, <2>1, <2>2, <2>3, <2>4, <2>5, <2>6 DEF ThreadStep
<1>2. CASE Crash
  BY <1>2 DEF Crash, TypeOK
<1>3. CASE OutsideEdit
  <2>1. /\ UNCHANGED <<db, pc, loc>> /\ git'.head = git.head /\ git'.tags = git.tags
        /\ \A t \in Threads : pc[t] \notin {"prepared", "gate"}
    BY <1>3 DEF OutsideEdit, VerifyWindow, StageAll, TypeOK, Worktree
  <2>2. \A t \in Threads : Handles(db', git', pc'[t], loc'[t])
    BY <2>1 DEF ApprovedInv, Handles
  <2> QED BY <2>1, <2>2 DEF ApprovedInv, RefsApproved, Exists
<1>4. CASE Overwrite \/ UNCHANGED vars
  BY <1>4 DEF Overwrite, vars, ApprovedInv, Exists
<1> QED BY <1>1, <1>2, <1>3, <1>4 DEF Next

\* D-022, of _verify, decide_hitl and _promote: what HEAD or a tag was moved to is what
\* the reviewer was shown and approved, for any number of requests, edits between the
\* requests, retries and rollbacks, while nobody edits during a verification, the
\* process does not crash and the spec stays.
THEOREM ApprovedPromotionHolds ==
  ASSUME MaxOverlaps = 0, MaxCrashes = 0, MaxOverwrites = 0, ~EditDuringVerify
  PROVE  Spec => []ApprovedPromotion
<1> DEFINE Inv == TypeOK /\ CallsInv /\ SeesInv /\ CalmInv /\ ApprovedInv
<1>1. Inv /\ [Next]_vars => Inv'
  BY TypeStep, CallsStep, SeesStep, CalmStep, ApprovedStep
<1>2. Init => Inv
  BY TypeInit, CallsInit, SeesInit, CalmInit, ApprovedInit
<1>3. ASSUME Inv PROVE ApprovedPromotion
  <2> SUFFICES ASSUME NEW a \in Attempts, NEW c \in {git.head, git.tags[a]}, db.contract.review,
                      Promoted(a, c)
               PROVE  Review(db, a).state = "approve" /\ Review(db, a).fp.work = c.tree
    BY DEF ApprovedPromotion, Review
  <2>1. Approves(db, c) /\ c.att = a
    BY <1>3 DEF ApprovedInv, RefsApproved, Promoted
  <2> QED BY <2>1 DEF Approves
<1> QED BY <1>1, <1>2, <1>3, PTL DEF Spec
=============================================================================
