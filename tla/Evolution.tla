----------------------------- MODULE Evolution -----------------------------
(***************************************************************************)
(* Self-improvement of the supervisor's LoopSpec: human requests and       *)
(* repeated verifier failures become triggers, a proposal worker turns a   *)
(* trigger into a quarantined candidate, evaluates it on the held-out      *)
(* tasks and puts it up for review, and an approved candidate becomes the  *)
(* active revision.  Processes share one SQLite file.  A statement with    *)
(* its commit, and a "with db" block, is one step, taken when no other     *)
(* connection has a write transaction open; the reads of one check are one *)
(* step, apart from the write that relies on them.  A CAS update that      *)
(* matches no row raises without a rollback: the connection keeps the      *)
(* write lock.                                                             *)
(***************************************************************************)
EXTENDS Integers, Sequences, FiniteSets

CONSTANTS
  Threads, NoThread,   \* processes, each with a connection of its own
  NoTrigger,           \* no trigger in hand
  Server,              \* the ones that outlive an exception of a request
  Human,               \* ids of human requests
  Feedback,            \* normalized texts of failed verifications
  Docs, Good,          \* graphs, and those that pass the held-out tasks
  Repo,                \* the graphs of the repository's revisions 1, 2, ...
  EarlyRequeue,        \* an operator may requeue a trigger whose worker lives
  MaxFailures, MaxCrashes, MaxRequeues    \* bounds

ASSUME ThreadAssumption == NoThread \notin Threads /\ Server \subseteq Threads
ASSUME DocsAssumption ==
  Good \subseteq Docs /\ Repo \in Seq(Docs) /\ Len(Repo) > 0
ASSUME BoundsAssumption ==
  /\ EarlyRequeue \in BOOLEAN
  /\ MaxFailures \in Nat /\ MaxCrashes \in Nat /\ MaxRequeues \in Nat

VARIABLES
  triggers,     \* evolution_triggers: the status of each trigger stored
  failed,       \* the failed rows of the verifications table
  specs,        \* loop_specs: content and status of each revision stored
  candidates,   \* evolution_candidates: the manifest of each trigger's candidate
  runs,         \* evolution_runs: baseline and status of each trigger's run
  holder,       \* whose connection has a write transaction open
  pc, loc,      \* where each process is, and what it has read
  crashes, requeues    \* counters behind the bounds

tables == <<triggers, failed, specs, candidates, runs>>
evoVars == <<tables, holder, pc, loc, crashes, requeues>>
-----------------------------------------------------------------------------
\* The content of revision n is the sequence of the n graphs that lead to
\* it: the hash of a revision covers the hash of its predecessor.
Content == Seq(Docs)
Signature == [Feedback -> Nat]
Trigger == Human \cup Signature

CandidateStatus == {"QUARANTINED", "PROMOTION_REVIEW", "ACTIVE", "REJECTED"}
Manifest == [hash: Content, status: CandidateStatus]
Local == [trig: Trigger \cup {NoTrigger}, base: Content, content: Content,
          status: {"ACTIVE", "CANDIDATE"}]
NoLocal == [trig |-> NoTrigger, base |-> <<>>, content |-> <<>>, status |-> "CANDIDATE"]

Put(f, x, v) == [y \in DOMAIN f \cup {x} |-> IF y = x THEN v ELSE f[y]]
Parent(c) == SubSeq(c, 1, Len(c) - 1)
Passes(c) == c[Len(c)] \in Good

\* SELECT ... WHERE status='ACTIVE' ORDER BY revision DESC LIMIT 1.
ActiveRevisions == {r \in DOMAIN specs : specs[r].status = "ACTIVE"}
HasActive == ActiveRevisions # {}
Active == specs[CHOOSE r \in ActiveRevisions : \A s \in ActiveRevisions : s <= r].content

\* Another connection's open transaction makes a writer wait.
MayWrite(t) == holder \in {NoThread, t}
Commit(t) == MayWrite(t) /\ holder' = NoThread
Refused(t) == MayWrite(t) /\ holder' = t

Goto(t, l) == pc' = [pc EXCEPT ![t] = l]
Go(t, l) == Goto(t, l) /\ UNCHANGED loc
Return(t, l) == Goto(t, l) /\ loc' = [loc EXCEPT ![t] = NoLocal]
Raise(t) == Return(t, IF t \in Server THEN "idle" ELSE "exit")
Bookkeeping == <<crashes, requeues>>
-----------------------------------------------------------------------------
Init ==
  /\ triggers = <<>> /\ failed = <<>> /\ specs = <<>>
  /\ candidates = <<>> /\ runs = <<>>
  /\ holder = NoThread
  /\ pc = [t \in Threads |-> "boot"]
  /\ loc = [t \in Threads |-> NoLocal]
  /\ crashes = 0 /\ requeues = 0

\* Supervisor.__init__: without an active revision the repository's chain is
\* saved, revision 1 as ACTIVE, each later one as CANDIDATE and as ACTIVE.
Boot(t) ==
  /\ pc[t] = "boot"
  /\ IF HasActive THEN Go(t, "idle")
     ELSE /\ Goto(t, "seed")
          /\ loc' = [loc EXCEPT ![t] = [NoLocal EXCEPT !.content = SubSeq(Repo, 1, 1),
                                                   !.status = "ACTIVE"]]
  /\ UNCHANGED <<tables, holder, Bookkeeping>>

\* LoopSpecStore.save, before its first write: a stored revision has the same
\* content, and the revision before it is the predecessor.
SaveRefused(c) ==
  \/ Len(c) \in DOMAIN specs /\ specs[Len(c)].content # c
  \/ Len(c) > 1 /\ ~(/\ Len(c) - 1 \in DOMAIN specs
                     /\ specs[Len(c) - 1].content = Parent(c))

\* An exception in a "with db" block rolls back what the connection has open.
AfterCheck == [seed |-> "seedWrite", intake |-> "insert", activate |-> "approve"]
RolledBack(t) == IF holder = t THEN NoThread ELSE holder
SaveCheck(t) ==
  /\ pc[t] \in DOMAIN AfterCheck
  /\ IF ~SaveRefused(loc[t].content)
     THEN Go(t, AfterCheck[pc[t]]) /\ UNCHANGED holder
     ELSE IF pc[t] = "seed" THEN Return(t, "exit") /\ UNCHANGED holder
     ELSE /\ holder' = RolledBack(t)
          /\ IF pc[t] = "intake" THEN Go(t, "saveFailed") ELSE Raise(t)
  /\ UNCHANGED <<tables, Bookkeeping>>

\* Its writes: an ACTIVE row supersedes the active one, and the row of a
\* revision that is stored is overwritten, content and status.
Saved(c, status) ==
  LET superseded == [r \in DOMAIN specs |->
        IF status = "ACTIVE" /\ specs[r].status = "ACTIVE"
        THEN [specs[r] EXCEPT !.status = "SUPERSEDED"] ELSE specs[r]]
  IN  Put(superseded, Len(c), [content |-> c, status |-> status])

SeedWrite(t) ==
  LET c == loc[t].content
  IN  /\ pc[t] = "seedWrite"
      /\ Commit(t)
      /\ specs' = Saved(c, loc[t].status)
      /\ IF loc[t].status = "CANDIDATE"
         THEN Goto(t, "seed") /\ loc' = [loc EXCEPT ![t].status = "ACTIVE"]
         ELSE IF Len(c) < Len(Repo)
         THEN /\ Goto(t, "seed")
              /\ loc' = [loc EXCEPT ![t].content = SubSeq(Repo, 1, Len(c) + 1),
                                    ![t].status = "CANDIDATE"]
         ELSE Return(t, "idle")
      /\ UNCHANGED <<triggers, failed, candidates, runs, Bookkeeping>>
-----------------------------------------------------------------------------
\* EvolutionTriggerStore.save and the update of a status, with their commits.
AddTrigger(t, g) ==
  IF g \in DOMAIN triggers
  THEN Refused(t) /\ Raise(t) /\ UNCHANGED triggers      \* IntegrityError
  ELSE Commit(t) /\ triggers' = Put(triggers, g, "PENDING") /\ Return(t, "idle")

\* create_human_request: a fresh id.
Request(t, h) ==
  /\ pc[t] = "idle"
  /\ h \notin DOMAIN triggers
  /\ AddTrigger(t, h)
  /\ UNCHANGED <<failed, specs, candidates, runs, Bookkeeping>>

\* _verify saves a failed verification ...
VerifyFails(t, f) ==
  /\ pc[t] = "idle"
  /\ Len(failed) < MaxFailures
  /\ Commit(t)
  /\ failed' = Append(failed, f)
  /\ Go(t, "signature")
  /\ UNCHANGED <<triggers, specs, candidates, runs, Bookkeeping>>

\* failure_signature: the bag of all failures there are (the last 100).
SignatureOf(rows) == [f \in Feedback |-> Cardinality({i \in DOMAIN rows : rows[i] = f})]

\* ... and from two failures on asks for a trigger with their signature,
\* unless there is one.
Sign(t) ==
  /\ pc[t] = "signature"
  /\ IF Len(failed) >= 2 /\ SignatureOf(failed) \notin DOMAIN triggers
     THEN /\ Goto(t, "enqueue")
          /\ loc' = [loc EXCEPT ![t].trig = SignatureOf(failed)]
     ELSE Return(t, "idle")
  /\ UNCHANGED <<tables, holder, Bookkeeping>>

Enqueue(t) ==
  /\ pc[t] = "enqueue"
  /\ AddTrigger(t, loc[t].trig)
  /\ UNCHANGED <<failed, specs, candidates, runs, Bookkeeping>>
-----------------------------------------------------------------------------
\* The update of a trigger's status, if it is still the one expected.
Settle(t, g, from, to) ==
  triggers[g] = from /\ Commit(t) /\ triggers' = [triggers EXCEPT ![g] = to]
Unsettled(t, g, from) == triggers[g] # from /\ Refused(t) /\ UNCHANGED triggers

\* From the claim of a trigger to the update that settles it.
Building == {"baseline", "saveRun", "propose", "build", "bind", "intake", "insert",
             "evaluate", "record", "finish", "saveFailed", "finishFailed"}
WorkedOn(g) == \E t \in Threads : pc[t] \in Building /\ loc[t].trig = g

\* A claim that does not ask for a pending trigger.
Claim_Unconditional(t, g) ==
  /\ pc[t] = "idle"
  /\ Commit(t)
  /\ triggers' = [triggers EXCEPT ![g] = "PROCESSING"]
  /\ Goto(t, "baseline")
  /\ loc' = [loc EXCEPT ![t].trig = g]
  /\ UNCHANGED <<failed, specs, candidates, runs, Bookkeeping>>

Claim(t, g) ==
  /\ pc[t] = "idle"
  /\ \/ /\ Settle(t, g, "PENDING", "PROCESSING")
        /\ Goto(t, "baseline")
        /\ loc' = [loc EXCEPT ![t].trig = g]
     \/ Unsettled(t, g, "PENDING") /\ Raise(t)
  /\ UNCHANGED <<failed, specs, candidates, runs, Bookkeeping>>

\* The operator's recovery of a trigger whose worker is gone.
Requeue(t, g) ==
  /\ pc[t] = "idle"
  /\ requeues < MaxRequeues
  /\ EarlyRequeue \/ ~WorkedOn(g)
  /\ requeues' = requeues + 1
  /\ \/ Settle(t, g, "PROCESSING", "PENDING") /\ Go(t, "idle")
     \/ Unsettled(t, g, "PROCESSING") /\ Raise(t)
  /\ UNCHANGED <<failed, specs, candidates, runs, crashes>>

\* EvolutionProposalWorker.consume.
Baseline(t) ==
  /\ pc[t] = "baseline"
  /\ IF HasActive
     THEN Goto(t, "saveRun") /\ loc' = [loc EXCEPT ![t].base = Active]
     ELSE Go(t, "finishFailed")
  /\ UNCHANGED <<tables, holder, Bookkeeping>>

\* EvolutionRunStore.save: the baseline of a stored run is not updated.
RunSaved(g, base, status) ==
  Put(runs, g, [base |-> IF g \in DOMAIN runs THEN runs[g].base ELSE base,
                status |-> status])

SaveRun(t) ==
  /\ pc[t] = "saveRun"
  /\ Commit(t)
  /\ runs' = RunSaved(loc[t].trig, loc[t].base, "PROCESSING")
  /\ Go(t, "propose")
  /\ UNCHANGED <<triggers, failed, specs, candidates, Bookkeeping>>

\* propose reads the active revision again, for the builder's request.
Propose(t) ==
  /\ pc[t] = "propose"
  /\ IF HasActive
     THEN Goto(t, "build") /\ loc' = [loc EXCEPT ![t].content = Active]
     ELSE Go(t, "saveFailed")
  /\ UNCHANGED <<tables, holder, Bookkeeping>>

\* The builder, external: a graph, or an exception (a graph the gate refuses
\* included).  The host binds the graph to the revision it has read.
Build(t) ==
  /\ pc[t] = "build"
  /\ \/ \E d \in Docs :
          Goto(t, "bind") /\ loc' = [loc EXCEPT ![t].content = Append(@, d)]
     \/ Go(t, "saveFailed")
  /\ UNCHANGED <<tables, holder, Bookkeeping>>

\* intake: the predecessor is still the active revision ...
Bind(t) ==
  /\ pc[t] = "bind"
  /\ IF HasActive /\ Parent(loc[t].content) = Active
     THEN Go(t, "intake") ELSE Go(t, "saveFailed")
  /\ UNCHANGED <<tables, holder, Bookkeeping>>

\* CandidateStore.save: a manifest stored under the id must be the same one.
MayQuarantine(g, manifest) == g \notin DOMAIN candidates \/ candidates[g] = manifest

\* ... then, after the checks of save, revision and manifest in one transaction.
Insert(t) ==
  LET g == loc[t].trig
      manifest == [hash |-> loc[t].content, status |-> "QUARANTINED"]
  IN  /\ pc[t] = "insert"
      /\ Commit(t)
      /\ IF MayQuarantine(g, manifest)
         THEN /\ specs' = Saved(loc[t].content, "CANDIDATE")
              /\ candidates' = Put(candidates, g, manifest)
              /\ Go(t, "evaluate")
         ELSE Go(t, "saveFailed") /\ UNCHANGED <<specs, candidates>>
      /\ UNCHANGED <<triggers, failed, runs, Bookkeeping>>

\* evaluate: the manifest is in quarantine, its predecessor active and the
\* stored revision the one it names.
Evaluate(t) ==
  LET c == candidates[loc[t].trig].hash
  IN  /\ pc[t] = "evaluate"
      /\ IF /\ candidates[loc[t].trig].status = "QUARANTINED"
            /\ HasActive /\ Active = Parent(c)
            /\ Len(c) \in DOMAIN specs /\ specs[Len(c)].content = c
         THEN Go(t, "record") ELSE Go(t, "saveFailed")
      /\ UNCHANGED <<tables, holder, Bookkeeping>>

\* CandidateStore.transition, which reads the manifest again.
Transition(g, from, to) ==
  candidates[g].status = from /\ candidates' = [candidates EXCEPT ![g].status = to]

\* To review if the replay of the held-out tasks passes (VALIDATED is passed
\* through inside the transaction), REJECTED otherwise.
Record(t) ==
  LET g == loc[t].trig
      verdict == IF Passes(candidates[g].hash) THEN "PROMOTION_REVIEW" ELSE "REJECTED"
  IN  /\ pc[t] = "record"
      /\ Commit(t)
      /\ \/ Transition(g, "QUARANTINED", verdict) /\ Go(t, "finish")
         \/ /\ candidates[g].status # "QUARANTINED"
            /\ Go(t, "saveFailed") /\ UNCHANGED candidates
      /\ UNCHANGED <<triggers, failed, specs, runs, Bookkeeping>>

\* A worker that does not look at the verdict, and one that leaves the trigger
\* to be settled after its run.
Finish_AnyVerdict(t) ==
  LET g == loc[t].trig
  IN  /\ pc[t] = "finish"
      /\ \/ Settle(t, g, "PROCESSING", "CONSUMED") /\ Go(t, "saveReview")
         \/ Unsettled(t, g, "PROCESSING") /\ Raise(t)
      /\ UNCHANGED <<failed, specs, candidates, runs, Bookkeeping>>
Finish_Later(t) ==
  /\ pc[t] = "finish"
  /\ IF Passes(loc[t].content) THEN Go(t, "saveReview") ELSE Raise(t)
  /\ UNCHANGED <<tables, holder, Bookkeeping>>

\* finish(CONSUMED); a rejected candidate then raises and keeps its run.
Finish(t) ==
  LET g == loc[t].trig
  IN  /\ pc[t] = "finish"
      /\ \/ /\ Settle(t, g, "PROCESSING", "CONSUMED")
            /\ IF Passes(loc[t].content) THEN Go(t, "saveReview") ELSE Raise(t)
         \/ Unsettled(t, g, "PROCESSING") /\ Raise(t)
      /\ UNCHANGED <<failed, specs, candidates, runs, Bookkeeping>>

SaveReview(t) ==
  /\ pc[t] = "saveReview"
  /\ Commit(t)
  /\ runs' = RunSaved(loc[t].trig, loc[t].base, "PROMOTION_REVIEW")
  /\ Return(t, "idle")
  /\ UNCHANGED <<triggers, failed, specs, candidates, Bookkeeping>>

\* The handler of propose and evaluate: run FAILED, trigger FAILED, raise.
SaveFailed(t) ==
  /\ pc[t] = "saveFailed"
  /\ Commit(t)
  /\ runs' = RunSaved(loc[t].trig, loc[t].base, "FAILED")
  /\ Go(t, "finishFailed")
  /\ UNCHANGED <<triggers, failed, specs, candidates, Bookkeeping>>

FinishFailed(t) ==
  LET g == loc[t].trig
  IN  /\ pc[t] = "finishFailed"
      /\ Settle(t, g, "PROCESSING", "FAILED") \/ Unsettled(t, g, "PROCESSING")
      /\ Raise(t)
      /\ UNCHANGED <<failed, specs, candidates, runs, Bookkeeping>>
-----------------------------------------------------------------------------
\* An activation that takes the stored revision for the one it names.
Activate_Unbound(t, g) ==
  LET c == candidates[g].hash
  IN  /\ pc[t] = "idle"
      /\ candidates[g].status = "PROMOTION_REVIEW"
      /\ HasActive /\ Active = Parent(c)
      /\ Len(c) \in DOMAIN specs
      /\ Goto(t, "activate")
      /\ loc' = [loc EXCEPT ![t].trig = g, ![t].content = specs[Len(c)].content]
      /\ UNCHANGED <<tables, holder, Bookkeeping>>

\* activate, on a human's approval: the manifest is in review, its
\* predecessor active and the stored revision the one it names ...
Activate(t, g) ==
  LET c == candidates[g].hash
  IN  /\ pc[t] = "idle"
      /\ candidates[g].status = "PROMOTION_REVIEW"
      /\ HasActive /\ Active = Parent(c)
      /\ Len(c) \in DOMAIN specs /\ specs[Len(c)].content = c
      /\ Goto(t, "activate")
      /\ loc' = [loc EXCEPT ![t].trig = g, ![t].content = specs[Len(c)].content]
      /\ UNCHANGED <<tables, holder, Bookkeeping>>

\* ... then, after the checks of save, row and manifest in one transaction.
Approve(t) ==
  LET g == loc[t].trig
  IN  /\ pc[t] = "approve"
      /\ Commit(t)
      /\ \/ /\ Transition(g, "PROMOTION_REVIEW", "ACTIVE")
            /\ specs' = Saved(loc[t].content, "ACTIVE")
            /\ Return(t, "idle")
         \/ /\ candidates[g].status # "PROMOTION_REVIEW"
            /\ Raise(t) /\ UNCHANGED <<specs, candidates>>
      /\ UNCHANGED <<triggers, failed, runs, Bookkeeping>>
-----------------------------------------------------------------------------
Writing == {"seedWrite", "enqueue", "saveRun", "insert", "record", "finish",
            "saveReview", "saveFailed", "finishFailed", "approve"}

\* Without a timeout a writer is let through as soon as nobody else writes.
Locked_Waits(t) ==
  /\ pc[t] \in Writing
  /\ ~MayWrite(t)
  /\ UNCHANGED evoVars

\* After 5 s behind transactions that others keep open: "database is locked",
\* which the handler of the worker catches inside its try.  How long a holder
\* takes is not modelled.
Locked(t) ==
  /\ pc[t] \in Writing
  /\ ~MayWrite(t)
  /\ IF pc[t] \in {"insert", "record"} THEN Go(t, "saveFailed")
     ELSE IF pc[t] = "seedWrite" THEN Return(t, "exit")
     ELSE Raise(t)
  /\ UNCHANGED <<tables, holder, Bookkeeping>>

\* A process ends: its connection is closed, its transaction rolled back.
End(t) ==
  /\ Return(t, "boot")
  /\ holder' = RolledBack(t)
  /\ UNCHANGED tables
Exit(t) == pc[t] = "exit" /\ End(t) /\ UNCHANGED Bookkeeping
Crash(t) ==
  /\ pc[t] # "exit"
  /\ crashes < MaxCrashes
  /\ crashes' = crashes + 1
  /\ End(t)
  /\ UNCHANGED requeues

\* The steps of an operation under way, and the operations that begin one.
Step(t) ==
  \/ Boot(t) \/ SaveCheck(t) \/ SeedWrite(t)
  \/ Sign(t) \/ Enqueue(t)
  \/ Baseline(t) \/ SaveRun(t) \/ Propose(t) \/ Build(t) \/ Bind(t) \/ Insert(t)
  \/ Evaluate(t) \/ Record(t) \/ Finish(t) \/ SaveReview(t)
  \/ SaveFailed(t) \/ FinishFailed(t)
  \/ Approve(t) \/ Locked(t) \/ Exit(t)
Begin(t) ==
  \/ \E h \in Human : Request(t, h)
  \/ \E f \in Feedback : VerifyFails(t, f)
  \/ \E g \in DOMAIN triggers : Claim(t, g) \/ Requeue(t, g)
  \/ \E g \in DOMAIN candidates : Activate(t, g)
Next == \E t \in Threads : Step(t) \/ Begin(t) \/ Crash(t)

Spec == Init /\ [][Next]_evoVars
\* Processes go on with what they do; nobody has to ask for anything.
FairSpec == Spec /\ \A t \in Threads : WF_evoVars(Step(t))
-----------------------------------------------------------------------------
TriggerStatus == {"PENDING", "PROCESSING", "CONSUMED", "FAILED"}
Labels == {"boot", "seed", "seedWrite", "idle", "signature", "enqueue", "saveReview",
           "activate", "approve", "exit"} \cup Building

\* The types of the tables, the lock and the processes.
TypeOK ==
  /\ triggers \in [DOMAIN triggers -> TriggerStatus] /\ DOMAIN triggers \subseteq Trigger
  /\ failed \in Seq(Feedback)
  /\ DOMAIN specs \subseteq Nat
  /\ specs \in [DOMAIN specs -> [content: Content,
                                 status: {"ACTIVE", "CANDIDATE", "SUPERSEDED"}]]
  /\ candidates \in [DOMAIN candidates -> Manifest] /\ DOMAIN candidates \subseteq Trigger
  /\ runs \in [DOMAIN runs -> [base: Content,
                               status: {"PROCESSING", "FAILED", "PROMOTION_REVIEW"}]]
  /\ DOMAIN runs \subseteq Trigger
  /\ holder \in Threads \cup {NoThread}
  /\ pc \in [Threads -> Labels]
  /\ loc \in [Threads -> Local]
  /\ crashes \in Nat /\ requeues \in Nat

\* There is never more than one active revision, and one that the repository
\* did not ship passes the held-out tasks and has a manifest a human has
\* approved, whatever the interleaving of proposals, approvals and crashes.
Shipped(c) == \E n \in 1..Len(Repo) : c = SubSeq(Repo, 1, n)
ActiveIsProven ==
  \A r \in ActiveRevisions :
    /\ ActiveRevisions = {r}
    /\ \/ Shipped(specs[r].content)
       \/ \E g \in DOMAIN candidates :
            /\ candidates[g] = [hash |-> specs[r].content, status |-> "ACTIVE"]
            /\ Passes(specs[r].content)

\* A trigger has one worker at a time: the builder, which is outside any
\* transaction, is not called twice for one request, crashes apart.
OneBuilderPerTrigger ==
  \A t, u \in Threads :
    t # u /\ pc[t] \in Building /\ pc[u] \in Building => loc[t].trig # loc[u].trig

\* A consumed trigger has a decided candidate, and a run is in review only
\* for a consumed trigger whose candidate has passed.
ReviewedRunIsProven ==
  /\ \A g \in DOMAIN triggers : triggers[g] = "CONSUMED" =>
        g \in DOMAIN candidates /\ candidates[g].status # "QUARANTINED"
  /\ \A g \in DOMAIN runs : runs[g].status = "PROMOTION_REVIEW" =>
        /\ triggers[g] = "CONSUMED"
        /\ candidates[g].status \in {"PROMOTION_REVIEW", "ACTIVE"}

\* A run that is up for review stays so: no later worker, retry or failure
\* handler of the same trigger takes it back.
ReviewIsKept ==
  [][\A g \in DOMAIN runs : runs[g].status = "PROMOTION_REVIEW" =>
       g \in DOMAIN runs' /\ runs'[g].status = "PROMOTION_REVIEW"]_evoVars

\* A worker's call ends, with a result or an exception, whoever is in the way
\* of its writes.
WorkEnds == \A t \in Threads : pc[t] \in Building ~> pc[t] \notin Building

\* "registry for immutable LoopSpec revisions": what is stored as a revision
\* is never replaced.
RevisionsAreImmutable ==
  [][\A r \in DOMAIN specs :
       r \in DOMAIN specs' /\ specs'[r].content = specs[r].content]_evoVars
=============================================================================
