-------------------------- MODULE EvolutionProofs --------------------------
(***************************************************************************)
(* Theorems about Evolution, for every number of processes, requests,      *)
(* failures, graphs, crashes and requeues: one worker per trigger, reviews *)
(* that are earned and kept, active revisions that are proven.  An operator *)
(* who requeues the trigger of a live worker is excluded (EarlyRequeue).   *)
(***************************************************************************)
EXTENDS Evolution, FiniteSetTheorems, SequenceTheorems, TLAPS

USE ThreadAssumption, DocsAssumption, BoundsAssumption

Passed == {"PROMOTION_REVIEW", "ACTIVE"}

\* Where a process has a candidate in hand that is the stored one.
Carrying == {"evaluate", "record", "finish", "activate", "approve"}

\* A worker's trigger is being processed, its candidate is the one stored;
\* at the end the candidate is decided, and the trigger consumed.
ThreadOK(t) ==
  /\ pc[t] \in Building =>
       loc[t].trig \in DOMAIN triggers /\ triggers[loc[t].trig] = "PROCESSING"
  /\ pc[t] \in Carrying =>
       /\ loc[t].trig \in DOMAIN candidates
       /\ candidates[loc[t].trig].hash = loc[t].content
  /\ pc[t] = "finish" =>
       /\ candidates[loc[t].trig].status # "QUARANTINED"
       /\ Passes(loc[t].content) => candidates[loc[t].trig].status \in Passed
  /\ pc[t] = "saveReview" =>
       /\ loc[t].trig \in DOMAIN triggers /\ triggers[loc[t].trig] = "CONSUMED"
       /\ loc[t].trig \in DOMAIN candidates /\ candidates[loc[t].trig].status \in Passed
  /\ pc[t] \in {"seed", "seedWrite"} => Shipped(loc[t].content)
  /\ pc[t] = "enqueue" => loc[t].trig \in Trigger

PassedIsProven ==
  \A g \in DOMAIN candidates : candidates[g].status \in Passed => Passes(candidates[g].hash)
ConsumedIsDecided ==
  \A g \in DOMAIN triggers : triggers[g] = "CONSUMED" =>
     g \in DOMAIN candidates /\ candidates[g].status # "QUARANTINED"
ReviewIsEarned ==
  \A g \in DOMAIN runs : runs[g].status = "PROMOTION_REVIEW" =>
     /\ g \in DOMAIN triggers /\ triggers[g] = "CONSUMED"
     /\ g \in DOMAIN candidates /\ candidates[g].status \in Passed
Tables == PassedIsProven /\ ConsumedIsDecided /\ ReviewIsEarned /\ ActiveIsProven

Inv == TypeOK /\ (\A t \in Threads : ThreadOK(t)) /\ OneBuilderPerTrigger /\ Tables

\* How a manifest, and a trigger, may change: never back.
Forward(a, b) ==
  b = a \/ (a = "QUARANTINED" /\ b # a) \/ (a = "PROMOTION_REVIEW" /\ b = "ACTIVE")
CandidatesGrow ==
  \A g \in DOMAIN candidates :
    /\ g \in DOMAIN candidates' /\ candidates'[g].hash = candidates[g].hash
    /\ Forward(candidates[g].status, candidates'[g].status)
Others(t) == \A u \in Threads \ {t} : pc'[u] = pc[u] /\ loc'[u] = loc[u]
TriggersGrow(t) ==
  \A g \in DOMAIN triggers :
    /\ g \in DOMAIN triggers'
    /\ \/ triggers'[g] = triggers[g]
       \/ /\ triggers[g] # "CONSUMED"
          /\ \A u \in Threads \ {t} : ~(pc[u] \in Building /\ loc[u].trig = g)
-----------------------------------------------------------------------------
LEMMA OthersOK ==
  ASSUME Inv, NEW t \in Threads, Others(t), CandidatesGrow, TriggersGrow(t)
  PROVE  \A u \in Threads \ {t} : ThreadOK(u)'
<1> SUFFICES ASSUME NEW u \in Threads \ {t} PROVE ThreadOK(u)'
  OBVIOUS
<1>1. pc'[u] = pc[u] /\ loc'[u] = loc[u] /\ ThreadOK(u)
  BY DEF Others, Inv
<1>2. "finish" \in Building /\ "finish" \in Carrying
  BY DEF Building, Carrying
<1> HIDE DEF Building, Carrying
<1> QED
  BY <1>1, <1>2 DEF ThreadOK, CandidatesGrow, TriggersGrow, Forward, Passed, Shipped

LEMMA ReviewStays ==
  ASSUME Inv, CandidatesGrow, NEW t \in Threads, TriggersGrow(t)
  PROVE  /\ \A g \in DOMAIN triggers : triggers[g] = "CONSUMED" =>
              /\ g \in DOMAIN triggers' /\ triggers'[g] = "CONSUMED"
              /\ g \in DOMAIN candidates' /\ candidates'[g].status # "QUARANTINED"
         /\ \A g \in DOMAIN candidates : candidates[g].status \in Passed =>
              g \in DOMAIN candidates' /\ candidates'[g].status \in Passed
BY DEF Inv, Tables, ConsumedIsDecided, CandidatesGrow, TriggersGrow, Forward, Passed

LEMMA InitInv == Init => Inv
<1> SUFFICES ASSUME Init PROVE Inv
  OBVIOUS
<1>1. TypeOK
  BY DEF Init, TypeOK, Labels, NoLocal, Local, Content
<1>2. \A t \in Threads : ThreadOK(t)
  BY DEF Init, ThreadOK, Building, Carrying
<1>3. OneBuilderPerTrigger
  BY DEF Init, OneBuilderPerTrigger, Building
<1>4. Tables
  BY DEF Init, Tables, PassedIsProven, ConsumedIsDecided, ReviewIsEarned, ActiveIsProven,
     ActiveRevisions
<1> QED
  BY <1>1, <1>2, <1>3, <1>4 DEF Inv
-----------------------------------------------------------------------------
\* A step of a process that writes no table.  It does not begin to build.
LEMMA MoveStep ==
  ASSUME Inv, NEW t \in Threads, NEW l \in Labels, NEW x \in Local,
         Goto(t, l), loc' = [loc EXCEPT ![t] = x],
         UNCHANGED tables, holder' \in Threads \cup {NoThread},
         crashes' \in Nat, requeues' \in Nat,
         l \in Building => pc[t] \in Building /\ x.trig = loc[t].trig,
         l \in Carrying => x.trig \in DOMAIN candidates /\ candidates[x.trig].hash = x.content,
         l \notin {"finish", "saveReview"},
         l \in {"seed", "seedWrite"} => Shipped(x.content),
         l = "enqueue" => x.trig \in Trigger
  PROVE  Inv'
<1>1. /\ pc'[t] = l /\ loc'[t] = x /\ Others(t)
      /\ UNCHANGED <<triggers, failed, specs, candidates, runs>>
  BY DEF Inv, TypeOK, Goto, Others, tables
<1>2. TypeOK'
  BY <1>1 DEF Inv, TypeOK, Goto
<1>3. CandidatesGrow /\ TriggersGrow(t)
  BY <1>1 DEF CandidatesGrow, TriggersGrow, Forward
<1>4. ThreadOK(t)'
  BY <1>1 DEF Inv, ThreadOK, Shipped
<1>5. OneBuilderPerTrigger'
  BY <1>1 DEF Inv, OneBuilderPerTrigger, Others
<1>6. Tables'
  BY <1>1 DEF Inv, Tables, PassedIsProven, ConsumedIsDecided, ReviewIsEarned, ActiveIsProven,
     ActiveRevisions, Shipped
<1> QED
  BY <1>2, <1>3, <1>4, <1>5, <1>6, <1>1, OthersOK DEF Inv

LEMMA GoStep ==
  ASSUME Inv, NEW t \in Threads, NEW l \in Labels, Go(t, l),
         UNCHANGED <<tables, crashes, requeues>>, holder' \in Threads \cup {NoThread},
         l \in Building => pc[t] \in Building,
         l \in Carrying => pc[t] \in Carrying,
         l \notin {"finish", "saveReview", "enqueue"},
         l \in {"seed", "seedWrite"} => pc[t] \in {"seed", "seedWrite"}
  PROVE  Inv'
<1> DEFINE x == loc[t]
<1>1. x \in Local /\ loc' = [loc EXCEPT ![t] = x] /\ ThreadOK(t)
  BY DEF Inv, TypeOK, Go
<1>2. crashes' \in Nat /\ requeues' \in Nat
  BY DEF Inv, TypeOK
<1>3. /\ l \in Carrying => x.trig \in DOMAIN candidates /\ candidates[x.trig].hash = x.content
      /\ l \in {"seed", "seedWrite"} => Shipped(x.content)
  BY <1>1 DEF ThreadOK
<1> HIDE DEF x
<1>4. x.trig = loc[t].trig
  BY DEF x
<1> QED
  BY <1>1, <1>2, <1>3, <1>4, MoveStep DEF Go

LEMMA NoLocalType == NoLocal \in Local
BY EmptySeq DEF NoLocal, Local, Content

LEMMA ReturnStep ==
  ASSUME Inv, NEW t \in Threads, NEW l \in {"idle", "exit", "boot"}, Return(t, l),
         UNCHANGED tables, holder' \in Threads \cup {NoThread},
         crashes' \in Nat, requeues' \in Nat
  PROVE  Inv'
<1>1. l \in Labels /\ l \notin Building /\ l \notin Carrying
  BY DEF Labels, Building, Carrying
<1> QED
  BY <1>1, NoLocalType, MoveStep DEF Return

LEMMA Counters == Inv => crashes \in Nat /\ requeues \in Nat /\ holder \in Threads \cup {NoThread}
BY DEF Inv, TypeOK

LEMMA RaiseStep ==
  ASSUME Inv, NEW t \in Threads, Raise(t), UNCHANGED <<tables, crashes>>,
         holder' \in Threads \cup {NoThread}, requeues' \in Nat
  PROVE  Inv'
BY Counters, ReturnStep DEF Raise

\* The repository's revisions are prefixes of its chain.
LEMMA Prefixes ==
  ASSUME NEW n \in 1..Len(Repo)
  PROVE  /\ SubSeq(Repo, 1, n) \in Content /\ Len(SubSeq(Repo, 1, n)) = n
         /\ Shipped(SubSeq(Repo, 1, n))
<1>1. SubSeq(Repo, 1, n) \in Content /\ Len(SubSeq(Repo, 1, n)) = n
  BY SubSeqProperties DEF Content
<1> QED
  BY <1>1 DEF Shipped

LEMMA BootStep == ASSUME Inv, NEW t \in Threads, Boot(t) PROVE Inv'
<1>1. pc[t] = "boot" /\ UNCHANGED <<tables, holder, crashes, requeues>>
  BY DEF Boot, Bookkeeping
<1>2. CASE Go(t, "idle")
  BY <1>1, <1>2, Counters, GoStep DEF Labels, Building, Carrying
<1> DEFINE x == [NoLocal EXCEPT !.content = SubSeq(Repo, 1, 1), !.status = "ACTIVE"]
<1>3. CASE Goto(t, "seed") /\ loc' = [loc EXCEPT ![t] = x]
  <2>1. 1 \in 1..Len(Repo)
    OBVIOUS
  <2>2. x \in Local /\ x.content = SubSeq(Repo, 1, 1)
    BY <2>1, Prefixes, NoLocalType DEF Local, NoLocal
  <2>3. Shipped(x.content)
    BY <2>1, <2>2, Prefixes
  <2>4. "seed" \in Labels /\ "seed" \notin Building /\ "seed" \notin Carrying
    BY DEF Labels, Building, Carrying
  <2> HIDE DEF x
  <2> QED
    BY <1>1, <1>3, <2>2, <2>3, <2>4, Counters, MoveStep
<1> QED
  BY <1>2, <1>3 DEF Boot

LEMMA SaveCheckStep == ASSUME Inv, NEW t \in Threads, SaveCheck(t) PROVE Inv'
<1> USE DEF AfterCheck, Labels, Building, Carrying
<1>1. /\ pc[t] \in {"seed", "intake", "activate"}
      /\ UNCHANGED <<tables, crashes, requeues>> /\ holder' \in Threads \cup {NoThread}
  BY Counters DEF SaveCheck, RolledBack, Bookkeeping
<1>2. \/ pc[t] = "seed" /\ Go(t, "seedWrite")
      \/ pc[t] = "intake" /\ Go(t, "insert")
      \/ pc[t] = "activate" /\ Go(t, "approve")
      \/ pc[t] = "intake" /\ Go(t, "saveFailed")
      \/ Return(t, "exit")
      \/ Raise(t)
  BY <1>1 DEF SaveCheck
<1> QED
  BY <1>1, <1>2, Counters, GoStep, ReturnStep, RaiseStep

LEMMA WorkerMoves ==
  ASSUME Inv, NEW t \in Threads,
         \/ Baseline(t) \/ Propose(t) \/ Build(t) \/ Bind(t) \/ Evaluate(t) \/ Locked(t)
  PROVE  Inv'
<1> USE DEF Labels, Building, Carrying
<1>1. UNCHANGED <<tables, holder, crashes, requeues>>
  BY DEF Baseline, Propose, Build, Bind, Evaluate, Locked, Bookkeeping
<1>2. ASSUME HasActive PROVE Active \in Content
  <2>1. PICK r : r \in ActiveRevisions /\ ActiveRevisions = {r}
    BY <1>2 DEF HasActive, Inv, Tables, ActiveIsProven
  <2>2. r \in Nat /\ specs[r].content \in Content
    BY <2>1 DEF Inv, TypeOK, ActiveRevisions
  <2>3. Active = specs[r].content
    BY <2>1, <2>2 DEF Active
  <2> QED
    BY <2>2, <2>3
<1>3. loc[t] \in Local
  BY DEF Inv, TypeOK
<1>4. CASE Go(t, "finishFailed") /\ pc[t] = "baseline"
  BY <1>1, <1>4, Counters, GoStep
<1>5. CASE Go(t, "saveFailed") /\ pc[t] \in Building
  BY <1>1, <1>5, Counters, GoStep
<1>6. CASE Go(t, "intake") /\ pc[t] = "bind"
  BY <1>1, <1>6, Counters, GoStep
<1>7. CASE Go(t, "record") /\ pc[t] = "evaluate"
  BY <1>1, <1>7, Counters, GoStep
<1>8. CASE Return(t, "exit") \/ Raise(t)
  BY <1>1, <1>8, Counters, ReturnStep, RaiseStep
<1>9. CASE Baseline(t) /\ HasActive
  <2> DEFINE x == [loc[t] EXCEPT !.base = Active]
  <2>1. x \in Local /\ x.trig = loc[t].trig
    BY <1>2, <1>3, <1>9 DEF Local
  <2>2. pc[t] = "baseline" /\ Goto(t, "saveRun") /\ loc' = [loc EXCEPT ![t] = x]
    BY <1>9 DEF Baseline
  <2> HIDE DEF x
  <2> QED
    BY <1>1, <2>1, <2>2, Counters, MoveStep
<1>10. CASE Propose(t) /\ HasActive
  <2> DEFINE x == [loc[t] EXCEPT !.content = Active]
  <2>1. x \in Local /\ x.trig = loc[t].trig
    BY <1>2, <1>3, <1>10 DEF Local
  <2>2. pc[t] = "propose" /\ Goto(t, "build") /\ loc' = [loc EXCEPT ![t] = x]
    BY <1>10 DEF Propose
  <2> HIDE DEF x
  <2> QED
    BY <1>1, <2>1, <2>2, Counters, MoveStep
<1>11. CASE Build(t) /\ ~Go(t, "saveFailed")
  <2>1. PICK d \in Docs : pc[t] = "build" /\ Goto(t, "bind") /\ loc' = [loc EXCEPT ![t].content = Append(@, d)]
    BY <1>11 DEF Build
  <2> DEFINE x == [loc[t] EXCEPT !.content = Append(@, d)]
  <2>2. Append(loc[t].content, d) \in Content
    BY <1>3, AppendProperties DEF Local, Content
  <2>3. x \in Local /\ x.trig = loc[t].trig
    BY <1>3, <2>2 DEF Local
  <2>4. loc' = [loc EXCEPT ![t] = x]
    BY <2>1
  <2> HIDE DEF x
  <2> QED
    BY <1>1, <2>1, <2>3, <2>4, Counters, MoveStep
<1> QED
  BY <1>4, <1>5, <1>6, <1>7, <1>8, <1>9, <1>10, <1>11
  DEF Baseline, Propose, Build, Bind, Evaluate, Locked, Writing

LEMMA EndStep == ASSUME Inv, NEW t \in Threads, Exit(t) \/ Crash(t) PROVE Inv'
<1>1. Return(t, "boot") /\ UNCHANGED tables /\ holder' \in Threads \cup {NoThread}
  BY Counters DEF Exit, Crash, End, RolledBack
<1>2. crashes' \in Nat /\ requeues' \in Nat
  BY Counters DEF Exit, Crash, Bookkeeping
<1> QED
  BY <1>1, <1>2, ReturnStep

LEMMA SignStep == ASSUME Inv, NEW t \in Threads, Sign(t) PROVE Inv'
<1> USE DEF Labels, Building, Carrying
<1>1. UNCHANGED <<tables, holder, crashes, requeues>>
  BY DEF Sign, Bookkeeping
<1>2. CASE Return(t, "idle")
  BY <1>1, <1>2, Counters, ReturnStep
<1> DEFINE x == [loc[t] EXCEPT !.trig = SignatureOf(failed)]
<1>3. CASE Goto(t, "enqueue") /\ loc' = [loc EXCEPT ![t] = x]
  <2>1. ASSUME NEW f \in Feedback
        PROVE  Cardinality({i \in DOMAIN failed : failed[i] = f}) \in Nat
    <3>1. DOMAIN failed = 1..Len(failed) /\ Len(failed) \in Nat
      BY DEF Inv, TypeOK
    <3>2. IsFiniteSet(1..Len(failed))
      BY <3>1, FS_Interval
    <3>3. {i \in DOMAIN failed : failed[i] = f} \subseteq 1..Len(failed)
      BY <3>1
    <3>4. IsFiniteSet({i \in DOMAIN failed : failed[i] = f})
      BY <3>2, <3>3, FS_Subset
    <3> QED
      BY <3>4, FS_CardinalityType
  <2>2. SignatureOf(failed) \in Trigger
    BY <2>1 DEF SignatureOf, Trigger, Signature
  <2>3. x \in Local /\ x.trig \in Trigger
    BY <2>2 DEF Inv, TypeOK, Local
  <2>4. "enqueue" \in Labels /\ "enqueue" \notin Building /\ "enqueue" \notin Carrying
    OBVIOUS
  <2> HIDE DEF x
  <2> QED
    BY <1>1, <1>3, <2>3, <2>4, Counters, MoveStep
<1> QED
  BY <1>2, <1>3 DEF Sign

LEMMA ActivateStep ==
  ASSUME Inv, NEW t \in Threads, NEW g \in DOMAIN candidates, Activate(t, g) PROVE Inv'
<1> DEFINE c == candidates[g].hash
           x == [loc[t] EXCEPT !.trig = g, !.content = c]
<1>1. /\ UNCHANGED <<tables, holder, crashes, requeues>> /\ Goto(t, "activate")
      /\ loc' = [loc EXCEPT ![t] = x]
  BY DEF Activate, Bookkeeping
<1>2. g \in Trigger /\ c \in Content
  BY DEF Inv, TypeOK, Manifest
<1>3. x \in Local /\ x.trig = g /\ x.content = c
  BY <1>2 DEF Inv, TypeOK, Local
<1>4. "activate" \in Labels /\ "activate" \notin Building
  BY DEF Labels, Building
<1> HIDE DEF x
<1> QED
  BY <1>1, <1>3, <1>4, Counters, MoveStep

LEMMA VerifyFailsStep ==
  ASSUME Inv, NEW t \in Threads, NEW f \in Feedback, VerifyFails(t, f) PROVE Inv'
<1>1. /\ pc' = [pc EXCEPT ![t] = "signature"] /\ loc' = loc /\ holder' = NoThread
      /\ failed' = Append(failed, f)
      /\ UNCHANGED <<triggers, specs, candidates, runs, crashes, requeues>>
  BY DEF VerifyFails, Commit, Go, Goto, Bookkeeping
<1>2. "signature" \in Labels /\ "signature" \notin Building /\ "signature" \notin Carrying
  BY DEF Labels, Building, Carrying
<1>3. failed' \in Seq(Feedback)
  BY <1>1, AppendProperties DEF Inv, TypeOK
<1>4. TypeOK'
  BY <1>1, <1>2, <1>3 DEF Inv, TypeOK
<1>5. Others(t) /\ CandidatesGrow /\ TriggersGrow(t) /\ pc'[t] = "signature"
  BY <1>1 DEF Inv, TypeOK, Others, CandidatesGrow, TriggersGrow, Forward
<1>6. ThreadOK(t)'
  BY <1>2, <1>5 DEF ThreadOK
<1>7. OneBuilderPerTrigger'
  BY <1>2, <1>5 DEF Inv, OneBuilderPerTrigger, Others
<1>8. Tables'
  BY <1>1 DEF Inv, Tables, PassedIsProven, ConsumedIsDecided, ReviewIsEarned, ActiveIsProven,
     ActiveRevisions, Shipped
<1> QED
  BY <1>4, <1>5, <1>6, <1>7, <1>8, OthersOK DEF Inv
-----------------------------------------------------------------------------
\* A step that writes the triggers only, or the runs only.
LEMMA TriggerStep ==
  ASSUME Inv, NEW t \in Threads, NEW l \in Labels, NEW x \in Local,
         Goto(t, l), loc' = [loc EXCEPT ![t] = x],
         UNCHANGED <<failed, specs, candidates, runs>>, holder' \in Threads \cup {NoThread},
         crashes' \in Nat, requeues' \in Nat,
         triggers' \in [DOMAIN triggers' -> TriggerStatus], DOMAIN triggers' \subseteq Trigger,
         TriggersGrow(t),
         \A g \in DOMAIN triggers' : triggers'[g] = "CONSUMED" =>
            \/ g \in DOMAIN triggers /\ triggers[g] = "CONSUMED"
            \/ g \in DOMAIN candidates /\ candidates[g].status # "QUARANTINED",
         l \in Building =>
           /\ x.trig \in DOMAIN triggers' /\ triggers'[x.trig] = "PROCESSING"
           /\ \A u \in Threads \ {t} : pc[u] \in Building => loc[u].trig # x.trig,
         l \notin Carrying, l \notin {"seed", "seedWrite", "enqueue"},
         l = "saveReview" =>
           /\ x.trig \in DOMAIN triggers' /\ triggers'[x.trig] = "CONSUMED"
           /\ x.trig \in DOMAIN candidates /\ candidates[x.trig].status \in Passed
  PROVE  Inv'
<1>1. /\ pc'[t] = l /\ loc'[t] = x /\ Others(t) /\ CandidatesGrow
  BY DEF Inv, TypeOK, Goto, Others, CandidatesGrow, Forward
<1>2. TypeOK'
  BY DEF Inv, TypeOK, Goto
<1>3. "finish" \in Carrying
  BY DEF Carrying
<1>4. ThreadOK(t)'
  BY <1>1, <1>3 DEF ThreadOK
<1>5. OneBuilderPerTrigger'
  BY <1>1 DEF Inv, OneBuilderPerTrigger, Others
<1>6. ConsumedIsDecided'
  BY DEF Inv, Tables, ConsumedIsDecided
<1>7. ReviewIsEarned'
  BY <1>1, ReviewStays DEF Inv, Tables, ReviewIsEarned
<1>8. PassedIsProven' /\ ActiveIsProven'
  BY DEF Inv, Tables, PassedIsProven, ActiveIsProven, ActiveRevisions, Shipped
<1> QED
  BY <1>1, <1>2, <1>4, <1>5, <1>6, <1>7, <1>8, OthersOK DEF Inv, Tables

\* A refused update changes nothing but the holder of the lock.
LEMMA RefusedStep ==
  ASSUME Inv, NEW t \in Threads, Raise(t), Refused(t) \/ UNCHANGED holder,
         UNCHANGED <<tables, crashes>>, requeues' \in Nat
  PROVE  Inv'
<1>1. holder' \in Threads \cup {NoThread}
  BY Counters DEF Refused
<1> QED
  BY <1>1, RaiseStep

LEMMA AddTriggerStep ==
  ASSUME Inv, NEW t \in Threads, NEW g \in Trigger, AddTrigger(t, g),
         UNCHANGED <<failed, specs, candidates, runs, crashes, requeues>>
  PROVE  Inv'
<1>1. CASE g \in DOMAIN triggers
  BY <1>1, Counters, RefusedStep DEF AddTrigger, tables
<1>2. CASE g \notin DOMAIN triggers
  <2>1. /\ triggers' = Put(triggers, g, "PENDING") /\ holder' = NoThread
        /\ Goto(t, "idle") /\ loc' = [loc EXCEPT ![t] = NoLocal]
    BY <1>2 DEF AddTrigger, Commit, Return
  <2>2. /\ "idle" \in Labels /\ "idle" \notin Building /\ "idle" \notin Carrying
    BY DEF Labels, Building, Carrying
  <2>3. /\ triggers' \in [DOMAIN triggers' -> TriggerStatus] /\ DOMAIN triggers' \subseteq Trigger
        /\ \A h \in DOMAIN triggers' : triggers'[h] = "CONSUMED" =>
              h \in DOMAIN triggers /\ triggers[h] = "CONSUMED"
        /\ TriggersGrow(t)
    BY <1>2, <2>1 DEF Inv, TypeOK, Put, TriggerStatus, TriggersGrow
  <2> QED
    BY <2>1, <2>2, <2>3, Counters, NoLocalType, TriggerStep
<1> QED
  BY <1>1, <1>2

LEMMA RequestStep ==
  ASSUME Inv, NEW t \in Threads, Enqueue(t) \/ \E h \in Human : Request(t, h) PROVE Inv'
<1>1. CASE \E h \in Human : Request(t, h)
  BY <1>1, AddTriggerStep DEF Request, Trigger, Bookkeeping
<1>2. CASE Enqueue(t)
  <2>1. loc[t].trig \in Trigger
    BY <1>2 DEF Enqueue, Inv, ThreadOK
  <2> QED
    BY <1>2, <2>1, AddTriggerStep DEF Enqueue, Bookkeeping
<1> QED
  BY <1>1, <1>2

\* A claim takes a pending trigger, which no worker has.
LEMMA ClaimStep ==
  ASSUME Inv, NEW t \in Threads, NEW g \in DOMAIN triggers, Claim(t, g) PROVE Inv'
<1>1. UNCHANGED <<failed, specs, candidates, runs, crashes, requeues>> /\ pc[t] = "idle"
  BY DEF Claim, Settle, Unsettled, Bookkeeping
<1>2. CASE triggers[g] # "PENDING"
  BY <1>1, <1>2, Counters, RefusedStep DEF Claim, Settle, Unsettled, tables
<1>3. CASE triggers[g] = "PENDING"
  <2> DEFINE x == [loc[t] EXCEPT !.trig = g]
  <2>1. /\ triggers' = [triggers EXCEPT ![g] = "PROCESSING"] /\ holder' = NoThread
        /\ Goto(t, "baseline") /\ loc' = [loc EXCEPT ![t] = x]
    BY <1>3 DEF Claim, Settle, Unsettled, Commit
  <2>2. /\ "baseline" \in Labels /\ "baseline" \notin Carrying
    BY DEF Labels, Building, Carrying
  <2>3. x \in Local /\ x.trig = g
    BY DEF Inv, TypeOK, Local
  <2> HIDE DEF x
  <2>4. \A u \in Threads : pc[u] \in Building => loc[u].trig # g
    BY <1>3 DEF Inv, ThreadOK
  <2>5. /\ triggers' \in [DOMAIN triggers' -> TriggerStatus] /\ DOMAIN triggers' \subseteq Trigger
        /\ \A h \in DOMAIN triggers' : triggers'[h] = "CONSUMED" =>
              h \in DOMAIN triggers /\ triggers[h] = "CONSUMED"
        /\ g \in DOMAIN triggers' /\ triggers'[g] = "PROCESSING"
    BY <2>1 DEF Inv, TypeOK, TriggerStatus
  <2>6. TriggersGrow(t)
    BY <1>3, <2>1, <2>4 DEF Inv, TypeOK, TriggersGrow
  <2> QED
    BY <1>1, <2>1, <2>2, <2>3, <2>4, <2>5, <2>6, Counters, TriggerStep
<1> QED
  BY <1>2, <1>3

\* An operator requeues a trigger whose worker is gone.
LEMMA RequeueStep ==
  ASSUME ~EarlyRequeue, Inv, NEW t \in Threads, NEW g \in DOMAIN triggers, Requeue(t, g)
  PROVE  Inv'
<1>1. /\ UNCHANGED <<failed, specs, candidates, runs, crashes>> /\ ~WorkedOn(g)
      /\ requeues' \in Nat /\ crashes' \in Nat
  BY Counters DEF Requeue, Settle, Unsettled
<1>2. CASE triggers[g] # "PROCESSING"
  BY <1>1, <1>2, RefusedStep DEF Requeue, Settle, Unsettled, tables
<1>3. CASE triggers[g] = "PROCESSING"
  <2>1. /\ triggers' = [triggers EXCEPT ![g] = "PENDING"] /\ holder' = NoThread
        /\ Goto(t, "idle") /\ loc' = loc
    BY <1>3 DEF Requeue, Settle, Unsettled, Commit, Go
  <2>2. /\ "idle" \in Labels /\ "idle" \notin Building /\ "idle" \notin Carrying
    BY DEF Labels, Building, Carrying
  <2>3. loc[t] \in Local /\ loc' = [loc EXCEPT ![t] = loc[t]]
    BY <2>1 DEF Inv, TypeOK
  <2>4. /\ triggers' \in [DOMAIN triggers' -> TriggerStatus] /\ DOMAIN triggers' \subseteq Trigger
        /\ \A h \in DOMAIN triggers' : triggers'[h] = "CONSUMED" =>
              h \in DOMAIN triggers /\ triggers[h] = "CONSUMED"
    BY <2>1 DEF Inv, TypeOK, TriggerStatus
  <2>5. TriggersGrow(t)
    BY <1>1, <1>3, <2>1 DEF Inv, TypeOK, TriggersGrow, WorkedOn
  <2> QED
    BY <1>1, <2>1, <2>2, <2>3, <2>4, <2>5, TriggerStep
<1> QED
  BY <1>2, <1>3

\* A worker settles its trigger, which nobody else works on.
LEMMA SettleStep ==
  ASSUME Inv, NEW t \in Threads, Finish(t) \/ FinishFailed(t) PROVE Inv'
<1> DEFINE g == loc[t].trig
<1>1. /\ UNCHANGED <<failed, specs, candidates, runs, crashes, requeues>>
      /\ pc[t] \in {"finish", "finishFailed"}
  BY DEF Finish, FinishFailed, Settle, Unsettled, Bookkeeping
<1>2. g \in DOMAIN triggers /\ triggers[g] = "PROCESSING" /\ ThreadOK(t)
  BY <1>1 DEF Inv, ThreadOK, Building
<1>3. PICK v \in {"CONSUMED", "FAILED"} :
        /\ triggers' = [triggers EXCEPT ![g] = v] /\ holder' = NoThread
        /\ v = "CONSUMED" => pc[t] = "finish"
  BY <1>1, <1>2 DEF Finish, FinishFailed, Settle, Unsettled, Commit
<1>4. \A u \in Threads \ {t} : ~(pc[u] \in Building /\ loc[u].trig = g)
  BY <1>1 DEF Inv, OneBuilderPerTrigger, Building
<1>5. TriggersGrow(t)
  BY <1>2, <1>3, <1>4 DEF Inv, TypeOK, TriggersGrow
<1>6. /\ triggers' \in [DOMAIN triggers' -> TriggerStatus] /\ DOMAIN triggers' \subseteq Trigger
      /\ g \in DOMAIN triggers' /\ triggers'[g] = v
      /\ \A h \in DOMAIN triggers' : h # g => triggers'[h] = triggers[h]
  BY <1>2, <1>3 DEF Inv, TypeOK, TriggerStatus
<1>7. pc[t] = "finish" =>
        /\ g \in DOMAIN candidates /\ candidates[g].status # "QUARANTINED"
        /\ Passes(loc[t].content) => candidates[g].status \in Passed
  BY <1>2 DEF ThreadOK, Carrying
<1>8. CASE Raise(t)
  <2>1. PICK l \in {"idle", "exit"} : Goto(t, l) /\ loc' = [loc EXCEPT ![t] = NoLocal]
    BY <1>8 DEF Raise, Return
  <2>2. l \in Labels /\ l \notin Building /\ l \notin Carrying
    BY DEF Labels, Building, Carrying
  <2> QED
    BY <1>1, <1>3, <1>5, <1>6, <1>7, <2>1, <2>2, Counters, NoLocalType, TriggerStep
<1>9. CASE Go(t, "saveReview") /\ pc[t] = "finish" /\ Passes(loc[t].content) /\ v = "CONSUMED"
  <2>1. loc[t] \in Local /\ loc' = [loc EXCEPT ![t] = loc[t]] /\ Goto(t, "saveReview")
    BY <1>9 DEF Inv, TypeOK, Go
  <2>2. "saveReview" \in Labels /\ "saveReview" \notin Building /\ "saveReview" \notin Carrying
    BY DEF Labels, Building, Carrying
  <2> QED
    BY <1>1, <1>3, <1>5, <1>6, <1>7, <1>9, <2>1, <2>2, Counters, TriggerStep
<1>10. Raise(t) \/ (Go(t, "saveReview") /\ pc[t] = "finish" /\ Passes(loc[t].content) /\ v = "CONSUMED")
  <2>1. CASE Finish(t)
    <3>1. triggers' = [triggers EXCEPT ![g] = "CONSUMED"]
      BY <1>2, <2>1 DEF Finish, Settle, Unsettled
    <3>2. v = "CONSUMED"
      BY <1>2, <1>6, <3>1 DEF Inv, TypeOK
    <3> QED
      BY <1>2, <2>1, <3>2 DEF Finish, Settle, Unsettled
  <2>2. CASE FinishFailed(t)
    BY <2>2 DEF FinishFailed, Settle, Unsettled
  <2> QED
    BY <2>1, <2>2
<1> QED
  BY <1>8, <1>9, <1>10
-----------------------------------------------------------------------------
\* A step that writes the runs only: never one that is in review.
LEMMA RunStep ==
  ASSUME Inv, NEW t \in Threads, NEW l \in {"propose", "finishFailed", "idle"}, NEW x \in Local,
         NEW v \in {"PROCESSING", "FAILED", "PROMOTION_REVIEW"},
         Goto(t, l), loc' = [loc EXCEPT ![t] = x], l # "idle" => x = loc[t],
         UNCHANGED <<triggers, failed, specs, candidates, crashes, requeues>>,
         holder' = NoThread, loc[t].trig \in Trigger,
         runs' = RunSaved(loc[t].trig, loc[t].base, v),
         l # "idle" => pc[t] \in Building,
         v = "PROMOTION_REVIEW" => pc[t] = "saveReview",
         v # "PROMOTION_REVIEW" => pc[t] \in Building
  PROVE  /\ Inv'
         /\ \A g \in DOMAIN runs : runs[g].status = "PROMOTION_REVIEW" =>
              g \in DOMAIN runs' /\ runs'[g].status = "PROMOTION_REVIEW"
<1> DEFINE g == loc[t].trig
<1>1. /\ pc'[t] = l /\ loc'[t] = x /\ Others(t) /\ CandidatesGrow /\ TriggersGrow(t)
  BY DEF Inv, TypeOK, Goto, Others, CandidatesGrow, TriggersGrow, Forward
<1>2. /\ l \in Labels /\ l \notin Carrying /\ l \notin {"finish", "saveReview", "seed", "seedWrite", "enqueue"}
      /\ l \in Building => l # "idle"
  BY DEF Labels, Carrying, Building
<1>3. ThreadOK(t) /\ loc[t].base \in Content
  BY DEF Inv, TypeOK, Local
<1>4. /\ DOMAIN runs' = DOMAIN runs \cup {g} /\ runs'[g].status = v
      /\ \A h \in DOMAIN runs : h # g => runs'[h] = runs[h]
      /\ runs' \in [DOMAIN runs' -> [base: Content,
                                     status: {"PROCESSING", "FAILED", "PROMOTION_REVIEW"}]]
      /\ DOMAIN runs' \subseteq Trigger
  BY <1>3 DEF Inv, TypeOK, RunSaved, Put
<1>5. TypeOK'
  BY <1>2, <1>4 DEF Inv, TypeOK, Goto
<1>6. ThreadOK(t)'
  BY <1>1, <1>2, <1>3 DEF ThreadOK
<1>7. OneBuilderPerTrigger'
  BY <1>1, <1>2 DEF Inv, OneBuilderPerTrigger, Others
<1>8. v # "PROMOTION_REVIEW" => triggers[g] = "PROCESSING"
  BY <1>3 DEF ThreadOK
<1>9. v = "PROMOTION_REVIEW" =>
        /\ g \in DOMAIN triggers /\ triggers[g] = "CONSUMED"
        /\ g \in DOMAIN candidates /\ candidates[g].status \in Passed
  BY <1>3 DEF ThreadOK
<1>10. ReviewIsEarned'
  BY <1>4, <1>9 DEF Inv, Tables, ReviewIsEarned
<1>11. PassedIsProven' /\ ConsumedIsDecided' /\ ActiveIsProven'
  BY DEF Inv, Tables, PassedIsProven, ConsumedIsDecided, ActiveIsProven, ActiveRevisions, Shipped
<1>12. ASSUME NEW h \in DOMAIN runs, runs[h].status = "PROMOTION_REVIEW"
       PROVE  h \in DOMAIN runs' /\ runs'[h].status = "PROMOTION_REVIEW"
  BY <1>4, <1>8, <1>12 DEF Inv, Tables, ReviewIsEarned
<1> QED
  BY <1>1, <1>5, <1>6, <1>7, <1>10, <1>11, <1>12, OthersOK DEF Inv, Tables

LEMMA SaveRunSteps ==
  ASSUME Inv, NEW t \in Threads, SaveRun(t) \/ SaveFailed(t) \/ SaveReview(t)
  PROVE  /\ Inv'
         /\ \A g \in DOMAIN runs : runs[g].status = "PROMOTION_REVIEW" =>
              g \in DOMAIN runs' /\ runs'[g].status = "PROMOTION_REVIEW"
<1>1. /\ UNCHANGED <<triggers, failed, specs, candidates, crashes, requeues>>
      /\ holder' = NoThread
  BY DEF SaveRun, SaveFailed, SaveReview, Commit, Bookkeeping
<1>2. loc[t] \in Local
  BY DEF Inv, TypeOK
<1>3. pc[t] \in Building \cup {"saveReview"} => loc[t].trig \in Trigger
  BY DEF Inv, ThreadOK, TypeOK
<1>4. loc' = loc => loc' = [loc EXCEPT ![t] = loc[t]]
  BY DEF Inv, TypeOK
<1>5. CASE SaveRun(t)
  <2>1. /\ pc[t] = "saveRun" /\ Goto(t, "propose") /\ loc' = loc
        /\ runs' = RunSaved(loc[t].trig, loc[t].base, "PROCESSING")
    BY <1>5 DEF SaveRun, Go
  <2>2. "saveRun" \in Building
    BY DEF Building
  <2> QED
    BY <1>1, <1>2, <1>3, <1>4, <2>1, <2>2, RunStep
<1>6. CASE SaveFailed(t)
  <2>1. /\ pc[t] = "saveFailed" /\ Goto(t, "finishFailed") /\ loc' = loc
        /\ runs' = RunSaved(loc[t].trig, loc[t].base, "FAILED")
    BY <1>6 DEF SaveFailed, Go
  <2>2. "saveFailed" \in Building
    BY DEF Building
  <2> QED
    BY <1>1, <1>2, <1>3, <1>4, <2>1, <2>2, RunStep
<1>7. CASE SaveReview(t)
  <2>1. /\ pc[t] = "saveReview" /\ Goto(t, "idle") /\ loc' = [loc EXCEPT ![t] = NoLocal]
        /\ runs' = RunSaved(loc[t].trig, loc[t].base, "PROMOTION_REVIEW")
    BY <1>7 DEF SaveReview, Return
  <2> QED
    BY <1>1, <1>3, <2>1, NoLocalType, RunStep
<1> QED
  BY <1>5, <1>6, <1>7
-----------------------------------------------------------------------------
\* What a save leaves of the active revisions.
LEMMA SavedType ==
  ASSUME Inv, NEW c \in Content, NEW s \in {"ACTIVE", "CANDIDATE"}, specs' = Saved(c, s)
  PROVE  /\ DOMAIN specs' \subseteq Nat
         /\ specs' \in [DOMAIN specs' -> [content: Content,
                                          status: {"ACTIVE", "CANDIDATE", "SUPERSEDED"}]]
         /\ s = "CANDIDATE" =>
              \A r \in ActiveRevisions' : r \in ActiveRevisions /\ specs'[r] = specs[r]
         /\ s = "ACTIVE" => ActiveRevisions' = {Len(c)} /\ specs'[Len(c)].content = c
<1>1. Len(c) \in Nat
  BY LenProperties DEF Content
<1>2. DOMAIN specs' = DOMAIN specs \cup {Len(c)}
  BY DEF Saved, Put
<1>3. specs'[Len(c)] = [content |-> c, status |-> s]
  BY DEF Saved, Put
<1>4. ASSUME NEW r \in DOMAIN specs, r # Len(c)
      PROVE  specs'[r] = IF s = "ACTIVE" /\ specs[r].status = "ACTIVE"
                         THEN [specs[r] EXCEPT !.status = "SUPERSEDED"] ELSE specs[r]
  BY <1>4 DEF Saved, Put
<1>5. ASSUME NEW r \in DOMAIN specs
      PROVE  specs[r] \in [content: Content, status: {"ACTIVE", "CANDIDATE", "SUPERSEDED"}]
  BY DEF Inv, TypeOK
<1>6. ASSUME NEW r \in DOMAIN specs'
      PROVE  specs'[r] \in [content: Content, status: {"ACTIVE", "CANDIDATE", "SUPERSEDED"}]
  BY <1>2, <1>3, <1>4, <1>5
<1>7. specs' = [r \in DOMAIN specs' |-> specs'[r]]
  BY DEF Saved, Put
<1>8. DOMAIN specs' \subseteq Nat
  BY <1>1, <1>2 DEF Inv, TypeOK
<1>9. s = "CANDIDATE" =>
        \A r \in ActiveRevisions' : r \in ActiveRevisions /\ specs'[r] = specs[r]
  BY <1>2, <1>3, <1>4 DEF ActiveRevisions
<1>10. s = "ACTIVE" => ActiveRevisions' = {Len(c)} /\ specs'[Len(c)].content = c
  <2>1. ASSUME s = "ACTIVE", NEW r \in DOMAIN specs, r # Len(c)
        PROVE  specs'[r].status # "ACTIVE"
    <3>1. CASE specs[r].status = "ACTIVE"
      <4>1. specs'[r].status = "SUPERSEDED"
        BY <1>4, <1>5, <2>1, <3>1
      <4> QED
        BY <4>1
    <3>2. CASE specs[r].status # "ACTIVE"
      BY <1>4, <2>1, <3>2
    <3> QED
      BY <3>1, <3>2
  <2> QED
    BY <1>2, <1>3, <2>1 DEF ActiveRevisions
<1> QED
  BY <1>6, <1>7, <1>8, <1>9, <1>10

LEMMA ManifestFields ==
  ASSUME NEW m \in Manifest
  PROVE  m = [hash |-> m.hash, status |-> m.status]
BY DEF Manifest

LEMMA ActiveStays ==
  ASSUME Inv, CandidatesGrow, candidates' \in [DOMAIN candidates' -> Manifest],
         \A r \in ActiveRevisions' : r \in ActiveRevisions /\ specs'[r] = specs[r]
  PROVE  ActiveIsProven'
<1> SUFFICES ASSUME NEW r \in ActiveRevisions'
    PROVE  /\ ActiveRevisions' = {r}
           /\ \/ Shipped(specs[r].content)
              \/ \E g \in DOMAIN candidates' :
                   /\ candidates'[g] = [hash |-> specs[r].content, status |-> "ACTIVE"]
                   /\ Passes(specs[r].content)
  BY DEF ActiveIsProven, Shipped, Passes
<1>1. r \in ActiveRevisions /\ ActiveRevisions = {r}
  BY DEF Inv, Tables, ActiveIsProven
<1>2. ASSUME NEW g \in DOMAIN candidates,
             candidates[g] = [hash |-> specs[r].content, status |-> "ACTIVE"]
      PROVE  /\ g \in DOMAIN candidates'
             /\ candidates'[g] = [hash |-> specs[r].content, status |-> "ACTIVE"]
  <2>1. g \in DOMAIN candidates' /\ candidates'[g] \in Manifest
    BY DEF CandidatesGrow
  <2>2. candidates'[g].hash = specs[r].content /\ candidates'[g].status = "ACTIVE"
    BY <1>2 DEF CandidatesGrow, Forward
  <2> QED
    BY <2>1, <2>2, ManifestFields
<1> QED
  BY <1>1, <1>2 DEF Inv, Tables, ActiveIsProven

\* A step that writes revisions and manifests.
LEMMA CatalogueStep ==
  ASSUME Inv, NEW t \in Threads, NEW l \in Labels, NEW x \in Local,
         Goto(t, l), loc' = [loc EXCEPT ![t] = x], holder' = NoThread,
         UNCHANGED <<triggers, failed, runs, crashes, requeues>>,
         DOMAIN specs' \subseteq Nat,
         specs' \in [DOMAIN specs' -> [content: Content,
                                       status: {"ACTIVE", "CANDIDATE", "SUPERSEDED"}]],
         candidates' \in [DOMAIN candidates' -> Manifest], DOMAIN candidates' \subseteq Trigger,
         CandidatesGrow, PassedIsProven', ActiveIsProven', ThreadOK(t)',
         l \in Building => pc[t] \in Building /\ x.trig = loc[t].trig
  PROVE  Inv'
<1>1. pc'[t] = l /\ loc'[t] = x /\ Others(t) /\ TriggersGrow(t)
  BY DEF Inv, TypeOK, Goto, Others, TriggersGrow
<1>2. TypeOK'
  BY DEF Inv, TypeOK, Goto
<1>3. OneBuilderPerTrigger'
  BY <1>1 DEF Inv, OneBuilderPerTrigger, Others
<1>4. ConsumedIsDecided' /\ ReviewIsEarned'
  BY <1>1, ReviewStays DEF Inv, Tables, ConsumedIsDecided, ReviewIsEarned
<1> QED
  BY <1>1, <1>2, <1>3, <1>4, OthersOK DEF Inv, Tables

\* The host's manifest is stored with its revision, or is there already.
LEMMA InsertStep == ASSUME Inv, NEW t \in Threads, Insert(t) PROVE Inv'
<1> DEFINE g == loc[t].trig
           c == loc[t].content
           manifest == [hash |-> c, status |-> "QUARANTINED"]
<1>1. /\ pc[t] = "insert" /\ holder' = NoThread /\ loc' = loc
      /\ UNCHANGED <<triggers, failed, runs, crashes, requeues>>
  BY DEF Insert, Commit, Go, Bookkeeping
<1>2. loc[t] \in Local /\ ThreadOK(t) /\ c \in Content
  BY DEF Inv, TypeOK, Local
<1>3. {"insert", "evaluate", "saveFailed"} \subseteq Building /\ "saveFailed" \notin Carrying
  BY DEF Building, Carrying
<1>4. g \in DOMAIN triggers /\ triggers[g] = "PROCESSING" /\ g \in Trigger
  BY <1>1, <1>2, <1>3 DEF ThreadOK, Inv, TypeOK
<1>5. CASE Go(t, "saveFailed") /\ UNCHANGED <<specs, candidates>>
  BY <1>1, <1>3, <1>5, GoStep DEF tables, Labels
<1>6. CASE /\ g \notin DOMAIN candidates \/ candidates[g] = manifest
           /\ specs' = Saved(c, "CANDIDATE") /\ candidates' = Put(candidates, g, manifest)
           /\ Go(t, "evaluate")
  <2>1. manifest \in Manifest /\ manifest.hash = c /\ manifest.status = "QUARANTINED"
    BY <1>2 DEF Manifest, CandidateStatus
  <2> HIDE DEF manifest
  <2>2. /\ DOMAIN candidates' = DOMAIN candidates \cup {g} /\ candidates'[g] = manifest
        /\ \A h \in DOMAIN candidates : candidates'[h] = candidates[h]
        /\ candidates' \in [DOMAIN candidates' -> Manifest] /\ DOMAIN candidates' \subseteq Trigger
    BY <1>4, <1>6, <2>1 DEF Put, Inv, TypeOK
  <2>3. CandidatesGrow
    BY <2>2 DEF CandidatesGrow, Forward
  <2>4. PassedIsProven'
    BY <2>1, <2>2 DEF Inv, Tables, PassedIsProven, Passed, Passes
  <2>5. ActiveIsProven'
    BY <1>2, <1>6, <2>2, <2>3, SavedType, ActiveStays
  <2>6. pc'[t] = "evaluate" /\ loc'[t] = loc[t] /\ Goto(t, "evaluate")
    BY <1>6, <1>1 DEF Go, Goto, Inv, TypeOK
  <2>7. ThreadOK(t)'
    BY <1>1, <1>4, <2>1, <2>2, <2>6 DEF ThreadOK
  <2>8. loc' = [loc EXCEPT ![t] = loc[t]] /\ "evaluate" \in Labels
    BY <1>1 DEF Inv, TypeOK, Labels, Building
  <2> QED
    BY <1>1, <1>2, <1>3, <1>6, <2>2, <2>3, <2>4, <2>5, <2>6, <2>7, <2>8, SavedType, CatalogueStep
<1> QED
  BY <1>5, <1>6 DEF Insert, MayQuarantine

\* The verdict is that of the held-out tasks.
LEMMA RecordStep == ASSUME Inv, NEW t \in Threads, Record(t) PROVE Inv'
<1> DEFINE g == loc[t].trig
           verdict == IF Passes(candidates[g].hash) THEN "PROMOTION_REVIEW" ELSE "REJECTED"
<1>1. /\ pc[t] = "record" /\ holder' = NoThread /\ loc' = loc
      /\ UNCHANGED <<triggers, failed, specs, runs, crashes, requeues>>
  BY DEF Record, Commit, Go, Bookkeeping
<1>2. loc[t] \in Local /\ ThreadOK(t)
  BY DEF Inv, TypeOK
<1>3. /\ {"record", "finish", "saveFailed"} \subseteq Building /\ "saveFailed" \notin Carrying
      /\ "record" \in Carrying
  BY DEF Building, Carrying
<1>4. /\ g \in DOMAIN triggers /\ triggers[g] = "PROCESSING"
      /\ g \in DOMAIN candidates /\ candidates[g].hash = loc[t].content
  BY <1>1, <1>2, <1>3 DEF ThreadOK
<1>5. CASE Go(t, "saveFailed") /\ UNCHANGED candidates
  BY <1>1, <1>3, <1>5, GoStep DEF tables, Labels
<1>6. CASE /\ candidates[g].status = "QUARANTINED" /\ Go(t, "finish")
           /\ candidates' = [candidates EXCEPT ![g].status = verdict]
  <2>1. verdict \in {"PROMOTION_REVIEW", "REJECTED"}
    OBVIOUS
  <2>2. /\ DOMAIN candidates' = DOMAIN candidates
        /\ candidates'[g].hash = candidates[g].hash /\ candidates'[g].status = verdict
        /\ \A h \in DOMAIN candidates : h # g => candidates'[h] = candidates[h]
        /\ candidates' \in [DOMAIN candidates' -> Manifest]
    <3>1. verdict \in CandidateStatus
      BY <2>1 DEF CandidateStatus
    <3> HIDE DEF verdict
    <3>2. candidates \in [DOMAIN candidates -> Manifest] /\ g \in DOMAIN candidates
      BY <1>4 DEF Inv, TypeOK
    <3> HIDE DEF g
    <3> QED
      BY <1>6, <3>1, <3>2 DEF Manifest
  <2>3. CandidatesGrow
    BY <1>6, <2>1, <2>2 DEF CandidatesGrow, Forward
  <2>4. PassedIsProven'
    <3>1. verdict \in Passed => Passes(candidates[g].hash)
      BY DEF Passed
    <3> HIDE DEF verdict
    <3>2. ASSUME NEW h \in DOMAIN candidates, candidates'[h].status \in Passed
          PROVE  Passes(candidates'[h].hash)
      <4>1. CASE h = g
        BY <2>2, <3>1, <3>2, <4>1
      <4>2. CASE h # g
        BY <2>2, <3>2, <4>2 DEF Inv, Tables, PassedIsProven
      <4> QED
        BY <4>1, <4>2
    <3> QED
      BY <2>2, <3>2 DEF PassedIsProven, Passes
  <2>5. \A r \in ActiveRevisions' : r \in ActiveRevisions /\ specs'[r] = specs[r]
    BY <1>1 DEF ActiveRevisions
  <2>6. ActiveIsProven'
    BY <2>2, <2>3, <2>5, ActiveStays
  <2>7. pc'[t] = "finish" /\ loc'[t] = loc[t] /\ Goto(t, "finish")
    BY <1>6, <1>1 DEF Go, Goto, Inv, TypeOK
  <2>8. /\ candidates'[g].status # "QUARANTINED"
        /\ Passes(loc[t].content) => candidates'[g].status \in Passed
    BY <1>4, <2>1, <2>2 DEF Passed
  <2> HIDE DEF verdict
  <2>9. ThreadOK(t)'
    BY <1>1, <1>4, <2>2, <2>7, <2>8 DEF ThreadOK, Passes
  <2>10. loc' = [loc EXCEPT ![t] = loc[t]] /\ "finish" \in Labels
    BY <1>1 DEF Inv, TypeOK, Labels, Building
  <2>11. specs' = specs /\ DOMAIN candidates' \subseteq Trigger
    BY <1>1, <2>2 DEF Inv, TypeOK
  <2> QED
    BY <1>1, <1>2, <1>3, <2>2, <2>3, <2>4, <2>6, <2>7, <2>9, <2>10, <2>11, CatalogueStep
       DEF Inv, TypeOK
<1> QED
  BY <1>5, <1>6 DEF Record, Transition

\* An approval activates the revision its manifest names.
LEMMA ApproveStep == ASSUME Inv, NEW t \in Threads, Approve(t) PROVE Inv'
<1> DEFINE g == loc[t].trig
           c == loc[t].content
<1>1. /\ pc[t] = "approve" /\ holder' = NoThread
      /\ UNCHANGED <<triggers, failed, runs, crashes, requeues>>
  BY DEF Approve, Commit, Bookkeeping
<1>2. "approve" \in Carrying /\ c \in Content /\ ThreadOK(t)
  BY DEF Carrying, Inv, TypeOK, Local
<1>3. g \in DOMAIN candidates /\ candidates[g].hash = c
  BY <1>1, <1>2 DEF ThreadOK
<1>4. CASE Raise(t) /\ UNCHANGED <<specs, candidates>>
  BY <1>1, <1>4, Counters, RaiseStep DEF tables
<1>5. CASE /\ candidates[g].status = "PROMOTION_REVIEW" /\ Return(t, "idle")
           /\ specs' = Saved(c, "ACTIVE")
           /\ candidates' = [candidates EXCEPT ![g].status = "ACTIVE"]
  <2>1. /\ DOMAIN candidates' = DOMAIN candidates
        /\ candidates'[g] = [hash |-> c, status |-> "ACTIVE"]
        /\ \A h \in DOMAIN candidates : h # g => candidates'[h] = candidates[h]
        /\ candidates' \in [DOMAIN candidates' -> Manifest]
        /\ DOMAIN candidates' \subseteq Trigger
    <3>1. /\ candidates \in [DOMAIN candidates -> Manifest]
          /\ DOMAIN candidates \subseteq Trigger
      BY DEF Inv, TypeOK
    <3>2. candidates[g] \in Manifest
      BY <1>3, <3>1
    <3>3. [candidates[g] EXCEPT !.status = "ACTIVE"] = [hash |-> c, status |-> "ACTIVE"]
      BY <1>3, <3>2 DEF Manifest
    <3>4. [hash |-> c, status |-> "ACTIVE"] \in Manifest
      BY <1>2 DEF Manifest, CandidateStatus
    <3> QED
      BY <1>3, <1>5, <3>1, <3>3, <3>4
  <2>2. CandidatesGrow
    BY <1>3, <1>5, <2>1 DEF CandidatesGrow, Forward
  <2>3. Passes(c)
    BY <1>3, <1>5 DEF Inv, Tables, PassedIsProven, Passed
  <2>4. PassedIsProven'
    BY <2>1, <2>3 DEF Inv, Tables, PassedIsProven, Passes
  <2>5. ActiveRevisions' = {Len(c)} /\ specs'[Len(c)].content = c
    BY <1>2, <1>5, SavedType
  <2>6. ActiveIsProven'
    BY <1>3, <2>1, <2>3, <2>5 DEF ActiveIsProven, Passes
  <2>7. /\ pc'[t] = "idle" /\ Goto(t, "idle") /\ loc' = [loc EXCEPT ![t] = NoLocal]
        /\ "idle" \in Labels /\ "idle" \notin Building /\ "idle" \notin Carrying
    BY <1>5 DEF Return, Goto, Inv, TypeOK, Labels, Building, Carrying
  <2>8. ThreadOK(t)'
    BY <2>7 DEF ThreadOK
  <2> QED
    BY <1>1, <1>2, <1>5, <2>1, <2>2, <2>4, <2>6, <2>7, <2>8, NoLocalType, SavedType, CatalogueStep
<1> QED
  BY <1>4, <1>5 DEF Approve, Transition

\* A seed saves what the repository ships.
LEMMA SeedWriteStep == ASSUME Inv, NEW t \in Threads, SeedWrite(t) PROVE Inv'
<1> DEFINE c == loc[t].content
           s == loc[t].status
<1>1. /\ pc[t] = "seedWrite" /\ holder' = NoThread /\ specs' = Saved(c, s)
      /\ UNCHANGED <<triggers, failed, candidates, runs, crashes, requeues>>
  BY DEF SeedWrite, Commit, Bookkeeping
<1>2. /\ c \in Content /\ s \in {"ACTIVE", "CANDIDATE"} /\ loc[t] \in Local
      /\ Shipped(c)
  BY <1>1 DEF Inv, TypeOK, Local, ThreadOK
<1>3. /\ candidates' \in [DOMAIN candidates' -> Manifest] /\ DOMAIN candidates' \subseteq Trigger
      /\ CandidatesGrow /\ PassedIsProven'
  BY <1>1 DEF Inv, TypeOK, CandidatesGrow, Forward, Tables, PassedIsProven
<1>4. ActiveIsProven'
  <2>1. CASE s = "CANDIDATE"
    BY <1>1, <1>2, <1>3, <2>1, SavedType, ActiveStays
  <2>2. CASE s = "ACTIVE"
    <3>1. ActiveRevisions' = {Len(c)} /\ specs'[Len(c)].content = c
      BY <1>1, <1>2, <2>2, SavedType
    <3> QED
      BY <1>2, <3>1 DEF ActiveIsProven, Shipped
  <2> QED
    BY <1>2, <2>1, <2>2
<1>5. PICK l \in {"seed", "idle"}, x \in Local :
        /\ Goto(t, l) /\ loc' = [loc EXCEPT ![t] = x]
        /\ l = "seed" => Shipped(x.content)
  <2>1. CASE s = "CANDIDATE"
    <3> DEFINE x == [loc[t] EXCEPT !.status = "ACTIVE"]
    <3>1. x \in Local /\ x.content = c
      BY <1>2 DEF Local
    <3>2. Goto(t, "seed") /\ loc' = [loc EXCEPT ![t] = x]
      BY <2>1 DEF SeedWrite
    <3> HIDE DEF x
    <3> QED
      BY <1>2, <3>1, <3>2
  <2>2. CASE s # "CANDIDATE" /\ Len(c) < Len(Repo)
    <3>1. Len(c) + 1 \in 1..Len(Repo)
      BY <1>2, <2>2, LenProperties DEF Content
    <3> DEFINE next == SubSeq(Repo, 1, Len(c) + 1)
               x == [loc[t] EXCEPT !.content = next, !.status = "CANDIDATE"]
    <3>2. next \in Content /\ Shipped(next)
      BY <3>1, Prefixes
    <3>3. Goto(t, "seed") /\ loc' = [loc EXCEPT ![t].content = next, ![t].status = "CANDIDATE"]
      BY <2>2 DEF SeedWrite
    <3> HIDE DEF next
    <3>4. x \in Local /\ x.content = next
      BY <1>2, <3>2 DEF Local
    <3>5. loc' = [loc EXCEPT ![t] = x]
      BY <3>3 DEF Inv, TypeOK
    <3> HIDE DEF x
    <3> QED
      BY <3>2, <3>3, <3>4, <3>5
  <2>3. CASE s # "CANDIDATE" /\ ~(Len(c) < Len(Repo))
    BY <2>3, NoLocalType DEF SeedWrite, Return
  <2> QED
    BY <2>1, <2>2, <2>3
<1>6. /\ pc'[t] = l /\ loc'[t] = x /\ l \in Labels /\ l \notin Building /\ l \notin Carrying
  BY <1>5 DEF Goto, Inv, TypeOK, Labels, Building, Carrying
<1>7. ThreadOK(t)'
  BY <1>5, <1>6 DEF ThreadOK, Shipped
<1> QED
  BY <1>1, <1>2, <1>3, <1>4, <1>5, <1>6, <1>7, SavedType, CatalogueStep
-----------------------------------------------------------------------------
LEMMA StepInv == ASSUME ~EarlyRequeue, Inv, [Next]_evoVars PROVE Inv'
<1>1. CASE UNCHANGED evoVars
  <2>1. UNCHANGED <<triggers, failed, specs, candidates, runs, holder, pc, loc, crashes, requeues>>
    BY <1>1 DEF evoVars, tables
  <2>2. TypeOK' /\ OneBuilderPerTrigger' /\ (\A t \in Threads : ThreadOK(t)')
    BY <2>1 DEF Inv, TypeOK, OneBuilderPerTrigger, ThreadOK, Shipped, Passes
  <2>3. Tables'
    BY <2>1 DEF Inv, Tables, PassedIsProven, ConsumedIsDecided, ReviewIsEarned, ActiveIsProven,
       ActiveRevisions, Shipped, Passes
  <2> QED
    BY <2>2, <2>3 DEF Inv
<1>2. ASSUME NEW t \in Threads, Step(t) PROVE Inv'
  BY <1>2, BootStep, SaveCheckStep, SeedWriteStep, SignStep, RequestStep, WorkerMoves,
     SaveRunSteps, InsertStep, RecordStep, SettleStep, ApproveStep, EndStep DEF Step
<1>3. ASSUME NEW t \in Threads, Begin(t) PROVE Inv'
  BY <1>3, RequestStep, VerifyFailsStep, ClaimStep, RequeueStep, ActivateStep DEF Begin
<1> QED
  BY <1>1, <1>2, <1>3, EndStep DEF Next

\* The inductive invariant of registry, triggers and runs, given that only an
\* abandoned trigger is queued again.
THEOREM SpecInv == ASSUME ~EarlyRequeue PROVE Spec => []Inv
<1>1. Inv /\ [Next]_evoVars => Inv'
  BY StepInv
<1> QED
  BY <1>1, InitInv, PTL DEF Spec

\* No trigger has two workers, for every number of processes and requests.
THEOREM OneBuilder == ASSUME ~EarlyRequeue PROVE Spec => []OneBuilderPerTrigger
<1>1. Inv => OneBuilderPerTrigger
  BY DEF Inv
<1> QED
  BY <1>1, SpecInv, PTL

\* A consumed trigger has a decided candidate, and a run in review one that
\* has passed.
THEOREM ReviewEarned == ASSUME ~EarlyRequeue PROVE Spec => []ReviewedRunIsProven
<1>1. Inv => ReviewedRunIsProven
  BY DEF Inv, Tables, ConsumedIsDecided, ReviewIsEarned, ReviewedRunIsProven, Passed
<1> QED
  BY <1>1, SpecInv, PTL

\* What is active was shipped, or has passed the held-out tasks and been
\* approved, for every chain of revisions.
THEOREM ProvenActive == ASSUME ~EarlyRequeue PROVE Spec => []ActiveIsProven
<1>1. Inv => ActiveIsProven
  BY DEF Inv, Tables
<1> QED
  BY <1>1, SpecInv, PTL

\* A run in review is never taken back: only the three steps of a worker that
\* save its run write one, and a consumed trigger has no second worker.
THEOREM ReviewKept == ASSUME ~EarlyRequeue PROVE Spec => ReviewIsKept
<1> DEFINE Kept == \A g \in DOMAIN runs : runs[g].status = "PROMOTION_REVIEW" =>
                     g \in DOMAIN runs' /\ runs'[g].status = "PROMOTION_REVIEW"
<1>1. ASSUME Inv, Next PROVE Kept
  <2>1. CASE \E t \in Threads : SaveRun(t) \/ SaveFailed(t) \/ SaveReview(t)
    BY <1>1, <2>1, SaveRunSteps
  <2>2. CASE ~ \E t \in Threads : SaveRun(t) \/ SaveFailed(t) \/ SaveReview(t)
    <3>1. runs' = runs
      BY <1>1, <2>2
      DEF Next, Step, Begin, Boot, SaveCheck, SeedWrite, Sign, Enqueue, Baseline, Propose, Build,
          Bind, Insert, Evaluate, Record, Finish, FinishFailed, Approve, Locked, Exit, Crash, End,
          Request, VerifyFails, Claim, Requeue, Activate, tables
    <3> QED
      BY <3>1
  <2> QED
    BY <2>1, <2>2
<1>2. Inv /\ [Next]_evoVars => [Kept]_evoVars
  BY <1>1
<1> QED
  BY <1>2, SpecInv, PTL DEF Spec, ReviewIsKept
=============================================================================
