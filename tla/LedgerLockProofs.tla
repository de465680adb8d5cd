-------------------------- MODULE LedgerLockProofs --------------------------
(***************************************************************************)
(* Theorems about LedgerLock, for every set of actors and processes and    *)
(* every number of turns.                                                  *)
(***************************************************************************)
EXTENDS LedgerLock, TLAPS

USE ActorsAssumption, PidsAssumption, LockBoundsAssumption

\* Between two looks at the lock, before the turn is counted.
InTurn == {"check", "judge", "reap"} \cup Reaping

\* What the program counters say of the counters, the reaper and the process.
Bookkeeping ==
  /\ TypeOK
  /\ \A a \in Actors : pc[a] \in InTurn => tries[a] < MaxTries
  /\ \A a \in Actors : pc[a] \in Reaping => reaper = a
  /\ \A a \in Actors : pc[a] # "idle" => PidOf[a] \in alive

LEMMA BookkeepingInit == Init => Bookkeeping
BY DEF Init, Bookkeeping, TypeOK, LockFile, NoFile, InTurn, Reaping

\* The bookkeeping survives every step, the steps outside the loop first.
LEMMA BookkeepingStep ==
  ASSUME Bookkeeping, [Next]_lockVars
  PROVE  Bookkeeping'
<1> USE DEF Bookkeeping, TypeOK, LockFile, NoFile, InTurn, Reaping, Steps,
            Holding, Owning, Goto, Quiet, NextTurn
<1>1. ASSUME NEW a \in Actors, Begin(a) PROVE Bookkeeping'
  BY <1>1 DEF Begin, Scheduled
<1>2. ASSUME NEW a \in Actors, GiveUp(a) PROVE Bookkeeping'
  BY <1>2 DEF GiveUp
<1>3. ASSUME NEW a \in Actors, CreateLock(a) PROVE Bookkeeping'
  BY <1>3 DEF CreateLock
<1>4. ASSUME NEW a \in Actors, FindLocked(a) PROVE Bookkeeping'
  BY <1>4 DEF FindLocked
<1>5. ASSUME NEW a \in Actors, WriteOwner(a) PROVE Bookkeeping'
  BY <1>5 DEF WriteOwner
<1>6. ASSUME NEW a \in Actors, WriteFails(a) PROVE Bookkeeping'
  BY <1>6 DEF WriteFails
<1>7. ASSUME NEW a \in Actors, Check(a) PROVE Bookkeeping'
  BY <1>7 DEF Check, ReadOwner, FileExists
<1>8. ASSUME NEW a \in Actors, Judge(a) PROVE Bookkeeping'
  BY <1>8 DEF Judge
<1>9. ASSUME NEW a \in Actors, CreateReaper(a) PROVE Bookkeeping'
  BY <1>9 DEF CreateReaper
<1>10. ASSUME NEW a \in Actors, Recheck(a) PROVE Bookkeeping'
  BY <1>10 DEF Recheck, ReadOwner, FileExists
<1>11. ASSUME NEW a \in Actors, Rejudge(a) PROVE Bookkeeping'
  BY <1>11 DEF Rejudge
<1>12. ASSUME NEW a \in Actors, Unlink(a) PROVE Bookkeeping'
  BY <1>12 DEF Unlink
<1>13. ASSUME NEW a \in Actors, DropReaper(a) PROVE Bookkeeping'
  BY <1>13 DEF DropReaper
<1>14. ASSUME NEW a \in Actors, Release(a) PROVE Bookkeeping'
  BY <1>14 DEF Release
<1>15. ASSUME NEW a \in Actors, ReleaseUnlink(a) PROVE Bookkeeping'
  BY <1>15 DEF ReleaseUnlink
<1>16. ASSUME NEW p \in Pids, Die(p) PROVE Bookkeeping'
  BY <1>16 DEF Die
<1>17. ASSUME NEW p \in Pids, ReusePid(p) PROVE Bookkeeping'
  BY <1>17 DEF ReusePid
<1>18. ASSUME Age PROVE Bookkeeping'
  <2>1. file' \in LockFile
    BY <1>18 DEF Age
  <2>2. stalls' \in 0..MaxStalls
    BY <1>18 DEF Age
  <2> QED BY <1>18, <2>1, <2>2 DEF Age
<1>19. ASSUME UNCHANGED lockVars PROVE Bookkeeping'
  BY <1>19 DEF lockVars
<1> QED
  BY <1>1, <1>2, <1>3, <1>4, <1>5, <1>6, <1>7, <1>8, <1>9, <1>10, <1>11, <1>12,
     <1>13, <1>14, <1>15, <1>16, <1>17, <1>18, <1>19 DEF Next, Acquire

LEMMA BookkeepingHolds == Spec => []Bookkeeping
BY BookkeepingInit, BookkeepingStep, PTL DEF Spec

\* The type invariant: every variable keeps its type, the turn counter its bound.
THEOREM LockTypeCorrect == Spec => []TypeOK
<1>1. Bookkeeping => TypeOK
  BY DEF Bookkeeping
<1> QED BY <1>1, BookkeepingHolds, PTL

\* The reaper file admits one actor: whoever is past its creation is the one
\* it belongs to.
THEOREM OneReaperHolds == Spec => []OneReaper
<1>1. Bookkeeping => OneReaper
  BY DEF Bookkeeping, OneReaper
<1> QED BY <1>1, BookkeepingHolds, PTL
-----------------------------------------------------------------------------
(* The takeover is safe for any number of processes that exit, as long as    *)
(* nobody is stalled for 30 s and no process exits under judgement.          *)
(* SafeLock is what the holder, the judges and the reaper may then rely on:  *)
(* an actor that means to unlink the file has found it abandoned, and it     *)
(* stays so, because only the reaper removes an abandoned file, and a        *)
(* process that dies while it is judged leaves its own lock behind.          *)

FileOf(a) == file.by = a

SafeLock ==
  /\ Bookkeeping
  /\ stalls = 0
  /\ \A a \in Actors : pc[a] = "write" => FileOf(a) /\ ~file.filled /\ ~file.old
  /\ HolderOwnsFile
  /\ file.old => Abandoned
  /\ \A a \in Actors :
       pc[a] = "rejudge" /\ seen[a] # NoActor /\ PidOf[seen[a]] \notin alive
         => Abandoned
  /\ \A a \in Actors : pc[a] = "unlink" => Abandoned

LEMMA SafeLockInit == Init => SafeLock
BY BookkeepingInit
   DEF SafeLock, Init, NoFile, HolderOwnsFile, Holding, Abandoned, FileExists, Reaping

LEMMA SafeLockStep ==
  ASSUME MaxStalls = 0, SafeLock, [Next]_lockVars, [NoExitUnderJudgement]_lockVars
  PROVE  SafeLock'
<1>0. Bookkeeping' /\ Bookkeeping /\ TypeOK
  BY BookkeepingStep DEF SafeLock, Bookkeeping
<1> USE <1>0 DEF SafeLock, TypeOK, LockFile, NoFile, Reaping, Steps, FileExists,
            FileOf, HolderOwnsFile, Abandoned, Holding, Owning, Goto, Quiet, NextTurn
<1>1. ASSUME NEW a \in Actors, Begin(a) PROVE SafeLock'
  BY <1>1 DEF Begin
<1>2. ASSUME NEW a \in Actors, GiveUp(a) PROVE SafeLock'
  BY <1>2 DEF GiveUp
<1>3. ASSUME NEW a \in Actors, CreateLock(a) PROVE SafeLock'
  BY <1>3 DEF CreateLock
<1>4. ASSUME NEW a \in Actors, FindLocked(a) PROVE SafeLock'
  BY <1>4 DEF FindLocked
<1>5. ASSUME NEW a \in Actors, WriteOwner(a) PROVE SafeLock'
  BY <1>5 DEF WriteOwner
<1>6. ASSUME NEW a \in Actors, WriteFails(a) PROVE SafeLock'
  BY <1>6 DEF WriteFails
<1>7. ASSUME NEW a \in Actors, Check(a) PROVE SafeLock'
  BY <1>7 DEF Check, ReadOwner
<1>8. ASSUME NEW a \in Actors, Judge(a) PROVE SafeLock'
  BY <1>8 DEF Judge, Stale
<1>9. ASSUME NEW a \in Actors, CreateReaper(a) PROVE SafeLock'
  BY <1>9 DEF CreateReaper
<1>10. ASSUME NEW a \in Actors, Recheck(a) PROVE SafeLock'
  BY <1>10 DEF Recheck, ReadOwner, Bookkeeping
<1>11. ASSUME NEW a \in Actors, Rejudge(a) PROVE SafeLock'
  BY <1>11 DEF Rejudge, Stale
<1>12. ASSUME NEW a \in Actors, Unlink(a) PROVE SafeLock'
  BY <1>12 DEF Unlink, Bookkeeping
<1>13. ASSUME NEW a \in Actors, DropReaper(a) PROVE SafeLock'
  BY <1>13 DEF DropReaper
<1>14. ASSUME NEW a \in Actors, Release(a) PROVE SafeLock'
  BY <1>14 DEF Release
<1>15. ASSUME NEW a \in Actors, ReleaseUnlink(a) PROVE SafeLock'
  BY <1>15 DEF ReleaseUnlink
<1>16. ASSUME NEW p \in Pids, Die(p) PROVE SafeLock'
  BY <1>16 DEF Die, NoExitUnderJudgement, lockVars, Bookkeeping
<1>17. ASSUME NEW p \in Pids, ReusePid(p) PROVE SafeLock'
  BY <1>17 DEF ReusePid
<1>18. ASSUME Age PROVE SafeLock'
  <2>1. Unfinished /\ UNCHANGED <<stalls, reaper, pc, tries, seen, alive, deaths>>
    BY <1>18 DEF Age
  <2>2. file'.by = file.by /\ file'.filled = file.filled
    BY <1>18 DEF Age
  <2>3. Abandoned'
    BY <2>1, <2>2 DEF Unfinished
  <2> QED BY <2>1, <2>2, <2>3 DEF Unfinished
<1>19. ASSUME UNCHANGED lockVars PROVE SafeLock'
  BY <1>19 DEF lockVars
<1> QED
  BY <1>1, <1>2, <1>3, <1>4, <1>5, <1>6, <1>7, <1>8, <1>9, <1>10, <1>11, <1>12,
     <1>13, <1>14, <1>15, <1>16, <1>17, <1>18, <1>19 DEF Next, Acquire

\* However many processes exit or crash, and whatever takeovers follow, whoever
\* acquire returned to keeps the lock file, unless an actor is stalled for 30 s
\* or a process exits between the read and the kill(pid, 0) of a reaper's
\* staleLock, having released the lock that the reaper has read.
THEOREM HolderKeepsFile ==
  ASSUME MaxStalls = 0
  PROVE  Spec /\ [][NoExitUnderJudgement]_lockVars => []HolderOwnsFile
<1>1. Init => SafeLock
  BY SafeLockInit
<1>2. SafeLock /\ [Next]_lockVars /\ [NoExitUnderJudgement]_lockVars => SafeLock'
  BY SafeLockStep
<1>3. SafeLock => HolderOwnsFile
  BY DEF SafeLock
<1> QED BY <1>1, <1>2, <1>3, PTL DEF Spec
=============================================================================
