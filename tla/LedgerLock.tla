----------------------------- MODULE LedgerLock -----------------------------
(***************************************************************************)
(* The exclusive lock file of ledger.ts, as the writer lock of a ledger    *)
(* and the operation lock of a session use it.  A lock is a file created   *)
(* with O_EXCL that names its owner's process; a lock whose process is     *)
(* gone, or that was never filled in and is older than 30 s, is removed    *)
(* under a second file, the reaper.  Actors are the callers; several of    *)
(* them may live in one process (asynchronous operations of one session),  *)
(* and then run one at a time between their awaits.                        *)
(***************************************************************************)
EXTENDS Naturals

CONSTANTS Actors, NoActor,
          Pids, PidOf,    \* the process ids, and the process of each actor
          MaxTries,       \* bound: turns of the acquire loop (500 in the code)
          MaxDeaths,      \* bound: processes that exit or crash
          MaxStalls       \* bound: stalls of 30 s between two system calls

ASSUME ActorsAssumption == NoActor \notin Actors
ASSUME PidsAssumption == PidOf \in [Actors -> Pids]
ASSUME LockBoundsAssumption ==
  MaxTries \in Nat \ {0} /\ MaxDeaths \in Nat /\ MaxStalls \in Nat

VARIABLES
  file,    \* the lock file
  reaper,  \* who created the reaper file, NoActor when there is none
  pc,      \* where each actor is in acquire, reap or release
  tries,   \* turns of the acquire loop taken
  seen,    \* the owner staleLock has read, NoActor when it cannot parse one
  alive,   \* the running processes
  deaths, stalls   \* counters behind MaxDeaths and MaxStalls

lockVars == <<file, reaper, pc, tries, seen, alive, deaths, stalls>>
-----------------------------------------------------------------------------
\* "by" identifies the inode, the token and, through PidOf, the pid: an actor
\* has at most one lock file at a time, and a restarted one finds the file of
\* its former life in its way.  "filled": the owner is written into it;
\* "old": its mtime is more than 30 s ago.
LockFile == [by: Actors \cup {NoActor}, filled: BOOLEAN, old: BOOLEAN]
NoFile == [by |-> NoActor, filled |-> FALSE, old |-> FALSE]
FileExists == file.by # NoActor

Holding == {"held", "unlock"}            \* after acquire, before the unlink
Owning == Holding \cup {"write"}         \* after open, before the unlink
Reaping == {"recheck", "rejudge", "unlink", "drop"}
Steps == {"try", "check", "judge", "reap"} \cup Reaping \cup Owning

TypeOK ==
  /\ file \in LockFile
  /\ reaper \in Actors \cup {NoActor}
  /\ pc \in [Actors -> {"idle"} \cup Steps]
  /\ tries \in [Actors -> 0..MaxTries]
  /\ seen \in [Actors -> Actors \cup {NoActor}]
  /\ alive \in SUBSET Pids
  /\ deaths \in 0..MaxDeaths
  /\ stalls \in 0..MaxStalls

Init ==
  /\ file = NoFile
  /\ reaper = NoActor
  /\ pc = [a \in Actors |-> "idle"]
  /\ tries = [a \in Actors |-> 0]
  /\ seen = [a \in Actors |-> NoActor]
  /\ alive = Pids
  /\ deaths = 0 /\ stalls = 0
-----------------------------------------------------------------------------
(* Steps of an actor.                                                      *)

\* The places where an actor awaits and others of its process may run.
Yielding == {"idle", "try", "held"}

\* A turn of the event loop runs to its next await.
Scheduled(a) ==
  /\ PidOf[a] \in alive
  /\ \A b \in Actors \ {a} : PidOf[b] = PidOf[a] => pc[b] \in Yielding

Goto(a, from, to) ==
  Scheduled(a) /\ pc[a] = from /\ pc' = [pc EXCEPT ![a] = to]

Quiet == UNCHANGED <<alive, deaths, stalls>>

\* acquireExclusiveLock is called.
Begin(a) ==
  /\ Goto(a, "idle", "try")
  /\ tries' = [tries EXCEPT ![a] = 0]
  /\ UNCHANGED <<file, reaper, seen>> /\ Quiet

\* The loop has run out: the caller gets an error.
GiveUp(a) ==
  /\ tries[a] = MaxTries
  /\ Goto(a, "try", "idle")
  /\ UNCHANGED <<file, reaper, tries, seen>> /\ Quiet

\* openSync(path, 'wx') succeeds.
CreateLock(a) ==
  /\ tries[a] < MaxTries /\ ~FileExists
  /\ Goto(a, "try", "write")
  /\ file' = [NoFile EXCEPT !.by = a]
  /\ UNCHANGED <<reaper, tries, seen>> /\ Quiet

FindLocked_NoLimit(a) ==   \* the loop does not count to 500
  /\ FileExists
  /\ Goto(a, "try", "check")
  /\ UNCHANGED <<file, reaper, tries, seen>> /\ Quiet

\* openSync(path, 'wx') fails with EEXIST.
FindLocked(a) ==
  /\ tries[a] < MaxTries /\ FileExists
  /\ Goto(a, "try", "check")
  /\ UNCHANGED <<file, reaper, tries, seen>> /\ Quiet

\* The owner is written through the descriptor, whatever the path names now.
WriteOwner(a) ==
  /\ Goto(a, "write", "held")
  /\ file' = IF file.by = a THEN [file EXCEPT !.filled = TRUE, !.old = FALSE] ELSE file
  /\ UNCHANGED <<reaper, tries, seen>> /\ Quiet

\* The write or the fsync fails: the path is unlinked and the error thrown.
WriteFails(a) ==
  /\ Goto(a, "write", "idle")
  /\ file' = NoFile
  /\ UNCHANGED <<reaper, tries, seen>> /\ Quiet

\* The end of a turn of the loop: the wait of 10 ms, or continue.
NextTurn(a) ==
  /\ tries' = [tries EXCEPT ![a] = @ + 1]
  /\ seen' = [seen EXCEPT ![a] = NoActor]

\* staleLock reads the file; without one (ENOENT) the lock is not stale.
ReadOwner(a, from, judging, missing) ==
  \/ /\ FileExists
     /\ Goto(a, from, judging)
     /\ seen' = [seen EXCEPT ![a] = IF file.filled THEN file.by ELSE NoActor]
     /\ UNCHANGED <<file, reaper, tries>> /\ Quiet
  \/ /\ ~FileExists
     /\ Goto(a, from, missing)
     /\ IF missing = "try" THEN NextTurn(a) ELSE UNCHANGED <<tries, seen>>
     /\ UNCHANGED <<file, reaper>> /\ Quiet

Stale_NeverByAge(a) == seen[a] # NoActor /\ PidOf[seen[a]] \notin alive

\* The rest of staleLock: kill(pid, 0) of the process read, or the mtime of
\* what the path names by now.
Stale(a) ==
  IF seen[a] = NoActor THEN FileExists /\ file.old ELSE PidOf[seen[a]] \notin alive

Check(a) == ReadOwner(a, "check", "judge", "try")

Judge_UncountedTurn(a) ==   \* a lock in use does not count as a turn
  \/ /\ Stale(a)
     /\ Goto(a, "judge", "reap")
     /\ UNCHANGED <<file, reaper, tries, seen>> /\ Quiet
  \/ /\ ~Stale(a)
     /\ Goto(a, "judge", "try")
     /\ UNCHANGED <<file, reaper, tries, seen>> /\ Quiet

Judge(a) ==
  \/ /\ Stale(a)
     /\ Goto(a, "judge", "reap")
     /\ UNCHANGED <<file, reaper, tries, seen>> /\ Quiet
  \/ /\ ~Stale(a)
     /\ Goto(a, "judge", "try") /\ NextTurn(a)
     /\ UNCHANGED <<file, reaper>> /\ Quiet

CreateReaper_FinallyAnyway(a) ==   \* the finally block also runs when the open failed
  \/ /\ reaper = NoActor
     /\ Goto(a, "reap", "recheck")
     /\ reaper' = a
     /\ UNCHANGED <<file, tries, seen>> /\ Quiet
  \/ /\ reaper # NoActor
     /\ Goto(a, "reap", "drop")
     /\ UNCHANGED <<file, reaper, tries, seen>> /\ Quiet

\* openSync(reaperPath, 'wx'); with EEXIST another actor is reaping, or died
\* while it was.
CreateReaper(a) ==
  \/ /\ reaper = NoActor
     /\ Goto(a, "reap", "recheck")
     /\ reaper' = a
     /\ UNCHANGED <<file, tries, seen>> /\ Quiet
  \/ /\ reaper # NoActor
     /\ Goto(a, "reap", "try") /\ NextTurn(a)
     /\ UNCHANGED <<file, reaper>> /\ Quiet

Recheck_Skipped(a) ==   \* the check made before the reaper file is relied on
  /\ Goto(a, "recheck", "unlink")
  /\ UNCHANGED <<file, reaper, tries, seen>> /\ Quiet

\* The second staleLock, now under the reaper file.
Recheck(a) == ReadOwner(a, "recheck", "rejudge", "drop")

Rejudge(a) ==
  /\ Goto(a, "rejudge", IF Stale(a) THEN "unlink" ELSE "drop")
  /\ UNCHANGED <<file, reaper, tries, seen>> /\ Quiet

Unlink(a) ==
  /\ Goto(a, "unlink", "drop")
  /\ file' = NoFile
  /\ UNCHANGED <<reaper, tries, seen>> /\ Quiet

\* The finally block removes the reaper file.
DropReaper(a) ==
  /\ Goto(a, "drop", "try") /\ NextTurn(a)
  /\ reaper' = NoActor
  /\ UNCHANGED file /\ Quiet

\* releaseExclusiveLock reads the token and refuses a lock that is not its own.
Release(a) ==
  /\ Goto(a, "held", IF file.by = a /\ file.filled THEN "unlock" ELSE "idle")
  /\ UNCHANGED <<file, reaper, tries, seen>> /\ Quiet

ReleaseUnlink(a) ==
  /\ Goto(a, "unlock", "idle")
  /\ file' = NoFile
  /\ UNCHANGED <<reaper, tries, seen>> /\ Quiet
-----------------------------------------------------------------------------
(* Processes and time.                                                     *)

\* A process exits or crashes; its files stay.
Die(p) ==
  /\ p \in alive /\ deaths < MaxDeaths
  /\ alive' = alive \ {p}
  /\ deaths' = deaths + 1
  /\ pc' = [a \in Actors |-> IF PidOf[a] = p THEN "idle" ELSE pc[a]]
  /\ tries' = [a \in Actors |-> IF PidOf[a] = p THEN 0 ELSE tries[a]]
  /\ seen' = [a \in Actors |-> IF PidOf[a] = p THEN NoActor ELSE seen[a]]
  /\ UNCHANGED <<file, reaper, stalls>>

\* The operating system gives the number to a new process.
ReusePid(p) ==
  /\ p \in Pids \ alive
  /\ alive' = alive \cup {p}
  /\ UNCHANGED <<file, reaper, pc, tries, seen, deaths, stalls>>

\* Nobody is left to fill the file in.
Unfinished == FileExists /\ ~file.filled /\ pc[file.by] # "write"

\* 30 s pass.  An unfinished file waits for that; otherwise some actor has
\* been stalled between two of its calls.
Age ==
  /\ FileExists /\ ~file.old
  /\ \/ Unfinished /\ UNCHANGED stalls
     \/ ~Unfinished /\ stalls < MaxStalls /\ stalls' = stalls + 1
  /\ file' = [file EXCEPT !.old = TRUE]
  /\ UNCHANGED <<reaper, pc, tries, seen, alive, deaths>>

Acquire(a) ==
  \/ GiveUp(a) \/ CreateLock(a) \/ FindLocked(a) \/ WriteOwner(a) \/ WriteFails(a)
  \/ Check(a) \/ Judge(a) \/ CreateReaper(a)
  \/ Recheck(a) \/ Rejudge(a) \/ Unlink(a) \/ DropReaper(a)

Next ==
  \/ \E a \in Actors : Begin(a) \/ Acquire(a) \/ Release(a) \/ ReleaseUnlink(a)
  \/ \E p \in Pids : Die(p) \/ ReusePid(p)
  \/ Age

Spec == Init /\ [][Next]_lockVars

\* The timer of a waiting actor fires even if its process has other work in
\* between (so strong fairness), a release runs to its end once begun, and
\* time passes.  Nothing says how long an operation keeps the lock.
FairSpec ==
  /\ Spec
  /\ \A a \in Actors : SF_lockVars(Acquire(a)) /\ WF_lockVars(ReleaseUnlink(a))
  /\ WF_lockVars(Age)
-----------------------------------------------------------------------------
(* Properties.                                                             *)

\* Whoever acquire returned to has the lock file at the path, filled in with
\* its own token, until it unlinks it: no takeover removes a lock in use.  As
\* there is one file, this is also how "a per-session exclusive writer lock
\* serializes append operations across processes" (PLUGIN_TRD.md).
HolderOwnsFile ==
  \A a \in Actors : pc[a] \in Holding => file.by = a /\ file.filled

\* A step in which no process exits while a reaper, between the read and the
\* kill(pid, 0) of its staleLock, still takes it for the owner of a lock that
\* it has meanwhile released.
NoExitUnderJudgement ==
  \A a \in Actors :
    /\ pc[a] = "rejudge" /\ seen[a] # NoActor
    /\ PidOf[seen[a]] \in alive \ alive'
    => file.by = seen[a]

\* At most one actor is past the creation of the reaper file, so the second
\* staleLock and the unlink of reapStaleLock meet no other takeover.
OneReaper ==
  \A a, b \in Actors : pc[a] \in Reaping /\ pc[b] \in Reaping => a = b

\* A call of acquire ends, with the lock or with the timeout error, even when
\* the holder never releases.
AcquireEnds ==
  \A a \in Actors : pc[a] = "try" ~> pc[a] \in {"held", "idle"}

\* A file that no running actor will release.
Abandoned == FileExists /\ pc[file.by] \notin Owning
Stuck == Abandoned /\ (file.filled => PidOf[file.by] \notin alive)
OrphanReaper == reaper # NoActor /\ pc[reaper] \notin Reaping

\* A lock left by a dead process does not stay while somebody keeps asking
\* for it, unless its pid is in use again or a process died while reaping.
StuckLockIsReaped ==
  []<>(\E a \in Actors : pc[a] = "try" /\ tries[a] = 0)
    => (Stuck ~> ~Stuck \/ OrphanReaper)
=============================================================================
