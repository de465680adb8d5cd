----------------------------- MODULE Promotion -----------------------------
(***************************************************************************)
(* From a candidate in review to the active version.  Candidates of one    *)
(* baseline commit are registered and one is selected; with a human's      *)
(* approval its pull request is opened on GitHub and attached to its       *)
(* evolution run; once it is merged the version is activated behind a      *)
(* canary, or rolled back, and the run records which version is active.    *)
(* Several processes may register, select and open at once.  A statement   *)
(* with its commit is one step, so is each read that another process can   *)
(* overtake, each gh command and each activation callback.  A process may  *)
(* die between any two steps.  GitHub, its branches, the people who merge, *)
(* and the callbacks are external.                                         *)
(***************************************************************************)
EXTENDS Integers, Sequences, FiniteSets

CONSTANTS
  Threads,             \* processes that coordinate and open pull requests
  Ids,                 \* candidates, each with an evolution run in review
  Parents, Commits,    \* baseline commits, and heads of candidate branches
  Subjects,            \* normalized subjects of claims
  Proposals,           \* the records a process may register or approve
  Faithful,            \* those whose parent and diff Git confirms
  Branches, NoBranch,  \* candidate branches on GitHub
  Base,                \* the version that is active at first
  MaxPrs, MaxPushes    \* bounds: pull requests, pushes to branches

Actions == {"add", "remove", "retain", "change"}
Proposal == [id: Ids, parent: Parents, commit: Commits,
             claims: SUBSET (Subjects \X Actions)]
ASSUME ProposalAssumption == Proposals \subseteq Proposal /\ Faithful \subseteq Proposals
ASSUME BaseAssumption == Base \notin Ids
ASSUME BoundsAssumption == MaxPrs \in Nat /\ MaxPushes \in Nat

VARIABLES
  registered,   \* candidate_coordination: the row of each candidate id
  selections,   \* candidate_selections: the candidate selected for a parent
  runs,         \* evolution_runs: status, PR number and version of a run
  remote,       \* GitHub: the head of each branch
  prs,          \* GitHub: the pull requests, by number
  lost,         \* PRs whose opener died or got no answer from gh (history)
  pc, loc,      \* the processes
  live,         \* the version that runs
  recorded,     \* the version the last recorded activation left active
  apc, act,     \* the activation under way
  pushes        \* counter behind the bound

database == <<registered, selections>>
github == <<remote, prs, lost>>
activation == <<live, recorded, apc, act>>
promotionVars == <<database, runs, github, pc, loc, activation, pushes>>
-----------------------------------------------------------------------------
\* A pull request, with the heads it has had.
PullRequest == [of: Proposals, branch: Branches, heads: SUBSET Commits,
                state: {"OPEN", "MERGED", "CLOSED"}]
Run == [status: {"PROMOTION_REVIEW", "PR_OPEN", "MERGED", "ACTIVE", "ROLLED_BACK"},
        pr: Nat, version: Ids \cup {Base}]

NoPr == 0
OpenOn(b) == {n \in DOMAIN prs : prs[n].branch = b /\ prs[n].state = "OPEN"}

\* The worker has left its runs in review; some were merged before, from
\* pull requests that are not looked at here.
Init ==
  /\ registered = <<>> /\ selections = <<>>
  /\ \E earlier \in SUBSET Ids :
       runs = [r \in Ids |-> [status |-> IF r \in earlier THEN "MERGED" ELSE "PROMOTION_REVIEW",
                             pr |-> NoPr, version |-> Base]]
  /\ remote \in [Branches -> Commits]
  /\ prs = <<>> /\ lost = {}
  /\ pc = [t \in Threads |-> "idle"]
  /\ loc = [t \in Threads |-> <<>>]
  /\ live = Base /\ recorded = Base
  /\ apc = "idle" /\ act = Base
  /\ pushes = 0

Goto(t, l) == pc' = [pc EXCEPT ![t] = l]
Go(t, l) == Goto(t, l) /\ UNCHANGED loc
Hold(t, c, b, n) == loc' = [loc EXCEPT ![t] = [cand |-> c, branch |-> b, pr |-> n]]
Begin(t, l, c) ==
  /\ pc[t] = "idle"
  /\ Goto(t, l)
  /\ Hold(t, c, NoBranch, NoPr)
Return(t) == Goto(t, "idle") /\ loc' = [loc EXCEPT ![t] = <<>>]
Put(f, x, v) == [y \in DOMAIN f \cup {x} |-> IF y = x THEN v ELSE f[y]]
-----------------------------------------------------------------------------
\* CandidateCoordinator.result over the candidates of a parent.
CandidatesOf(p) == {c \in {registered[i] : i \in DOMAIN registered} : c.parent = p}
Conflicting(S) ==
  {c \in S : \E d \in S : \E x \in c.claims, y \in d.claims : x[1] = y[1] /\ x[2] # y[2]}

\* register: the id is free or stored with the same row ...
Register(t, c) ==
  /\ c.id \in DOMAIN registered => registered[c.id] = c
  /\ Begin(t, "insert", c)
  /\ UNCHANGED <<database, runs, github, activation, pushes>>

\* ... then INSERT OR IGNORE, which keeps the row that another process may
\* have stored in between.
Insert(t) ==
  LET c == loc[t].cand
  IN  /\ pc[t] = "insert"
      /\ registered' = IF c.id \in DOMAIN registered THEN registered
                       ELSE Put(registered, c.id, c)
      /\ Return(t)
      /\ UNCHANGED <<selections, runs, github, activation, pushes>>

\* select: a registered candidate without a conflict ...
Select(t, c) ==
  /\ c \in CandidatesOf(c.parent) \ Conflicting(CandidatesOf(c.parent))
  /\ Begin(t, "choose", c)
  /\ UNCHANGED <<database, runs, github, activation, pushes>>

\* ... replaces the selection of its parent.
Choose(t) ==
  LET c == loc[t].cand
  IN  /\ pc[t] = "choose"
      /\ selections' = Put(selections, c.parent, [id |-> c.id, commit |-> c.commit])
      /\ Return(t)
      /\ UNCHANGED <<registered, runs, github, activation, pushes>>
-----------------------------------------------------------------------------
\* GitHubPromotionService.open.  The run is in review; the approval a human
\* gave names a candidate, its parent and its head, and stays what it was.
Open(t, approval) ==
  /\ runs[approval.id].status = "PROMOTION_REVIEW"
  /\ Begin(t, "authorize", approval)
  /\ UNCHANGED <<database, runs, github, activation, pushes>>

\* can_open_pr, as far as the candidates of the parent go: one, which does
\* not contradict itself.
CanOpen_Unopposed(c) == c \notin Conflicting(CandidatesOf(c.parent))
CanOpen(c) == CandidatesOf(c.parent) = {c} /\ Conflicting({c}) = {}

\* The approval binds the candidate's head.
Binds(a, c) == c.parent = a.parent /\ c.commit = a.commit

\* authorize_pr: the approval names the head of the registered candidate (a
\* row that does not change any more), the only one of its parent ...
Authorize(t) ==
  LET a == loc[t].cand
      c == registered[a.id]
  IN  /\ pc[t] = "authorize"
      /\ IF /\ a.id \in DOMAIN registered
            /\ Binds(a, c)
            /\ CanOpen(c)
         THEN Goto(t, "selection") /\ Hold(t, c, NoBranch, NoPr)
         ELSE Return(t)
      /\ UNCHANGED <<database, runs, github, activation, pushes>>

\* ... and, read after that, the selected one; prepare asks Git for its parent
\* and its diff.
Selected(t) ==
  LET c == loc[t].cand
  IN  /\ pc[t] = "selection"
      /\ IF /\ c.parent \in DOMAIN selections
            /\ selections[c.parent] = [id |-> c.id, commit |-> c.commit]
            /\ c \in Faithful
         THEN Go(t, "remoteHead") ELSE Return(t)
      /\ UNCHANGED <<database, runs, github, activation, pushes>>
-----------------------------------------------------------------------------
\* create_pr: the branch has the candidate's head ...
RemoteHead(t, b) ==
  /\ pc[t] = "remoteHead"
  /\ IF remote[b] = loc[t].cand.commit
     THEN Goto(t, "create") /\ Hold(t, loc[t].cand, b, NoPr)
     ELSE Return(t)
  /\ UNCHANGED <<database, runs, github, activation, pushes>>

\* ... gh opens a pull request, unless the branch has one; the answer of gh
\* may be lost ...
Create(t) ==
  LET n == Len(prs) + 1
      b == loc[t].branch
  IN  /\ pc[t] = "create"
      /\ OpenOn(b) = {} /\ n <= MaxPrs
      /\ prs' = Append(prs, [of |-> loc[t].cand, branch |-> b, heads |-> {remote[b]},
                             state |-> "OPEN"])
      /\ \/ Goto(t, "view") /\ Hold(t, loc[t].cand, b, n) /\ UNCHANGED lost
         \/ Return(t) /\ lost' = lost \cup {n}
      /\ UNCHANGED <<database, runs, remote, activation, pushes>>

\* ... and it must still have the head that was approved, or open raises.
View(t) ==
  /\ pc[t] = "view"
  /\ IF remote[loc[t].branch] = loc[t].cand.commit THEN Go(t, "attach") ELSE Return(t)
  /\ UNCHANGED <<database, runs, github, activation, pushes>>

\* attach_pr, a CAS on the status of the run.
AttachPr(r, n) ==
  /\ runs[r].status = "PROMOTION_REVIEW"
  /\ runs' = [runs EXCEPT ![r].status = "PR_OPEN", ![r].pr = n]

\* An opener that leaves the pull request of a refused attachment alone.
Attach_NoClose(t) ==
  LET c == loc[t].cand
  IN  /\ pc[t] = "attach"
      /\ AttachPr(c.id, loc[t].pr) \/ UNCHANGED runs
      /\ Return(t)
      /\ UNCHANGED <<database, github, activation, pushes>>

\* Whatever attach_pr raises, the pull request is closed.
Attach(t) ==
  LET c == loc[t].cand
  IN  /\ pc[t] = "attach"
      /\ \/ AttachPr(c.id, loc[t].pr) /\ Return(t)
         \/ Go(t, "close") /\ UNCHANGED runs
      /\ UNCHANGED <<database, github, activation, pushes>>

Close(t) ==
  LET n == loc[t].pr
  IN  /\ pc[t] = "close"
      /\ prs' = [prs EXCEPT ![n].state = IF @ = "OPEN" THEN "CLOSED" ELSE @]
      /\ Return(t)
      /\ UNCHANGED <<database, runs, remote, lost, activation, pushes>>

\* gh fails or times out (the call may have got through for Create), or the
\* process dies: nothing is undone.
InHand(t) == IF pc[t] \in {"view", "attach", "close"} THEN {loc[t].pr} ELSE {}
Interrupted(t) ==
  /\ pc[t] # "idle"
  /\ lost' = lost \cup InHand(t)
  /\ Return(t)
  /\ UNCHANGED <<database, runs, remote, prs, activation, pushes>>
-----------------------------------------------------------------------------
\* On GitHub: a branch, and the pull request open on it, gets another head;
\* people merge or close a pull request.
Push(b, c) ==
  /\ pushes < MaxPushes /\ pushes' = pushes + 1
  /\ remote' = [remote EXCEPT ![b] = c]
  /\ prs' = [n \in DOMAIN prs |->
               IF n \in OpenOn(b) THEN [prs[n] EXCEPT !.heads = @ \cup {c}] ELSE prs[n]]
  /\ UNCHANGED <<database, runs, lost, pc, loc, activation>>

Settle(n, state) ==
  /\ prs[n].state = "OPEN"
  /\ prs' = [prs EXCEPT ![n].state = state]
  /\ UNCHANGED <<database, runs, remote, lost, pc, loc, activation, pushes>>

\* record_merge, called for the run of a merged pull request.
RecordMerge(r) ==
  /\ runs[r].status = "PR_OPEN"
  /\ prs[runs[r].pr].state = "MERGED"
  /\ runs' = [runs EXCEPT ![r].status = "MERGED"]
  /\ UNCHANGED <<database, github, pc, loc, activation, pushes>>
-----------------------------------------------------------------------------
\* ActivationService.activate for the version of a merged run, one call at a
\* time; the previous version it is given is the one recorded last.  Every
\* callback may raise; activate and rollback may take effect or not, and the
\* version may fall back while the canary runs.
Callback(effects, label) ==
  live' \in {live} \cup effects /\ apc' = label /\ UNCHANGED <<recorded, act>>
Unmoved == UNCHANGED <<database, runs, github, pc, loc, pushes>>

Activate(r) ==
  /\ apc = "idle"
  /\ runs[r].status = "MERGED"
  /\ act' = r /\ apc' = "activate"
  /\ UNCHANGED <<database, runs, github, pc, loc, live, recorded, pushes>>

CallActivate ==
  /\ apc = "activate"
  /\ Callback({act}, "verify") \/ Callback({act}, "rollback")
  /\ Unmoved

Verify ==
  /\ apc = "verify"
  /\ (live = act /\ Callback({}, "canary")) \/ Callback({}, "rollback")
  /\ Unmoved

\* A canary whose pass is the last word.
Canary_LastWord ==
  /\ apc = "canary"
  /\ Callback({recorded}, "reportActive") \/ Callback({recorded}, "rollback")
  /\ Unmoved

Canary ==
  /\ apc = "canary"
  /\ Callback({recorded}, "confirm") \/ Callback({recorded}, "rollback")
  /\ Unmoved

\* The version is verified once more, outside the try: an exception here
\* ends the call without a rollback.
Confirm ==
  /\ apc = "confirm"
  /\ \/ live = act /\ Callback({}, "reportActive")
     \/ live # act /\ Callback({}, "rollback")
     \/ Callback({}, "idle")
  /\ Unmoved

Rollback ==
  /\ apc = "rollback"
  /\ Callback({recorded}, "verifyBack") \/ Callback({recorded}, "idle")
  /\ Unmoved

VerifyBack ==
  /\ apc = "verifyBack"
  /\ (live = recorded /\ Callback({}, "reportRolledBack")) \/ Callback({}, "idle")
  /\ Unmoved

\* record_activation with the version that activate has reported.
RecordActivation ==
  LET passed == apc = "reportActive"
      version == IF passed THEN act ELSE recorded
  IN  /\ apc \in {"reportActive", "reportRolledBack"}
      /\ runs[act].status = "MERGED"
      /\ runs' = [runs EXCEPT ![act].status = IF passed THEN "ACTIVE" ELSE "ROLLED_BACK",
                             ![act].version = version]
      /\ recorded' = version
      /\ apc' = "idle"
      /\ UNCHANGED <<database, github, pc, loc, live, act, pushes>>

\* The process that activates dies.
ActivatorDies == apc # "idle" /\ Callback({}, "idle") /\ Unmoved
-----------------------------------------------------------------------------
Coordinate(t) ==
  \/ \E c \in Proposals : Register(t, c) \/ Select(t, c) \/ Open(t, c)
  \/ Insert(t) \/ Choose(t) \/ Authorize(t) \/ Selected(t)
  \/ \E b \in Branches : RemoteHead(t, b)
  \/ Create(t) \/ View(t) \/ Attach(t) \/ Close(t) \/ Interrupted(t)
OnGitHub ==
  \/ \E b \in Branches, c \in Commits : Push(b, c)
  \/ \E n \in DOMAIN prs, s \in {"MERGED", "CLOSED"} : Settle(n, s)
Deploy ==
  \/ \E r \in Ids : RecordMerge(r) \/ Activate(r)
  \/ CallActivate \/ Verify \/ Canary \/ Confirm \/ Rollback \/ VerifyBack
  \/ RecordActivation \/ ActivatorDies
Next == (\E t \in Threads : Coordinate(t)) \/ OnGitHub \/ Deploy

Spec == Init /\ [][Next]_promotionVars
-----------------------------------------------------------------------------
Labels == {"idle", "insert", "choose", "authorize", "selection",
           "remoteHead", "create", "view", "attach", "close"}
Phases == {"idle", "activate", "verify", "canary", "confirm", "rollback", "verifyBack",
           "reportActive", "reportRolledBack"}
Local == [cand: Proposals, branch: Branches \cup {NoBranch}, pr: Nat]

\* The types of the tables, of GitHub and of the processes.
TypeOK ==
  /\ registered \in [DOMAIN registered -> Proposals] /\ DOMAIN registered \subseteq Ids
  /\ selections \in [DOMAIN selections -> [id: Ids, commit: Commits]]
  /\ DOMAIN selections \subseteq Parents
  /\ runs \in [Ids -> Run]
  /\ remote \in [Branches -> Commits]
  /\ prs \in Seq(PullRequest)
  /\ lost \subseteq Nat
  /\ pc \in [Threads -> Labels]
  /\ loc \in [Threads -> Local \cup {<<>>}]
  /\ \A t \in Threads : pc[t] # "idle" => loc[t] \in Local
  /\ live \in Ids \cup {Base} /\ recorded \in Ids \cup {Base}
  /\ apc \in Phases
  /\ act \in Ids \cup {Base}
  /\ pushes \in Nat

\* Whatever is registered, selected and approved in which order, the pull
\* requests of a baseline commit are all of one candidate, the one that is
\* registered, with the head that was approved.
OneCandidatePerParent ==
  \A m \in DOMAIN prs :
    /\ prs[m].of.id \in DOMAIN registered /\ registered[prs[m].of.id] = prs[m].of
    /\ \A n \in DOMAIN prs : prs[n].of.parent = prs[m].of.parent => prs[n].of = prs[m].of

\* An open pull request is attached to its run, or its opener still has it
\* in hand, or it has had a head nobody approved, or its opener was
\* interrupted: of two that open one run's, the loser closes its own.
OpenPrsAreAccounted ==
  \A n \in DOMAIN prs : prs[n].state = "OPEN" =>
    \/ runs[prs[n].of.id].pr = n
    \/ \E t \in Threads : n \in InHand(t)
    \/ prs[n].heads # {prs[n].of.commit}
    \/ n \in lost

\* The version that runs is the one recorded last, unless a merged run's
\* activation is still to be recorded, whatever callbacks fail and wherever
\* the activating process dies.
RecordedVersionIsLive == live = recorded \/ (live \in Ids /\ runs[live].status = "MERGED")
=============================================================================
