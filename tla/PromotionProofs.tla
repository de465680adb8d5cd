-------------------------- MODULE PromotionProofs --------------------------
(***************************************************************************)
(* Theorems about Promotion, for every number of processes, candidates,    *)
(* baselines, branches and pull requests.                                  *)
(***************************************************************************)
EXTENDS Promotion, SequenceTheorems, TLAPS

USE ProposalAssumption, BaseAssumption, BoundsAssumption DEF NoPr

\* A process that has passed authorize_pr, and one with a pull request.
Authorized == {"selection", "remoteHead", "create", "view", "attach", "close"}
HandsOn == {"view", "attach", "close"}

\* Candidates that have been let through: no two have the same parent, and
\* all are rows, which are never replaced.
Committed ==
  {prs[m].of : m \in DOMAIN prs} \cup
  {loc[t].cand : t \in {u \in Threads : pc[u] \in Authorized}}
Coordinated ==
  /\ \A i \in DOMAIN registered : registered[i].id = i
  /\ \A c \in Committed :
       /\ c.id \in DOMAIN registered /\ registered[c.id] = c
       /\ \A d \in Committed : d.parent = c.parent => d = c

\* A pull request in hand is of the candidate in hand; GitHub knows the heads
\* of those that are open; a run in review has none.
InHandIsOwn ==
  \A t \in Threads : pc[t] \in HandsOn =>
    /\ loc[t].pr \in DOMAIN prs
    /\ prs[loc[t].pr].of = loc[t].cand /\ prs[loc[t].pr].branch = loc[t].branch
BranchIsChosen ==
  \A t \in Threads : pc[t] \in HandsOn \cup {"create"} => loc[t].branch \in Branches
HeadsAreKnown ==
  \A n \in DOMAIN prs : prs[n].state = "OPEN" => remote[prs[n].branch] \in prs[n].heads
ReviewedHasNoPr ==
  \A r \in Ids : runs[r].status = "PROMOTION_REVIEW" => runs[r].pr = NoPr
Accounted ==
  InHandIsOwn /\ BranchIsChosen /\ HeadsAreKnown /\ ReviewedHasNoPr /\ OpenPrsAreAccounted

\* An activation is of a merged run, and reports what runs.
Activated ==
  /\ apc # "idle" => act \in Ids /\ runs[act].status = "MERGED"
  /\ apc = "reportActive" => live = act
  /\ apc = "reportRolledBack" => live = recorded
  /\ RecordedVersionIsLive

Inv == TypeOK /\ Coordinated /\ Accounted /\ Activated
-----------------------------------------------------------------------------
\* The proof that Coordinated is kept when nobody new is let through.
LEMMA NobodyNew ==
  ASSUME Coordinated, Committed' \subseteq Committed,
         \A i \in DOMAIN registered : i \in DOMAIN registered' /\ registered'[i] = registered[i],
         \A i \in DOMAIN registered' : i \in DOMAIN registered \/ registered'[i].id = i
  PROVE  Coordinated'
BY DEF Coordinated

LEMMA CandidateTypes ==
  ASSUME TypeOK, NEW t \in Threads, pc[t] # "idle"
  PROVE  /\ loc[t].cand \in Proposals /\ loc[t].cand \in Proposal
         /\ loc[t].branch \in Branches \cup {NoBranch} /\ loc[t].pr \in Nat
         /\ loc[t].cand.id \in Ids /\ loc[t].cand.parent \in Parents
         /\ loc[t].cand.commit \in Commits
<1>1. loc[t] \in Local
  BY DEF TypeOK
<1>2. loc[t].cand \in Proposal
  BY <1>1 DEF Local
<1> QED
  BY <1>1, <1>2 DEF Local, Proposal

LEMMA PrTypes ==
  ASSUME TypeOK, NEW n \in DOMAIN prs
  PROVE  /\ prs[n] \in PullRequest /\ n \in Nat
         /\ prs[n].of.id \in Ids /\ prs[n].branch \in Branches
<1>1. prs \in Seq(PullRequest) /\ DOMAIN prs = 1..Len(prs) /\ Len(prs) \in Nat
  BY DEF TypeOK
<1>2. prs[n] \in PullRequest
  BY <1>1, ElementOfSeq
<1>3. prs[n].of \in Proposal /\ prs[n].branch \in Branches
  BY <1>2 DEF PullRequest
<1> QED
  BY <1>1, <1>2, <1>3 DEF Proposal

LEMMA InitInv == Init => Inv
<1> SUFFICES ASSUME Init PROVE Inv
  OBVIOUS
<1>1. TypeOK
  BY DEF Init, TypeOK, Labels, Phases, Run
<1>2. Coordinated
  BY DEF Init, Coordinated, Committed, Authorized
<1>3. Accounted
  BY DEF Init, Accounted, InHandIsOwn, BranchIsChosen, HeadsAreKnown, ReviewedHasNoPr, OpenPrsAreAccounted, HandsOn
<1>4. Activated
  BY DEF Init, Activated, RecordedVersionIsLive
<1> QED
  BY <1>1, <1>2, <1>3, <1>4 DEF Inv
-----------------------------------------------------------------------------
\* What every step of the coordination keeps as it is.
LEMMA ActivationKept == ASSUME Inv, UNCHANGED <<activation, runs>> PROVE Activated'
BY DEF Inv, Activated, RecordedVersionIsLive, activation

\* A call begins, with a candidate that nobody has let through.
LEMMA BeginStep ==
  ASSUME Inv, NEW t \in Threads, NEW c \in Proposals,
         Register(t, c) \/ Select(t, c) \/ Open(t, c)
  PROVE  Inv'
<1>1. PICK l \in {"insert", "choose", "authorize"} : Begin(t, l, c)
  BY DEF Register, Select, Open
<1>2. UNCHANGED <<database, runs, github, activation, pushes>>
  BY DEF Register, Select, Open
<1> USE DEF Begin, Goto, Hold
<1>3. TypeOK'
  <2>1. pc' \in [Threads -> Labels] /\ loc' \in [Threads -> Local \cup {<<>>}]
    BY <1>1 DEF Inv, TypeOK, Labels, Local
  <2>2. \A u \in Threads : pc'[u] # "idle" => loc'[u] \in Local
    BY <1>1 DEF Inv, TypeOK, Local
  <2> QED
    BY <2>1, <2>2, <1>2 DEF Inv, TypeOK, database, github, activation
<1>4. \A u \in Threads : pc'[u] \in Authorized => u # t /\ pc'[u] = pc[u] /\ loc'[u] = loc[u]
  BY <1>1 DEF Inv, TypeOK, Authorized
<1>5. Coordinated'
  BY <1>2, <1>4, NobodyNew DEF Inv, Committed, database, github
<1>6. \A u \in Threads : pc'[u] \in HandsOn \cup {"create"} \/ pc[u] \in HandsOn =>
        u # t /\ pc'[u] = pc[u] /\ loc'[u] = loc[u]
  BY <1>1 DEF Inv, TypeOK, HandsOn
<1>7. Accounted'
  BY <1>2, <1>6 DEF Inv, Accounted, InHandIsOwn, BranchIsChosen, HeadsAreKnown, ReviewedHasNoPr,
     OpenPrsAreAccounted, InHand, HandsOn, github
<1>8. Activated'
  BY <1>2, ActivationKept
<1> QED
  BY <1>3, <1>5, <1>7, <1>8 DEF Inv

\* A call ends that has no pull request in hand.
LEMMA ReturnStep ==
  ASSUME Inv, NEW t \in Threads, Return(t), pc[t] # "idle", pc[t] \notin HandsOn,
         UNCHANGED <<registered, runs, github, activation, pushes>>,
         selections' \in [DOMAIN selections' -> [id: Ids, commit: Commits]],
         DOMAIN selections' \subseteq Parents
  PROVE  Inv'
<1> USE DEF Return, Goto
<1>1. TypeOK'
  BY DEF Inv, TypeOK, Labels, github, activation
<1>2. \A u \in Threads : pc'[u] \in Authorized => u # t /\ pc'[u] = pc[u] /\ loc'[u] = loc[u]
  BY DEF Inv, TypeOK, Authorized
<1>3. Coordinated'
  BY <1>2, NobodyNew DEF Inv, Committed, github
<1>4. \A u \in Threads : pc'[u] \in HandsOn \cup {"create"} \/ pc[u] \in HandsOn =>
        u # t /\ pc'[u] = pc[u] /\ loc'[u] = loc[u]
  BY DEF Inv, TypeOK, HandsOn
<1>5. Accounted'
  BY <1>4 DEF Inv, Accounted, InHandIsOwn, BranchIsChosen, HeadsAreKnown, ReviewedHasNoPr,
     OpenPrsAreAccounted, InHand, HandsOn, github
<1> QED
  BY <1>1, <1>3, <1>5, ActivationKept DEF Inv

LEMMA InsertStep == ASSUME Inv, NEW t \in Threads, Insert(t) PROVE Inv'
<1> DEFINE c == loc[t].cand
<1> USE DEF Insert, Return, Goto, Put
<1>1. c \in Proposals /\ c.id \in Ids
  BY CandidateTypes DEF Inv
<1>2. TypeOK'
  <2>1. registered' \in [DOMAIN registered' -> Proposals] /\ DOMAIN registered' \subseteq Ids
    BY <1>1 DEF Inv, TypeOK
  <2>2. pc' \in [Threads -> Labels] /\ loc' \in [Threads -> Local \cup {<<>>}]
    BY DEF Inv, TypeOK, Labels
  <2>3. \A u \in Threads : pc'[u] # "idle" => loc'[u] \in Local
    BY DEF Inv, TypeOK
  <2> QED
    BY <2>1, <2>2, <2>3 DEF Inv, TypeOK, github, activation
<1>3. /\ \A i \in DOMAIN registered : i \in DOMAIN registered' /\ registered'[i] = registered[i]
      /\ \A i \in DOMAIN registered' : i \in DOMAIN registered \/ registered'[i].id = i
  OBVIOUS
<1>4. \A u \in Threads : pc'[u] \in Authorized => u # t /\ pc'[u] = pc[u] /\ loc'[u] = loc[u]
  BY DEF Inv, TypeOK, Authorized
<1>5. Coordinated'
  <2>1. Committed' \subseteq Committed
    BY <1>4 DEF Committed, github
  <2> QED
    BY <1>3, <2>1, NobodyNew DEF Inv
<1>6. \A u \in Threads : pc'[u] \in HandsOn \cup {"create"} \/ pc[u] \in HandsOn =>
        u # t /\ pc'[u] = pc[u] /\ loc'[u] = loc[u]
  BY DEF Inv, TypeOK, HandsOn
<1>7. Accounted'
  BY <1>6 DEF Inv, Accounted, InHandIsOwn, BranchIsChosen, HeadsAreKnown, ReviewedHasNoPr,
     OpenPrsAreAccounted, InHand, HandsOn, github
<1> QED
  BY <1>2, <1>5, <1>7, ActivationKept DEF Inv

LEMMA ChooseStep == ASSUME Inv, NEW t \in Threads, Choose(t) PROVE Inv'
<1>1. loc[t].cand.id \in Ids /\ loc[t].cand.parent \in Parents /\ loc[t].cand.commit \in Commits
  BY CandidateTypes DEF Inv, Choose
<1>2. /\ selections' \in [DOMAIN selections' -> [id: Ids, commit: Commits]]
      /\ DOMAIN selections' \subseteq Parents
  BY <1>1 DEF Inv, TypeOK, Choose, Put
<1> QED
  BY <1>2, ReturnStep DEF Choose, HandsOn

\* A call goes on without a pull request in hand.
LEMMA ProceedStep ==
  ASSUME Inv, NEW t \in Threads, NEW l \in Authorized \ HandsOn,
         NEW c \in Proposals, NEW b \in Branches \cup {NoBranch}, NEW n \in Nat,
         pc[t] # "idle", pc[t] \notin HandsOn, Goto(t, l),
         Hold(t, c, b, n), l = "create" => b \in Branches,
         UNCHANGED <<database, runs, github, activation, pushes>>,
         \/ pc[t] \in Authorized /\ c = loc[t].cand
         \/ CandidatesOf(c.parent) = {c}
  PROVE  Inv'
<1> USE DEF Goto, Hold
<1>1. TypeOK'
  <2>1. pc' \in [Threads -> Labels] /\ loc' \in [Threads -> Local \cup {<<>>}]
    BY CandidateTypes DEF Inv, TypeOK, Labels, Authorized, Local
  <2>2. \A u \in Threads : pc'[u] # "idle" => loc'[u] \in Local
    BY CandidateTypes DEF Inv, TypeOK, Local
  <2> QED
    BY <2>1, <2>2 DEF Inv, TypeOK, database, github, activation
<1>2. Committed' \subseteq Committed \cup {c}
  BY DEF Inv, TypeOK, Committed, github
<1>3. Coordinated'
  <2>1. CASE c \in Committed
    BY <1>2, <2>1, NobodyNew DEF Inv, database
  <2>2. CASE CandidatesOf(c.parent) = {c}
    <3>1. \A d \in Committed : d.parent = c.parent => d = c
      <4>1. \A d \in Committed : d \in CandidatesOf(d.parent)
        BY DEF Inv, Coordinated, CandidatesOf
      <4> QED
        BY <2>2, <4>1
    <3>2. c.id \in DOMAIN registered /\ registered[c.id] = c
      BY <2>2 DEF Inv, Coordinated, CandidatesOf
    <3> QED
      BY <1>2, <3>1, <3>2 DEF Inv, Coordinated, database
  <2>3. c \in Committed \/ CandidatesOf(c.parent) = {c}
    BY DEF Committed
  <2> QED
    BY <2>1, <2>2, <2>3
<1>4. \A u \in Threads : pc'[u] \in HandsOn \/ pc[u] \in HandsOn =>
        u # t /\ pc'[u] = pc[u] /\ loc'[u] = loc[u]
  BY DEF Inv, TypeOK
<1>5. BranchIsChosen'
  BY DEF Inv, TypeOK, Accounted, BranchIsChosen
<1>6. Accounted'
  BY <1>4, <1>5 DEF Inv, Accounted, InHandIsOwn, HeadsAreKnown, ReviewedHasNoPr,
     OpenPrsAreAccounted, InHand, HandsOn, github
<1> QED
  BY <1>1, <1>3, <1>6, ActivationKept DEF Inv

LEMMA AuthorizeStep == ASSUME Inv, NEW t \in Threads, Authorize(t) PROVE Inv'
<1> DEFINE c == registered[loc[t].cand.id]
<1>1. /\ pc[t] = "authorize"
      /\ UNCHANGED <<database, runs, github, activation, pushes>>
      /\ \/ Return(t)
         \/ /\ loc[t].cand.id \in DOMAIN registered /\ CandidatesOf(c.parent) = {c}
            /\ Goto(t, "selection") /\ Hold(t, c, NoBranch, NoPr)
  BY DEF Authorize, Binds, CanOpen
<1>2. CASE Return(t)
  BY <1>1, <1>2, ReturnStep DEF Inv, TypeOK, HandsOn, database
<1>3. CASE ~Return(t)
  <2>1. c \in Proposals
    BY <1>1, <1>3 DEF Inv, TypeOK
  <2>2. "selection" \in Authorized \ HandsOn /\ pc[t] \notin HandsOn
    BY <1>1 DEF Authorized, HandsOn
  <2> QED
    BY <1>1, <1>3, <2>1, <2>2, ProceedStep
<1> QED
  BY <1>2, <1>3

LEMMA SelectedStep == ASSUME Inv, NEW t \in Threads, Selected(t) PROVE Inv'
<1>1. /\ pc[t] = "selection"
      /\ UNCHANGED <<database, runs, github, activation, pushes>>
      /\ Return(t) \/ (Goto(t, "remoteHead") /\ loc' = loc)
  BY DEF Selected, Go
<1>2. CASE Return(t)
  BY <1>1, <1>2, ReturnStep DEF Inv, TypeOK, HandsOn, database
<1>3. CASE ~Return(t)
  <2>1. loc[t] \in Local /\ loc \in [Threads -> Local \cup {<<>>}]
    BY <1>1 DEF Inv, TypeOK
  <2>2. Hold(t, loc[t].cand, loc[t].branch, loc[t].pr)
    BY <1>1, <1>3, <2>1 DEF Hold, Local
  <2>3. /\ "remoteHead" \in Authorized \ HandsOn
        /\ pc[t] \in Authorized /\ pc[t] \notin HandsOn /\ pc[t] # "idle"
    BY <1>1 DEF Authorized, HandsOn
  <2> QED
    BY <1>1, <1>3, <2>2, <2>3, CandidateTypes, ProceedStep DEF Inv
<1> QED
  BY <1>2, <1>3

LEMMA RemoteHeadStep ==
  ASSUME Inv, NEW t \in Threads, NEW b \in Branches, RemoteHead(t, b) PROVE Inv'
<1>1. /\ pc[t] = "remoteHead"
      /\ UNCHANGED <<database, runs, github, activation, pushes>>
      /\ Return(t) \/ (Goto(t, "create") /\ Hold(t, loc[t].cand, b, NoPr))
  BY DEF RemoteHead
<1>2. CASE Return(t)
  BY <1>1, <1>2, ReturnStep DEF Inv, TypeOK, HandsOn, database
<1>3. CASE ~Return(t)
  <2>1. /\ "create" \in Authorized \ HandsOn
        /\ pc[t] \in Authorized /\ pc[t] \notin HandsOn /\ pc[t] # "idle"
    BY <1>1 DEF Authorized, HandsOn
  <2> QED
    BY <1>1, <1>3, <2>1, CandidateTypes, ProceedStep DEF Inv
<1> QED
  BY <1>2, <1>3

\* gh opens a pull request: its number is new, and it is in hand or lost.
LEMMA CreateStep == ASSUME Inv, NEW t \in Threads, Create(t) PROVE Inv'
<1> DEFINE n == Len(prs) + 1
           new == [of |-> loc[t].cand, branch |-> loc[t].branch,
                   heads |-> {remote[loc[t].branch]}, state |-> "OPEN"]
<1>1. /\ pc[t] = "create" /\ prs' = Append(prs, new)
      /\ UNCHANGED <<database, runs, remote, activation, pushes>>
      /\ \/ Goto(t, "view") /\ Hold(t, loc[t].cand, loc[t].branch, n) /\ UNCHANGED lost
         \/ Return(t) /\ lost' = lost \cup {n}
  BY DEF Create
<1>2. /\ loc[t].cand \in Proposals /\ loc[t].branch \in Branches
      /\ new \in PullRequest
  BY <1>1, CandidateTypes DEF Inv, TypeOK, PullRequest, Accounted, BranchIsChosen
<1>3. /\ n \in Nat /\ n \notin DOMAIN prs /\ prs' \in Seq(PullRequest)
      /\ DOMAIN prs' = DOMAIN prs \cup {n} /\ prs'[n] = new
      /\ \A m \in DOMAIN prs : prs'[m] = prs[m]
  BY <1>1, <1>2, AppendProperties DEF Inv, TypeOK
<1> HIDE DEF n, new
<1>4. TypeOK'
  <2>0. [cand |-> loc[t].cand, branch |-> loc[t].branch, pr |-> n] \in Local
    BY <1>2, <1>3 DEF Local
  <2>1. pc' \in [Threads -> Labels] /\ loc' \in [Threads -> Local \cup {<<>>}] /\ lost' \subseteq Nat
    BY <1>1, <1>3, <2>0 DEF Inv, TypeOK, Labels, Goto, Hold, Return
  <2>2. \A u \in Threads : pc'[u] # "idle" => loc'[u] \in Local
    BY <1>1, <2>0 DEF Inv, TypeOK, Goto, Hold, Return
  <2> QED
    BY <1>1, <1>3, <2>1, <2>2 DEF Inv, TypeOK, database, activation
<1>5. Coordinated'
  <2>1. \A m \in DOMAIN prs' : prs'[m].of \in Committed
    BY <1>1, <1>3 DEF new, Committed, Authorized
  <2>2. \A u \in Threads : pc'[u] \in Authorized =>
          pc[u] \in Authorized /\ loc'[u].cand = loc[u].cand
    BY <1>1 DEF Inv, TypeOK, Authorized, Goto, Hold, Return
  <2>3. Committed' \subseteq Committed
    BY <2>1, <2>2 DEF Committed
  <2> QED
    BY <1>1, <2>3, NobodyNew DEF Inv, database
<1>6. \A u \in Threads : u # t => pc'[u] = pc[u] /\ loc'[u] = loc[u]
  BY <1>1 DEF Inv, TypeOK, Goto, Hold, Return
<1>7. pc'[t] \in HandsOn \cup {"create"} =>
        loc'[t].pr = n /\ loc'[t].cand = loc[t].cand /\ loc'[t].branch = loc[t].branch
  BY <1>1 DEF Inv, TypeOK, HandsOn, Goto, Hold, Return
<1>8. InHandIsOwn' /\ BranchIsChosen'
  BY <1>2, <1>3, <1>6, <1>7 DEF new, Inv, Accounted, InHandIsOwn, BranchIsChosen
<1>9. HeadsAreKnown' /\ ReviewedHasNoPr'
  BY <1>1, <1>3 DEF new, Inv, Accounted, HeadsAreKnown, ReviewedHasNoPr
<1>10. OpenPrsAreAccounted'
  <2>1. n \in lost' \/ n \in InHand(t)'
    BY <1>1, <1>3 DEF Inv, TypeOK, InHand, Goto, Hold, Return
  <2>2. InHand(t) = {} /\ \A u \in Threads : u # t => InHand(u)' = InHand(u)
    BY <1>1, <1>6 DEF InHand
  <2> QED
    BY <1>1, <1>3, <2>1, <2>2 DEF Inv, Accounted, OpenPrsAreAccounted
<1>11. Activated'
  BY <1>1, ActivationKept
<1> QED
  BY <1>4, <1>5, <1>8, <1>9, <1>10, <1>11 DEF Inv, Accounted

\* A process leaves its pull request alone, for a reason.
LEMMA LeaveStep ==
  ASSUME Inv, NEW t \in Threads, Return(t), pc[t] # "idle",
         UNCHANGED <<database, runs, remote, prs, activation, pushes>>,
         lost \subseteq lost', lost' \subseteq Nat,
         \A n \in InHand(t) : prs[n].state # "OPEN" \/ n \in lost' \/ prs[n].heads # {prs[n].of.commit}
  PROVE  Inv'
<1> USE DEF Return, Goto
<1>1. TypeOK'
  BY DEF Inv, TypeOK, Labels, database, activation
<1>2. \A u \in Threads : pc'[u] # "idle" => u # t /\ pc'[u] = pc[u] /\ loc'[u] = loc[u]
  BY DEF Inv, TypeOK
<1>3. Coordinated'
  <2>1. Committed' \subseteq Committed
    BY <1>2 DEF Committed, Authorized
  <2> QED
    BY <2>1, NobodyNew DEF Inv, database
<1>4. InHandIsOwn' /\ BranchIsChosen' /\ HeadsAreKnown' /\ ReviewedHasNoPr'
  BY <1>2 DEF Inv, Accounted, InHandIsOwn, BranchIsChosen, HeadsAreKnown, ReviewedHasNoPr, HandsOn
<1>5. OpenPrsAreAccounted'
  <2>1. \A u \in Threads : u # t => InHand(u)' = InHand(u)
    BY DEF Inv, TypeOK, InHand
  <2> SUFFICES ASSUME NEW n \in DOMAIN prs, prs[n].state = "OPEN"
               PROVE  \/ runs[prs[n].of.id].pr = n
                      \/ \E u \in Threads : n \in InHand(u)'
                      \/ prs[n].heads # {prs[n].of.commit}
                      \/ n \in lost'
    BY DEF OpenPrsAreAccounted
  <2>2. CASE n \in InHand(t)
    BY <2>2
  <2>3. CASE \E u \in Threads : u # t /\ n \in InHand(u)
    BY <2>1, <2>3
  <2> QED
    BY <2>2, <2>3 DEF Inv, Accounted, OpenPrsAreAccounted
<1> QED
  BY <1>1, <1>3, <1>4, <1>5, ActivationKept DEF Inv, Accounted

\* A process goes on with its pull request.
LEMMA HandStep ==
  ASSUME Inv, NEW t \in Threads, NEW l \in HandsOn, pc[t] \in HandsOn, Go(t, l),
         UNCHANGED <<database, runs, github, activation, pushes>>
  PROVE  Inv'
<1> USE DEF Go, Goto
<1>1. TypeOK'
  BY DEF Inv, TypeOK, Labels, HandsOn, database, github, activation
<1>2. \A u \in Threads : /\ pc'[u] \in Authorized <=> pc[u] \in Authorized
                         /\ pc'[u] \in HandsOn <=> pc[u] \in HandsOn
                         /\ pc'[u] \in HandsOn \cup {"create"} <=> pc[u] \in HandsOn \cup {"create"}
  BY DEF Inv, TypeOK, Authorized, HandsOn
<1>3. Coordinated'
  <2>1. Committed' \subseteq Committed
    BY <1>2 DEF Committed, github
  <2> QED
    BY <2>1, NobodyNew DEF Inv, database
<1>4. InHandIsOwn' /\ BranchIsChosen' /\ HeadsAreKnown' /\ ReviewedHasNoPr'
  BY <1>2 DEF Inv, Accounted, InHandIsOwn, BranchIsChosen, HeadsAreKnown, ReviewedHasNoPr, github
<1>5. OpenPrsAreAccounted'
  <2>1. \A u \in Threads : InHand(u)' = InHand(u)
    BY <1>2 DEF InHand, HandsOn
  <2> QED
    BY <2>1 DEF Inv, Accounted, OpenPrsAreAccounted, github
<1> QED
  BY <1>1, <1>3, <1>4, <1>5, ActivationKept DEF Inv, Accounted

\* A refused pull request has had the head its branch has now.
LEMMA ViewStep == ASSUME Inv, NEW t \in Threads, View(t) PROVE Inv'
<1>1. pc[t] = "view" /\ UNCHANGED <<database, runs, github, activation, pushes>>
  BY DEF View
<1>2. CASE Go(t, "attach")
  BY <1>1, <1>2, HandStep DEF HandsOn
<1>3. CASE Return(t) /\ remote[loc[t].branch] # loc[t].cand.commit
  <2> DEFINE n == loc[t].pr
  <2>1. n \in DOMAIN prs /\ prs[n].of = loc[t].cand /\ prs[n].branch = loc[t].branch
    BY <1>1 DEF Inv, Accounted, InHandIsOwn, HandsOn
  <2>2. prs[n].state # "OPEN" \/ prs[n].heads # {prs[n].of.commit}
    BY <1>3, <2>1 DEF Inv, Accounted, HeadsAreKnown
  <2> QED
    BY <1>1, <1>3, <2>2, LeaveStep DEF InHand, Inv, TypeOK, github
<1> QED
  BY <1>2, <1>3 DEF View

LEMMA InterruptedStep == ASSUME Inv, NEW t \in Threads, Interrupted(t) PROVE Inv'
<1>1. InHand(t) \subseteq Nat
  BY CandidateTypes DEF Inv, InHand
<1> QED
  BY <1>1, LeaveStep DEF Interrupted, Inv, TypeOK

\* An attached pull request is the run's first.
LEMMA AttachStep == ASSUME Inv, NEW t \in Threads, Attach(t) PROVE Inv'
<1> DEFINE r == loc[t].cand.id
           n == loc[t].pr
<1>1. pc[t] = "attach" /\ UNCHANGED <<database, github, activation, pushes>>
  BY DEF Attach, AttachPr
<1>2. CASE Go(t, "close") /\ UNCHANGED runs
  BY <1>1, <1>2, HandStep DEF HandsOn
<1>3. CASE /\ runs[r].status = "PROMOTION_REVIEW" /\ Return(t)
           /\ runs' = [runs EXCEPT ![r].status = "PR_OPEN", ![r].pr = n]
  <2> USE DEF Return, Goto
  <2>1. r \in Ids /\ n \in Nat /\ n \in DOMAIN prs /\ prs[n].of.id = r
    BY <1>1, CandidateTypes DEF Inv, Accounted, InHandIsOwn, HandsOn
  <2>2. /\ runs' \in [Ids -> Run]
        /\ runs'[r].status = "PR_OPEN" /\ runs'[r].pr = n
        /\ \A i \in Ids : i # r => runs'[i] = runs[i]
    BY <1>3, <2>1 DEF Inv, TypeOK, Run
  <2>3. TypeOK'
    BY <1>1, <1>3, <2>2 DEF Inv, TypeOK, Labels, database, github, activation
  <2>4. \A u \in Threads : pc'[u] # "idle" => u # t /\ pc'[u] = pc[u] /\ loc'[u] = loc[u]
    BY <1>3 DEF Inv, TypeOK
  <2>5. Coordinated'
    <3>1. Committed' \subseteq Committed
      BY <1>1, <2>4 DEF Committed, Authorized, github
    <3> QED
      BY <1>1, <3>1, NobodyNew DEF Inv, database
  <2>6. InHandIsOwn' /\ BranchIsChosen' /\ HeadsAreKnown'
    BY <1>1, <2>4 DEF Inv, Accounted, InHandIsOwn, BranchIsChosen, HeadsAreKnown, HandsOn, github
  <2>7. ReviewedHasNoPr'
    BY <2>2 DEF Inv, Accounted, ReviewedHasNoPr
  <2>8. OpenPrsAreAccounted'
    <3>1. \A u \in Threads : u # t => InHand(u)' = InHand(u)
      BY <1>3 DEF Inv, TypeOK, InHand
    <3>2. InHand(t) = {n} /\ runs[r].pr \notin DOMAIN prs
      BY <1>1, <1>3, <2>1 DEF InHand, Inv, TypeOK, Accounted, ReviewedHasNoPr
    <3>3. \A m \in DOMAIN prs : prs[m].of.id \in Ids
      BY PrTypes DEF Inv
    <3> QED
      BY <1>1, <2>1, <2>2, <3>1, <3>2, <3>3 DEF Inv, Accounted, OpenPrsAreAccounted, github
  <2>9. Activated'
    BY <1>1, <1>3, <2>1, <2>2 DEF Inv, Activated, RecordedVersionIsLive, activation
  <2> QED
    BY <2>3, <2>5, <2>6, <2>7, <2>8, <2>9 DEF Inv, Accounted
<1> QED
  BY <1>2, <1>3 DEF Attach, AttachPr

\* Pull requests get heads and are settled; a process that ends has settled
\* its own.
LEMMA PrsStep ==
  ASSUME Inv, prs' \in Seq(PullRequest), DOMAIN prs' = DOMAIN prs,
         \A n \in DOMAIN prs :
           /\ prs'[n].of = prs[n].of /\ prs'[n].branch = prs[n].branch
           /\ prs[n].heads \subseteq prs'[n].heads
           /\ prs'[n].state = "OPEN" => prs[n].state = "OPEN",
         HeadsAreKnown', remote' \in [Branches -> Commits], pushes' \in Nat,
         UNCHANGED <<database, runs, lost, activation>>,
         \/ UNCHANGED <<pc, loc>>
         \/ \E t \in Threads : /\ pc[t] \in HandsOn /\ Return(t)
                               /\ prs'[loc[t].pr].state # "OPEN"
  PROVE  Inv'
<1> USE DEF Return, Goto
<1>1. TypeOK'
  BY DEF Inv, TypeOK, Labels, database, activation
<1>2. \A u \in Threads : pc'[u] # "idle" => pc'[u] = pc[u] /\ loc'[u] = loc[u]
  BY DEF Inv, TypeOK
<1>3. Coordinated'
  <2>1. Committed' \subseteq Committed
    BY <1>2 DEF Committed, Authorized
  <2> QED
    BY <2>1, NobodyNew DEF Inv, database
<1>4. InHandIsOwn' /\ BranchIsChosen' /\ ReviewedHasNoPr'
  BY <1>2 DEF Inv, Accounted, InHandIsOwn, BranchIsChosen, ReviewedHasNoPr, HandsOn
<1>5. OpenPrsAreAccounted'
  <2> SUFFICES ASSUME NEW n \in DOMAIN prs, prs'[n].state = "OPEN"
               PROVE  \/ runs[prs[n].of.id].pr = n
                      \/ \E u \in Threads : n \in InHand(u)'
                      \/ prs'[n].heads # {prs[n].of.commit}
                      \/ n \in lost
    BY DEF OpenPrsAreAccounted
  <2>1. remote[prs[n].branch] \in prs[n].heads
    BY DEF Inv, Accounted, HeadsAreKnown
  <2>2. \A u \in Threads : n \in InHand(u) => n \in InHand(u)'
    BY DEF Inv, TypeOK, InHand
  <2> QED
    BY <2>1, <2>2 DEF Inv, Accounted, OpenPrsAreAccounted
<1> QED
  BY <1>1, <1>3, <1>4, <1>5, ActivationKept DEF Inv, Accounted

LEMMA CloseStep == ASSUME Inv, NEW t \in Threads, Close(t) PROVE Inv'
<1> DEFINE n == loc[t].pr
<1>1. /\ pc[t] = "close" /\ Return(t) /\ UNCHANGED <<database, runs, remote, lost, activation, pushes>>
      /\ prs' = [prs EXCEPT ![n].state = IF @ = "OPEN" THEN "CLOSED" ELSE @]
  BY DEF Close
<1>2. n \in DOMAIN prs /\ prs[n] \in PullRequest
  BY <1>1, PrTypes DEF Inv, Accounted, InHandIsOwn, HandsOn
<1> DEFINE new == [prs[n] EXCEPT !.state = IF @ = "OPEN" THEN "CLOSED" ELSE @]
<1>3. /\ new \in PullRequest /\ new.state # "OPEN"
      /\ new.of = prs[n].of /\ new.branch = prs[n].branch /\ new.heads = prs[n].heads
  BY <1>2 DEF PullRequest
<1>4. prs' = [prs EXCEPT ![n] = new]
  BY <1>1
<1> HIDE DEF new
<1>5. prs' \in Seq(PullRequest) /\ DOMAIN prs' = DOMAIN prs
  BY <1>2, <1>3, <1>4, ExceptSeq DEF Inv, TypeOK
<1>6. prs'[n] = new /\ \A m \in DOMAIN prs : m # n => prs'[m] = prs[m]
  BY <1>2, <1>4 DEF Inv, TypeOK
<1>7. HeadsAreKnown'
  BY <1>1, <1>3, <1>5, <1>6 DEF Inv, Accounted, HeadsAreKnown
<1> QED
  BY <1>1, <1>2, <1>3, <1>5, <1>6, <1>7, PrsStep DEF Inv, TypeOK, HandsOn

LEMMA SettleStep ==
  ASSUME Inv, NEW n \in DOMAIN prs, NEW x \in {"MERGED", "CLOSED"}, Settle(n, x)
  PROVE  Inv'
<1>1. prs[n] \in PullRequest
  BY PrTypes DEF Inv
<1> DEFINE new == [prs[n] EXCEPT !.state = x]
<1>2. /\ new \in PullRequest /\ new.state # "OPEN"
      /\ new.of = prs[n].of /\ new.branch = prs[n].branch /\ new.heads = prs[n].heads
  BY <1>1 DEF PullRequest
<1>3. prs' = [prs EXCEPT ![n] = new] /\ UNCHANGED <<database, runs, remote, lost, pc, loc, activation, pushes>>
  BY DEF Settle
<1> HIDE DEF new
<1>4. prs' \in Seq(PullRequest) /\ DOMAIN prs' = DOMAIN prs
  BY <1>2, <1>3, ExceptSeq DEF Inv, TypeOK
<1>5. prs'[n] = new /\ \A m \in DOMAIN prs : m # n => prs'[m] = prs[m]
  BY <1>3 DEF Inv, TypeOK
<1>6. HeadsAreKnown'
  BY <1>2, <1>3, <1>4, <1>5 DEF Inv, Accounted, HeadsAreKnown
<1> QED
  BY <1>2, <1>3, <1>4, <1>5, <1>6, PrsStep DEF Inv, TypeOK

LEMMA PushStep ==
  ASSUME Inv, NEW b \in Branches, NEW c \in Commits, Push(b, c) PROVE Inv'
<1> DEFINE new(n) == IF n \in OpenOn(b) THEN [prs[n] EXCEPT !.heads = @ \cup {c}] ELSE prs[n]
<1>1. \A n \in DOMAIN prs :
        /\ new(n) \in PullRequest
        /\ new(n).of = prs[n].of /\ new(n).branch = prs[n].branch /\ new(n).state = prs[n].state
        /\ new(n).heads = IF n \in OpenOn(b) THEN prs[n].heads \cup {c} ELSE prs[n].heads
  BY PrTypes DEF Inv, PullRequest
<1>2. /\ prs' = [n \in DOMAIN prs |-> new(n)] /\ remote' = [remote EXCEPT ![b] = c]
      /\ pushes' = pushes + 1 /\ UNCHANGED <<database, runs, lost, pc, loc, activation>>
  BY DEF Push
<1> HIDE DEF new
<1>3. DOMAIN prs = 1..Len(prs) /\ Len(prs) \in Nat
  BY DEF Inv, TypeOK
<1>4. prs' \in Seq(PullRequest) /\ DOMAIN prs' = DOMAIN prs
  <2>1. prs' = [n \in 1..Len(prs) |-> new(n)]
    BY <1>2, <1>3
  <2>2. prs' \in [1..Len(prs) -> PullRequest]
    BY <1>1, <1>3, <2>1
  <2> QED
    BY <1>3, <2>2, SeqDef
<1>5. \A n \in DOMAIN prs : prs'[n] = new(n)
  BY <1>2
<1>6. HeadsAreKnown'
  <2> SUFFICES ASSUME NEW n \in DOMAIN prs, prs[n].state = "OPEN"
               PROVE  remote'[prs[n].branch] \in new(n).heads
    BY <1>1, <1>4, <1>5 DEF HeadsAreKnown
  <2>1. remote[prs[n].branch] \in prs[n].heads /\ prs[n].branch \in Branches
    BY PrTypes DEF Inv, Accounted, HeadsAreKnown
  <2>2. prs[n].branch = b => n \in OpenOn(b)
    BY DEF OpenOn
  <2> QED
    BY <1>1, <1>2, <2>1, <2>2 DEF Inv, TypeOK
<1>7. remote' \in [Branches -> Commits] /\ pushes' \in Nat
  BY <1>2 DEF Inv, TypeOK
<1> QED
  BY <1>1, <1>2, <1>4, <1>5, <1>6, <1>7, PrsStep

LEMMA RecordMergeStep == ASSUME Inv, NEW r \in Ids, RecordMerge(r) PROVE Inv'
<1>1. /\ runs' = [runs EXCEPT ![r].status = "MERGED"] /\ runs[r].status = "PR_OPEN"
      /\ UNCHANGED <<database, github, pc, loc, activation, pushes>>
  BY DEF RecordMerge
<1>2. /\ runs' \in [Ids -> Run] /\ runs'[r].status = "MERGED" /\ runs'[r].pr = runs[r].pr
      /\ \A i \in Ids : i # r => runs'[i] = runs[i]
  BY <1>1 DEF Inv, TypeOK, Run
<1>3. TypeOK'
  BY <1>1, <1>2 DEF Inv, TypeOK, database, github, activation
<1>4. Coordinated'
  BY <1>1 DEF Inv, Coordinated, Committed, database, github
<1>5. Accounted'
  <2>1. \A m \in DOMAIN prs : prs[m].of.id \in Ids
    BY PrTypes DEF Inv
  <2>2. \A m \in DOMAIN prs : runs'[prs[m].of.id].pr = runs[prs[m].of.id].pr
    BY <1>2, <2>1
  <2>3. OpenPrsAreAccounted'
    BY <1>1, <2>2 DEF Inv, Accounted, OpenPrsAreAccounted, InHand, github
  <2> QED
    BY <1>1, <1>2, <2>3 DEF Inv, Accounted, InHandIsOwn, BranchIsChosen, HeadsAreKnown,
       ReviewedHasNoPr, github
<1>6. Activated'
  BY <1>1, <1>2 DEF Inv, Activated, RecordedVersionIsLive, activation
<1> QED
  BY <1>3, <1>4, <1>5, <1>6 DEF Inv

\* A step of an activation that records nothing.
LEMMA CallbackStep ==
  ASSUME Inv, UNCHANGED <<database, runs, github, pc, loc, recorded, pushes>>,
         live' \in {live, act, recorded}, apc' \in Phases, act' \in Ids \cup {Base},
         live' = live \/ apc # "idle",
         apc' # "idle" => act' \in Ids /\ runs[act'].status = "MERGED",
         apc' = "reportActive" => live' = act',
         apc' = "reportRolledBack" => live' = recorded
  PROVE  Inv'
<1>1. TypeOK'
  BY DEF Inv, TypeOK, database, github
<1>2. Coordinated'
  BY DEF Inv, Coordinated, Committed, database, github
<1>3. Accounted'
  BY DEF Inv, Accounted, InHandIsOwn, BranchIsChosen, HeadsAreKnown, ReviewedHasNoPr,
     OpenPrsAreAccounted, InHand, github
<1>4. Activated'
  BY DEF Inv, Activated, RecordedVersionIsLive
<1> QED
  BY <1>1, <1>2, <1>3, <1>4 DEF Inv

LEMMA ActivationStep ==
  ASSUME Inv,
         \/ \E r \in Ids : Activate(r)
         \/ CallActivate \/ Verify \/ Canary \/ Confirm \/ Rollback \/ VerifyBack
         \/ ActivatorDies
  PROVE  Inv'
<1> USE CallbackStep DEF Callback, Unmoved, Phases
<1>1. live \in {live, act, recorded} /\ act \in Ids \cup {Base}
  BY DEF Inv, TypeOK
<1>2. apc # "idle" => act \in Ids /\ runs[act].status = "MERGED"
  BY DEF Inv, Activated
<1>3. CASE \E r \in Ids : Activate(r)
  BY <1>1, <1>3 DEF Activate
<1>4. CASE CallActivate
  BY <1>1, <1>2, <1>4 DEF CallActivate
<1>5. CASE Verify
  BY <1>1, <1>2, <1>5 DEF Verify
<1>6. CASE Canary
  BY <1>1, <1>2, <1>6 DEF Canary
<1>7. CASE Confirm
  BY <1>1, <1>2, <1>7 DEF Confirm
<1>8. CASE Rollback
  BY <1>1, <1>2, <1>8 DEF Rollback
<1>9. CASE VerifyBack
  BY <1>1, <1>2, <1>9 DEF VerifyBack
<1>10. CASE ActivatorDies
  BY <1>1, <1>2, <1>10 DEF ActivatorDies
<1> QED
  BY <1>3, <1>4, <1>5, <1>6, <1>7, <1>8, <1>9, <1>10

LEMMA RecordActivationStep == ASSUME Inv, RecordActivation PROVE Inv'
<1> DEFINE v == IF apc = "reportActive" THEN act ELSE recorded
           s == IF apc = "reportActive" THEN "ACTIVE" ELSE "ROLLED_BACK"
<1>1. /\ apc \in {"reportActive", "reportRolledBack"} /\ apc' = "idle" /\ recorded' = v
      /\ runs' = [runs EXCEPT ![act].status = s, ![act].version = v]
      /\ UNCHANGED <<database, github, pc, loc, live, act, pushes>>
  BY DEF RecordActivation
<1>2. live = v /\ act \in Ids /\ runs[act].status = "MERGED" /\ v \in Ids \cup {Base}
  BY <1>1 DEF Inv, Activated, TypeOK
<1>3. s \in {"ACTIVE", "ROLLED_BACK"}
  OBVIOUS
<1> HIDE DEF v, s
<1>4. /\ runs' \in [Ids -> Run] /\ runs'[act].status = s /\ runs'[act].pr = runs[act].pr
      /\ \A i \in Ids : i # act => runs'[i] = runs[i]
  BY <1>1, <1>2, <1>3 DEF Inv, TypeOK, Run
<1>5. TypeOK'
  BY <1>1, <1>2, <1>4 DEF Inv, TypeOK, Phases, database, github
<1>6. Coordinated'
  BY <1>1 DEF Inv, Coordinated, Committed, database, github
<1>7. Accounted'
  <2>1. \A m \in DOMAIN prs : prs[m].of.id \in Ids
    BY PrTypes DEF Inv
  <2>2. \A m \in DOMAIN prs : runs'[prs[m].of.id].pr = runs[prs[m].of.id].pr
    BY <1>4, <2>1
  <2>3. OpenPrsAreAccounted'
    BY <1>1, <2>2 DEF Inv, Accounted, OpenPrsAreAccounted, InHand, github
  <2> QED
    BY <1>1, <1>3, <1>4, <2>3 DEF Inv, Accounted, InHandIsOwn, BranchIsChosen, HeadsAreKnown,
       ReviewedHasNoPr, github
<1>8. Activated'
  BY <1>1, <1>2 DEF Activated, RecordedVersionIsLive
<1> QED
  BY <1>5, <1>6, <1>7, <1>8 DEF Inv
-----------------------------------------------------------------------------
LEMMA StepInv == ASSUME Inv, [Next]_promotionVars PROVE Inv'
<1>1. CASE UNCHANGED promotionVars
  <2>1. UNCHANGED <<registered, selections, runs, remote, prs, lost, pc, loc, live, recorded,
                    apc, act, pushes>>
    BY <1>1 DEF promotionVars, database, github, activation
  <2>2. TypeOK' /\ Coordinated' /\ Activated'
    BY <2>1 DEF Inv, TypeOK, Coordinated, Committed, Activated, RecordedVersionIsLive
  <2>3. Accounted'
    BY <2>1 DEF Inv, Accounted, InHandIsOwn, BranchIsChosen, HeadsAreKnown, ReviewedHasNoPr,
       OpenPrsAreAccounted, InHand
  <2> QED
    BY <2>2, <2>3 DEF Inv
<1>2. ASSUME NEW t \in Threads, Coordinate(t) PROVE Inv'
  BY <1>2, BeginStep, InsertStep, ChooseStep, AuthorizeStep, SelectedStep, RemoteHeadStep,
     CreateStep, ViewStep, AttachStep, CloseStep, InterruptedStep DEF Coordinate
<1>3. CASE OnGitHub
  BY <1>3, PushStep, SettleStep DEF OnGitHub
<1>4. CASE Deploy
  BY <1>4, RecordMergeStep, ActivationStep, RecordActivationStep DEF Deploy
<1> QED
  BY <1>1, <1>2, <1>3, <1>4 DEF Next

\* The inductive invariant: coordination, pull requests and activation.
THEOREM SpecInv == Spec => []Inv
BY InitInv, StepInv, PTL DEF Spec

\* The pull requests of a baseline commit are of one candidate, the one that
\* is registered, for every number of processes and candidates.
THEOREM OneCandidate == Spec => []OneCandidatePerParent
<1>1. Inv => OneCandidatePerParent
  BY DEF Inv, Coordinated, Committed, OneCandidatePerParent
<1> QED
  BY <1>1, SpecInv, PTL

\* No open pull request is forgotten, interruptions and moved heads apart.
THEOREM PrsAccounted == Spec => []OpenPrsAreAccounted
<1>1. Inv => OpenPrsAreAccounted
  BY DEF Inv, Accounted
<1> QED
  BY <1>1, SpecInv, PTL

\* What runs is what was recorded last, or the version of a merged run.
THEOREM LiveIsRecorded == Spec => []RecordedVersionIsLive
<1>1. Inv => RecordedVersionIsLive
  BY DEF Inv, Activated
<1> QED
  BY <1>1, SpecInv, PTL
=============================================================================
