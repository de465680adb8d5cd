---------------------------- MODULE GitWorkspace ----------------------------
(***************************************************************************)
(* The isolated Git worktree of one workflow, as git_workspace.py sees it: *)
(* HEAD, the index, the worktree and the candidate tags.  A file tree is   *)
(* one member of Contents; Base is the tree of the baseline commit and     *)
(* Stray are the trees that touch a path outside the contract's            *)
(* allowed_files.  A commit is known by the attempt it was prepared for    *)
(* and its tree (attempt 0 is the baseline).                               *)
(***************************************************************************)
EXTENDS Integers

CONSTANTS Contents, Base, Stray,
          AttemptCap    \* bound: attempts are numbered 1..AttemptCap

ASSUME ContentsAssumption == Base \in Contents /\ Stray \subseteq Contents \ {Base}
ASSUME AttemptCapAssumption == AttemptCap \in Nat \ {0}

Attempts == 1..AttemptCap

Commit == [att: -1..AttemptCap, tree: Contents]
BaseCommit == [att |-> 0, tree |-> Base]
NoCommit == [att |-> -1, tree |-> Base]

\* What prepare_candidate records in the attempt's artifact.
Prepared == [commit: Commit, parent: Commit]
NoPrepared == [commit |-> NoCommit, parent |-> NoCommit]

Worktree == [head: Commit, index: Contents, work: Contents,
             tags: [Attempts -> Commit]]
FreshWorktree == [head |-> BaseCommit, index |-> Base, work |-> Base,
                  tags |-> [a \in Attempts |-> NoCommit]]

\* git status --porcelain lists a path: the index differs from HEAD or the
\* worktree from the index.
HasChanges(g) == g.index # g.head.tree \/ g.work # g.index

ScopePassed(g) == HasChanges(g) /\ {g.index, g.work} \cap Stray = {}

\* HEAD and the worktree content of every changed path; the index content
\* is not part of the digest.
Fingerprints == [head: Commit, dirty: BOOLEAN, work: Contents]
CandidateFingerprint(g) ==
  [head |-> g.head, dirty |-> HasChanges(g), work |-> g.work]

\* git add, write-tree and commit-tree: the candidate is a commit object that
\* no ref names yet.
StageAll(g) == [g EXCEPT !.index = g.work]
PreparedCandidate(g, a) ==
  [commit |-> [att |-> a, tree |-> g.work], parent |-> g.head]

Tagged(g, a) == g.tags[a] # NoCommit

\* promote_prepared stops on incomplete metadata, on a tag that names another
\* commit, and on a HEAD or an index that moved since the preparation.
AlreadyPromoted(g, a, prep) ==
  prep # NoPrepared /\ Tagged(g, a) /\ g.tags[a] = prep.commit
CanUpdateRef(g, a, prep) ==
  /\ prep # NoPrepared
  /\ ~Tagged(g, a)
  /\ g.head = prep.parent
  /\ g.index = prep.commit.tree

SwitchTo(g, c) == [g EXCEPT !.head = c, !.index = c.tree, !.work = c.tree]

CanRestore(g) == {g.index, g.work} \cap Stray = {}
RestoreContractPaths(g) ==
  IF HasChanges(g) THEN [g EXCEPT !.index = Base, !.work = Base] ELSE g
=============================================================================
