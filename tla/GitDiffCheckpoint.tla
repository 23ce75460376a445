-------------------------- MODULE GitDiffCheckpoint --------------------------
(***************************************************************************)
(* Commit-driven maintenance: how a rescan finds the source changes no     *)
(* rescan has looked at yet, has them routed to the recipes, and moves the *)
(* checkpoint of the folder to the commit it inspected.                    *)
(*                                                                         *)
(* A rescan reads the checkpoint row, then asks git one question after the *)
(* other, each an await: HEAD, the dirty files, the merge base with the    *)
(* checkpoint, the diff of the range.  The repository does not wait: the   *)
(* developer edits, commits, merges and resets between any two questions,  *)
(* git collects unreachable commits, and rescans overlap.  A git command   *)
(* that fails or times out answers the empty string.                       *)
(*                                                                         *)
(* Commits are numbered as they are made.  A tree gives each path its      *)
(* content; ignored paths are left out, the index follows the files, and   *)
(* a rename is a deletion and a creation.                                  *)
(***************************************************************************)
EXTENDS Naturals, FiniteSets

CONSTANTS
    Rescans,     \* rescans that may run at one time
    Paths,       \* dispatchable project paths
    Versions,    \* contents of a file
    Absent,      \* no file
    None,        \* null
    MaxCommits,  \* bound on the commits made
    MaxEvents,   \* GitDiffScanner.#maxEvents
    Faults       \* git commands that may fail

Commit == 1 .. MaxCommits

ASSUME CommitsAssumption == MaxCommits \in Nat \ {0} /\ None \notin Commit
ASSUME EventsAssumption == MaxEvents \in Nat \ {0}
ASSUME AbsentAssumption == Absent \in Versions
ASSUME FaultsAssumption ==
    Faults \subseteq {"inside", "head", "snapshot", "mergeBase", "catFile", "range"}

VARIABLES
    made,        \* commits made so far
    anc,         \* the ancestors of each commit, itself included
    tree,        \* the tree of each commit
    gone,        \* commits collected by git
    head,        \* HEAD
    work,        \* the working tree
    checkpoint,  \* checkpointCommit of the folder's row, None without a row
    scan,        \* the progress of each rescan
    covered      \* history: commits every net change of which was routed, or that
                 \* a baseline took as known

repo == <<made, anc, tree, gone, head, work>>
vars == <<made, anc, tree, gone, head, work, checkpoint, scan, covered>>

Tree == [Paths -> Versions]
Event == [type : {"created", "modified", "deleted"}, path : Paths]

Scan == [stage : {"idle", "head", "snapshot", "base", "exists", "range", "route"},
         prev : Commit \cup {None},      \* previousHead
         head : Commit \cup {None},      \* currentHead
         base : Commit \cup {None},      \* mergeBase
         foreign : BOOLEAN,              \* previousHeadMissing
         dirty : SUBSET Event,           \* events of the working tree
         range : SUBSET Event,           \* events of the HEAD range
         failed : BOOLEAN]               \* history: something failed in it

NoScan == [stage |-> "idle", prev |-> None, head |-> None, base |-> None,
           foreign |-> FALSE, dirty |-> {}, range |-> {}, failed |-> FALSE]

TypeOK ==
    /\ made \in Commit
    /\ anc \in [Commit -> SUBSET Commit]
    /\ tree \in [Commit -> Tree]
    /\ gone \subseteq Commit
    /\ head \in Commit
    /\ work \in Tree
    /\ checkpoint \in Commit \cup {None}
    /\ scan \in [Rescans -> Scan]
    /\ covered \subseteq Commit

\* A repository with one commit, and a folder no rescan has seen.
Init ==
    /\ made = 1
    /\ anc = [c \in Commit |-> IF c = 1 THEN {1} ELSE {}]
    /\ \E t \in Tree : tree = [c \in Commit |-> t] /\ work = t
    /\ gone = {}
    /\ head = 1
    /\ checkpoint = None
    /\ scan = [r \in Rescans |-> NoScan]
    /\ covered = {}

-----------------------------------------------------------------------------
(* What the scanner makes of git's answers.                                *)

\* addNameStatusEvents, addUntrackedEvents: the type of a change.
Kind(a, b) ==
    IF a = Absent THEN "created" ELSE IF b = Absent THEN "deleted" ELSE "modified"

\* The events of a diff.
Changes(t, u) ==
    {[type |-> Kind(t[p], u[p]), path |-> p] : p \in {q \in Paths : t[q] # u[q]}}

\* filterEvents: one event for each type and path, whichever source it came from.
Events(s) == s.dirty \cup s.range

Truncated(s) == Cardinality(Events(s)) > MaxEvents

HeadChanged(s) == s.prev # None /\ s.head # None /\ s.prev # s.head

\* headRangeStatus "unavailable".
Unavailable(s) == HeadChanged(s) /\ s.base = None

\* shouldRouteCommitDrivenMaintenance.
ShouldRoute(s) == Events(s) # {} /\ ~Truncated(s) /\ ~Unavailable(s)

\* What becomes of a dispatched batch: "complete" when every proposal was
\* submitted, "skipped" when the report only skips, "error" when a proposal is
\* unavailable, there is no handler, or it throws; "none" without a dispatch.
Outcomes(s) == IF ShouldRoute(s) THEN {"complete", "skipped", "error"} ELSE {"none"}

\* resolveRouteStatus.
RouteStatus(s, outcome) ==
    IF Truncated(s) THEN "truncated"
    ELSE IF Unavailable(s) THEN "unresolved"
    ELSE IF Events(s) = {} \/ outcome = "skipped" THEN "skipped"
    ELSE IF outcome = "error" THEN "failed"
    ELSE IF s.base \notin {None, s.prev} THEN "catch-up-routed"
    ELSE "routed"

Completed == {"skipped", "routed", "catch-up-routed"}

\* A checkpoint of another repository: re-baselined at the current HEAD.
Resets(s, status) == status = "unresolved" /\ s.foreign

\* Faulty: no re-baselining.
Advances_NoReset(s, status) == status \in Completed

\* recordPluginGitDiffCheckpointRouteOutcome and Core's recordRouteOutcome: does
\* the checkpoint move to the inspected HEAD?
Advances(s, status) == status \in Completed \/ Resets(s, status)

-----------------------------------------------------------------------------
(* The repository. *)

Exists(c) == c \in 1 .. made \ gone

\* A file is written or deleted.
Edit(p, v) ==
    /\ work[p] # v
    /\ work' = [work EXCEPT ![p] = v]
    /\ UNCHANGED <<made, anc, tree, gone, head, checkpoint, scan, covered>>

\* A new commit with tree t and the given ancestors becomes HEAD.
NewCommit(t, ancestors) ==
    /\ made < MaxCommits
    /\ made' = made + 1
    /\ anc' = [anc EXCEPT ![made + 1] = ancestors \cup {made + 1}]
    /\ tree' = [tree EXCEPT ![made + 1] = t]
    /\ head' = made + 1
    /\ UNCHANGED <<gone, checkpoint, scan, covered>>

\* The changed files of P are committed.
CommitFiles(P) ==
    /\ P # {}
    /\ \A p \in P : work[p] # tree[head][p]
    /\ NewCommit([p \in Paths |-> IF p \in P THEN work[p] ELSE tree[head][p]], anc[head])
    /\ UNCHANGED work

\* Commit c is merged into a clean HEAD.
Merge(c, t) ==
    /\ Exists(c) /\ c \notin anc[head] /\ head \notin anc[c]
    /\ work = tree[head]
    /\ \A p \in Paths : t[p] \in {tree[head][p], tree[c][p]}
    /\ NewCommit(t, anc[head] \cup anc[c])
    /\ work' = t

\* A history without a parent is begun.
CommitOrphan ==
    /\ NewCommit(work, {})
    /\ UNCHANGED work

\* HEAD moves to another commit; the files move with it, or stay (reset --soft).
MoveHead(c, keep) ==
    /\ Exists(c) /\ c # head
    /\ head' = c
    /\ work' = IF keep THEN work ELSE tree[c]
    /\ UNCHANGED <<made, anc, tree, gone, checkpoint, scan, covered>>

\* git collects a commit no later commit needs.  A commit that was HEAD while a
\* rescan ran is in the reflog and stays.
Prune(c) ==
    /\ Exists(c) /\ c # head
    /\ \A d \in Commit : Exists(d) /\ c \in anc[d] => d = c
    /\ \A r \in Rescans : scan[r].head # c
    /\ gone' = gone \cup {c}
    /\ UNCHANGED <<made, anc, tree, head, work, checkpoint, scan, covered>>

Repository ==
    \/ \E p \in Paths, v \in Versions : Edit(p, v)
    \/ \E P \in SUBSET Paths : CommitFiles(P)
    \/ \E c \in Commit : \/ \E t \in Tree : Merge(c, t)
                         \/ \E keep \in BOOLEAN : MoveHead(c, keep)
                         \/ Prune(c)
    \/ CommitOrphan

-----------------------------------------------------------------------------
(* A rescan. *)

Go(r, s) == scan' = [scan EXCEPT ![r] = s]

\* createPluginGitDiffCheckpointRuntime: a folder without a baseline gets the
\* current HEAD, the commits up to which count as known.
Start(r) ==
    LET prev == IF checkpoint = None THEN head ELSE checkpoint IN
    /\ scan[r].stage = "idle"
    /\ checkpoint' = prev
    /\ covered' = IF checkpoint = None THEN covered \cup anc[head] ELSE covered
    /\ Go(r, [NoScan EXCEPT !.stage = "head", !.prev = prev])
    /\ UNCHANGED repo

\* Does a command fail?  It does not, or it may.
Failing(command) == IF command \in Faults THEN BOOLEAN ELSE {FALSE}

\* rev-parse --is-inside-work-tree fails: nothing is scanned, nothing recorded.
NotAWorktree(r) ==
    /\ "inside" \in Faults
    /\ scan[r].stage = "head"
    /\ Go(r, [NoScan EXCEPT !.failed = TRUE])
    /\ UNCHANGED <<repo, checkpoint, covered>>

\* rev-parse HEAD.
ReadHead(r) ==
    /\ scan[r].stage = "head"
    /\ \E fails \in Failing("head") :
          Go(r, [scan[r] EXCEPT !.stage = "snapshot",
                                !.head = IF fails THEN None ELSE head,
                                !.failed = fails])
    /\ UNCHANGED <<repo, checkpoint, covered>>

\* #collectSnapshot: the files that differ from the HEAD of this moment, or some of
\* them when some of its commands fail.
Snapshot(r) ==
    LET s == scan[r]  all == Changes(tree[head], work) IN
    /\ s.stage = "snapshot"
    /\ \E fails \in Failing("snapshot") : \E D \in IF fails THEN SUBSET all ELSE {all} :
          Go(r, [s EXCEPT !.stage = IF HeadChanged(s) THEN "base" ELSE "route",
                          !.dirty = D, !.failed = s.failed \/ fails])
    /\ UNCHANGED <<repo, checkpoint, covered>>

\* git merge-base: of the common ancestors, one no other descends from.
CommonAncestors(c, d) == IF c \in gone THEN {} ELSE anc[c] \cap anc[d]

MergeBases(c, d) ==
    {b \in CommonAncestors(c, d) : \A e \in CommonAncestors(c, d) : b \in anc[e] => e = b}

MergeBase(r) ==
    LET s == scan[r] IN
    /\ s.stage = "base"
    /\ \E fails \in Failing("mergeBase") :
          IF fails \/ MergeBases(s.prev, s.head) = {}
          THEN Go(r, [s EXCEPT !.stage = "exists", !.failed = s.failed \/ fails])
          ELSE \E b \in MergeBases(s.prev, s.head) :
                  Go(r, [s EXCEPT !.stage = "range", !.base = b])
    /\ UNCHANGED <<repo, checkpoint, covered>>

\* Faulty: a checkpoint without a merge base is taken for foreign.
CatFile_Assumes(r) ==
    /\ scan[r].stage = "exists"
    /\ Go(r, [scan[r] EXCEPT !.stage = "route", !.foreign = TRUE])
    /\ UNCHANGED <<repo, checkpoint, covered>>

\* git cat-file: does the checkpoint's commit exist here at all?
CatFile(r) ==
    LET s == scan[r] IN
    /\ s.stage = "exists"
    /\ \E fails \in Failing("catFile") :
          Go(r, [s EXCEPT !.stage = "route", !.foreign = fails \/ s.prev \in gone,
                          !.failed = s.failed \/ fails])
    /\ UNCHANGED <<repo, checkpoint, covered>>

\* What changed from the merge base to the HEAD that was read.
RangeChanges(s) == IF s.base = None THEN {} ELSE Changes(tree[s.base], tree[s.head])

\* Faulty: the diff of the working tree instead of the range.
RangeDiff_Worktree(r) ==
    /\ scan[r].stage = "range"
    /\ Go(r, [scan[r] EXCEPT !.stage = "route", !.range = Changes(tree[head], work)])
    /\ UNCHANGED <<repo, checkpoint, covered>>

\* git diff base..HEAD.
RangeDiff(r) ==
    LET s == scan[r] IN
    /\ s.stage = "range"
    /\ \E fails \in Failing("range") :
          Go(r, [s EXCEPT !.stage = "route",
                          !.range = IF fails THEN {} ELSE RangeChanges(s),
                          !.failed = s.failed \/ fails])
    /\ UNCHANGED <<repo, checkpoint, covered>>

\* The commits a recorded route newly covers: all up to a baseline; those of the
\* range, if each of its net changes was among the events of a completed route.
NewlyCovered(s, status) ==
    IF Resets(s, status) THEN anc[s.head]
    ELSE IF status \in Completed /\ RangeChanges(s) \subseteq Events(s) /\ s.base # None
    THEN anc[s.head] \ anc[s.base]
    ELSE {}

\* The batch was routed or not; the outcome is recorded.  Nothing is written when
\* HEAD is unknown, or when there was nothing to inspect.
Record(r, outcome) ==
    LET s == scan[r]
        status == RouteStatus(s, outcome)
        unrecorded == s.head = None \/ (Events(s) = {} /\ s.prev = s.head)
    IN /\ s.stage = "route"
       /\ outcome \in Outcomes(s)
       /\ IF ~unrecorded /\ Advances(s, status)
          THEN checkpoint' = s.head /\ covered' = covered \cup NewlyCovered(s, status)
          ELSE UNCHANGED <<checkpoint, covered>>
       /\ Go(r, [NoScan EXCEPT !.failed = s.failed \/ outcome = "error"])
       /\ UNCHANGED repo

\* The process dies, or the rescan around the scan throws.
Crash(r) ==
    /\ scan[r].stage # "idle"
    /\ Go(r, [NoScan EXCEPT !.failed = TRUE])
    /\ UNCHANGED <<repo, checkpoint, covered>>

Proceeds(r) ==
    \/ NotAWorktree(r) \/ ReadHead(r) \/ Snapshot(r)
    \/ MergeBase(r) \/ CatFile(r) \/ RangeDiff(r)
    \/ \E outcome \in Outcomes(scan[r]) : Record(r, outcome)

Next ==
    \/ Repository
    \/ \E r \in Rescans : Start(r) \/ Proceeds(r) \/ Crash(r)

Spec == Init /\ [][Next]_vars

\* A rescan that runs takes its next step: every git command has a time limit, and a
\* dispatch answers or throws.
FairSpec == Spec /\ \A r \in Rescans : WF_vars(Proceeds(r))

\* The fairness of FairSpec with the guard of the step written out.
GoesOn(r) == []<>(scan[r].stage = "idle") \/ []<><<Proceeds(r)>>_vars

-----------------------------------------------------------------------------
(* Properties. *)

\* The checkpoint only moves past commits whose changes were routed: every commit up
\* to it belongs to a baseline or to a range each net change of which was among the
\* events of a completed route, however HEAD moves during the scan, whichever rescan
\* writes last and whatever is retried ("advances only routed ranges",
\* GitDiffCheckpoint.test.ts:74).
CheckpointCovered == checkpoint # None => anc[checkpoint] \subseteq covered

\* A rescan that found the checkpoint's commit only unrelated to HEAD, or could not
\* ask, leaves its range open: the commits of an existing history are never written
\* off as a new baseline (DurableGitDiffCheckpointRouting.ts:119).
ResetOnlyForeign ==
    [][\A r \in Rescans :
          (\E outcome \in Outcomes(scan[r]) : Record(r, outcome))
          /\ checkpoint' # checkpoint /\ Unavailable(scan[r])
             => scan[r].prev \in gone]_vars

\* The checkpoint and HEAD have a common history, or the checkpoint's is lost.
Related == checkpoint \in gone \cup {None} \/ anc[checkpoint] \cap anc[head] # {}

\* Nothing fails, and no batch is too large.
Calm == Related /\ \A r \in Rescans : ~scan[r].failed /\ ~Truncated(scan[r])

\* The project is rescanned again and again, and from some time on the repository
\* is quiet and the rescans are calm.
Settles ==
    /\ []<><<\E r \in Rescans : Start(r)>>_vars
    /\ <>[][UNCHANGED repo]_vars
    /\ <>[]Calm

\* Then the checkpoint reaches HEAD and stays there, whatever the rescans before
\* left: an open range, a checkpoint ahead of a reset HEAD, or one that was collected
\* ("the first lets the maintenance reset the baseline, else it loops unresolved for
\* ever", GitDiffScanner.ts:224).
CatchesUp == Settles => <>[](checkpoint = head)

=============================================================================
