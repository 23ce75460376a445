----------------------- MODULE GitDiffCheckpoint_proofs -----------------------
(***************************************************************************)
(* Theorems about commit-driven maintenance, for any number of overlapping *)
(* rescans, paths, contents, commits and any event limit:                  *)
(*   TypeCorrect     every variable keeps its type;                        *)
(*   Covered         while no range diff fails, the checkpoint moves past  *)
(*                   no commit that was not routed;                        *)
(*   ResetsForeign   while cat-file answers, a checkpoint is re-baselined  *)
(*                   only when its commit is lost;                         *)
(*   RescansEnd      a rescan that goes on whenever it can comes to an end.*)
(* And for two rescans that overlap as they like:                          *)
(*   CheckpointCatchesUp  once the repository is quiet and the rescans     *)
(*                   calm, the checkpoint reaches HEAD and stays there.    *)
(***************************************************************************)
EXTENDS GitDiffCheckpoint, WellFoundedInduction, TLAPS

-----------------------------------------------------------------------------
(* Type correctness. *)

\* The events of a diff are events.
LEMMA ChangesType == ASSUME NEW t \in Tree, NEW u \in Tree PROVE Changes(t, u) \subseteq Event
  BY DEF Changes, Kind, Event, Tree

LEMMA NoScanType == NoScan \in Scan
  BY DEF NoScan, Scan

\* A rescan moves to any well-typed progress.
LEMMA GoType == ASSUME NEW r \in Rescans, NEW s \in Scan, scan \in [Rescans -> Scan], Go(r, s)
                PROVE  scan' \in [Rescans -> Scan]
  BY DEF Go

LEMMA TypeInit == Init => TypeOK
<1> SUFFICES ASSUME Init PROVE TypeOK
  OBVIOUS
<1>1. PICK t \in Tree : tree = [c \in Commit |-> t] /\ work = t
  BY DEF Init
<1>2. 1 \in Commit
  BY CommitsAssumption DEF Commit
<1>3. scan \in [Rescans -> Scan]
  BY NoScanType DEF Init
<1>4. anc \in [Commit -> SUBSET Commit]
  BY <1>2 DEF Init
<1> QED
  BY <1>1, <1>2, <1>3, <1>4 DEF Init, TypeOK

\* A new commit is well typed when its tree and its ancestors are.
LEMMA NewCommitType == ASSUME TypeOK, NEW t \in Tree, NEW A \in SUBSET Commit, NewCommit(t, A)
                       PROVE  /\ made' \in Commit /\ head' \in Commit
                              /\ anc' \in [Commit -> SUBSET Commit]
                              /\ tree' \in [Commit -> Tree]
<1>1. made + 1 \in Commit
  BY CommitsAssumption DEF TypeOK, Commit, NewCommit
<1>2. A \cup {made + 1} \in SUBSET Commit
  BY <1>1
<1> QED
  BY <1>1, <1>2 DEF TypeOK, NewCommit

\* What the developer and git do keeps the types.
LEMMA TypeRepository == TypeOK /\ Repository => TypeOK'
<1> SUFFICES ASSUME TypeOK, Repository PROVE TypeOK'
  OBVIOUS
<1>1. ASSUME NEW p \in Paths, NEW v \in Versions, Edit(p, v) PROVE TypeOK'
  BY <1>1 DEF Edit, TypeOK, Tree
<1>2. ASSUME NEW P \in SUBSET Paths, CommitFiles(P) PROVE TypeOK'
  <2> DEFINE t == [p \in Paths |-> IF p \in P THEN work[p] ELSE tree[head][p]]
  <2>1. t \in Tree
    BY DEF TypeOK, Tree
  <2>2. NewCommit(t, anc[head]) /\ UNCHANGED work
    BY <1>2 DEF CommitFiles
  <2>3. anc[head] \in SUBSET Commit
    BY DEF TypeOK
  <2> HIDE DEF t
  <2> QED
    BY <2>1, <2>2, <2>3, NewCommitType DEF TypeOK, NewCommit
<1>3. ASSUME NEW c \in Commit, NEW t \in Tree, Merge(c, t) PROVE TypeOK'
  <2>1. NewCommit(t, anc[head] \cup anc[c]) /\ work' = t
    BY <1>3 DEF Merge
  <2>2. anc[head] \cup anc[c] \in SUBSET Commit
    BY DEF TypeOK
  <2> QED
    BY <2>1, <2>2, NewCommitType DEF TypeOK, NewCommit
<1>4. ASSUME NEW c \in Commit, NEW keep \in BOOLEAN, MoveHead(c, keep) PROVE TypeOK'
  BY <1>4 DEF MoveHead, TypeOK
<1>5. ASSUME NEW c \in Commit, Prune(c) PROVE TypeOK'
  BY <1>5 DEF Prune, TypeOK
<1>6. ASSUME CommitOrphan PROVE TypeOK'
  <2>1. NewCommit(work, {}) /\ UNCHANGED work
    BY <1>6 DEF CommitOrphan
  <2>2. work \in Tree
    BY DEF TypeOK
  <2> QED
    BY <2>1, <2>2, NewCommitType DEF TypeOK, NewCommit
<1> QED
  BY <1>1, <1>2, <1>3, <1>4, <1>5, <1>6 DEF Repository

\* A commit's ancestors are commits, and so are the merge bases.
LEMMA MergeBasesType == ASSUME TypeOK, NEW c \in Commit, NEW d \in Commit
                        PROVE  /\ MergeBases(c, d) \subseteq Commit
                               /\ MergeBases(c, d) \subseteq anc[c] \cap anc[d]
  BY DEF MergeBases, CommonAncestors, TypeOK

\* Where a scan stands says which of its answers are in.
Staged(s) ==
    s.stage # "idle" =>
        /\ s.prev \in Commit
        /\ s.stage \in {"base", "exists", "range"} => s.head \in Commit
        /\ s.stage \in {"head", "snapshot", "base", "exists"} => s.base = None

\* TypeOK and what a rescan's stage implies.
Typed == TypeOK /\ \A r \in Rescans : Staged(scan[r])

\* A rescan that moves on alone keeps the types.
LEMMA TypedGo == ASSUME Typed, NEW r \in Rescans, NEW s \in Scan, Staged(s), Go(r, s),
                        UNCHANGED repo,
                        checkpoint' \in Commit \cup {None}, covered' \subseteq Commit
                 PROVE  Typed'
<1>1. scan' \in [Rescans -> Scan]
  BY GoType DEF Typed, TypeOK
<1>2. TypeOK'
  BY <1>1 DEF Typed, TypeOK, repo
<1>3. \A q \in Rescans : scan'[q] = IF q = r THEN s ELSE scan[q]
  BY DEF Go, Typed, TypeOK
<1> QED
  BY <1>2, <1>3 DEF Typed, Staged

\* A rescan starts.
LEMMA TypedStart == ASSUME Typed, NEW r \in Rescans, Start(r) PROVE Typed'
<1> DEFINE prev == IF checkpoint = None THEN head ELSE checkpoint
           s == [NoScan EXCEPT !.stage = "head", !.prev = prev]
<1>1. prev \in Commit
  BY DEF Typed, TypeOK
<1>2. s \in Scan /\ Staged(s)
  BY <1>1 DEF NoScan, Scan, Staged
<1>3. Go(r, s) /\ UNCHANGED repo /\ checkpoint' = prev
  BY DEF Start
<1>4. covered' \subseteq Commit
  BY DEF Start, Typed, TypeOK
<1> HIDE DEF s, prev
<1> QED
  BY <1>1, <1>2, <1>3, <1>4, TypedGo

\* A rescan ends.
LEMMA Ended == ASSUME NEW b \in BOOLEAN
               PROVE  [NoScan EXCEPT !.failed = b] \in Scan /\ Staged([NoScan EXCEPT !.failed = b])
  BY DEF NoScan, Scan, Staged

\* A rescan asks git, or crashes.
LEMMA TypedQuestion ==
  ASSUME Typed, NEW r \in Rescans,
         \/ NotAWorktree(r) \/ ReadHead(r) \/ Snapshot(r)
         \/ MergeBase(r) \/ CatFile(r) \/ RangeDiff(r) \/ Crash(r)
  PROVE  Typed'
<1> DEFINE s == scan[r]
<1>1. s \in Scan /\ Staged(s)
  BY DEF Typed, TypeOK
<1>2. checkpoint \in Commit \cup {None} /\ covered \subseteq Commit
  BY DEF Typed, TypeOK
<1>3. head \in Commit /\ tree \in [Commit -> Tree] /\ work \in Tree
  BY DEF Typed, TypeOK
<1>4. \A c : Failing(c) \subseteq BOOLEAN
  BY DEF Failing
<1> HIDE DEF s
<1>5. CASE NotAWorktree(r) \/ Crash(r)
  BY <1>2, <1>5, Ended, TypedGo DEF NotAWorktree, Crash
<1>6. CASE ReadHead(r)
  <2>1. PICK f \in Failing("head") :
          Go(r, [s EXCEPT !.stage = "snapshot", !.head = IF f THEN None ELSE head, !.failed = f])
    BY <1>6 DEF ReadHead, s
  <2> DEFINE n == [s EXCEPT !.stage = "snapshot", !.head = IF f THEN None ELSE head, !.failed = f]
  <2>2. s.stage = "head" /\ UNCHANGED <<repo, checkpoint, covered>>
    BY <1>6 DEF ReadHead, s
  <2>3. n \in Scan
    BY <1>1, <1>3, <1>4 DEF Scan
  <2>4. Staged(n)
    BY <1>1, <2>2 DEF Staged, Scan
  <2> HIDE DEF n
  <2> QED
    BY <1>2, <2>1, <2>2, <2>3, <2>4, TypedGo DEF n
<1>7. CASE Snapshot(r)
  <2>1. PICK f \in Failing("snapshot"), D \in SUBSET Changes(tree[head], work) :
          Go(r, [s EXCEPT !.stage = IF HeadChanged(s) THEN "base" ELSE "route",
                          !.dirty = D, !.failed = s.failed \/ f])
    <3>1. PICK f \in Failing("snapshot") :
            \E D \in IF f THEN SUBSET Changes(tree[head], work) ELSE {Changes(tree[head], work)} :
               Go(r, [s EXCEPT !.stage = IF HeadChanged(s) THEN "base" ELSE "route",
                               !.dirty = D, !.failed = s.failed \/ f])
      BY <1>7 DEF Snapshot, s
    <3>2. f \in BOOLEAN
      BY <1>4
    <3> QED
      BY <3>1, <3>2
  <2> DEFINE n == [s EXCEPT !.stage = IF HeadChanged(s) THEN "base" ELSE "route",
                            !.dirty = D, !.failed = s.failed \/ f]
  <2>2. s.stage = "snapshot" /\ UNCHANGED <<repo, checkpoint, covered>>
    BY <1>7 DEF Snapshot, s
  <2>3. D \subseteq Event
    BY <1>3, ChangesType
  <2>4. s.failed \/ f \in BOOLEAN
    BY <1>1, <1>4 DEF Scan
  <2>5. n \in Scan
    BY <1>1, <2>3, <2>4 DEF Scan
  <2>6. Staged(n)
    BY <1>1, <2>2 DEF Staged, Scan, HeadChanged
  <2> HIDE DEF n
  <2> QED
    BY <1>2, <2>1, <2>2, <2>5, <2>6, TypedGo DEF n
<1>8. CASE MergeBase(r)
  <2>1. s.stage = "base" /\ UNCHANGED <<repo, checkpoint, covered>>
    BY <1>8 DEF MergeBase, s
  <2>2. s.prev \in Commit /\ s.head \in Commit /\ s.base = None
    BY <1>1, <2>1 DEF Staged
  <2>3. ASSUME NEW f \in BOOLEAN, Go(r, [s EXCEPT !.stage = "exists", !.failed = s.failed \/ f])
        PROVE  Typed'
    <3> DEFINE n == [s EXCEPT !.stage = "exists", !.failed = s.failed \/ f]
    <3>1. n \in Scan /\ Staged(n)
      BY <1>1, <2>2 DEF Scan, Staged
    <3> HIDE DEF n
    <3> QED
      BY <1>2, <2>1, <2>3, <3>1, TypedGo DEF n
  <2>4. ASSUME NEW b \in MergeBases(s.prev, s.head), Go(r, [s EXCEPT !.stage = "range", !.base = b])
        PROVE  Typed'
    <3> DEFINE n == [s EXCEPT !.stage = "range", !.base = b]
    <3>1. b \in Commit
      BY <2>2, MergeBasesType DEF Typed
    <3>2. n \in Scan /\ Staged(n)
      BY <1>1, <2>2, <3>1 DEF Scan, Staged
    <3> HIDE DEF n
    <3> QED
      BY <1>2, <2>1, <2>4, <3>2, TypedGo DEF n
  <2> QED
    BY <1>4, <1>8, <2>3, <2>4 DEF MergeBase, s
<1>9. CASE CatFile(r)
  <2>1. PICK f \in Failing("catFile") :
          Go(r, [s EXCEPT !.stage = "route", !.foreign = f \/ s.prev \in gone,
                          !.failed = s.failed \/ f])
    BY <1>9 DEF CatFile, s
  <2> DEFINE n == [s EXCEPT !.stage = "route", !.foreign = f \/ s.prev \in gone,
                            !.failed = s.failed \/ f]
  <2>2. s.stage = "exists" /\ UNCHANGED <<repo, checkpoint, covered>>
    BY <1>9 DEF CatFile, s
  <2>3. n \in Scan /\ Staged(n)
    BY <1>1, <1>4, <2>2 DEF Scan, Staged
  <2> HIDE DEF n
  <2> QED
    BY <1>2, <2>1, <2>2, <2>3, TypedGo DEF n
<1>10. CASE RangeDiff(r)
  <2>1. PICK f \in Failing("range") :
          Go(r, [s EXCEPT !.stage = "route", !.range = IF f THEN {} ELSE RangeChanges(s),
                          !.failed = s.failed \/ f])
    BY <1>10 DEF RangeDiff, s
  <2> DEFINE n == [s EXCEPT !.stage = "route", !.range = IF f THEN {} ELSE RangeChanges(s),
                            !.failed = s.failed \/ f]
  <2>2. s.stage = "range" /\ UNCHANGED <<repo, checkpoint, covered>>
    BY <1>10 DEF RangeDiff, s
  <2>3. s.prev \in Commit /\ s.head \in Commit /\ s.base \in Commit \cup {None}
    BY <1>1, <2>2 DEF Staged, Scan
  <2>4. RangeChanges(s) \subseteq Event
    <3>1. CASE s.base = None
      BY <3>1 DEF RangeChanges
    <3>2. CASE s.base \in Commit
      <4>1. s.base # None
        BY <3>2, CommitsAssumption
      <4>2. tree[s.base] \in Tree /\ tree[s.head] \in Tree
        BY <1>3, <2>3, <3>2
      <4> QED
        BY <4>1, <4>2, ChangesType DEF RangeChanges
    <3> QED
      BY <2>3, <3>1, <3>2
  <2>5. n \in Scan /\ Staged(n)
    BY <1>1, <1>4, <2>2, <2>4 DEF Scan, Staged
  <2> HIDE DEF n
  <2> QED
    BY <1>2, <2>1, <2>2, <2>5, TypedGo DEF n
<1> QED
  BY <1>5, <1>6, <1>7, <1>8, <1>9, <1>10

\* The outcome is recorded.
LEMMA TypedRecord ==
  ASSUME Typed, NEW r \in Rescans, NEW o \in Outcomes(scan[r]), Record(r, o)
  PROVE  Typed'
<1> DEFINE s == scan[r]
           b == s.failed \/ o = "error"
<1>1. s \in Scan /\ b \in BOOLEAN
  BY DEF Typed, TypeOK, Scan
<1>2. s.stage = "route" /\ Go(r, [NoScan EXCEPT !.failed = b]) /\ UNCHANGED repo
  BY DEF Record
<1>3. checkpoint \in Commit \cup {None} /\ covered \subseteq Commit
      /\ anc \in [Commit -> SUBSET Commit]
  BY DEF Typed, TypeOK
<1>4. \/ UNCHANGED <<checkpoint, covered>>
      \/ /\ s.head # None /\ checkpoint' = s.head
         /\ covered' = covered \cup NewlyCovered(s, RouteStatus(s, o))
  BY DEF Record
<1> HIDE DEF b, s
<1>5. s.head \in Commit \cup {None}
  BY <1>1 DEF Scan
<1>6. checkpoint' \in Commit \cup {None}
  BY <1>3, <1>4, <1>5
<1>7. s.head # None => NewlyCovered(s, RouteStatus(s, o)) \subseteq Commit
  BY <1>3, <1>5 DEF NewlyCovered
<1>8. covered' \subseteq Commit
  BY <1>3, <1>4, <1>7
<1> QED
  BY <1>1, <1>2, <1>6, <1>8, Ended, TypedGo

\* Every step keeps Typed.
LEMMA TypedNext == Typed /\ [Next]_vars => Typed'
<1> SUFFICES ASSUME Typed, [Next]_vars PROVE Typed'
  OBVIOUS
<1>1. CASE Repository
  <2>1. TypeOK'
    BY <1>1, TypeRepository DEF Typed
  <2>2. UNCHANGED scan
    BY <1>1 DEF Repository, Edit, CommitFiles, Merge, MoveHead, Prune, CommitOrphan, NewCommit
  <2> QED
    BY <2>1, <2>2 DEF Typed, Staged
<1>2. ASSUME NEW r \in Rescans, Start(r) PROVE Typed'
  BY <1>2, TypedStart
<1>3. ASSUME NEW r \in Rescans, Proceeds(r) \/ Crash(r) PROVE Typed'
  BY <1>3, TypedQuestion, TypedRecord DEF Proceeds
<1>4. CASE UNCHANGED vars
  BY <1>4 DEF vars, Typed, TypeOK, Staged
<1> QED
  BY <1>1, <1>2, <1>3, <1>4 DEF Next

LEMMA TypedInit == Init => Typed
  BY TypeInit DEF Typed, Init, Staged, NoScan

LEMMA AlwaysTyped == Spec => []Typed
  BY TypedInit, TypedNext, PTL DEF Spec

\* Every variable keeps its type, and so does every event a diff yields
\* (addNameStatusEvents, addUntrackedEvents).
THEOREM TypeCorrect == Spec => []TypeOK
<1>1. Typed => TypeOK
  BY DEF Typed
<1> QED
  BY <1>1, AlwaysTyped, PTL

-----------------------------------------------------------------------------
(* The history only grows. *)

Made == 1 .. made

\* A set of commits with all their ancestors.
Closed(A) == A \subseteq Made /\ \A d \in A : anc[d] \subseteq A

History ==
    /\ head \in Made
    /\ \A c \in Made : c \in anc[c] /\ Closed(anc[c]) /\ anc[c] \subseteq 1 .. c

\* What a step of the repository leaves alone.
Grows ==
    /\ Made \subseteq Made'
    /\ \A c \in Made : anc'[c] = anc[c] /\ tree'[c] = tree[c]
    /\ gone \subseteq gone'

\* A new commit on a closed set of ancestors.
LEMMA NewCommitHistory ==
  ASSUME TypeOK, History, NEW t, NEW A, Closed(A), NewCommit(t, A)
  PROVE  History' /\ Grows
<1>1. PICK n, B : n = made + 1 /\ B = A \cup {n}
  OBVIOUS
<1>2. made \in Nat /\ made' = n /\ head' = n /\ n \in Commit /\ n \notin Made
  BY <1>1, CommitsAssumption DEF TypeOK, Commit, NewCommit, Made
<1>3. Made' = Made \cup {n} /\ Made \subseteq Commit
  BY <1>1, <1>2, CommitsAssumption DEF Made, Commit, TypeOK
<1>4. /\ \A c \in Made : anc'[c] = anc[c] /\ tree'[c] = tree[c]
      /\ anc'[n] = B
  BY <1>1, <1>2, <1>3 DEF TypeOK, NewCommit
<1>5. ASSUME NEW C, Closed(C) PROVE Closed(C)'
  BY <1>3, <1>4, <1>5 DEF Closed
<1>6. Closed(B)'
  BY <1>1, <1>3, <1>4 DEF Closed
<1>7. ASSUME NEW c \in Made PROVE c \in anc'[c] /\ Closed(anc[c])' /\ anc'[c] \subseteq 1 .. c
  <2>1. PICK C : C = anc[c]
    OBVIOUS
  <2>2. Closed(C) /\ c \in C /\ C \subseteq 1 .. c
    BY <2>1 DEF History
  <2>3. Closed(C)' /\ anc'[c] = C
    BY <1>4, <1>5, <2>1, <2>2
  <2> QED
    BY <2>2, <2>3 DEF Closed
<1>8. B \subseteq 1 .. n
  BY <1>1, <1>2 DEF Closed, Made
<1>9. \A c \in Made' : /\ c \in anc'[c] /\ anc'[c] \subseteq Made' /\ anc'[c] \subseteq 1 .. c
                       /\ \A d \in anc'[c] : anc'[d] \subseteq anc'[c]
  BY <1>1, <1>3, <1>4, <1>6, <1>7, <1>8 DEF Closed
<1>10. History'
  BY <1>2, <1>3, <1>9 DEF History, Closed
<1> QED
  BY <1>3, <1>4, <1>10 DEF Grows, NewCommit

LEMMA RepositoryHistory ==
  ASSUME TypeOK, History, Repository
  PROVE  History' /\ Grows /\ UNCHANGED <<checkpoint, scan, covered>>
<1>1. Closed(anc[head])
  BY DEF History
<1>2. ASSUME NEW p \in Paths, NEW v \in Versions, Edit(p, v)
      PROVE  History' /\ Grows /\ UNCHANGED <<checkpoint, scan, covered>>
  BY <1>2 DEF Edit, History, Grows, Made, Closed
<1>3. ASSUME NEW P \in SUBSET Paths, CommitFiles(P)
      PROVE  History' /\ Grows /\ UNCHANGED <<checkpoint, scan, covered>>
  BY <1>1, <1>3, NewCommitHistory DEF CommitFiles, NewCommit
<1>4. ASSUME NEW c \in Commit, NEW t \in Tree, Merge(c, t)
      PROVE  History' /\ Grows /\ UNCHANGED <<checkpoint, scan, covered>>
  <2>1. NewCommit(t, anc[head] \cup anc[c]) /\ c \in Made
    BY <1>4 DEF Merge, Exists, Made
  <2>2. Closed(anc[head] \cup anc[c])
    BY <1>1, <2>1 DEF History, Closed
  <2> QED
    BY <2>1, <2>2, NewCommitHistory DEF NewCommit
<1>5. ASSUME NEW c \in Commit, NEW keep \in BOOLEAN, MoveHead(c, keep)
      PROVE  History' /\ Grows /\ UNCHANGED <<checkpoint, scan, covered>>
  BY <1>5 DEF MoveHead, Exists, History, Grows, Made, Closed
<1>6. ASSUME NEW c \in Commit, Prune(c)
      PROVE  History' /\ Grows /\ UNCHANGED <<checkpoint, scan, covered>>
  BY <1>6 DEF Prune, History, Grows, Made, Closed
<1>7. ASSUME CommitOrphan
      PROVE  History' /\ Grows /\ UNCHANGED <<checkpoint, scan, covered>>
  <2>1. Closed({})
    BY DEF Closed
  <2> QED
    BY <1>7, <2>1, NewCommitHistory DEF CommitOrphan, NewCommit
<1> QED
  BY <1>2, <1>3, <1>4, <1>5, <1>6, <1>7 DEF Repository

-----------------------------------------------------------------------------
(* The checkpoint moves past routed commits only. *)

\* What a scan may rely on: the checkpoint it was given is covered, its merge base is
\* an ancestor of that checkpoint, and the range it routes is the whole range.
Inspected(s) ==
    s.stage # "idle" =>
        /\ s.prev \in Made /\ anc[s.prev] \subseteq covered
        /\ s.head \in Made \cup {None}
        /\ s.base # None => s.base \in anc[s.prev] /\ s.head # None
        /\ s.stage = "route" /\ s.base # None => s.range = RangeChanges(s)

CoveredInvariant ==
    /\ Typed
    /\ History
    /\ checkpoint # None => checkpoint \in Made
    /\ CheckpointCovered
    /\ \A r \in Rescans : Inspected(scan[r])

\* Covered commits stay covered, and what was made stays as it is.
LEMMA InspectedStays ==
  ASSUME CoveredInvariant, Grows, covered \subseteq covered', NEW s, Inspected(s)
  PROVE  Inspected(s)'
<1> SUFFICES ASSUME s.stage # "idle" PROVE Inspected(s)'
  BY DEF Inspected
<1>1. s.prev \in Made /\ anc[s.prev] \subseteq Made
  BY DEF Inspected, CoveredInvariant, History, Closed
<1>2. s.base # None => s.base \in Made /\ s.head \in Made
  BY <1>1, CommitsAssumption DEF Inspected, Made
<1>3. RangeChanges(s)' = RangeChanges(s)
  <2>1. CASE s.base = None
    BY <2>1 DEF RangeChanges
  <2>2. CASE s.base # None
    <3>1. tree'[s.base] = tree[s.base] /\ tree'[s.head] = tree[s.head]
      BY <1>2, <2>2 DEF Grows
    <3> QED
      BY <2>2, <3>1 DEF RangeChanges
  <2> QED
    BY <2>1, <2>2
<1> QED
  BY <1>1, <1>3 DEF Grows, Inspected

\* A rescan that moves on alone keeps the invariant, if its new progress does.
LEMMA InspectedGo ==
  ASSUME CoveredInvariant, Typed', NEW r \in Rescans, NEW s \in Scan, Inspected(s)', Go(r, s),
         UNCHANGED repo, covered \subseteq covered',
         checkpoint' # None => checkpoint' \in Made /\ anc[checkpoint'] \subseteq covered'
  PROVE  CoveredInvariant'
<1>1. Grows /\ History'
  BY DEF repo, Grows, History, Made, Closed, CoveredInvariant
<1>2. CheckpointCovered' /\ (checkpoint # None => checkpoint \in Made)'
  BY DEF repo, CheckpointCovered, Made
<1>3. ASSUME NEW q \in Rescans PROVE Inspected(scan[q])'
  <2>1. scan'[q] = IF q = r THEN s ELSE scan[q]
    BY DEF Go, CoveredInvariant, Typed, TypeOK
  <2>2. PICK t : t = scan'[q]
    OBVIOUS
  <2>3. t = s \/ t = scan[q]
    BY <2>1, <2>2
  <2>4. Inspected(t)'
    BY <1>1, <2>3, InspectedStays DEF CoveredInvariant
  <2> QED
    BY <2>2, <2>4 DEF Inspected, RangeChanges
<1> QED
  BY <1>1, <1>2, <1>3 DEF CoveredInvariant

LEMMA CoveredInit == Init => CoveredInvariant
<1> SUFFICES ASSUME Init PROVE CoveredInvariant
  OBVIOUS
<1>1. Made = {1} /\ 1 \in Commit
  BY CommitsAssumption DEF Init, Made, Commit
<1>2. anc[1] = {1}
  BY <1>1 DEF Init
<1>3. History
  BY <1>1, <1>2 DEF Init, History, Closed
<1> QED
  BY <1>3, TypedInit DEF Init, CoveredInvariant, CheckpointCovered, Inspected, NoScan

\* A rescan starts at the checkpoint, or makes HEAD the baseline.
LEMMA CoveredStart ==
  ASSUME CoveredInvariant, Typed', NEW r \in Rescans, Start(r)
  PROVE  CoveredInvariant'
<1>1. PICK prev : prev = IF checkpoint = None THEN head ELSE checkpoint
  OBVIOUS
<1>2. prev \in Made /\ prev \in Commit
  BY <1>1 DEF CoveredInvariant, History, Typed, TypeOK
<1>3. PICK s : s = [NoScan EXCEPT !.stage = "head", !.prev = prev]
  OBVIOUS
<1>4. s \in Scan
  BY <1>2, <1>3 DEF NoScan, Scan
<1>5. Go(r, s) /\ UNCHANGED repo /\ checkpoint' = prev
  BY <1>1, <1>3 DEF Start
<1>6. covered \subseteq covered' /\ anc[prev] \subseteq covered'
  BY <1>1 DEF Start, CoveredInvariant, CheckpointCovered
<1>7. s.prev = prev /\ s.head = None /\ s.base = None
  BY <1>3 DEF NoScan
<1>8. Inspected(s)'
  BY <1>2, <1>5, <1>6, <1>7 DEF Inspected, repo, Made
<1> QED
  BY <1>2, <1>4, <1>5, <1>6, <1>8, InspectedGo

\* A question changes the progress of one rescan only.
LEMMA InspectedAsks ==
  ASSUME CoveredInvariant, Typed', NEW r \in Rescans, NEW s \in Scan, Inspected(s), Go(r, s),
         UNCHANGED <<repo, checkpoint, covered>>
  PROVE  CoveredInvariant'
<1>1. Grows
  BY DEF repo, Grows, Made
<1>2. Inspected(s)'
  BY <1>1, InspectedStays
<1> QED
  BY <1>2, InspectedGo DEF CoveredInvariant, CheckpointCovered

LEMMA CoveredQuestion ==
  ASSUME "range" \notin Faults, CoveredInvariant, Typed', NEW r \in Rescans,
         \/ NotAWorktree(r) \/ ReadHead(r) \/ Snapshot(r)
         \/ MergeBase(r) \/ CatFile(r) \/ RangeDiff(r) \/ Crash(r)
  PROVE  CoveredInvariant'
<1>1. PICK s : s = scan[r]
  OBVIOUS
<1>2. s \in Scan /\ Staged(s) /\ Inspected(s)
  BY <1>1 DEF CoveredInvariant, Typed, TypeOK
<1>3. PICK n : n = scan'[r]
  OBVIOUS
<1>4. n \in Scan /\ Go(r, n) /\ UNCHANGED <<repo, checkpoint, covered>>
  <2>1. n \in Scan
    BY <1>3 DEF Typed, TypeOK
  <2>2. UNCHANGED <<repo, checkpoint, covered>>
    BY DEF NotAWorktree, ReadHead, Snapshot, MergeBase, CatFile, RangeDiff, Crash
  <2>3. \E m : Go(r, m)
    BY DEF NotAWorktree, ReadHead, Snapshot, MergeBase, CatFile, RangeDiff, Crash
  <2> QED
    BY <1>3, <2>1, <2>2, <2>3 DEF Go, CoveredInvariant, Typed, TypeOK
<1>5. \A m : Go(r, m) => n = m
  BY <1>3 DEF Go, CoveredInvariant, Typed, TypeOK
<1>6. CASE NotAWorktree(r) \/ Crash(r)
  <2>1. n.stage = "idle"
    BY <1>5, <1>6 DEF NotAWorktree, Crash, NoScan
  <2> QED
    BY <1>4, <2>1, InspectedAsks DEF Inspected
<1>7. CASE ReadHead(r)
  <2>1. \E f \in Failing("head") :
          n = [s EXCEPT !.stage = "snapshot", !.head = IF f THEN None ELSE head, !.failed = f]
    BY <1>1, <1>5, <1>7 DEF ReadHead
  <2>2. s.stage = "head" /\ head \in Made
    BY <1>1, <1>7 DEF ReadHead, CoveredInvariant, History
  <2>3. n.stage = "snapshot" /\ n.prev = s.prev /\ n.head \in Made \cup {None} /\ n.base = None
    BY <1>2, <2>1, <2>2 DEF Scan, Staged
  <2>4. Inspected(n)
    BY <1>2, <2>2, <2>3 DEF Inspected
  <2> QED
    BY <1>4, <2>4, InspectedAsks
<1>8. CASE Snapshot(r)
  <2>1. \E f, D : n = [s EXCEPT !.stage = IF HeadChanged(s) THEN "base" ELSE "route",
                                !.dirty = D, !.failed = s.failed \/ f]
    BY <1>1, <1>5, <1>8 DEF Snapshot
  <2>2. s.stage = "snapshot"
    BY <1>1, <1>8 DEF Snapshot
  <2>3. n.prev = s.prev /\ n.head = s.head /\ n.base = None
    BY <1>2, <2>1, <2>2 DEF Scan, Staged
  <2>4. Inspected(n)
    BY <1>2, <2>2, <2>3 DEF Inspected
  <2> QED
    BY <1>4, <2>4, InspectedAsks
<1>9. CASE MergeBase(r)
  <2>1. s.stage = "base" /\ s.prev \in Commit /\ s.head \in Commit /\ s.base = None
    BY <1>1, <1>2, <1>9 DEF MergeBase, Staged
  <2>2. \/ \E f : n = [s EXCEPT !.stage = "exists", !.failed = s.failed \/ f]
        \/ \E b \in MergeBases(s.prev, s.head) : n = [s EXCEPT !.stage = "range", !.base = b]
    BY <1>1, <1>5, <1>9 DEF MergeBase
  <2>3. /\ n.prev = s.prev /\ n.head = s.head /\ n.stage \in {"exists", "range"}
        /\ n.base \in MergeBases(s.prev, s.head) \cup {None}
    BY <1>2, <2>1, <2>2 DEF Scan
  <2>4. MergeBases(s.prev, s.head) \subseteq anc[s.prev]
    BY <2>1, MergeBasesType DEF CoveredInvariant, Typed
  <2>5. Inspected(n)
    BY <1>2, <2>1, <2>3, <2>4, CommitsAssumption DEF Inspected
  <2> QED
    BY <1>4, <2>5, InspectedAsks
<1>10. CASE CatFile(r)
  <2>1. s.stage = "exists" /\ s.base = None
    BY <1>1, <1>2, <1>10 DEF CatFile, Staged
  <2>2. \E f, g : n = [s EXCEPT !.stage = "route", !.foreign = g, !.failed = s.failed \/ f]
    BY <1>1, <1>5, <1>10 DEF CatFile
  <2>3. n.prev = s.prev /\ n.head = s.head /\ n.base = None
    BY <1>2, <2>1, <2>2 DEF Scan
  <2>4. Inspected(n)
    BY <1>2, <2>1, <2>3 DEF Inspected
  <2> QED
    BY <1>4, <2>4, InspectedAsks
<1>11. CASE RangeDiff(r)
  <2>1. s.stage = "range"
    BY <1>1, <1>11 DEF RangeDiff
  <2>2. \E f : n = [s EXCEPT !.stage = "route", !.range = RangeChanges(s),
                             !.failed = s.failed \/ f]
    BY <1>1, <1>5, <1>11 DEF RangeDiff, Failing
  <2>3. /\ n.prev = s.prev /\ n.head = s.head /\ n.base = s.base
        /\ n.range = RangeChanges(s)
    BY <1>2, <2>2 DEF Scan
  <2>4. RangeChanges(n) = RangeChanges(s)
    BY <2>3 DEF RangeChanges
  <2>5. Inspected(n)
    BY <1>2, <2>1, <2>3, <2>4 DEF Inspected
  <2> QED
    BY <1>4, <2>5, InspectedAsks
<1> QED
  BY <1>6, <1>7, <1>8, <1>9, <1>10, <1>11

\* A completed route: its range was available, so either there was none or it had a
\* merge base.
LEMMA CompletedRoute ==
  ASSUME NEW s, NEW o \in Outcomes(s), RouteStatus(s, o) \in Completed
  PROVE  ~Unavailable(s)
  BY DEF RouteStatus, Completed, Unavailable

\* A recorded outcome that moves the checkpoint covers every commit up to it.
LEMMA CoveredMove ==
  ASSUME CoveredInvariant, NEW s \in Scan, Inspected(s), s.stage = "route", s.head # None,
         NEW o \in Outcomes(s), Advances(s, RouteStatus(s, o))
  PROVE  anc[s.head] \subseteq covered \cup NewlyCovered(s, RouteStatus(s, o))
<1> DEFINE status == RouteStatus(s, o)
<1>1. CASE Resets(s, status)
  BY <1>1 DEF NewlyCovered
<1>2. CASE ~Resets(s, status)
  <2>1. status \in Completed
    BY <1>2 DEF Advances
  <2>2. ~Unavailable(s)
    BY <2>1, CompletedRoute
  <2>3. s.prev \in Made /\ anc[s.prev] \subseteq covered /\ s.prev # None
    BY CommitsAssumption DEF Inspected, CoveredInvariant, Typed, TypeOK, Made, Commit
  <2>4. CASE s.base = None
    <3>1. s.prev = s.head
      BY <2>2, <2>3, <2>4 DEF Unavailable, HeadChanged
    <3> QED
      BY <2>3, <3>1
  <2>5. CASE s.base # None
    <3>1. s.base \in anc[s.prev] /\ s.range = RangeChanges(s)
      BY <2>5 DEF Inspected
    <3>2. anc[s.base] \subseteq covered
      BY <2>3, <3>1 DEF CoveredInvariant, History, Closed
    <3>3. RangeChanges(s) \subseteq Events(s)
      BY <3>1 DEF Events
    <3>4. NewlyCovered(s, status) = anc[s.head] \ anc[s.base]
      BY <1>2, <2>1, <2>5, <3>3 DEF NewlyCovered
    <3> HIDE DEF status
    <3> QED
      BY <3>2, <3>4 DEF status
  <2> QED
    BY <2>4, <2>5
<1> QED
  BY <1>1, <1>2

LEMMA CoveredRecord ==
  ASSUME CoveredInvariant, Typed', NEW r \in Rescans, NEW o \in Outcomes(scan[r]), Record(r, o)
  PROVE  CoveredInvariant'
<1>1. PICK s, status : s = scan[r] /\ status = RouteStatus(s, o)
  OBVIOUS
<1>2. s \in Scan /\ Inspected(s) /\ s.stage = "route" /\ o \in Outcomes(s)
  BY <1>1 DEF CoveredInvariant, Typed, TypeOK, Record
<1>3. PICK n : n = [NoScan EXCEPT !.failed = s.failed \/ o = "error"]
  OBVIOUS
<1>4. Go(r, n) /\ UNCHANGED repo
  BY <1>1, <1>3 DEF Record
<1>5. n \in Scan /\ Inspected(n)'
  BY <1>2, <1>3 DEF NoScan, Scan, Inspected
<1>6. CASE UNCHANGED <<checkpoint, covered>>
  BY <1>4, <1>5, <1>6, InspectedGo DEF CoveredInvariant, CheckpointCovered
<1>7. CASE /\ s.head # None /\ Advances(s, status)
           /\ checkpoint' = s.head /\ covered' = covered \cup NewlyCovered(s, status)
  <2>1. anc[s.head] \subseteq covered'
    BY <1>1, <1>2, <1>7, CoveredMove
  <2>2. s.head \in Made
    BY <1>2, <1>7 DEF Inspected
  <2>3. covered \subseteq covered' /\ checkpoint' \in Made /\ anc[checkpoint'] \subseteq covered'
    BY <1>7, <2>1, <2>2
  <2> QED
    BY <1>4, <1>5, <2>3, InspectedGo DEF repo, Made
<1>8. \/ UNCHANGED <<checkpoint, covered>>
      \/ /\ s.head # None /\ Advances(s, status)
         /\ checkpoint' = s.head /\ covered' = covered \cup NewlyCovered(s, status)
  BY <1>1 DEF Record
<1> QED
  BY <1>6, <1>7, <1>8

LEMMA CoveredNext ==
  ASSUME "range" \notin Faults, CoveredInvariant, [Next]_vars
  PROVE  CoveredInvariant'
<1>1. Typed'
  BY TypedNext DEF CoveredInvariant
<1>2. CASE Repository
  <2>1. History' /\ Grows /\ UNCHANGED <<checkpoint, scan, covered>>
    BY <1>2, RepositoryHistory DEF CoveredInvariant, Typed
  <2>2. CheckpointCovered' /\ (checkpoint # None => checkpoint \in Made)'
    BY <2>1 DEF Grows, CheckpointCovered, CoveredInvariant
  <2>3. ASSUME NEW r \in Rescans PROVE Inspected(scan[r])'
    <3>1. PICK s : s = scan[r]
      OBVIOUS
    <3>2. Inspected(s)'
      BY <2>1, <3>1, InspectedStays DEF CoveredInvariant
    <3> QED
      BY <2>1, <3>1, <3>2 DEF Inspected, RangeChanges
  <2> QED
    BY <1>1, <2>1, <2>2, <2>3 DEF CoveredInvariant
<1>3. ASSUME NEW r \in Rescans, Start(r) PROVE CoveredInvariant'
  BY <1>1, <1>3, CoveredStart
<1>4. ASSUME NEW r \in Rescans, Proceeds(r) \/ Crash(r) PROVE CoveredInvariant'
  BY <1>1, <1>4, CoveredQuestion, CoveredRecord DEF Proceeds
<1>5. CASE UNCHANGED vars
  BY <1>1, <1>5 DEF vars, CoveredInvariant, CheckpointCovered, History, Closed, Made,
                    Inspected, RangeChanges
<1> QED
  BY <1>2, <1>3, <1>4, <1>5 DEF Next

\* While no range diff fails, the checkpoint moves past no commit the net changes of
\* whose range were not routed, for any number of overlapping rescans, whatever the
\* developer and git do between two questions, and whichever other command fails
\* (scanOnce, recordPluginGitDiffCheckpointRouteOutcome).
THEOREM Covered == ASSUME "range" \notin Faults PROVE Spec => []CheckpointCovered
<1>1. Init => CoveredInvariant
  BY CoveredInit
<1>2. CoveredInvariant /\ [Next]_vars => CoveredInvariant'
  BY CoveredNext
<1>3. CoveredInvariant => CheckpointCovered
  BY DEF CoveredInvariant
<1> QED
  BY <1>1, <1>2, <1>3, PTL DEF Spec

-----------------------------------------------------------------------------
(* Only a lost checkpoint is re-baselined. *)

\* A checkpoint found foreign is lost, and stays lost.
ForeignLost == \A r \in Rescans : scan[r].foreign => scan[r].prev \in gone

LEMMA ForeignNext ==
  ASSUME "catFile" \notin Faults, Typed, ForeignLost, [Next]_vars
  PROVE  ForeignLost'
<1> USE DEF Typed, TypeOK
<1>1. CASE Repository
  <2>1. gone \subseteq gone' /\ UNCHANGED scan
    BY <1>1 DEF Repository, Edit, CommitFiles, Merge, MoveHead, Prune, CommitOrphan, NewCommit
  <2> QED
    BY <2>1 DEF ForeignLost
<1>2. ASSUME NEW r \in Rescans, NEW n \in Scan, Go(r, n), UNCHANGED gone,
             n.foreign => n.prev \in gone
      PROVE  ForeignLost'
  BY <1>2 DEF Go, ForeignLost
<1>3. ASSUME NEW r \in Rescans, Start(r) \/ Proceeds(r) \/ Crash(r)
      PROVE  ForeignLost'
  <2>1. PICK s : s = scan[r]
    OBVIOUS
  <2>2. s \in Scan /\ (s.foreign => s.prev \in gone)
    BY <2>1 DEF ForeignLost
  <2>3. UNCHANGED gone
    BY <1>3 DEF Start, Proceeds, NotAWorktree, ReadHead, Snapshot, MergeBase, CatFile,
                RangeDiff, Record, Crash, repo
  <2>4. PICK n : n = scan'[r]
    OBVIOUS
  <2>5. \A m : Go(r, m) => n = m
    BY <2>4 DEF Go
  <2>6. \E m : Go(r, m)
    BY <1>3 DEF Start, Proceeds, NotAWorktree, ReadHead, Snapshot, MergeBase, CatFile,
                RangeDiff, Record, Crash
  <2>7. n.foreign => n.prev \in gone
    <3>1. CASE Start(r) \/ NotAWorktree(r) \/ Crash(r)
               \/ \E o \in Outcomes(scan[r]) : Record(r, o)
      BY <2>5, <3>1 DEF Start, NotAWorktree, Crash, Record, NoScan
    <3>2. CASE ReadHead(r)
      BY <2>1, <2>2, <2>5, <3>2 DEF ReadHead, Scan
    <3>3. CASE Snapshot(r)
      BY <2>1, <2>2, <2>5, <3>3 DEF Snapshot, Scan
    <3>4. CASE MergeBase(r)
      BY <2>1, <2>2, <2>5, <3>4 DEF MergeBase, Scan
    <3>5. CASE CatFile(r)
      BY <2>1, <2>2, <2>5, <3>5 DEF CatFile, Scan, Failing
    <3>6. CASE RangeDiff(r)
      BY <2>1, <2>2, <2>5, <3>6 DEF RangeDiff, Scan
    <3> QED
      BY <1>3, <3>1, <3>2, <3>3, <3>4, <3>5, <3>6 DEF Proceeds
  <2>8. n \in Scan /\ Go(r, n)
    BY <2>4, <2>5, <2>6, TypedNext
  <2> QED
    BY <1>2, <2>3, <2>7, <2>8
<1>4. CASE UNCHANGED vars
  BY <1>4 DEF vars, ForeignLost
<1> QED
  BY <1>1, <1>3, <1>4 DEF Next

\* While cat-file answers, an outcome over an unavailable range moves the checkpoint
\* only when the checkpoint's commit is lost: the commits of an existing history are
\* never written off (recordPluginGitDiffCheckpointRouteOutcome).
THEOREM ResetsForeign == ASSUME "catFile" \notin Faults PROVE Spec => ResetOnlyForeign
<1>1. Init => ForeignLost
  BY DEF Init, ForeignLost, NoScan
<1>2. Typed /\ ForeignLost /\ [Next]_vars => ForeignLost'
  BY ForeignNext
<1>3. ASSUME ForeignLost, NEW r \in Rescans, NEW o \in Outcomes(scan[r]), Record(r, o),
             checkpoint' # checkpoint, Unavailable(scan[r])
      PROVE  scan[r].prev \in gone
  <2>1. Advances(scan[r], RouteStatus(scan[r], o))
    BY <1>3 DEF Record
  <2>2. RouteStatus(scan[r], o) \notin Completed
    BY <1>3, CompletedRoute
  <2> QED
    BY <1>3, <2>1, <2>2 DEF Advances, Resets, ForeignLost
<1>4. ForeignLost /\ [Next]_vars =>
        [\A r \in Rescans :
            (\E outcome \in Outcomes(scan[r]) : Record(r, outcome))
            /\ checkpoint' # checkpoint /\ Unavailable(scan[r])
               => scan[r].prev \in gone]_vars
  BY <1>3
<1> QED
  BY <1>1, <1>2, <1>4, AlwaysTyped, PTL DEF Spec, ResetOnlyForeign

-----------------------------------------------------------------------------
(* Every rescan ends, and the checkpoint catches up. *)

\* Weak fairness of a rescan's next step is GoesOn, as the step is enabled while the
\* rescan runs (what ENABLED says of an action is out of the prover's reach, hence
\* the second hypothesis).
LEMMA FairGoesOn ==
  ASSUME NEW r \in Rescans
  PROVE  /\ WF_vars(Proceeds(r))
         /\ [](~(scan[r].stage = "idle") => ENABLED <<Proceeds(r)>>_vars)
         => GoesOn(r)
  BY PTL DEF GoesOn

\* A step of a rescan changes its own progress only.
LEMMA OwnStep ==
  ASSUME Typed, [Next]_vars, NEW r \in Rescans
  PROVE  scan'[r] = scan[r] \/ Start(r) \/ Proceeds(r) \/ Crash(r)
<1>1. ASSUME NEW q \in Rescans, q # r, NEW n, Go(q, n) PROVE scan'[r] = scan[r]
  BY <1>1 DEF Go, Typed, TypeOK
<1>2. ASSUME NEW q \in Rescans, Start(q) \/ Proceeds(q) \/ Crash(q) PROVE \E n : Go(q, n)
  BY <1>2 DEF Start, Proceeds, NotAWorktree, ReadHead, Snapshot, MergeBase, CatFile,
              RangeDiff, Record, Crash
<1>3. Repository \/ UNCHANGED vars => UNCHANGED scan
  BY DEF Repository, Edit, CommitFiles, Merge, MoveHead, Prune, CommitOrphan, NewCommit, vars
<1> QED
  BY <1>1, <1>2, <1>3 DEF Next

\* The stages a rescan goes through.
Following(stage) ==
    {"idle"} \cup
    CASE stage = "head" -> {"snapshot"}
      [] stage = "snapshot" -> {"base", "route"}
      [] stage = "base" -> {"exists", "range"}
      [] stage = "exists" -> {"route"}
      [] stage = "range" -> {"route"}
      [] OTHER -> {}

\* What an answer of git makes of a rescan's progress.
LEMMA Answered ==
  ASSUME Typed, NEW r \in Rescans, NEW s, NEW n, s = scan[r], n = scan'[r]
  PROVE  /\ s \in Scan /\ Staged(s) /\ s.failed \in BOOLEAN
         /\ ReadHead(r) =>
              /\ s.stage = "head" /\ n.stage = "snapshot" /\ n.prev = s.prev
              /\ n.failed \/ n.head = head
         /\ Snapshot(r) =>
              /\ s.stage = "snapshot" /\ n.stage = (IF HeadChanged(s) THEN "base" ELSE "route")
              /\ n.prev = s.prev /\ n.head = s.head
         /\ MergeBase(r) =>
              /\ s.stage = "base" /\ n.prev = s.prev /\ n.head = s.head
              /\ \/ n.stage = "exists" /\ (n.failed \/ MergeBases(s.prev, s.head) = {})
                 \/ n.stage = "range" /\ n.base \in MergeBases(s.prev, s.head)
         /\ CatFile(r) =>
              /\ s.stage = "exists" /\ n.stage = "route" /\ n.prev = s.prev /\ n.head = s.head
              /\ s.prev \in gone => n.foreign
         /\ RangeDiff(r) =>
              /\ s.stage = "range" /\ n.stage = "route"
              /\ n.prev = s.prev /\ n.head = s.head /\ n.base = s.base
<1>1. s \in Scan /\ Staged(s) /\ \A m : Go(r, m) => n = m
  BY DEF Go, Typed, TypeOK
<1>2. \A command : Failing(command) \subseteq BOOLEAN
  BY DEF Failing
<1>3. ASSUME ReadHead(r)
      PROVE  /\ s.stage = "head" /\ n.stage = "snapshot" /\ n.prev = s.prev
             /\ n.failed \/ n.head = head
  <2>1. PICK f \in Failing("head") :
          Go(r, [s EXCEPT !.stage = "snapshot", !.head = IF f THEN None ELSE head, !.failed = f])
    BY <1>3 DEF ReadHead
  <2>2. s.stage = "head"
    BY <1>3 DEF ReadHead
  <2>3. n = [s EXCEPT !.stage = "snapshot", !.head = IF f THEN None ELSE head, !.failed = f]
    BY <1>1, <2>1
  <2> QED
    BY <1>1, <1>2, <2>2, <2>3 DEF Scan
<1>4. ASSUME Snapshot(r)
      PROVE  /\ s.stage = "snapshot" /\ n.stage = (IF HeadChanged(s) THEN "base" ELSE "route")
             /\ n.prev = s.prev /\ n.head = s.head
  <2>1. \E f, D : n = [s EXCEPT !.stage = IF HeadChanged(s) THEN "base" ELSE "route",
                                !.dirty = D, !.failed = s.failed \/ f]
    BY <1>1, <1>4 DEF Snapshot
  <2>2. s.stage = "snapshot"
    BY <1>4 DEF Snapshot
  <2> QED
    BY <1>1, <2>1, <2>2 DEF Scan
<1>5. ASSUME MergeBase(r)
      PROVE  /\ s.stage = "base" /\ n.prev = s.prev /\ n.head = s.head
             /\ \/ n.stage = "exists" /\ (n.failed \/ MergeBases(s.prev, s.head) = {})
                \/ n.stage = "range" /\ n.base \in MergeBases(s.prev, s.head)
  <2>1. \/ \E f \in BOOLEAN :
             /\ f \/ MergeBases(s.prev, s.head) = {}
             /\ Go(r, [s EXCEPT !.stage = "exists", !.failed = s.failed \/ f])
        \/ \E b \in MergeBases(s.prev, s.head) : Go(r, [s EXCEPT !.stage = "range", !.base = b])
    BY <1>2, <1>5 DEF MergeBase
  <2>3. \/ \E f \in BOOLEAN :
             /\ f \/ MergeBases(s.prev, s.head) = {}
             /\ n = [s EXCEPT !.stage = "exists", !.failed = s.failed \/ f]
        \/ \E b \in MergeBases(s.prev, s.head) : n = [s EXCEPT !.stage = "range", !.base = b]
    BY <1>1, <2>1
  <2>2. s.stage = "base"
    BY <1>5 DEF MergeBase
  <2> QED
    BY <1>1, <2>2, <2>3 DEF Scan
<1>6. ASSUME CatFile(r)
      PROVE  /\ s.stage = "exists" /\ n.stage = "route" /\ n.prev = s.prev /\ n.head = s.head
             /\ s.prev \in gone => n.foreign
  <2>1. \E f, g : /\ s.prev \in gone => g
                 /\ n = [s EXCEPT !.stage = "route", !.foreign = g, !.failed = s.failed \/ f]
    BY <1>1, <1>6 DEF CatFile
  <2>2. s.stage = "exists"
    BY <1>6 DEF CatFile
  <2> QED
    BY <1>1, <2>1, <2>2 DEF Scan
<1>7. ASSUME RangeDiff(r)
      PROVE  /\ s.stage = "range" /\ n.stage = "route"
             /\ n.prev = s.prev /\ n.head = s.head /\ n.base = s.base
  <2>1. \E f, R : n = [s EXCEPT !.stage = "route", !.range = R, !.failed = s.failed \/ f]
    BY <1>1, <1>7 DEF RangeDiff
  <2>2. s.stage = "range"
    BY <1>7 DEF RangeDiff
  <2> QED
    BY <1>1, <2>1, <2>2 DEF Scan
<1>8. s.failed \in BOOLEAN
  BY <1>1 DEF Scan
<1> QED
  BY <1>1, <1>3, <1>4, <1>5, <1>6, <1>7, <1>8

LEMMA Progresses ==
  ASSUME Typed, NEW r \in Rescans, Proceeds(r) \/ Crash(r)
  PROVE  scan[r].stage # "idle" /\ scan'[r].stage \in Following(scan[r].stage)
<1>1. PICK s, n : s = scan[r] /\ n = scan'[r]
  OBVIOUS
<1>2. \A m : Go(r, m) => n = m
  BY <1>1 DEF Go, Typed, TypeOK
<1>3. CASE NotAWorktree(r) \/ Crash(r) \/ \E o \in Outcomes(scan[r]) : Record(r, o)
  BY <1>1, <1>2, <1>3 DEF NotAWorktree, Crash, Record, NoScan, Following
<1>4. CASE ReadHead(r) \/ Snapshot(r) \/ MergeBase(r) \/ CatFile(r) \/ RangeDiff(r)
  BY <1>1, <1>4, Answered DEF Following
<1> QED
  BY <1>3, <1>4 DEF Proceeds

\* The rescan is over, again and again.
EndsAgain(r) == []<>(scan[r].stage = "idle")

\* A rescan whose steps are taken ends, again and again, whatever the repository does
\* and whichever command fails (scanOnce asks a bounded number of questions).
THEOREM RescansEnd ==
  ASSUME NEW r \in Rescans PROVE Spec /\ GoesOn(r) => EndsAgain(r)
<1> DEFINE At(stage) == scan[r].stage = stage
<1>1. Typed => At("idle") \/ At("head") \/ At("snapshot") \/ At("base") \/ At("exists")
               \/ At("range") \/ At("route")
  BY DEF Typed, TypeOK, Scan
<1>2. Typed /\ [Next]_vars /\ ~At("idle")
      => scan'[r].stage = scan[r].stage \/ scan'[r].stage \in Following(scan[r].stage)
  BY OwnStep, Progresses DEF Start
<1>3. Typed /\ <<Proceeds(r)>>_vars => scan'[r].stage \in Following(scan[r].stage)
  BY Progresses
<1>4. At("head") => Following(scan[r].stage) = {"idle", "snapshot"}
  BY DEF Following
<1>5. At("snapshot") => Following(scan[r].stage) = {"idle", "base", "route"}
  BY DEF Following
<1>6. At("base") => Following(scan[r].stage) = {"idle", "exists", "range"}
  BY DEF Following
<1>7. At("exists") \/ At("range") => Following(scan[r].stage) = {"idle", "route"}
  BY DEF Following
<1>8. At("route") => Following(scan[r].stage) = {"idle"}
  BY DEF Following
<1>11. Typed /\ [Next]_vars /\ At("head") => At("head")' \/ At("snapshot")' \/ At("idle")'
  BY <1>2, <1>4
<1>12. Typed /\ [Next]_vars /\ At("snapshot")
       => At("snapshot")' \/ At("base")' \/ At("route")' \/ At("idle")'
  BY <1>2, <1>5
<1>13. Typed /\ [Next]_vars /\ At("base")
       => At("base")' \/ At("exists")' \/ At("range")' \/ At("idle")'
  BY <1>2, <1>6
<1>14. Typed /\ [Next]_vars /\ At("exists") => At("exists")' \/ At("route")' \/ At("idle")'
  BY <1>2, <1>7
<1>15. Typed /\ [Next]_vars /\ At("range") => At("range")' \/ At("route")' \/ At("idle")'
  BY <1>2, <1>7
<1>16. Typed /\ [Next]_vars /\ At("route") => At("route")' \/ At("idle")'
  BY <1>2, <1>8
<1>21. Typed /\ <<Proceeds(r)>>_vars /\ At("head") => At("snapshot")' \/ At("idle")'
  BY <1>3, <1>4
<1>22. Typed /\ <<Proceeds(r)>>_vars /\ At("snapshot")
       => At("base")' \/ At("route")' \/ At("idle")'
  BY <1>3, <1>5
<1>23. Typed /\ <<Proceeds(r)>>_vars /\ At("base")
       => At("exists")' \/ At("range")' \/ At("idle")'
  BY <1>3, <1>6
<1>24. Typed /\ <<Proceeds(r)>>_vars /\ At("exists") => At("route")' \/ At("idle")'
  BY <1>3, <1>7
<1>25. Typed /\ <<Proceeds(r)>>_vars /\ At("range") => At("route")' \/ At("idle")'
  BY <1>3, <1>7
<1>26. Typed /\ <<Proceeds(r)>>_vars /\ At("route") => At("idle")'
  BY <1>3, <1>8
<1>30. GoesOn(r) <=> []<>At("idle") \/ []<><<Proceeds(r)>>_vars
  BY DEF GoesOn
<1> HIDE DEF At
<1>31. Spec /\ GoesOn(r) => []<>At("idle")
  BY <1>1, <1>11, <1>12, <1>13, <1>14, <1>15, <1>16, <1>21, <1>22, <1>23, <1>24, <1>25,
     <1>26, <1>30, AlwaysTyped, PTL DEF Spec
<1> QED
  BY <1>31 DEF At, EndsAgain

\* Steps keep the history.
LEMMA AlwaysHistory == Spec => [](Typed /\ History)
<1>1. Init => Typed /\ History
  <2>1. Init => CoveredInvariant
    BY CoveredInit
  <2> QED
    BY <2>1 DEF CoveredInvariant
<1>2. Typed /\ History /\ [Next]_vars => Typed' /\ History'
  <2> SUFFICES ASSUME Typed, History, [Next]_vars PROVE Typed' /\ History'
    OBVIOUS
  <2>1. UNCHANGED repo => History'
    BY DEF repo, History, Made, Closed
  <2>2. ASSUME NEW r \in Rescans, Start(r) \/ Proceeds(r) \/ Crash(r) PROVE UNCHANGED repo
    BY <2>2 DEF Start, Proceeds, NotAWorktree, ReadHead, Snapshot, MergeBase, CatFile,
                RangeDiff, Record, Crash
  <2>3. Repository => History'
    BY RepositoryHistory DEF Typed
  <2> QED
    BY <2>1, <2>2, <2>3, TypedNext DEF Next, vars, repo
<1> QED
  BY <1>1, <1>2, PTL DEF Spec

\* Commits with a common history have a merge base: a common ancestor made last.
LEMMA MergeBaseExists ==
  ASSUME Typed, History, NEW c \in Commit, c \notin gone, anc[c] \cap anc[head] # {}
  PROVE  MergeBases(c, head) # {}
<1> DEFINE S == anc[c] \cap anc[head]
           T == {made - b : b \in S}
<1>1. made \in Nat /\ S \subseteq Made
  BY DEF Typed, TypeOK, Commit, History, Closed
<1>2. T \subseteq Nat /\ T # {}
  BY <1>1 DEF Made
<1>3. PICK x \in T : \A y \in T : ~(<<y, x>> \in OpToRel(<, Nat))
  BY <1>2, NatLessThanWellFounded, WFMin, Zenon
<1>4. \A y \in T : ~(y < x)
  BY <1>2, <1>3 DEF OpToRel
<1>5. PICK b \in S : x = made - b
  OBVIOUS
<1>6. \A e \in S : b \in anc[e] => e = b
  <2> SUFFICES ASSUME NEW e \in S, b \in anc[e] PROVE e = b
    OBVIOUS
  <2>1. b <= e
    BY <1>1 DEF History, Made
  <2>2. made - e \in T /\ ~(made - e < made - b)
    BY <1>4, <1>5
  <2> QED
    BY <1>1, <2>1, <2>2 DEF Made
<1> QED
  BY <1>5, <1>6 DEF MergeBases, CommonAncestors

\* A step in calm times: the repository is quiet, nothing fails.
CalmStep == [Next]_vars /\ UNCHANGED repo /\ Typed /\ History /\ Calm /\ Calm'

\* A recorded outcome leaves the checkpoint alone or moves it to the HEAD inspected;
\* the latter, when the range was routed or the checkpoint is foreign.
LEMMA CalmRecord ==
  ASSUME Typed, Calm, Calm', NEW r \in Rescans, NEW o \in Outcomes(scan[r]), Record(r, o)
  PROVE  /\ scan[r].stage = "route" /\ scan'[r].stage = "idle"
         /\ checkpoint' \in {checkpoint, scan[r].head}
         /\ scan[r].head # None /\ scan[r].prev # scan[r].head
               /\ (scan[r].base # None \/ scan[r].foreign)
            => checkpoint' = scan[r].head
<1>1. PICK s, status : s = scan[r] /\ status = RouteStatus(s, o)
  OBVIOUS
<1>2. s \in Scan /\ s.stage = "route" /\ Staged(s) /\ s.prev # None /\ o \in Outcomes(s)
  BY <1>1, CommitsAssumption DEF Record, Typed, TypeOK, Staged
<1>3. scan'[r] = [NoScan EXCEPT !.failed = s.failed \/ o = "error"]
  BY <1>1 DEF Record, Go, Typed, TypeOK
<1>4. scan'[r].stage = "idle" /\ o # "error"
  BY <1>3 DEF NoScan, Calm
<1>5. ~Truncated(s)
  BY <1>1 DEF Calm
<1>6. ASSUME s.head # None, s.prev # s.head, s.base # None \/ s.foreign
      PROVE  Advances(s, status)
  <2>1. CASE s.base # None
    <3>1. ~Unavailable(s)
      BY <2>1 DEF Unavailable
    <3> QED
      BY <1>1, <1>4, <1>5, <3>1 DEF Advances, Completed, RouteStatus
  <2>2. CASE s.base = None
    <3>1. Unavailable(s)
      BY <1>2, <1>6, <2>2 DEF Unavailable, HeadChanged
    <3> QED
      BY <1>1, <1>5, <1>6, <2>2, <3>1 DEF Advances, Resets, RouteStatus
  <2> QED
    BY <2>1, <2>2
<1>7. checkpoint' \in {checkpoint, s.head}
      /\ (s.head # None /\ s.prev # s.head /\ Advances(s, status) => checkpoint' = s.head)
  BY <1>1 DEF Record
<1> QED
  BY <1>1, <1>2, <1>4, <1>6, <1>7

\* The HEAD a rescan has read is the present one.
Current(r) == scan[r].stage \notin {"idle", "head"} => scan[r].head = head

\* Once the repository is quiet it stays that.
LEMMA CurrentStays == ASSUME NEW r \in Rescans PROVE Current(r) /\ CalmStep => Current(r)'
<1> SUFFICES ASSUME Current(r), CalmStep PROVE Current(r)'
  OBVIOUS
<1>1. head' = head /\ ~scan'[r].failed /\ Typed /\ [Next]_vars
  BY DEF CalmStep, repo, Calm
<1>2. CASE scan'[r] = scan[r]
  BY <1>1, <1>2 DEF Current
<1>3. CASE Start(r)
  <2>1. scan'[r].stage = "head"
    BY <1>1, <1>3 DEF Start, Go, NoScan, Typed, TypeOK
  <2> QED
    BY <2>1 DEF Current
<1>4. CASE NotAWorktree(r) \/ Crash(r) \/ \E o \in Outcomes(scan[r]) : Record(r, o)
  <2>1. scan'[r].stage = "idle"
    BY <1>1, <1>4 DEF NotAWorktree, Crash, Record, Go, NoScan, Typed, TypeOK
  <2> QED
    BY <2>1 DEF Current
<1>5. CASE ReadHead(r) \/ Snapshot(r) \/ MergeBase(r) \/ CatFile(r) \/ RangeDiff(r)
  BY <1>1, <1>5, Answered DEF Current
<1> QED
  BY <1>1, <1>2, <1>3, <1>4, <1>5, OwnStep DEF Proceeds

\* While the rescans know the present HEAD, the checkpoint stays or moves to it.
LEMMA CheckpointStep ==
  ASSUME CalmStep, \A r \in Rescans : Current(r), checkpoint # None
  PROVE  checkpoint' = checkpoint \/ checkpoint' = head
<1>1. Typed /\ Calm /\ Calm' /\ [Next]_vars
  BY DEF CalmStep
<1>2. ASSUME NEW r \in Rescans, NEW o \in Outcomes(scan[r]), Record(r, o)
      PROVE  checkpoint' = checkpoint \/ checkpoint' = head
  BY <1>1, <1>2, CalmRecord DEF Current
<1>3. ASSUME NEW r \in Rescans,
             \/ Start(r) \/ NotAWorktree(r) \/ ReadHead(r) \/ Snapshot(r)
             \/ MergeBase(r) \/ CatFile(r) \/ RangeDiff(r) \/ Crash(r)
      PROVE  checkpoint' = checkpoint
  BY <1>3 DEF Start, NotAWorktree, ReadHead, Snapshot, MergeBase, CatFile, RangeDiff, Crash
<1>4. Repository \/ UNCHANGED vars => checkpoint' = checkpoint
  BY <1>1, RepositoryHistory DEF CalmStep, Typed, vars
<1> QED
  BY <1>1, <1>2, <1>3, <1>4 DEF Next, Proceeds

\* A rescan on its way to move the checkpoint to HEAD.
Catching(r) ==
    /\ scan[r].stage # "idle"
    /\ scan[r].prev = checkpoint /\ checkpoint \notin {None, head}
    /\ Current(r)
    /\ scan[r].stage = "exists" => checkpoint \in gone
    /\ scan[r].stage = "range" => scan[r].base # None
    /\ scan[r].stage = "route" => scan[r].base # None \/ scan[r].foreign

\* It goes on, or the checkpoint is at HEAD.
LEMMA CatchingStep ==
  ASSUME NEW r \in Rescans, CalmStep, \A q \in Rescans : Current(q), Catching(r)
  PROVE  Catching(r)' \/ checkpoint' = head'
<1>1. /\ Typed /\ History /\ Calm /\ Calm' /\ [Next]_vars
      /\ head' = head /\ gone' = gone /\ head \in Commit /\ head # None /\ ~scan'[r].failed
  BY CommitsAssumption DEF CalmStep, repo, Calm, Typed, TypeOK
<1> SUFFICES ASSUME checkpoint' = checkpoint PROVE Catching(r)' \/ checkpoint' = head
  BY <1>1, CheckpointStep DEF Catching
<1>2. Current(r)'
  BY CurrentStays
<1>3. PICK s, n : s = scan[r] /\ n = scan'[r]
  OBVIOUS
<1>4. /\ s.stage # "idle" /\ s.prev = checkpoint /\ checkpoint \in Commit /\ checkpoint # head
      /\ Staged(s)
  BY <1>1, <1>3, CommitsAssumption DEF Catching, Typed, TypeOK
<1>5. CASE n = s
  BY <1>1, <1>2, <1>3, <1>5 DEF Catching
<1>6. CASE NotAWorktree(r) \/ Crash(r)
  BY <1>1, <1>6 DEF NotAWorktree, Crash, Go, Typed, TypeOK, NoScan
<1>7. CASE ReadHead(r)
  BY <1>1, <1>2, <1>3, <1>4, <1>7, Answered DEF Catching
<1>8. CASE Snapshot(r)
  <2>1. HeadChanged(s)
    BY <1>1, <1>3, <1>4, <1>8, Answered, CommitsAssumption DEF HeadChanged, Catching, Current
  <2> QED
    BY <1>1, <1>2, <1>3, <1>4, <1>8, <2>1, Answered DEF Catching
<1>9. CASE MergeBase(r)
  <2>1. s.stage = "base" /\ s.head = head /\ n.prev = s.prev
    BY <1>1, <1>3, <1>9, Answered DEF Catching, Current
  <2>2. CASE n.stage = "exists" /\ MergeBases(s.prev, s.head) = {}
    <3>1. checkpoint \in gone
      BY <1>1, <1>4, <2>1, <2>2, MergeBaseExists, CommitsAssumption DEF Calm, Related
    <3> QED
      BY <1>1, <1>2, <1>3, <1>4, <2>1, <2>2, <3>1 DEF Catching
  <2>3. CASE n.stage = "range" /\ n.base \in MergeBases(s.prev, s.head)
    <3>1. n.base # None
      BY <1>1, <1>4, <2>1, <2>3, MergeBasesType, CommitsAssumption DEF Typed
    <3> QED
      BY <1>1, <1>2, <1>3, <1>4, <2>1, <2>3, <3>1 DEF Catching
  <2> QED
    BY <1>1, <1>3, <1>9, <2>2, <2>3, Answered
<1>10. CASE CatFile(r)
  BY <1>1, <1>2, <1>3, <1>4, <1>10, Answered DEF Catching
<1>11. CASE RangeDiff(r)
  BY <1>1, <1>2, <1>3, <1>4, <1>11, Answered DEF Catching
<1>12. ASSUME NEW o \in Outcomes(scan[r]), Record(r, o) PROVE checkpoint' = head
  <2>1. s.stage = "route" /\ s.head = head /\ (s.base # None \/ s.foreign)
    BY <1>3, <1>12 DEF Record, Catching, Current
  <2> QED
    BY <1>1, <1>3, <1>4, <1>12, <2>1, CalmRecord
<1>13. ~Start(r)
  BY <1>3, <1>4 DEF Start
<1> QED
  BY <1>1, <1>3, <1>5, <1>6, <1>7, <1>8, <1>9, <1>10, <1>11, <1>12, <1>13, OwnStep DEF Proceeds

\* A rescan that starts behind HEAD is on its way, or makes HEAD the baseline.
LEMMA CatchingStart ==
  ASSUME NEW r \in Rescans, CalmStep, Start(r)
  PROVE  Catching(r)' \/ checkpoint' = head'
<1>1. /\ Typed /\ head' = head /\ head \in Commit /\ head # None
      /\ checkpoint \in Commit \cup {None}
  BY CommitsAssumption DEF CalmStep, repo, Typed, TypeOK
<1>2. PICK prev : prev = IF checkpoint = None THEN head ELSE checkpoint
  OBVIOUS
<1>3. checkpoint' = prev /\ scan'[r] = [NoScan EXCEPT !.stage = "head", !.prev = prev]
  BY <1>1, <1>2 DEF Start, Go, Typed, TypeOK
<1>4. scan'[r].stage = "head" /\ scan'[r].prev = prev
  BY <1>3 DEF NoScan
<1> QED
  BY <1>1, <1>2, <1>3, <1>4 DEF Catching, Current

\* Two rescans that overlap in any way bring the checkpoint to HEAD, once the
\* repository is quiet and nothing fails any more: whatever a rescan read before is
\* gone when it ends, and the next one that starts behind HEAD routes its range, or
\* finds the checkpoint foreign (scanOnce, recordPluginGitDiffCheckpointRouteOutcome).
THEOREM CheckpointCatchesUp ==
  ASSUME NEW r1, NEW r2, Rescans = {r1, r2}
  PROVE  Spec /\ (\A r \in Rescans : GoesOn(r)) => CatchesUp
<1> DEFINE Idle(r) == scan[r].stage = "idle"
           Starts == \E r \in Rescans : Start(r)
           AtHead == checkpoint = head
<1>1. r1 \in Rescans /\ r2 \in Rescans
  OBVIOUS
<1>2. Typed /\ History /\ Calm /\ Calm' /\ [Next]_vars /\ [UNCHANGED repo]_vars => CalmStep
  BY DEF CalmStep, vars, repo
<1>3. (Idle(r1) => Current(r1)) /\ (Idle(r2) => Current(r2))
  BY DEF Current
<1>4. Current(r1) /\ CalmStep => Current(r1)'
  BY <1>1, CurrentStays
<1>5. Current(r2) /\ CalmStep => Current(r2)'
  BY <1>1, CurrentStays
<1>6. Current(r1) /\ Current(r2) => \A r \in Rescans : Current(r)
  OBVIOUS
<1>7. Current(r1) /\ Current(r2) /\ AtHead /\ CalmStep => AtHead'
  <2> SUFFICES ASSUME Current(r1), Current(r2), AtHead, CalmStep PROVE AtHead'
    OBVIOUS
  <2>1. head' = head /\ checkpoint # None
    BY CommitsAssumption DEF CalmStep, repo, Typed, TypeOK
  <2> QED
    BY <1>6, <2>1, CheckpointStep
<1>8. CalmStep /\ <<Starts>>_vars => Catching(r1)' \/ Catching(r2)' \/ AtHead'
  BY CatchingStart
<1>9. Current(r1) /\ Current(r2) /\ Catching(r1) /\ CalmStep => Catching(r1)' \/ AtHead'
  BY <1>1, <1>6, CatchingStep
<1>10. Current(r1) /\ Current(r2) /\ Catching(r2) /\ CalmStep => Catching(r2)' \/ AtHead'
  BY <1>1, <1>6, CatchingStep
<1>11. ~(Catching(r1) /\ Idle(r1)) /\ ~(Catching(r2) /\ Idle(r2))
  BY DEF Catching
<1>12. Spec /\ GoesOn(r1) => EndsAgain(r1)
  BY <1>1, RescansEnd
<1>13. Spec /\ GoesOn(r2) => EndsAgain(r2)
  BY <1>1, RescansEnd
<1>17. (EndsAgain(r1) <=> []<>Idle(r1)) /\ (EndsAgain(r2) <=> []<>Idle(r2))
  BY DEF EndsAgain
<1>14. (\A r \in Rescans : GoesOn(r)) => GoesOn(r1) /\ GoesOn(r2)
  BY <1>1
<1>15. Settles <=> []<><<Starts>>_vars /\ <>[][UNCHANGED repo]_vars /\ <>[]Calm
  BY DEF Settles
<1>16. CatchesUp <=> (Settles => <>[]AtHead)
  BY DEF CatchesUp
<1> HIDE DEF Idle, Starts, AtHead
<1> QED
  BY <1>2, <1>3, <1>4, <1>5, <1>7, <1>8, <1>9, <1>10, <1>11, <1>12, <1>13, <1>14, <1>15,
     <1>16, <1>17, AlwaysHistory, PTL DEF Spec
=============================================================================
