----------------------- MODULE StagingSweep_proofs -----------------------
(***************************************************************************)
(* Theorems about StagingSweep, for any number of calls and projects, any  *)
(* intervals and any cap.                                                  *)
(*                                                                         *)
(* The inductive invariant adds to the types and to FlagTrue that the      *)
(* ages the code keeps are those of the history variables, and that the    *)
(* age a sweep compares with VectorInterval is never more than the true    *)
(* one.  ToolsContinue needs the types alone: nothing but its timer, or    *)
(* the end of its sweep, moves a call that waits.                          *)
(***************************************************************************)
EXTENDS StagingSweep, SequenceTheorems, TLAPS

\* The times of the code are the times of the history.
AgesTrue == sinceStart = lastSweep /\ sinceVector = lastVector

\* What a sweep remembers of the last reconcile is at most its age now.
VectorAgeTrue ==
    \A c \in Calls : sweep[c].stage \in Driver \cup {"vector"} =>
        sweep[c].vectorAge <= lastVector[sweep[c].project]

\* A call that waits, and a sweep that runs, have a project.
HaveProject ==
    \A c \in Calls : Sweeping(c) => sweep[c].project \in Projects

Invariant == TypeOK /\ HaveProject /\ FlagTrue /\ AgesTrue /\ VectorAgeTrue

---------------------------------------------------------------------------
(* Lemmas on the operators. *)

\* Horizon is one of the two intervals, and at least each of them.
LEMMA HorizonType ==
    Horizon \in Nat /\ MinInterval <= Horizon /\ VectorInterval <= Horizon
BY StagingSweepAssumption DEF Horizon

\* An age grows, within its type.
LEMMA OlderType ==
    ASSUME NEW age \in Age
    PROVE  Older(age) \in Age /\ age <= Older(age)
BY HorizonType DEF Older, Age

\* Dropping the first things of a list leaves a list.
LEMMA DropType ==
    ASSUME NEW s \in Seq(Items), NEW n \in Nat
    PROVE  SubSeq(s, n + 1, Len(s)) \in Seq(Items)
<1>1. Len(s) \in Nat
  OBVIOUS
<1>2. \A i \in (n + 1) .. Len(s) : s[i] \in Items
  BY <1>1, ElementOfSeq
<1> QED
  BY <1>1, <1>2, SubSeqProperties

\* The stage after a driver is another driver or the vector reconcile.
LEMMA AfterType ==
    ASSUME NEW d \in Driver
    PROVE  After[d] \in Driver \cup {"vector"}
BY DEF After, Driver

---------------------------------------------------------------------------
(* Type correctness. *)

\* The initial state has the types.
LEMMA TypeInit == Init => TypeOK
BY HorizonType, StagingSweepAssumption
   DEF Init, TypeOK, NoCall, NoSweep, Call, Sweep, Stage, Age

\* Settling a sweep keeps the types.
LEMMA SettleType ==
    ASSUME TypeOK, NEW c \in Calls, Settle(c)
    PROVE  /\ call' \in [Calls -> Call]
           /\ sweep' \in [Calls -> Sweep]
           /\ inFlight' \in [Projects -> Calls \cup {None}]
<1>1. NoSweep \in Sweep
  BY HorizonType DEF NoSweep, Sweep, Stage, Age
<1>2. \A x \in Call : [x EXCEPT !.phase = IF @ = "waiting" THEN "handling" ELSE @] \in Call
  BY DEF Call
<1>3. call' \in [Calls -> Call]
  BY <1>2 DEF TypeOK, Settle, Resume
<1>4. sweep' \in [Calls -> Sweep]
  BY <1>1 DEF TypeOK, Settle
<1>5. inFlight' \in [Projects -> Calls \cup {None}]
  BY DEF TypeOK, Settle
<1> QED
  BY <1>3, <1>4, <1>5

\* A step keeps the types.
LEMMA TypeStep == TypeOK /\ HaveProject /\ [Next]_vars => TypeOK'
<1> SUFFICES ASSUME TypeOK, HaveProject, [Next]_vars PROVE TypeOK'
  OBVIOUS
<1>1. ASSUME NEW c \in Calls, NEW p \in Projects, PassBy(c, p) \/ SkipSweep(c, p)
      PROVE  TypeOK'
  <2>1. [phase |-> "handling", project |-> p] \in Call
    BY DEF Call
  <2>2. /\ call' = [call EXCEPT ![c] = [phase |-> "handling", project |-> p]]
        /\ UNCHANGED <<sweep, inFlight, sinceStart, sinceVector, due, lastSweep, lastVector>>
    BY <1>1 DEF PassBy, SkipSweep, state, history
  <2> QED
    BY <2>1, <2>2 DEF TypeOK
<1>2. ASSUME NEW c \in Calls, NEW p \in Projects, StartSweep(c, p)
      PROVE  TypeOK'
  <2>1. [stage |-> "promote", project |-> p, vectorAge |-> sinceVector[p]] \in Sweep
    BY DEF TypeOK, Sweep, Stage, Driver
  <2>2. 0 \in Age
    BY HorizonType DEF Age
  <2> QED
    BY <1>2, <2>1, <2>2 DEF StartSweep, TypeOK, Call
<1>3. ASSUME NEW c \in Calls, EnvelopeElapsed(c) \/ Answer(c)
      PROVE  TypeOK'
  <2>1. \A x \in Call : [x EXCEPT !.phase = "handling"] \in Call
    BY DEF Call
  <2>2. NoCall \in Call
    BY DEF NoCall, Call
  <2> QED
    BY <1>3, <2>1, <2>2 DEF EnvelopeElapsed, Answer, TypeOK, state, history
<1>4. ASSUME NEW c \in Calls, RunDriver(c)
      PROVE  TypeOK'
  <2> DEFINE p == sweep[c].project
             d == sweep[c].stage
  <2>1. p \in Projects /\ d \in Driver
    BY <1>4 DEF RunDriver, HaveProject, Sweeping, Driver
  <2>2. due[p][d] \in Seq(Items)
    BY <2>1 DEF TypeOK
  <2>3. SubSeq(due[p][d], Cap + 1, Len(due[p][d])) \in Seq(Items)
    BY <2>2, DropType, StagingSweepAssumption
  <2>4. due' = [due EXCEPT ![p][d] = SubSeq(due[p][d], Cap + 1, Len(due[p][d]))]
    BY <1>4 DEF RunDriver
  <2>5. due' \in [Projects -> [Driver -> Seq(Items)]]
    BY <2>1, <2>3, <2>4 DEF TypeOK
  <2>6. [sweep[c] EXCEPT !.stage = After[d]] \in Sweep
    BY <2>1, AfterType DEF TypeOK, Sweep, Stage
  <2>7. sweep' \in [Calls -> Sweep]
    BY <1>4, <2>6 DEF RunDriver, TypeOK
  <2> QED
    BY <1>4, <2>5, <2>7 DEF RunDriver, TypeOK, state, history
<1>5. ASSUME NEW c \in Calls, DriverThrows(c)
      PROVE  TypeOK'
  <2> DEFINE p == sweep[c].project
             d == sweep[c].stage
  <2>1. p \in Projects /\ d \in Driver
    BY <1>5 DEF DriverThrows, HaveProject, Sweeping, Driver
  <2>2. due[p][d] \in Seq(Items)
    BY <2>1 DEF TypeOK
  <2>3. PICK n \in 0 .. Cap :
              due' = [due EXCEPT ![p][d] = SubSeq(due[p][d], n + 1, Len(due[p][d]))]
    BY <1>5 DEF DriverThrows
  <2>4. SubSeq(due[p][d], n + 1, Len(due[p][d])) \in Seq(Items)
    BY <2>2, DropType, StagingSweepAssumption
  <2>5. due' \in [Projects -> [Driver -> Seq(Items)]]
    BY <2>1, <2>3, <2>4 DEF TypeOK
  <2> QED
    BY <1>5, <2>5, SettleType DEF DriverThrows, TypeOK, history
<1>6. ASSUME NEW c \in Calls, EndWithoutReconcile(c) \/ EndReconcile(c)
      PROVE  TypeOK'
  BY <1>6, SettleType DEF EndWithoutReconcile, EndReconcile, TypeOK, history
<1>7. ASSUME NEW c \in Calls, StartReconcile(c)
      PROVE  TypeOK'
  <2>1. sweep[c].project \in Projects
    BY <1>7 DEF StartReconcile, HaveProject, Sweeping
  <2>2. [sweep[c] EXCEPT !.stage = "reconciling"] \in Sweep
    BY DEF TypeOK, Sweep, Stage
  <2> QED
    BY <1>7, <2>1, <2>2 DEF StartReconcile, TypeOK
<1>8. ASSUME NEW p \in Projects, NEW d \in Driver, NEW i \in WorkOf[d], BecomeDue(p, d, i)
      PROVE  TypeOK'
  <2>0. i \in Items
    BY StagingSweepAssumption DEF Driver
  <2>1. Append(due[p][d], i) \in Seq(Items)
    BY <2>0 DEF TypeOK
  <2> QED
    BY <1>8, <2>1 DEF BecomeDue, TypeOK, state, history
<1>9. CASE Tick
  BY <1>9, OlderType DEF Tick, TypeOK
<1>10. CASE UNCHANGED vars
  BY <1>10 DEF vars, TypeOK
<1> QED
  BY <1>1, <1>2, <1>3, <1>4, <1>5, <1>6, <1>7, <1>8, <1>9, <1>10 DEF Next, SweepStep

---------------------------------------------------------------------------
(* The flag, the ages, and what they make true of the sweeps. *)

\* The invariant holds in the initial state.
LEMMA InvariantInit == Init => Invariant
<1> SUFFICES ASSUME Init PROVE Invariant
  OBVIOUS
<1>1. TypeOK
  BY TypeInit
<1>2. \A c \in Calls : ~Sweeping(c)
  BY DEF Init, NoSweep, Sweeping
<1>3. \A c \in Calls : sweep[c].stage \notin Driver \cup {"vector"}
  BY DEF Init, NoSweep, Driver
<1>4. \A p \in Projects : inFlight[p] = None
  BY DEF Init
<1> QED
  BY <1>1, <1>2, <1>3, <1>4
     DEF Invariant, HaveProject, FlagTrue, AgesTrue, VectorAgeTrue, Init

\* A step that leaves the sweeps, their flags and the times alone keeps all that
\* is said of them.
LEMMA Untouched ==
    ASSUME Invariant, TypeOK', UNCHANGED <<sweep, inFlight, sinceStart, sinceVector, lastSweep, lastVector>>
    PROVE  Invariant'
BY DEF Invariant, HaveProject, FlagTrue, AgesTrue, VectorAgeTrue, Sweeping

\* Settling the sweep of c clears the flag of its project and no other.
LEMMA Settled ==
    ASSUME Invariant, TypeOK', NEW c \in Calls, Sweeping(c), Settle(c),
           UNCHANGED <<sinceStart, sinceVector, lastSweep, lastVector>>
    PROVE  Invariant'
<1> DEFINE p == sweep[c].project
<1>1. p \in Projects /\ inFlight[p] = c
  BY DEF Invariant, HaveProject, FlagTrue
<1>2. /\ sweep'[c] = NoSweep
      /\ \A d \in Calls \ {c} : sweep'[d] = sweep[d]
  BY DEF Settle, Invariant, TypeOK
<1>3. /\ inFlight'[p] = None
      /\ \A q \in Projects \ {p} : inFlight'[q] = inFlight[q]
  BY <1>1 DEF Settle, Invariant, TypeOK
<1>4. ~Sweeping(c)' /\ \A d \in Calls \ {c} : Sweeping(d)' = Sweeping(d)
  BY <1>2 DEF Sweeping, NoSweep
<1>5. HaveProject'
  BY <1>2, <1>4 DEF Invariant, HaveProject
<1>6. ASSUME NEW q \in Projects, inFlight'[q] # None
      PROVE  Sweeping(inFlight[q])' /\ sweep'[inFlight'[q]].project = q
  <2>1. q # p /\ inFlight'[q] = inFlight[q]
    BY <1>3, <1>6
  <2>2. Sweeping(inFlight[q]) /\ sweep[inFlight[q]].project = q
    BY <1>6, <2>1 DEF Invariant, FlagTrue
  <2>3. inFlight[q] \in Calls \ {c}
    BY <1>6, <2>1, <2>2 DEF Invariant, TypeOK
  <2> QED
    BY <1>2, <1>4, <2>1, <2>2, <2>3 DEF Sweeping
<1>7. ASSUME NEW d \in Calls, Sweeping(d)'
      PROVE  inFlight'[sweep'[d].project] = d
  <2>1. d # c /\ Sweeping(d) /\ sweep'[d] = sweep[d]
    BY <1>2, <1>4, <1>7
  <2>2. sweep[d].project \in Projects /\ inFlight[sweep[d].project] = d
    BY <2>1 DEF Invariant, HaveProject, FlagTrue
  <2>3. sweep[d].project # p
    BY <1>1, <2>1, <2>2
  <2> QED
    BY <1>3, <2>1, <2>2, <2>3
<1>8. FlagTrue'
  BY <1>6, <1>7 DEF FlagTrue, Sweeping
<1>9. AgesTrue' /\ VectorAgeTrue'
  BY <1>2 DEF Invariant, AgesTrue, VectorAgeTrue, NoSweep, Driver
<1> QED
  BY <1>5, <1>8, <1>9 DEF Invariant

\* Starting a sweep of p sets the flag of p, which was clear.
LEMMA Started ==
    ASSUME Invariant, TypeOK', NEW c \in Calls, NEW p \in Projects, StartSweep(c, p)
    PROVE  Invariant'
<1>1. /\ sweep'[c].stage = "promote" /\ sweep'[c].project = p
      /\ sweep'[c].vectorAge = sinceVector[p]
      /\ \A d \in Calls \ {c} : sweep'[d] = sweep[d]
  BY DEF StartSweep, Invariant, TypeOK
<1>2. /\ inFlight'[p] = c /\ inFlight[p] = None
      /\ \A q \in Projects \ {p} : inFlight'[q] = inFlight[q]
  BY DEF StartSweep, Invariant, TypeOK
<1>3. Sweeping(c)' /\ ~Sweeping(c) /\ \A d \in Calls \ {c} : Sweeping(d)' = Sweeping(d)
  BY <1>1 DEF Sweeping, StartSweep, Fresh
<1>4. HaveProject'
  BY <1>1, <1>3 DEF Invariant, HaveProject
<1>5. ASSUME NEW q \in Projects, inFlight'[q] # None
      PROVE  Sweeping(inFlight[q])' /\ sweep'[inFlight'[q]].project = q
  <2>1. CASE q = p
    BY <1>1, <1>2, <1>3, <2>1 DEF Sweeping
  <2>2. CASE q # p
    <3>1. inFlight'[q] = inFlight[q]
      BY <1>2, <2>2
    <3>2. Sweeping(inFlight[q]) /\ sweep[inFlight[q]].project = q
      BY <1>5, <3>1 DEF Invariant, FlagTrue
    <3>3. inFlight[q] \in Calls \ {c}
      BY <1>3, <1>5, <3>1, <3>2 DEF Invariant, TypeOK
    <3> QED
      BY <1>1, <1>3, <3>1, <3>2, <3>3 DEF Sweeping
  <2> QED
    BY <2>1, <2>2
<1>6. ASSUME NEW d \in Calls, Sweeping(d)'
      PROVE  inFlight'[sweep'[d].project] = d
  <2>1. CASE d = c
    BY <1>1, <1>2, <2>1
  <2>2. CASE d # c
    <3>1. Sweeping(d) /\ sweep'[d] = sweep[d]
      BY <1>1, <1>3, <1>6, <2>2
    <3>2. sweep[d].project \in Projects /\ inFlight[sweep[d].project] = d
      BY <3>1 DEF Invariant, HaveProject, FlagTrue
    <3>3. sweep[d].project # p
      BY <1>2, <3>2, StagingSweepAssumption
    <3> QED
      BY <1>2, <3>1, <3>2, <3>3
  <2> QED
    BY <2>1, <2>2
<1>7. FlagTrue'
  BY <1>5, <1>6 DEF FlagTrue, Sweeping
<1>8. AgesTrue'
  BY DEF StartSweep, Invariant, AgesTrue
<1>9. ASSUME NEW d \in Calls, sweep'[d].stage \in Driver \cup {"vector"}
      PROVE  sweep'[d].vectorAge <= lastVector'[sweep'[d].project]
  <2>1. lastVector' = lastVector /\ sinceVector = lastVector
    BY DEF StartSweep, Invariant, AgesTrue
  <2>2. CASE d = c
    <3>1. lastVector[p] \in Nat
      BY HorizonType DEF Invariant, TypeOK, Age
    <3> QED
      BY <1>1, <2>1, <2>2, <3>1
  <2>3. CASE d # c
    BY <1>1, <1>9, <2>1, <2>3 DEF Invariant, VectorAgeTrue
  <2> QED
    BY <2>2, <2>3
<1> QED
  BY <1>4, <1>7, <1>8, <1>9 DEF Invariant, VectorAgeTrue

\* A sweep that goes from one stage to the next keeps its flag.
LEMMA Moved ==
    ASSUME Invariant, TypeOK', NEW c \in Calls, Sweeping(c), NEW t \in Stage \ {"none"},
           sweep' = [sweep EXCEPT ![c].stage = t], UNCHANGED inFlight
    PROVE  /\ HaveProject' /\ FlagTrue'
           /\ \A d \in Calls : /\ sweep'[d].project = sweep[d].project
                               /\ sweep'[d].vectorAge = sweep[d].vectorAge
           /\ \A d \in Calls \ {c} : sweep'[d].stage = sweep[d].stage
           /\ sweep'[c].stage = t
<1>1. \A d \in Calls : /\ sweep'[d].project = sweep[d].project
                       /\ sweep'[d].vectorAge = sweep[d].vectorAge
  BY DEF Invariant, TypeOK, Sweep
<1>2. sweep'[c].stage = t /\ \A d \in Calls \ {c} : sweep'[d].stage = sweep[d].stage
  BY DEF Invariant, TypeOK, Sweep
<1>3. \A d \in Calls : Sweeping(d)' = Sweeping(d)
  BY <1>2 DEF Sweeping
<1>4. HaveProject'
  BY <1>1, <1>3 DEF Invariant, HaveProject
<1>5. ASSUME NEW q \in Projects, inFlight'[q] # None
      PROVE  Sweeping(inFlight[q])' /\ sweep'[inFlight'[q]].project = q
  <2>1. Sweeping(inFlight[q]) /\ sweep[inFlight[q]].project = q /\ inFlight[q] \in Calls
    BY <1>5 DEF Invariant, FlagTrue, TypeOK
  <2> QED
    BY <1>1, <1>3, <2>1 DEF Sweeping
<1>6. \A d \in Calls : Sweeping(d)' => inFlight'[sweep'[d].project] = d
  BY <1>1, <1>3 DEF Invariant, FlagTrue
<1>7. FlagTrue'
  BY <1>5, <1>6 DEF FlagTrue, Sweeping
<1> QED
  BY <1>1, <1>2, <1>4, <1>7

\* Every step keeps the invariant.
LEMMA InvariantStep == Invariant /\ [Next]_vars => Invariant'
<1> SUFFICES ASSUME Invariant, [Next]_vars PROVE Invariant'
  OBVIOUS
<1>0. TypeOK'
  BY TypeStep DEF Invariant
<1>1. ASSUME NEW c \in Calls, NEW p \in Projects, PassBy(c, p) \/ SkipSweep(c, p)
      PROVE  Invariant'
  BY <1>0, <1>1, Untouched DEF PassBy, SkipSweep, state, history
<1>2. ASSUME NEW c \in Calls, NEW p \in Projects, StartSweep(c, p)
      PROVE  Invariant'
  BY <1>0, <1>2, Started
<1>3. ASSUME NEW c \in Calls, EnvelopeElapsed(c) \/ Answer(c)
      PROVE  Invariant'
  BY <1>0, <1>3, Untouched DEF EnvelopeElapsed, Answer, state, history
<1>4. ASSUME NEW c \in Calls, RunDriver(c)
      PROVE  Invariant'
  <2>1. sweep[c].stage \in Driver /\ Sweeping(c)
    BY <1>4 DEF RunDriver, Sweeping, Driver
  <2> DEFINE t == After[sweep[c].stage]
  <2>2. t \in Driver \cup {"vector"} /\ t \in Stage \ {"none"}
    BY <2>1, AfterType DEF Driver, Stage
  <2>3. sweep' = [sweep EXCEPT ![c].stage = t]
    BY <1>4 DEF RunDriver
  <2>4. UNCHANGED <<inFlight, sinceStart, sinceVector, lastSweep, lastVector>>
    BY <1>4 DEF RunDriver, state, history
  <2> HIDE DEF t
  <2>5. /\ HaveProject' /\ FlagTrue'
        /\ \A d \in Calls : /\ sweep'[d].project = sweep[d].project
                            /\ sweep'[d].vectorAge = sweep[d].vectorAge
        /\ \A d \in Calls \ {c} : sweep'[d].stage = sweep[d].stage
    BY <1>0, <2>1, <2>2, <2>3, <2>4, Moved
  <2>6. AgesTrue' /\ VectorAgeTrue'
    BY <2>1, <2>4, <2>5 DEF Invariant, AgesTrue, VectorAgeTrue
  <2> QED
    BY <1>0, <2>5, <2>6 DEF Invariant
<1>5. ASSUME NEW c \in Calls, DriverThrows(c)
      PROVE  Invariant'
  BY <1>0, <1>5, Settled DEF DriverThrows, Sweeping, Driver, history
<1>6. ASSUME NEW c \in Calls, EndWithoutReconcile(c) \/ EndReconcile(c)
      PROVE  Invariant'
  BY <1>0, <1>6, Settled DEF EndWithoutReconcile, EndReconcile, Sweeping, history
<1>7. ASSUME NEW c \in Calls, StartReconcile(c)
      PROVE  Invariant'
  <2> DEFINE p == sweep[c].project
  <2>1. Sweeping(c) /\ p \in Projects /\ inFlight[p] = c
    BY <1>7 DEF StartReconcile, Sweeping, Invariant, HaveProject, FlagTrue
  <2>2. /\ HaveProject' /\ FlagTrue'
        /\ \A d \in Calls : /\ sweep'[d].project = sweep[d].project
                            /\ sweep'[d].vectorAge = sweep[d].vectorAge
        /\ \A d \in Calls \ {c} : sweep'[d].stage = sweep[d].stage
        /\ sweep'[c].stage = "reconciling"
    BY <1>0, <1>7, <2>1, Moved DEF StartReconcile, Stage
  <2>3. AgesTrue'
    BY <1>7, <2>1 DEF StartReconcile, Invariant, AgesTrue, TypeOK
  <2>4. ASSUME NEW d \in Calls, sweep'[d].stage \in Driver \cup {"vector"}
        PROVE  sweep'[d].vectorAge <= lastVector'[sweep'[d].project]
    <3>1. d # c
      BY <2>2, <2>4 DEF Driver
    <3>2. sweep[d].stage \in Driver \cup {"vector"} /\ Sweeping(d)
      BY <2>2, <2>4, <3>1 DEF Sweeping, Driver
    <3>3. sweep[d].project \in Projects /\ sweep[d].project # p
      BY <2>1, <3>1, <3>2 DEF Invariant, HaveProject, FlagTrue
    <3>4. lastVector'[sweep[d].project] = lastVector[sweep[d].project]
      BY <1>7, <3>3 DEF StartReconcile, Invariant, TypeOK
    <3> QED
      BY <2>2, <3>2, <3>4 DEF Invariant, VectorAgeTrue
  <2> QED
    BY <1>0, <2>2, <2>3, <2>4 DEF Invariant, VectorAgeTrue
<1>8. ASSUME NEW p \in Projects, NEW d \in Driver, NEW i \in WorkOf[d], BecomeDue(p, d, i)
      PROVE  Invariant'
  BY <1>0, <1>8, Untouched DEF BecomeDue, state, history
<1>9. CASE Tick
  <2>1. UNCHANGED <<sweep, inFlight>> /\ HaveProject' /\ FlagTrue'
    BY <1>9 DEF Tick, Invariant, HaveProject, FlagTrue, Sweeping
  <2>2. AgesTrue'
    BY <1>9 DEF Tick, Invariant, AgesTrue
  <2>3. ASSUME NEW d \in Calls, sweep'[d].stage \in Driver \cup {"vector"}
        PROVE  sweep'[d].vectorAge <= lastVector'[sweep'[d].project]
    <3> DEFINE p == sweep[d].project
    <3>1. p \in Projects /\ sweep[d].vectorAge <= lastVector[p]
      BY <2>1, <2>3 DEF Invariant, HaveProject, VectorAgeTrue, Sweeping, Driver
    <3>2. lastVector'[p] = Older(lastVector[p]) /\ lastVector[p] \in Age
      BY <1>9, <3>1 DEF Tick, Invariant, TypeOK
    <3>3. lastVector[p] <= lastVector'[p] /\ lastVector'[p] \in Age
      BY <3>2, OlderType
    <3>4. sweep[d].vectorAge \in Nat /\ lastVector[p] \in Nat /\ lastVector'[p] \in Nat
      BY <3>2, <3>3, HorizonType DEF Invariant, TypeOK, Sweep, Age
    <3> QED
      BY <2>1, <3>1, <3>3, <3>4
  <2> QED
    BY <1>0, <2>1, <2>2, <2>3 DEF Invariant, VectorAgeTrue
<1>10. CASE UNCHANGED vars
  BY <1>0, <1>10, Untouched DEF vars
<1> QED
  BY <1>1, <1>2, <1>3, <1>4, <1>5, <1>6, <1>7, <1>8, <1>9, <1>10 DEF Next, SweepStep

---------------------------------------------------------------------------
(* The theorems. *)

\* The invariant holds of every behaviour.
THEOREM SweepInvariance == Spec => []Invariant
BY InvariantInit, InvariantStep, PTL DEF Spec

\* The state and the history keep their types.
THEOREM TypeCorrect == Spec => []TypeOK
<1>1. Invariant => TypeOK
  BY DEF Invariant
<1> QED
  BY <1>1, SweepInvariance, PTL

\* inFlight is true to the sweeps that run: no sweep runs without the flag of
\* its project, and no flag stays set without one.
THEOREM FlagStaysTrue == Spec => []FlagTrue
<1>1. Invariant => FlagTrue
  BY DEF Invariant
<1> QED
  BY <1>1, SweepInvariance, PTL

\* At most one sweep of a project runs, in the background or not.
THEOREM OneSweepPerProject == Spec => []OneSweep
<1>1. Invariant => OneSweep
  BY DEF Invariant, FlagTrue, OneSweep
<1> QED
  BY <1>1, SweepInvariance, PTL

\* Two sweeps of a project begin at least MinInterval apart.
THEOREM SweepsAreSpaced == Spec => SweepsSpaced
<1> DEFINE A == \A c \in Calls : ~Sweeping(c) /\ Sweeping(c)' =>
                    lastSweep[sweep'[c].project] >= MinInterval
<1>1. Invariant /\ [Next]_vars => [A]_vars
  <2> SUFFICES ASSUME Invariant, [Next]_vars, NEW c \in Calls, ~Sweeping(c), Sweeping(c)'
               PROVE  lastSweep[sweep'[c].project] >= MinInterval
    BY DEF A
  <2>1. PICK p \in Projects : StartSweep(c, p)
    <3>1. sweep' # sweep
      BY DEF Sweeping
    <3>2. ASSUME NEW d \in Calls, NEW t, sweep' = [sweep EXCEPT ![d].stage = t], Sweeping(d)
          PROVE  FALSE
      BY <3>2 DEF Sweeping, Invariant, TypeOK
    <3>3. ASSUME NEW d \in Calls, Settle(d)
          PROVE  FALSE
      BY <3>3 DEF Settle, NoSweep, Sweeping, Invariant, TypeOK
    <3>4. \A d \in Calls : ~SweepStep(d)
      BY <3>2, <3>3 DEF SweepStep, RunDriver, DriverThrows, EndWithoutReconcile, StartReconcile,
            EndReconcile, Sweeping, Driver
    <3>5. PICK d \in Calls, p \in Projects : StartSweep(d, p)
      BY <3>1, <3>4 DEF Next, PassBy, SkipSweep, EnvelopeElapsed, Answer, BecomeDue, Tick, vars
    <3>6. d = c
      BY <3>5 DEF StartSweep, Sweeping, Invariant, TypeOK
    <3> QED
      BY <3>5, <3>6
  <2>2. sweep'[c].project = p
    BY <2>1 DEF StartSweep, Invariant, TypeOK
  <2>3. ~(lastSweep[p] < MinInterval)
    BY <2>1 DEF StartSweep, Throttled, Invariant, AgesTrue
  <2> QED
    BY <2>2, <2>3, HorizonType, StagingSweepAssumption DEF Invariant, TypeOK, Age
<1> QED
  BY <1>1, SweepInvariance, PTL DEF Spec, SweepsSpaced

\* The vectors of a project are reconciled again only VectorInterval after the
\* sweep that reconciled them last began.
THEOREM ReconcilesAreSpaced == Spec => ReconcilesSpaced
<1> DEFINE A == \A c \in Calls :
                   sweep[c].stage # "reconciling" /\ sweep'[c].stage = "reconciling" =>
                       lastVector[sweep[c].project] >= VectorInterval
<1>1. Invariant /\ [Next]_vars => [A]_vars
  <2> SUFFICES ASSUME Invariant, [Next]_vars, NEW c \in Calls,
                      sweep[c].stage # "reconciling", sweep'[c].stage = "reconciling"
               PROVE  lastVector[sweep[c].project] >= VectorInterval
    BY DEF A
  <2>1. StartReconcile(c)
    <3>1. sweep' # sweep
      OBVIOUS
    <3>2. ASSUME NEW d \in Calls, RunDriver(d)
          PROVE  FALSE
      <4>1. After[sweep[d].stage] # "reconciling"
        BY <3>2, AfterType DEF RunDriver, Driver
      <4> QED
        BY <3>2, <4>1 DEF RunDriver, Invariant, TypeOK, Sweep
    <3>3. ASSUME NEW d \in Calls, Settle(d)
          PROVE  FALSE
      BY <3>3 DEF Settle, NoSweep, Invariant, TypeOK
    <3>4. ASSUME NEW d \in Calls, NEW p \in Projects, StartSweep(d, p)
          PROVE  FALSE
      BY <3>4 DEF StartSweep, Invariant, TypeOK
    <3>5. PICK d \in Calls : StartReconcile(d)
      BY <3>1, <3>2, <3>3, <3>4 DEF Next, SweepStep, PassBy, SkipSweep, EnvelopeElapsed, Answer,
            DriverThrows, EndWithoutReconcile, EndReconcile, BecomeDue, Tick, vars
    <3>6. d = c
      BY <3>5 DEF StartReconcile, Invariant, TypeOK
    <3> QED
      BY <3>5, <3>6
  <2>2. sweep[c].vectorAge >= VectorInterval /\ sweep[c].stage = "vector"
    BY <2>1 DEF StartReconcile, VectorDue
  <2>3. sweep[c].vectorAge <= lastVector[sweep[c].project] /\ sweep[c].project \in Projects
    BY <2>2 DEF Invariant, VectorAgeTrue, HaveProject, Sweeping
  <2> QED
    BY <2>2, <2>3, HorizonType, StagingSweepAssumption DEF Invariant, TypeOK, Sweep, Age
<1> QED
  BY <1>1, SweepInvariance, PTL DEF Spec, ReconcilesSpaced

---------------------------------------------------------------------------
(* Liveness. *)

\* Weak fairness of the timer is TimerFires, as the action is enabled when its guard
\* holds (what ENABLED says of an action is out of the prover's reach, hence the
\* second hypothesis).
LEMMA FairTimerFires ==
    ASSUME NEW c \in Calls
    PROVE  /\ WF_vars(EnvelopeElapsed(c))
           /\ [](Envelope /\ call[c].phase = "waiting" => ENABLED <<EnvelopeElapsed(c)>>_vars)
           => TimerFires(c)
BY PTL DEF TimerFires

\* A call that waits goes on waiting, or goes to its handler.
LEMMA WaitingStep ==
    ASSUME NEW c \in Calls, TypeOK, call[c].phase = "waiting", [Next]_vars
    PROVE  call'[c].phase \in {"waiting", "handling"}
<1>1. ASSUME NEW d \in Calls, NEW p \in Projects,
             PassBy(d, p) \/ SkipSweep(d, p) \/ StartSweep(d, p)
      PROVE  call'[c] = call[c]
  BY <1>1 DEF PassBy, SkipSweep, StartSweep, Fresh, TypeOK
<1>2. ASSUME NEW d \in Calls, EnvelopeElapsed(d)
      PROVE  call'[c].phase \in {"waiting", "handling"}
  BY <1>2 DEF EnvelopeElapsed, TypeOK, Call
<1>3. ASSUME NEW d \in Calls, Answer(d)
      PROVE  call'[c] = call[c]
  BY <1>3 DEF Answer, TypeOK
<1>4. ASSUME NEW d \in Calls, Settle(d)
      PROVE  call'[c].phase \in {"waiting", "handling"}
  BY <1>4 DEF Settle, Resume, TypeOK, Call
<1>5. ASSUME NEW d \in Calls, RunDriver(d) \/ StartReconcile(d)
      PROVE  call' = call
  BY <1>5 DEF RunDriver, StartReconcile
<1>6. ASSUME NEW d \in Calls, SweepStep(d)
      PROVE  call'[c].phase \in {"waiting", "handling"}
  BY <1>4, <1>5, <1>6 DEF SweepStep, DriverThrows, EndWithoutReconcile, EndReconcile
<1> QED
  BY <1>1, <1>2, <1>3, <1>6 DEF Next, BecomeDue, Tick, vars

\* A call that waits for a sweep reaches its handler though the sweep may hang at any
\* driver: only the timer of the call has to fire (withTimeout), so the envelope
\* must be positive (staging-access-sweep.ts:284).
THEOREM ToolsContinue ==
    ASSUME Envelope
    PROVE  Spec /\ (\A c \in Calls : TimerFires(c)) => ToolContinues
<1>0. Envelope
  OBVIOUS
<1> SUFFICES ASSUME NEW c \in Calls
             PROVE  Spec /\ TimerFires(c)
                        => (call[c].phase = "waiting" ~> call[c].phase = "handling")
  BY DEF ToolContinues
<1>1. TypeOK /\ call[c].phase = "waiting" /\ [Next]_vars
          => (call[c].phase = "waiting")' \/ (call[c].phase = "handling")'
  BY WaitingStep
<1>2. TypeOK /\ <<EnvelopeElapsed(c)>>_vars => (call[c].phase = "handling")'
  BY DEF EnvelopeElapsed, TypeOK
<1> QED
  BY <1>0, <1>1, <1>2, TypeCorrect, PTL DEF Spec, TimerFires
===========================================================================
