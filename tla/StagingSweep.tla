--------------------------- MODULE StagingSweep ---------------------------
(***************************************************************************)
(* The tick-on-access sweep of the knowledge life cycle.                   *)
(*                                                                         *)
(* Nothing runs in the background of the plugin: staged recipes are        *)
(* promoted, states time out, proposals execute and recipes decay only     *)
(* when a write tool is called.  Before its handler such a call starts a   *)
(* sweep of its project, unless one is in flight or one began less than    *)
(* MinInterval ago, and waits for it at most as long as the envelope       *)
(* timer, or without a timer if the envelope is 0.  The sweep itself is    *)
(* never cancelled: it goes on behind the handler, and behind later calls. *)
(*                                                                         *)
(* The times lastStartedAt and lastVectorReconcileAt of the code are kept  *)
(* as the time elapsed since, counted up to Horizon, beyond which no       *)
(* comparison of the code changes its answer.                              *)
(***************************************************************************)
EXTENDS Naturals, Sequences, FiniteSets

CONSTANTS
    Calls,            \* tool calls at one time; an answered one is used again
    Projects,         \* the project roots they name
    Items,            \* recipes and proposals
    WorkOf,           \* those that can become due for each driver
    None,             \* null
    Cap,              \* resolveStagingAccessSweepCap
    MinInterval,      \* ALEMBIC_STAGING_ACCESS_SWEEP_MIN_INTERVAL_MS
    VectorInterval,   \* ALEMBIC_VECTOR_RECONCILE_MIN_INTERVAL_MS
    Throws,           \* may a driver throw?
    Envelope          \* is ALEMBIC_STAGING_ACCESS_SWEEP_TIMEOUT_MS positive?

ASSUME StagingSweepAssumption ==
    /\ None \notin Calls
    /\ WorkOf \in [{"promote", "timeouts", "proposals", "decay"} -> SUBSET Items]
    /\ Cap \in Nat \ {0}
    /\ MinInterval \in Nat
    /\ VectorInterval \in Nat
    /\ Throws \in BOOLEAN
    /\ Envelope \in BOOLEAN

VARIABLES
    call,        \* where each tool call stands
    sweep,       \* the sweep each call started, the background ones included
    inFlight,    \* SweepState.inFlight: the call whose sweep is in flight
    sinceStart,  \* now - SweepState.lastStartedAt
    sinceVector, \* now - SweepState.lastVectorReconcileAt
    due,         \* what each driver has to do, oldest first
    lastSweep,   \* history: time since a sweep of the project last began
    lastVector   \* history: time since a reconciling sweep of it last began

state == <<inFlight, sinceStart, sinceVector>>
history == <<lastSweep, lastVector>>
vars == <<call, sweep, inFlight, sinceStart, sinceVector, due, lastSweep, lastVector>>

---------------------------------------------------------------------------
(* Types. *)

\* checkAndPromote, checkTimeouts, checkAndExecute and scanAll.
Driver == {"promote", "timeouts", "proposals", "decay"}
Stage == Driver \cup {"none", "vector", "reconciling"}

Horizon == IF MinInterval > VectorInterval THEN MinInterval ELSE VectorInterval
Age == 0 .. Horizon

Call == [phase : {"idle", "waiting", "handling"}, project : Projects \cup {None}]
Sweep == [stage : Stage, project : Projects \cup {None}, vectorAge : Age]

NoCall == [phase |-> "idle", project |-> None]
NoSweep == [stage |-> "none", project |-> None, vectorAge |-> 0]

TypeOK ==
    /\ call \in [Calls -> Call]
    /\ sweep \in [Calls -> Sweep]
    /\ inFlight \in [Projects -> Calls \cup {None}]
    /\ sinceStart \in [Projects -> Age]
    /\ sinceVector \in [Projects -> Age]
    /\ due \in [Projects -> [Driver -> Seq(Items)]]
    /\ lastSweep \in [Projects -> Age]
    /\ lastVector \in [Projects -> Age]

\* resolveSweepState: nothing in flight, and both times 0, long ago.
Init ==
    /\ call = [c \in Calls |-> NoCall]
    /\ sweep = [c \in Calls |-> NoSweep]
    /\ inFlight = [p \in Projects |-> None]
    /\ sinceStart = [p \in Projects |-> Horizon]
    /\ sinceVector = [p \in Projects |-> Horizon]
    /\ due = [p \in Projects |-> [d \in Driver |-> <<>>]]
    /\ lastSweep = [p \in Projects |-> Horizon]
    /\ lastVector = [p \in Projects |-> Horizon]

---------------------------------------------------------------------------
(* Helpers. *)

Sweeping(c) == sweep[c].stage # "none"

Fresh(c) == call[c].phase = "idle" /\ ~Sweeping(c)

Throttled(p) == sinceStart[p] < MinInterval

\* Faulty: the first tick after the interval of the sweep reconciles.
VectorDue_EachTick(c) == sweep[c].vectorAge >= MinInterval

VectorDue(c) == sweep[c].vectorAge >= VectorInterval

\* The order of the drivers, which is the order of the awaits of runSweep.
After == [promote |-> "timeouts", timeouts |-> "proposals",
          proposals |-> "decay", decay |-> "vector"]

\* The call that still waits for the sweep it started goes on to its handler.
Resume(c) == call' = [call EXCEPT ![c].phase = IF @ = "waiting" THEN "handling" ELSE @]

\* Faulty: the flag is never cleared.
Settle_KeepsFlag(c) ==
    /\ sweep' = [sweep EXCEPT ![c] = NoSweep]
    /\ UNCHANGED inFlight
    /\ Resume(c)

\* The sweep of c settles, whatever its result: finally clears inFlight.
Settle(c) ==
    /\ sweep' = [sweep EXCEPT ![c] = NoSweep]
    /\ inFlight' = [inFlight EXCEPT ![sweep[c].project] = None]
    /\ Resume(c)

Due(p, d, i) == \E n \in DOMAIN due[p][d] : due[p][d][n] = i

Older(age) == IF age < Horizon THEN age + 1 ELSE age

---------------------------------------------------------------------------
(* The tool call. *)

\* A call reaches its handler without a sweep: its tool is not a write tool,
\* it is already cancelled, or its server has no container.
PassBy(c, p) ==
    /\ Fresh(c)
    /\ call' = [call EXCEPT ![c] = [phase |-> "handling", project |-> p]]
    /\ UNCHANGED <<sweep, state, due, history>>

\* maybeRunStagingAccessSweep returns skipped: in-flight or throttled.
SkipSweep(c, p) ==
    /\ Fresh(c)
    /\ inFlight[p] # None \/ Throttled(p)
    /\ call' = [call EXCEPT ![c] = [phase |-> "handling", project |-> p]]
    /\ UNCHANGED <<sweep, state, due, history>>

\* Faulty: the start of a sweep is recorded when it has succeeded.
StartSweep_Unrecorded(c, p) ==
    /\ Fresh(c)
    /\ inFlight[p] = None
    /\ ~Throttled(p)
    /\ call' = [call EXCEPT ![c] = [phase |-> "waiting", project |-> p]]
    /\ sweep' = [sweep EXCEPT ![c] = [stage |-> "promote", project |-> p,
                                       vectorAge |-> sinceVector[p]]]
    /\ inFlight' = [inFlight EXCEPT ![p] = c]
    /\ lastSweep' = [lastSweep EXCEPT ![p] = 0]
    /\ UNCHANGED <<sinceStart, sinceVector, due, lastVector>>

\* maybeRunStagingAccessSweep starts the sweep and the envelope timer.
StartSweep(c, p) ==
    /\ Fresh(c)
    /\ inFlight[p] = None
    /\ ~Throttled(p)
    /\ call' = [call EXCEPT ![c] = [phase |-> "waiting", project |-> p]]
    /\ sweep' = [sweep EXCEPT ![c] = [stage |-> "promote", project |-> p,
                                       vectorAge |-> sinceVector[p]]]
    /\ inFlight' = [inFlight EXCEPT ![p] = c]
    /\ sinceStart' = [sinceStart EXCEPT ![p] = 0]
    /\ lastSweep' = [lastSweep EXCEPT ![p] = 0]
    /\ UNCHANGED <<sinceVector, due, lastVector>>

\* Faulty: the sweep is awaited after the timer has fired.
EnvelopeElapsed_Awaits(c) ==
    /\ Envelope
    /\ call[c].phase = "waiting"
    /\ ~Sweeping(c)
    /\ call' = [call EXCEPT ![c].phase = "handling"]
    /\ UNCHANGED <<sweep, state, due, history>>

\* withTimeout: the envelope timer, if there is one, fires; the sweep goes on.
EnvelopeElapsed(c) ==
    /\ Envelope
    /\ call[c].phase = "waiting"
    /\ call' = [call EXCEPT ![c].phase = "handling"]
    /\ UNCHANGED <<sweep, state, due, history>>

\* The handler runs and the host has its answer.
Answer(c) ==
    /\ call[c].phase = "handling"
    /\ call' = [call EXCEPT ![c] = NoCall]
    /\ UNCHANGED <<sweep, state, due, history>>

---------------------------------------------------------------------------
(* The sweep. *)

\* Faulty: a driver takes the newest Cap things it has to do.
RunDriver_Newest(c) ==
    LET p == sweep[c].project  d == sweep[c].stage  todo == due[p][d] IN
    /\ d \in Driver
    /\ due' = [due EXCEPT ![p][d] =
                  IF Len(todo) <= Cap THEN <<>> ELSE SubSeq(todo, 1, Len(todo) - Cap)]
    /\ sweep' = [sweep EXCEPT ![c].stage = After[d]]
    /\ UNCHANGED <<call, state, history>>

\* A driver takes the oldest Cap things it has to do.
RunDriver(c) ==
    LET p == sweep[c].project  d == sweep[c].stage  todo == due[p][d] IN
    /\ d \in Driver
    /\ due' = [due EXCEPT ![p][d] = SubSeq(todo, Cap + 1, Len(todo))]
    /\ sweep' = [sweep EXCEPT ![c].stage = After[d]]
    /\ UNCHANGED <<call, state, history>>

\* A driver throws, having done some of its work; the drivers after it do not
\* run.  container.get throws too, once the server of the project is replaced.
DriverThrows(c) ==
    LET p == sweep[c].project  d == sweep[c].stage  todo == due[p][d] IN
    /\ Throws
    /\ d \in Driver
    /\ \E n \in 0 .. Cap : due' = [due EXCEPT ![p][d] = SubSeq(todo, n + 1, Len(todo))]
    /\ Settle(c)
    /\ UNCHANGED <<sinceStart, sinceVector, history>>

\* The four drivers are through, and the vectors were reconciled lately.
EndWithoutReconcile(c) ==
    /\ sweep[c].stage = "vector"
    /\ ~VectorDue(c)
    /\ Settle(c)
    /\ UNCHANGED <<sinceStart, sinceVector, due, history>>

\* lastVectorReconcileAt = startedAt, then reconcileIndex is called.
StartReconcile(c) ==
    LET p == sweep[c].project IN
    /\ sweep[c].stage = "vector"
    /\ VectorDue(c)
    /\ sinceVector' = [sinceVector EXCEPT ![p] = sinceStart[p]]
    /\ sweep' = [sweep EXCEPT ![c].stage = "reconciling"]
    /\ lastVector' = [lastVector EXCEPT ![p] = lastSweep[p]]
    /\ UNCHANGED <<call, inFlight, sinceStart, due, lastSweep>>

\* reconcileIndex returns, or throws and the sweep completes all the same.
EndReconcile(c) ==
    /\ sweep[c].stage = "reconciling"
    /\ Settle(c)
    /\ UNCHANGED <<sinceStart, sinceVector, due, history>>

---------------------------------------------------------------------------
(* The environment. *)

\* Something becomes due for a driver.
BecomeDue(p, d, i) ==
    /\ ~Due(p, d, i)
    /\ due' = [due EXCEPT ![p][d] = Append(@, i)]
    /\ UNCHANGED <<call, sweep, state, history>>

\* Time passes.
Tick ==
    /\ sinceStart' = [p \in Projects |-> Older(sinceStart[p])]
    /\ sinceVector' = [p \in Projects |-> Older(sinceVector[p])]
    /\ lastSweep' = [p \in Projects |-> Older(lastSweep[p])]
    /\ lastVector' = [p \in Projects |-> Older(lastVector[p])]
    /\ UNCHANGED <<call, sweep, inFlight, due>>

SweepStep(c) ==
    \/ RunDriver(c)
    \/ DriverThrows(c)
    \/ EndWithoutReconcile(c)
    \/ StartReconcile(c)
    \/ EndReconcile(c)

Next ==
    \/ \E c \in Calls :
          \/ \E p \in Projects : PassBy(c, p) \/ SkipSweep(c, p) \/ StartSweep(c, p)
          \/ EnvelopeElapsed(c)
          \/ Answer(c)
          \/ SweepStep(c)
    \/ \E p \in Projects, d \in Driver : \E i \in WorkOf[d] : BecomeDue(p, d, i)
    \/ Tick

Spec == Init /\ [][Next]_vars

\* Timers fire.  Nothing else is assumed: a driver may hang, and a handler.
TimerSpec == Spec /\ \A c \in Calls : WF_vars(EnvelopeElapsed(c))

\* The fairness of TimerSpec with the guard of the action written out: the timer of a
\* call that waits and goes on waiting fires.
TimerFires(c) ==
    \/ []<>~(Envelope /\ call[c].phase = "waiting")
    \/ []<><<EnvelopeElapsed(c)>>_vars

---------------------------------------------------------------------------
(* Properties. *)

\* At any time at most one sweep of a project runs, whoever started it and
\* however long ago the call that did stopped waiting: the drivers of two
\* sweeps of one project never interleave (staging-access-sweep.ts:134).
OneSweep ==
    \A c, d \in Calls :
        Sweeping(c) /\ Sweeping(d) /\ sweep[c].project = sweep[d].project => c = d

\* The flag of a project is true to its sweeps: set, one is running, so that a
\* sweep that failed or outlived its call never keeps the project from being
\* swept again; clear, none is.
FlagTrue ==
    /\ \A p \in Projects : inFlight[p] # None =>
          Sweeping(inFlight[p]) /\ sweep[inFlight[p]].project = p
    /\ \A c \in Calls : Sweeping(c) => inFlight[sweep[c].project] = c

\* Two sweeps of a project begin at least MinInterval apart, also when the
\* first of them failed or is still running behind the call that started it.
SweepsSpaced ==
    [][\A c \in Calls : ~Sweeping(c) /\ Sweeping(c)' =>
            lastSweep[sweep'[c].project] >= MinInterval]_vars

\* The vectors of a project are not reconciled again until VectorInterval
\* after the beginning of the sweep that reconciled them last, though sweeps
\* follow each other much faster and a reconcile may fail or take long.
ReconcilesSpaced ==
    [][\A c \in Calls : sweep[c].stage # "reconciling" /\ sweep'[c].stage = "reconciling" =>
            lastVector[sweep[c].project] >= VectorInterval]_vars

\* A sweep never keeps a tool from its work: a call that waits for one
\* reaches its handler, even when a driver hangs.  This is what the envelope is
\* for: with Envelope = FALSE a call waits as long as its sweep takes.
ToolContinues ==
    \A c \in Calls : call[c].phase = "waiting" ~> call[c].phase = "handling"

\* The host goes on calling write tools of p, time passes, drivers return, and
\* in the end none of them throws.
Driven(p) ==
    /\ []<><<\E c \in Calls : SkipSweep(c, p) \/ StartSweep(c, p)>>_vars
    /\ WF_vars(Tick)
    /\ \A c \in Calls : WF_vars(SweepStep(c))
    /\ <>[][\A c \in Calls : ~DriverThrows(c)]_vars

\* A sweep does a bounded share of what is due, and one that fails skips the
\* drivers after the failure, yet all of it is done in the end as long as the
\* project is driven: nothing stays due for ever.
Drained ==
    \A p \in Projects : Driven(p) =>
        \A d \in Driver, i \in Items : Due(p, d, i) ~> ~Due(p, d, i)

==============================================================================
