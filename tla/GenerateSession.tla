-------------------------- MODULE GenerateSession ---------------------------
(* Generation requests of one project: alembic_plan (strict drafts),         *)
(* alembic_bootstrap (cold start) and alembic_rescan (deep and module        *)
(* mining).  They share three things: the plan generation leases             *)
(* (plan-generation-gate.ts), the project's host-agent session, which Core's *)
(* session manager keeps and these workflows create and release              *)
(* (project-context-analysis.ts), and the coverage rounds                    *)
(* (knowledge-rescan.ts).  An action is the code from one await of a handler *)
(* to the next.  A session is named by the request that created it.          *)
EXTENDS Integers, Sequences

CONSTANTS
    Requests,    \* calls of the generation tools
    Dims,        \* the dimensions of a session
    Ids,         \* the values of rescanId, the idempotency key
    NoId,        \* a call without one
    Selections,  \* what a call selects: dimensions, modules, test mode
    Whole,       \* the selection of a call that narrows nothing
    None         \* no request, no session

ASSUME GenerateAssumption ==
    /\ NoId \notin Ids
    /\ Whole \in Selections
    /\ None \notin Requests
    /\ Dims # {}

VARIABLES
    req,         \* [Requests -> Request]: where each call is
    lease,       \* activePlanGenerationLeases: key -> holder
    slot,        \* the project's session in the session manager
    sess,        \* [Requests -> Session]: what each session holds
    rounds       \* deep_mining_rounds, ascending: a round is its index

requestVars == <<req, lease>>
sharedVars == <<slot, sess, rounds>>
generateVars == <<req, lease, slot, sess, rounds>>

Rescans == {"deepMining", "moduleMining"}
Kinds == Rescans \cup {"coldStart", "plan"}
Keys == Ids \cup (Kinds \X Selections)

\* gate: resolvePlanGenerationGate is awaited.  analyse: ProjectContext analysis,
\* or the capture of a plan draft.  restore: clean-up, index rebuild and unified
\* evolution.  plan: buildRescanPlanning.  brief: the briefing and its budget.
Phases == {"idle", "gate", "analyse", "restore", "plan", "brief", "done"}

Request == [phase : Phases, kind : Kinds, id : Ids \cup {NoId}, sel : Selections,
            strict : BOOLEAN, reset : BOOLEAN]
Uncalled == [phase |-> "idle", kind |-> "plan", id |-> NoId, sel |-> Whole,
             strict |-> FALSE, reset |-> FALSE]

\* end: the manager has the session ("live"), released it as an empty lease, or
\* let go of it for another reason (terminal, replaced, expired).
Ends == {"unborn", "live", "empty", "over"}
Session == [end : Ends, cert : BOOLEAN, evid : SUBSET Dims, rejected : BOOLEAN,
            done : SUBSET Dims]
Unborn == [end |-> "unborn", cert |-> FALSE, evid |-> {}, rejected |-> FALSE, done |-> {}]

Round == [id : Ids \cup {NoId}, open : BOOLEAN]

Init ==
    /\ req = [q \in Requests |-> Uncalled]
    /\ lease = [k \in Keys |-> None]
    /\ slot = None
    /\ sess = [q \in Requests |-> Unborn]
    /\ rounds = <<>>

----------------------------------------------------------------------------
(* The session and its release as an empty lease.                           *)

\* Looks at the completed dimensions only.
IsEmpty_Dims(s) == sess[s].done = {}

\* No completed dimension, no report, no submission and no rejection.
IsEmpty(s) == sess[s].done = {} /\ sess[s].evid = {} /\ ~sess[s].rejected

Certified == slot # None /\ sess[slot].cert

\* releaseEmptyHostAgentSessionLease looks at the project's session and clears
\* it when it is empty and carries no certified ProjectContext.
Releasable(s) == s # None /\ IsEmpty(s) /\ ~sess[s].cert

ReleaseEmpty ==
    IF Releasable(slot)
    THEN /\ slot' = None
         /\ sess' = [sess EXCEPT ![slot].end = "empty"]
    ELSE UNCHANGED <<slot, sess>>

\* Creates a session beside a live one.
Displaced_None == {"live"}

\* createProjectContextHostAgentSession reuses a certified session; otherwise it
\* releases an empty one that is five minutes old and creates one, which Core
\* refuses while the project has an unfinished session (BOOTSTRAP_IN_PROGRESS).
\* Displaced is what may become of the previous session, "live" if there is none:
\* whether an empty session is old enough, and whether Core gives up a session
\* whose dimensions are all complete, is left open.
Displaced ==
    (IF slot = None THEN {"live"} ELSE {})
    \cup (IF Releasable(slot) THEN {"empty"} ELSE {})
    \cup (IF slot # None /\ sess[slot].done = Dims THEN {"over"} ELSE {})

\* The sessions once q has created its own, which ends as `own`.
Created(q, cert, own, old) ==
    [s \in Requests |->
        IF s = q THEN [Unborn EXCEPT !.end = own, !.cert = cert]
        ELSE IF s = slot THEN [sess[s] EXCEPT !.end = old]
        ELSE sess[s]]

\* The session of a request that has work: the certified one, or a new one.
TakeSession(q) ==
    \/ /\ Certified
       /\ UNCHANGED <<slot, sess>>
    \/ /\ ~Certified
       /\ slot' = q
       /\ \E old \in Displaced : sess' = Created(q, FALSE, "live", old)

----------------------------------------------------------------------------
(* Leases.                                                                  *)

\* The idempotency key, or one made of the tool, its stage and its selection.
KeyOf(q) == IF req[q].id # NoId THEN req[q].id ELSE <<req[q].kind, req[q].sel>>

\* lease.release() deletes the entry only if its epoch is still this lease's.
Released(q) == [k \in Keys |-> IF lease[k] = q THEN None ELSE lease[k]]

\* The call is answered or rejected, and forgotten.
Leave(q) == req' = [req EXCEPT ![q] = [Uncalled EXCEPT !.phase = "done"]]
Enter(q, phase) == req' = [req EXCEPT ![q].phase = phase]

\* The call returns or throws: the finally releases what it still holds.
Finish(q) == Leave(q) /\ lease' = Released(q)

----------------------------------------------------------------------------
(* The tools' handlers.                                                     *)

Call(q) ==
    /\ req[q].phase = "idle"
    /\ \E kind \in Kinds, id \in Ids \cup {NoId}, sel \in Selections,
          strict, reset \in BOOLEAN :
          /\ kind = "plan" => strict /\ id = NoId
          /\ kind = "plan" \/ id # NoId => sel = Whole
          /\ reset => kind = "coldStart"
          /\ req' = [req EXCEPT ![q] = [phase |-> "gate", kind |-> kind, id |-> id,
                                        sel |-> sel, strict |-> strict, reset |-> reset]]
    /\ UNCHANGED <<lease, slot, sess, rounds>>

\* The gate finds no usable plan selection, or throws.
GateRefuses(q) ==
    /\ req[q].phase = "gate"
    /\ req[q].kind # "plan"
    /\ Leave(q)
    /\ UNCHANGED <<lease, slot, sess, rounds>>

\* The first thing an analysis does, without an await: a strict request needs the
\* carrier of the plan.  One that has none throws, and its lease goes back at once.
Carried(q) == req[q].strict => Certified

\* A rescan first releases the project's session if it is empty, however fresh,
\* and only then asks for the lease.
AdmitRescan(q) ==
    /\ req[q].phase = "gate"
    /\ req[q].kind \in Rescans
    /\ ReleaseEmpty
    /\ IF lease[KeyOf(q)] = None /\ Carried(q)
       THEN Enter(q, "analyse") /\ lease' = [lease EXCEPT ![KeyOf(q)] = q]
       ELSE Leave(q) /\ UNCHANGED lease
    /\ UNCHANGED rounds

\* A cold start that would reset the knowledge needs a confirmation; without it
\* the call is answered, and the lease released, in the same step.
AdmitColdStart(q) ==
    /\ req[q].phase = "gate"
    /\ req[q].kind = "coldStart"
    /\ \/ /\ lease[KeyOf(q)] = None
          /\ Carried(q)
          /\ Enter(q, "analyse")
          /\ lease' = [lease EXCEPT ![KeyOf(q)] = q]
       \/ /\ lease[KeyOf(q)] # None \/ req[q].reset \/ ~Carried(q)
          /\ Leave(q)
          /\ UNCHANGED lease
    /\ UNCHANGED sharedVars

\* A strict draft takes the certified session it finds, fails on any other, and
\* captures the project's facts when there is none.
DraftPlan(q) ==
    /\ req[q].phase = "gate"
    /\ req[q].kind = "plan"
    /\ IF Certified THEN Enter(q, "brief")
       ELSE IF slot # None THEN Leave(q)
       ELSE Enter(q, "analyse")
    /\ UNCHANGED <<lease, slot, sess, rounds>>

\* createSession with the captured carrier: another request may have created a
\* session during the capture.
DraftCaptured(q) ==
    /\ req[q].phase = "analyse"
    /\ req[q].kind = "plan"
    /\ \/ /\ Enter(q, "brief")
          /\ slot' = q
          /\ \E old \in Displaced \ {"empty"} : sess' = Created(q, TRUE, "live", old)
       \/ /\ slot # None
          /\ Leave(q)
          /\ UNCHANGED <<slot, sess>>
    /\ UNCHANGED <<lease, rounds>>

\* The promise of the rest is returned without await: the lease goes at once.
Analysed_NoAwait(q) ==
    /\ req[q].phase = "analyse"
    /\ req[q].kind # "plan"
    /\ Enter(q, "restore")
    /\ lease' = Released(q)
    /\ UNCHANGED sharedVars

\* The analysis is over.  The clean-up runs at once, and a full reset empties
\* deep_mining_rounds.
Analysed(q) ==
    /\ req[q].phase = "analyse"
    /\ req[q].kind # "plan"
    /\ Enter(q, "restore")
    /\ rounds' = IF req[q].reset THEN <<>> ELSE rounds
    /\ UNCHANGED <<lease, slot, sess>>

EmptyProject(q) ==
    /\ req[q].phase = "restore"
    /\ Finish(q)
    /\ UNCHANGED sharedVars

\* buildRescanResponse is returned without await, so the finally of the handler
\* releases the lease as soon as the response waits for its planning.
RescanPrepared(q) ==
    /\ req[q].phase = "restore"
    /\ req[q].kind \in Rescans
    /\ Enter(q, "plan")
    /\ lease' = Released(q)
    /\ UNCHANGED sharedVars

\* openDeepMiningRound: the round of the same rescanId, or the next one.  What
\* Core's upsert does with completedAt of a closed round is left open; a failed
\* write is swallowed.
RoundOf(id) == {i \in DOMAIN rounds : id # NoId /\ rounds[i].id = id}
OpenRound(id) ==
    \/ /\ RoundOf(id) = {}
       /\ rounds' = Append(rounds, [id |-> id, open |-> TRUE])
    \/ /\ RoundOf(id) # {}
       /\ rounds' = [i \in DOMAIN rounds |->
                       [rounds[i] EXCEPT !.open = @ \/ i \in RoundOf(id)]]
    \/ UNCHANGED rounds

\* closeOpenHostAgentRescanRounds, as far as its writes succeed.
CloseRounds ==
    \E failed \in SUBSET DOMAIN rounds :
       rounds' = [i \in DOMAIN rounds |-> [rounds[i] EXCEPT !.open = @ /\ i \in failed]]

\* buildRescanResponse up to its budget, in one step.  The session is created
\* first.  Without work releaseNoWorkRescanSession releases it again unless it is
\* the certified one (a session created in this step is empty) and closes every
\* open round.
RescanNoWork(q) ==
    /\ req[q].phase = "plan"
    /\ \/ /\ Certified
          /\ UNCHANGED <<slot, sess>>
       \/ /\ ~Certified
          /\ slot' = None
          /\ \E old \in Displaced : sess' = Created(q, FALSE, "empty", old)
    /\ Enter(q, "brief")
    /\ CloseRounds
    /\ UNCHANGED lease

\* With work the session stays, and a deep mining call opens its round, after the
\* advice has been read from the rounds before it.
RescanWork(q) ==
    /\ req[q].phase = "plan"
    /\ TakeSession(q)
    /\ IF req[q].kind = "deepMining" THEN OpenRound(req[q].id) ELSE UNCHANGED rounds
    /\ Enter(q, "brief")
    /\ UNCHANGED lease

\* buildColdStartMissionBriefingResponse: the lease is held until the answer.
ColdStartBuild(q) ==
    /\ req[q].phase = "restore"
    /\ req[q].kind = "coldStart"
    /\ TakeSession(q)
    /\ Enter(q, "brief")
    /\ UNCHANGED <<lease, rounds>>

\* createSession throws BOOTSTRAP_IN_PROGRESS.
SessionRefused(q) ==
    /\ \/ req[q].phase = "plan"
       \/ req[q].phase = "restore" /\ req[q].kind = "coldStart"
    /\ slot # None /\ ~Certified
    /\ Finish(q)
    /\ UNCHANGED sharedVars

\* The briefing is within its budget: the call is answered.
Answer(q) ==
    /\ req[q].phase = "brief"
    /\ Finish(q)
    /\ UNCHANGED sharedVars

\* Whatever the handler awaits may reject.
Throws(q) ==
    /\ req[q].phase \in {"analyse", "restore", "plan", "brief"}
    /\ Finish(q)
    /\ UNCHANGED sharedVars

RequestStep(q) ==
    \/ GateRefuses(q)  \/ AdmitRescan(q)    \/ AdmitColdStart(q) \/ DraftPlan(q)
    \/ DraftCaptured(q) \/ Analysed(q)      \/ EmptyProject(q)   \/ RescanPrepared(q)
    \/ RescanNoWork(q) \/ RescanWork(q)     \/ ColdStartBuild(q) \/ SessionRefused(q)
    \/ Answer(q)       \/ Throws(q)

\* Core drops a session whose time has run out.
Expire ==
    /\ slot # None
    /\ slot' = None
    /\ sess' = [sess EXCEPT ![slot].end = "over"]
    /\ UNCHANGED <<req, lease, rounds>>
=============================================================================
