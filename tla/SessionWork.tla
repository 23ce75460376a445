---------------------------- MODULE SessionWork -----------------------------
(* The work on a host-agent session, composed with the generation requests   *)
(* that create and release it: alembic_submit_knowledge                      *)
(* (tool-router.ts) and alembic_dimension_complete                           *)
(* (dimension-completion.ts), down to the refresh of the knowledge skills    *)
(* after the last dimension.  A call keeps the session it resolved, even     *)
(* after the manager has let go of it.                                       *)
EXTENDS GenerateSession

CONSTANTS
    Submits,       \* calls of alembic_submit_knowledge
    Completions,   \* calls of alembic_dimension_complete
    LedgerLimit    \* KNOWLEDGE_SKILL_AUTO_SYNC_LEDGER_LIMIT

ASSUME WorkAssumption == LedgerLimit \in Nat \ {0}

VARIABLES
    sub,           \* [Submits -> Submit]
    comp,          \* [Completions -> Completion]
    ledger,        \* the sessions synchronized, oldest first
    synced,        \* successful refreshes of each session
    syncFailed     \* the sessions of which a refresh failed

workVars == <<sub, comp, ledger, synced, syncFailed>>
vars == <<req, lease, slot, sess, rounds, sub, comp, ledger, synced, syncFailed>>

\* create: the gateway stores the recipes of a submission that passed the gate.
Submit == [phase : {"idle", "create", "done"}, dims : SUBSET Dims]

\* resolve: the session is looked up.  certify: the certified receipts.  bind:
\* tags and skill.  persist: checkpoint and findings.  finalize: the finalizer.
\* cover: the modules of the coverage ledger.
WorkPhases == {"certify", "bind", "persist", "finalize", "cover"}
CompletionOutcomes == {"open", "noSession", "refused", "terminal", "blocked",
                       "quality", "ok", "failed"}
Completion == [phase : WorkPhases \cup {"idle", "resolve", "done"},
               out : CompletionOutcomes, dim : Dims \cup {None}, sess : Requests \cup {None}]

WorkInit ==
    /\ Init
    /\ sub = [u \in Submits |-> [phase |-> "idle", dims |-> {}]]
    /\ comp = [c \in Completions |-> [phase |-> "idle", out |-> "open",
                                      dim |-> None, sess |-> None]]
    /\ ledger = <<>>
    /\ synced = [s \in Requests |-> 0]
    /\ syncFailed = {}

----------------------------------------------------------------------------
(* alembic_submit_knowledge.                                                *)

\* The evidence gate wants the project's session; without one it only lets
\* through what names no session and no dimension.  Then the recipes are stored.
SubmitRecipes(u) ==
    /\ sub[u].phase = "idle"
    /\ \/ /\ slot # None
          /\ \E D \in SUBSET Dims \ {{}} :
                sub' = [sub EXCEPT ![u].phase = "create", ![u].dims = D]
       \/ /\ slot = None
          /\ sub' = [sub EXCEPT ![u].phase = "create", ![u].dims = {}]
       \/ sub' = [sub EXCEPT ![u].phase = "done"]
    /\ UNCHANGED <<generateVars, comp, ledger, synced, syncFailed>>

\* The dimensions recipes of u may be tracked under: those they name, or the first
\* one the session has not completed.
Trackable(u) == IF sub[u].dims # {} THEN SUBSET sub[u].dims
                ELSE {{}} \cup {{d} : d \in Dims \ sess[slot].done}

\* trackSubmitKnowledgeResult records what was created and what was rejected on
\* the session that the manager has now, not on the one the gate looked at; the
\* gateway may also throw.
SubmitStored(u) ==
    /\ sub[u].phase = "create"
    /\ \/ slot = None /\ UNCHANGED sess
       \/ /\ slot # None
          /\ \E created \in Trackable(u), rejected \in BOOLEAN :
                sess' = [sess EXCEPT ![slot].evid = @ \cup created,
                                     ![slot].rejected = @ \/ rejected]
    /\ sub' = [sub EXCEPT ![u] = [phase |-> "done", dims |-> {}]]
    /\ UNCHANGED <<req, lease, slot, rounds, comp, ledger, synced, syncFailed>>

----------------------------------------------------------------------------
(* alembic_dimension_complete.                                              *)

End(c, out) == comp' = [comp EXCEPT ![c].phase = "done", ![c].out = out]
Go(c, phase) == comp' = [comp EXCEPT ![c].phase = phase]

CompleteDimension(c) ==
    /\ comp[c].phase = "idle"
    /\ \E d \in Dims : comp' = [comp EXCEPT ![c].phase = "resolve", ![c].dim = d]
    /\ UNCHANGED <<generateVars, sub, ledger, synced, syncFailed>>

\* No active session, or validateDimensionCompletionBeforeSideEffects refuses.
CompletionRefused(c) ==
    /\ comp[c].phase = "resolve"
    /\ \/ slot = None /\ End(c, "noSession")
       \/ slot # None /\ End(c, "refused")
    /\ UNCHANGED <<generateVars, sub, ledger, synced, syncFailed>>

\* Too few recipes and noPadding: the session is released with all it holds, and
\* the latest open round is closed (both as far as they succeed).
OpenRounds == {i \in DOMAIN rounds : rounds[i].open}
CloseLatestRound ==
    \/ \E i \in OpenRounds :
          /\ \A j \in OpenRounds : j <= i
          /\ rounds' = [rounds EXCEPT ![i].open = FALSE]
    \/ UNCHANGED rounds

CompletionTerminal(c) ==
    /\ comp[c].phase = "resolve"
    /\ slot # None
    /\ comp[c].dim \in sess[slot].evid
    /\ slot' = None
    /\ sess' = [sess EXCEPT ![slot].end = "over"]
    /\ CloseLatestRound
    /\ End(c, "terminal")
    /\ UNCHANGED <<req, lease, sub, ledger, synced, syncFailed>>

\* The gate is passed only with recipes of this dimension tracked by the session.
\* prepareCertifiedDimensionCompletion awaits only for a certified session.
CompletionAccepted(c) ==
    /\ comp[c].phase = "resolve"
    /\ slot # None
    /\ comp[c].dim \in sess[slot].evid
    /\ comp' = [comp EXCEPT ![c].sess = slot,
                            ![c].phase = IF sess[slot].cert THEN "certify" ELSE "bind"]
    /\ UNCHANGED <<generateVars, sub, ledger, synced, syncFailed>>

\* The receipt is emitted and persisted, and the session is read again; if it is
\* gone, or anything throws, the call is blocked before its side effects.
CompletionCertified(c) ==
    /\ comp[c].phase = "certify"
    /\ \/ slot = comp[c].sess /\ Go(c, "bind")
       \/ End(c, "blocked")
    /\ UNCHANGED <<generateVars, sub, ledger, synced, syncFailed>>

\* Marks whatever session the manager has now.
MarkDimension_Current(c) ==
    /\ comp[c].phase = "bind"
    /\ sess' = IF slot = None THEN sess
               ELSE [sess EXCEPT ![slot].done = @ \cup {comp[c].dim}]
    /\ Go(c, "persist") \/ End(c, "quality")
    /\ UNCHANGED <<req, lease, slot, rounds, sub, ledger, synced, syncFailed>>

\* markDimensionCompleteOrFailure: Core marks the dimension before the plugin
\* reads the quality report.
MarkDimension(c) ==
    /\ comp[c].phase = "bind"
    /\ sess' = [sess EXCEPT ![comp[c].sess].done = @ \cup {comp[c].dim}]
    /\ Go(c, "persist") \/ End(c, "quality")
    /\ UNCHANGED <<req, lease, slot, rounds, sub, ledger, synced, syncFailed>>

\* Progress is read and broadcast once checkpoint and findings are stored.
IsComplete(s) == sess[s].done = Dims

\* Counts the dimensions of the completions that have ended, and its own.
ReportProgress_Ended(c) ==
    LET ended == {comp[e].dim : e \in {x \in Completions :
                    comp[x].sess = comp[c].sess /\ comp[x].phase = "done"}}
    IN  /\ comp[c].phase = "persist"
        /\ Go(c, IF ended \cup {comp[c].dim} = Dims THEN "finalize" ELSE "cover")
        /\ UNCHANGED <<generateVars, sub, ledger, synced, syncFailed>>

ReportProgress(c) ==
    /\ comp[c].phase = "persist"
    /\ Go(c, IF IsComplete(comp[c].sess) THEN "finalize" ELSE "cover")
    /\ UNCHANGED <<generateVars, sub, ledger, synced, syncFailed>>

\* refreshKnowledgeSkillsAfterFinalCompletion after the finalizer, which only
\* schedules its work.  The refresh is synchronous: nothing that does I/O is
\* awaited from the check to the record, so they are one step.
HasSynced(s) == \E i \in DOMAIN ledger : ledger[i] = s

\* Nothing is recorded.
RecordSync_Not(s) == UNCHANGED ledger

RecordSync(s) ==
    ledger' = LET longer == Append(ledger, s)
              IN  IF Len(longer) > LedgerLimit THEN Tail(longer) ELSE longer

RefreshSkills(c) ==
    LET s == comp[c].sess
    IN  /\ comp[c].phase = "finalize"
        /\ Go(c, "cover")
        /\ \/ /\ HasSynced(s)
              /\ UNCHANGED <<ledger, synced, syncFailed>>
           \/ /\ ~HasSynced(s)
              /\ RecordSync(s)
              /\ synced' = [synced EXCEPT ![s] = @ + 1]
              /\ UNCHANGED syncFailed
           \/ /\ ~HasSynced(s)
              /\ syncFailed' = syncFailed \cup {s}
              /\ UNCHANGED <<ledger, synced>>
        /\ UNCHANGED <<generateVars, sub>>

\* The coverage ledger is written and the latest round fed, which may complete
\* it; only strict wiring lets a failure of it through.
FeedRound ==
    \/ UNCHANGED rounds
    \/ rounds # <<>> /\ rounds' = [rounds EXCEPT ![Len(rounds)].open = FALSE]
WriteCoverage(c) ==
    /\ comp[c].phase = "cover"
    /\ \/ End(c, "ok") /\ FeedRound
       \/ sess[comp[c].sess].cert /\ End(c, "failed") /\ UNCHANGED rounds
    /\ UNCHANGED <<req, lease, slot, sess, sub, ledger, synced, syncFailed>>

CompletionStep(c) ==
    \/ CompletionRefused(c)   \/ CompletionTerminal(c) \/ CompletionAccepted(c)
    \/ CompletionCertified(c) \/ MarkDimension(c)      \/ ReportProgress(c)
    \/ RefreshSkills(c)       \/ WriteCoverage(c)

----------------------------------------------------------------------------
RequestNext ==
    /\ Expire \/ \E q \in Requests : Call(q) \/ RequestStep(q)
    /\ UNCHANGED workVars
SubmitNext == \E u \in Submits : SubmitRecipes(u) \/ SubmitStored(u)
CompletionNext == \E c \in Completions : CompleteDimension(c) \/ CompletionStep(c)

Next == RequestNext \/ SubmitNext \/ CompletionNext

Spec == WorkInit /\ [][Next]_vars

----------------------------------------------------------------------------
(* Properties.                                                              *)

\* Every variable has its type.
TypeOK ==
    /\ req \in [Requests -> Request]
    /\ lease \in [Keys -> Requests \cup {None}]
    /\ slot \in Requests \cup {None}
    /\ sess \in [Requests -> Session]
    /\ rounds \in Seq(Round)
    /\ sub \in [Submits -> Submit]
    /\ comp \in [Completions -> Completion]
    /\ ledger \in Seq(Requests)
    /\ synced \in [Requests -> Nat]
    /\ syncFailed \in SUBSET Requests

\* From the analysis to the end of the clean-up and the index rebuild, and for a
\* cold start to its answer.
Mutates(q) ==
    /\ req[q].kind # "plan"
    /\ \/ req[q].phase \in {"analyse", "restore"}
       \/ req[q].phase = "brief" /\ req[q].kind = "coldStart"

\* A lease is held exactly by a call that works on the knowledge: whatever the
\* call runs into, it returns its own lease and nobody else's.
LeaseWhileWorking ==
    \A k \in Keys, q \in Requests : lease[k] = q <=> Mutates(q) /\ k = KeyOf(q)

\* So two calls with one lease key never work on the project at the same time.
OneOverKnowledge ==
    \A p, q \in Requests : Mutates(p) /\ Mutates(q) /\ KeyOf(p) = KeyOf(q) => p = q

\* A session released as an empty lease held nothing, and never comes to hold
\* anything: no certified facts, no submission, no completed dimension, and no
\* completion of a dimension still works on it.
ReleasedEmpty ==
    \A s \in Requests : sess[s].end = "empty" =>
        /\ IsEmpty(s)
        /\ ~sess[s].cert
        /\ \A c \in Completions : comp[c].sess # s

\* A dimension is complete only in a session that tracked recipes of it, however
\* sessions are replaced while a completion is under way.
MarkedWithEvidence == \A s \in Requests : sess[s].done \subseteq sess[s].evid

\* When every dimension of a session has a completion that passed its quality
\* check and has looked at the progress, the knowledge skills are refreshed, a
\* refresh failed, or one of these completions is about to refresh them.  No two
\* completions of the last dimensions leave the refresh to each other.
Looked(c) == comp[c].phase \in {"finalize", "cover"} \/ comp[c].out \in {"ok", "failed"}
FinalSyncs ==
    \A s \in Requests :
        (\A d \in Dims : \E c \in Completions :
            comp[c].sess = s /\ comp[c].dim = d /\ Looked(c))
        => \/ synced[s] > 0
           \/ s \in syncFailed
           \/ \E c \in Completions : comp[c].sess = s /\ comp[c].phase = "finalize"

\* While the ledger has room, a session's skills are refreshed at most once, with
\* any number of completions that see it complete.
SyncedOnce ==
    \A s \in Requests : synced[s] > 1 => Len(ledger) = LedgerLimit

----------------------------------------------------------------------------
(* The inductive invariant.                                                 *)

\* The manager's session is the only live one.
OneLive == \A s \in Requests : sess[s].end = "live" <=> slot = s

\* Only a rescan plans without its lease.  A request that has not come to its
\* session has none, and a session that was not created holds nothing.
Newborn ==
    \A q \in Requests :
        /\ req[q].phase = "plan" => req[q].kind \in Rescans
        /\ req[q].phase \notin {"brief", "done"} => sess[q].end = "unborn"
        /\ sess[q].end = "unborn" => sess[q] = Unborn

\* A completion works on a session that tracked recipes of its dimension, and has
\* marked it before it looks at the progress.
Bound ==
    \A c \in Completions :
        /\ comp[c].phase \in {"idle", "resolve"} => comp[c].sess = None /\ comp[c].out = "open"
        /\ comp[c].phase \in WorkPhases \/ Looked(c) => comp[c].sess # None
        /\ comp[c].sess # None => comp[c].dim \in sess[comp[c].sess].evid
        /\ comp[c].phase = "persist" \/ Looked(c)
               => comp[c].dim \in sess[comp[c].sess].done

\* A session that was synchronized is in the ledger while that has room.
Ledgered ==
    /\ Len(ledger) <= LedgerLimit
    /\ \A s \in Requests :
          /\ HasSynced(s) => synced[s] > 0
          /\ synced[s] > 0 => HasSynced(s) \/ Len(ledger) = LedgerLimit

\* The manager holds one session at a time, sessions are created once and empty,
\* and completions stay with the session they resolved: what the properties above
\* rest on.
SessionInvariant ==
    /\ TypeOK
    /\ LeaseWhileWorking
    /\ OneLive
    /\ Newborn
    /\ ReleasedEmpty
    /\ MarkedWithEvidence
    /\ Bound
    /\ FinalSyncs
    /\ Ledgered
    /\ SyncedOnce
=============================================================================
