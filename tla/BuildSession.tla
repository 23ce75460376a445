---------------------------- MODULE BuildSession ----------------------------
(***************************************************************************)
(* ProjectContextBuildSessionManager: the process-local coordinator of     *)
(* shared ProjectContext builds and of the paged results made from them.   *)
(*                                                                         *)
(* A graph or recipe-map request joins the build cached for its scope and  *)
(* its current source fingerprint, or starts one.  Every request waiting   *)
(* for a build, and every live page stream, is a consumer of it; when the  *)
(* last consumer leaves a pending build the build is aborted.  Results are *)
(* paged through single-use cursors.  Nothing runs on a timer: expired     *)
(* entries go when the next call of the manager sweeps them.               *)
(*                                                                         *)
(* JavaScript runs each stretch of code between two awaits without         *)
(* interruption, so an action is one such stretch.  The manager's maps are *)
(* one record, mgr, and each private method is an operator from a manager  *)
(* state to the next one, so that a step that calls several is their       *)
(* composition.                                                            *)
(***************************************************************************)
EXTENDS Naturals, Sequences, FiniteSets

CONSTANTS
    Requests,   \* tool calls that ask for a new result
    Recs,       \* build records (factSessionRef); as many as builds may start
    Scopes,     \* ProjectContext build scopes
    Roots,      \* canonical project roots
    RootOf,     \* the project root each scope belongs to
    Certified,  \* scopes projected from a certified artifact: fixed fingerprint
    Items,      \* keys of the items a build publishes
    NoRec,      \* no record
    PageSize,   \* items per page
    Ttl,        \* DEFAULT_SESSION_TTL_MS, in clock steps
    MaxTime,    \* bound on the clock
    MaxVersion, \* bound on the versions of the sources of a scope
    MaxEvents   \* bound on progress snapshots per build

ASSUME ScopesAssumption == Scopes # {}
ASSUME RootAssumption == RootOf \in [Scopes -> Roots]
ASSUME CertifiedAssumption == Certified \subseteq Scopes
ASSUME NoRecAssumption == NoRec \notin Recs
ASSUME ItemsAssumption == IsFiniteSet(Items)
ASSUME PageSizeAssumption == PageSize \in Nat \ {0}
ASSUME TtlAssumption == Ttl \in Nat \ {0}
ASSUME BoundAssumption == MaxTime \in Nat /\ MaxVersion \in Nat /\ MaxEvents \in Nat

VARIABLES
    mgr,     \* the manager's private maps and records
    pc,      \* where each request is in its tool call
    target,  \* the build record each request joined
    facts,   \* source and manifest facts of each scope, as a version
    now      \* Date.now()

vars == <<mgr, pc, target, facts, now>>

-----------------------------------------------------------------------------
(* Data.                                                                   *)

\* terminal.kind, with the error kept apart by what threw it: the worker's own
\* ("failed"), or the write of a fact chunk into a missing directory ("enoent").
Failures == {"failed", "enoent", "cancelled"}
Terminals == {"unused", "pending", "success"} \cup Failures

\* AbortController.signal.reason of a build.
Reasons == {"none", "unwanted", "stale", "disposed"}

\* Where a request is: not begun, waiting for a build, between a build and its first
\* page, or answered.  "unstored" and "leaked" are answers by an exception that left
\* something in the manager: a result directory, or the lease of the request.
Places == {"idle", "building", "progressive", "ackwait", "assembled", "leased",
           "done", "rejected", "cancelled", "refused", "invalid", "unstored", "leaked"}

Event == [outcome : {"progress", "success"}, items : SUBSET Items]

\* A cursor is the stream it continues and the page it asks for.
Cursor == Requests \X Nat

Stream == [kind : {"none", "static", "live"}, rec : Recs \cup {NoRec},
           stored : SUBSET Items, delivered : SUBSET Items, seen : Nat,
           page : Nat, expires : Nat, reading : BOOLEAN, ended : BOOLEAN]

NoStream == [kind |-> "none", rec |-> NoRec, stored |-> {}, delivered |-> {},
             seen |-> 0, page |-> 0, expires |-> 0, reading |-> FALSE,
             ended |-> FALSE]

Manager ==
    [phase : {"open", "disposing", "disposed"},
     cached : SUBSET Recs,                  \* #sessions, as the records it holds
     unsettled : SUBSET Recs,               \* #unsettledBuilds
     scope : [Recs -> Scopes], print : [Recs -> Nat],   \* BuildRecord.key
     terminal : [Recs -> Terminals],
     reason : [Recs -> Reasons],            \* controller.signal
     consumers : [Recs -> SUBSET Requests], \* activeConsumers
     waiters : [Recs -> SUBSET Requests],   \* progressWaiters
     log : [Recs -> Seq(Event)],            \* progressEvents
     expires : [Recs -> Nat],
     buildDirs : SUBSET Recs,               \* buildDirectory on disk
     resultDirs : SUBSET Requests,          \* resultDirectory on disk
     stream : [Requests -> Stream],         \* ContinuationRecord
     cursors : SUBSET Cursor,               \* keys of #continuations
     expired : SUBSET (Cursor \X Nat),      \* #expiredCursors
     failures : SUBSET (Cursor \X Nat)]     \* #terminalCursorFailures

\* fingerprintProjectFacts: a certified scope is identified by its artifact, any other
\* by the path, size, time and bytes of its files.  Versions are the values it takes, and
\* one may return: deleting a file that was added brings the former one back.
Fingerprint(s) == IF s \in Certified THEN 0 ELSE facts[s]

\* (Names with an underscore are faulty variants, which the mutation checks put in
\* the place of the definition that follows them.  Here a build is only found once it
\* has ended.)
Lookup_Ended(m, s, f) ==
    {r \in m.cached : m.scope[r] = s /\ m.print[r] = f /\ m.terminal[r] = "success"}

\* The record #sessions holds under the key of a scope and a fingerprint.
Lookup(m, s, f) == {r \in m.cached : m.scope[r] = s /\ m.print[r] = f}

Pending(m, r) == m.terminal[r] = "pending"

HasCursor(m, q) == \E c \in m.cursors : c[1] = q

-----------------------------------------------------------------------------
(* The private methods.                                                    *)

\* #createBuildRecord, and its insertion in #sessions.
CreateRecord(m, r, s, f, t) ==
    [m EXCEPT !.cached = @ \cup {r}, !.unsettled = @ \cup {r},
              !.scope[r] = s, !.print[r] = f,
              !.terminal[r] = "pending", !.expires[r] = t + Ttl,
              !.buildDirs = @ \cup {r}]

\* Faulty: the first consumer to leave aborts the build.
ReleaseConsumer_Any(m, r, q) ==
    [m EXCEPT !.consumers[r] = @ \ {q},
              !.reason[r] = IF Pending(m, r) /\ @ = "none" THEN "unwanted" ELSE @]

\* #releaseConsumer: the last consumer to leave aborts a pending build and
\* removes the files of a settled one.
ReleaseConsumer(m, r, q) ==
    IF q \notin m.consumers[r] THEN m
    ELSE LET last == m.consumers[r] = {q} IN
         [m EXCEPT !.consumers[r] = @ \ {q},
                   !.reason[r] = IF last /\ Pending(m, r) /\ @ = "none"
                                 THEN "unwanted" ELSE @,
                   !.buildDirs = IF last /\ ~Pending(m, r) /\ r \in m.cached
                                 THEN @ \ {r} ELSE @]

\* #cleanupBuildFiles: only a record still in #sessions is found by its ref.
CleanupBuildFiles(m, r) ==
    [m EXCEPT !.buildDirs = IF r \in m.cached THEN @ \ {r} ELSE @]

\* Faulty: cleaning a stream up forgets its lease.
LeasedBy_None(m, S, r) == {}

\* The streams of S that hold a lease of record r.
LeasedBy(m, S, r) == {q \in S : m.stream[q].kind = "live" /\ m.stream[q].rec = r}

\* #cleanupResult of every stream of S: its cursors expire, its directory goes,
\* its lease is released and the files of its build are removed.
CleanupResults(m, S, t) ==
    LET gone(r) == m.consumers[r] \cap LeasedBy(m, S, r) IN
    [m EXCEPT
        !.cursors = {c \in @ : c[1] \notin S},
        !.expired = @ \cup {<<c, t + Ttl>> : c \in {d \in m.cursors : d[1] \in S}},
        !.resultDirs = @ \ S,
        !.stream = [q \in Requests |->
                       IF q \in S THEN [@[q] EXCEPT !.reading = FALSE] ELSE @[q]],
        !.consumers = [r \in Recs |-> @[r] \ gone(r)],
        !.reason = [r \in Recs |->
                       IF /\ gone(r) # {} /\ gone(r) = m.consumers[r]
                          /\ Pending(m, r) /\ @[r] = "none"
                       THEN "unwanted" ELSE @[r]],
        !.buildDirs = {r \in @ : ~(r \in m.cached /\ \E q \in S : m.stream[q].rec = r)}]

\* #invalidateFactSession: forget the record, and stop it if it still runs.
InvalidateFactSession(m, r) ==
    IF r \notin m.cached THEN m
    ELSE [m EXCEPT !.cached = @ \ {r}, !.buildDirs = @ \ {r},
                   !.reason[r] = IF Pending(m, r) /\ @ = "none" THEN "stale" ELSE @]

\* Faulty: an expired failure is forgotten, not turned into an expired cursor.
SweepRetired_Forget(m, t) == [m EXCEPT !.failures = {g \in @ : g[2] > t}]

\* #cleanupExpired, of the cursors that are out of use.
SweepRetired(m, t) ==
    LET failed == {g \in m.failures : g[2] <= t} IN
    [m EXCEPT !.expired = {g \in @ : g[2] > t} \cup {<<g[1], t + Ttl>> : g \in failed},
              !.failures = @ \ failed]

\* #cleanupExpired, of the settled sessions nobody uses.
SweepSessions(m, t) ==
    LET old == {r \in m.cached : /\ ~Pending(m, r)
                                 /\ m.consumers[r] = {}
                                 /\ m.expires[r] <= t}
    IN [m EXCEPT !.cached = @ \ old, !.buildDirs = @ \ old]

\* #cleanupExpired: the first thing every public operation does.
CleanupExpired(m, t) ==
    LET m1 == SweepRetired(m, t)
        idle == {q \in Requests : HasCursor(m1, q) /\ m1.stream[q].expires <= t}
    IN SweepSessions(CleanupResults(m1, idle, t), t)

\* Faulty: waiters are not woken.
PublishEvent_Silent(m, r, outcome, I) ==
    [m EXCEPT !.log[r] = Append(@, [outcome |-> outcome, items |-> I])]

\* publishEvent, once the fact chunks are on disk: log it and wake every waiter.
PublishEvent(m, r, outcome, I) ==
    [m EXCEPT !.log[r] = Append(@, [outcome |-> outcome, items |-> I]),
              !.waiters[r] = {}]

\* #failLiveContinuations: the cursors of the streams of L become failures.
FailCursors(m, L, t) ==
    [m EXCEPT !.cursors = {c \in @ : c[1] \notin L},
              !.failures = @ \cup {<<c, t + Ttl>> : c \in {d \in m.cursors : d[1] \in L}},
              !.resultDirs = @ \ L]

\* Faulty: a settled build is still owned.
Settle_Owned(m, r, kind) == [m EXCEPT !.terminal[r] = kind]

\* The terminal outcome of a build, and the finally that gives up its ownership.
Settle(m, r, kind) == [m EXCEPT !.terminal[r] = kind, !.unsettled = @ \ {r}]

\* Faulty: what is cached under the key of the build goes, whatever record it is.
SettleFailed_Key(m, r, kind, t) ==
    LET L == {q \in LeasedBy(m, Requests, r) : HasCursor(m, q)} IN
    [Settle(FailCursors(m, L, t), r, kind) EXCEPT
        !.consumers[r] = @ \ L,
        !.waiters[r] = {},
        !.cached = @ \ Lookup(m, m.scope[r], m.print[r]),
        !.buildDirs = @ \ {r}]

\* The catch of a build: its live cursors fail, every waiter is woken, and the record
\* and its files go; another record cached under the same key by then stays.
SettleFailed(m, r, kind, t) ==
    LET L == {q \in LeasedBy(m, Requests, r) : HasCursor(m, q)} IN
    [Settle(FailCursors(m, L, t), r, kind) EXCEPT
        !.consumers[r] = @ \ L,
        !.waiters[r] = {},
        !.cached = @ \ {r},
        !.buildDirs = @ \ {r}]

\* Faulty: the latest event instead of the first unread one.
NextVersion_Latest(m, r, v) == Len(m.log[r])

\* The version #waitForProgress returns after version v: the first unread event,
\* the terminal event of a successful build, or 0 when it has to wait.
NextVersion(m, r, v) ==
    IF Len(m.log[r]) > v THEN v + 1
    ELSE IF m.terminal[r] = "success" THEN Len(m.log[r]) ELSE 0

\* Pages cut from the items a stream has not delivered yet.
Available(m, q) ==
    LET s == m.stream[q] IN
    (IF s.kind = "live" THEN m.log[s.rec][s.seen].items ELSE s.stored) \ s.delivered

Page(avail) == {P \in SUBSET avail :
                   Cardinality(P) = PageSize \/ (P = avail /\ Cardinality(P) < PageSize)}

\* A live stream can answer: it has undelivered items, or nothing more will come.
CanServe(m, q) ==
    \/ Available(m, q) # {}
    \/ m.log[m.stream[q].rec][m.stream[q].seen].outcome = "success"

\* Faulty: a finished result is not cleaned up.
Finish_Keep(m, q, t) == m

\* The last page of a stream has been answered.
Finish(m, q, t) == CleanupResults(m, {q}, t)

\* Answer with page P: hand out the next cursor, or clean the finished result up.
Serve(m, q, P, t) ==
    LET s == m.stream[q]
        more == \/ Available(m, q) # P
                \/ s.kind = "live" /\ m.log[s.rec][s.seen].outcome # "success"
        served == [s EXCEPT !.delivered = @ \cup P, !.reading = FALSE, !.ended = ~more]
    IN IF more
       THEN [m EXCEPT !.stream[q] = [served EXCEPT !.page = @ + 1, !.expires = t + Ttl],
                      !.cursors = @ \cup {<<q, s.page + 1>>}]
       ELSE Finish([m EXCEPT !.stream[q] = served], q, t)

\* A new stream: a static one after its first page, a live one while that is read.
OpenStream(kind, r, value, P, seen, page, t) ==
    [kind |-> kind, rec |-> r, stored |-> value, delivered |-> P, seen |-> seen,
     page |-> page, expires |-> t + Ttl, reading |-> kind = "live", ended |-> FALSE]

\* Faulty: the cursor stays valid until the page is there.
ClaimCursor_Late(m, c, t) == [m EXCEPT !.stream[c[1]].reading = TRUE]

\* A read claims its cursor before it looks for items: a cursor is read once.
ClaimCursor(m, c, t) ==
    [m EXCEPT !.cursors = @ \ {c},
              !.expired = @ \cup {<<c, t + Ttl>>},
              !.stream[c[1]].reading = TRUE]

-----------------------------------------------------------------------------
Init ==
    /\ mgr = [phase |-> "open", cached |-> {}, unsettled |-> {},
              scope |-> [r \in Recs |-> CHOOSE s \in Scopes : TRUE],
              print |-> [r \in Recs |-> 0],
              terminal |-> [r \in Recs |-> "unused"],
              reason |-> [r \in Recs |-> "none"],
              consumers |-> [r \in Recs |-> {}],
              waiters |-> [r \in Recs |-> {}],
              log |-> [r \in Recs |-> <<>>],
              expires |-> [r \in Recs |-> 0],
              buildDirs |-> {}, resultDirs |-> {},
              stream |-> [q \in Requests |-> NoStream],
              cursors |-> {}, expired |-> {}, failures |-> {}]
    /\ pc = [q \in Requests |-> "idle"]
    /\ target = [q \in Requests |-> NoRec]
    /\ facts = [s \in Scopes |-> 0]
    /\ now = 0

-----------------------------------------------------------------------------
(* Requests for a new result.                                              *)

\* acquire (mode "building") and acquireProgressive (mode "progressive"): join the
\* build cached under the scope's key, or start it.
Acquire(q, s, mode) ==
    LET m == CleanupExpired(mgr, now)
        hit == Lookup(m, s, Fingerprint(s))
    IN /\ pc[q] = "idle"
       /\ mgr.phase = "open"
       /\ \E r \in Recs :
             /\ IF hit = {} THEN m.terminal[r] = "unused" ELSE r \in hit
             /\ LET m1 == IF hit = {} THEN CreateRecord(m, r, s, Fingerprint(s), now)
                                      ELSE m
                IN mgr' = [m1 EXCEPT !.consumers[r] = @ \cup {q}]
             /\ target' = [target EXCEPT ![q] = r]
       /\ pc' = [pc EXCEPT ![q] = mode]
       /\ UNCHANGED <<facts, now>>

\* #assertOpen: after dispose() nothing starts.
AcquireRefused(q) ==
    /\ pc[q] = "idle"
    /\ mgr.phase # "open"
    /\ pc' = [pc EXCEPT ![q] = "refused"]
    /\ UNCHANGED <<mgr, target, facts, now>>

\* acquire resolves; buildGraph copies the value and releases its lease.
BuildResolved(q) ==
    /\ pc[q] = "building"
    /\ mgr.terminal[target[q]] = "success"
    /\ mgr' = ReleaseConsumer(mgr, target[q], q)
    /\ pc' = [pc EXCEPT ![q] = "assembled"]
    /\ UNCHANGED <<target, facts, now>>

\* The build of a waiting request failed: acquire rejects with its error.
BuildRejected(q) ==
    /\ pc[q] = "building"
    /\ mgr.terminal[target[q]] \in Failures
    /\ mgr' = ReleaseConsumer(mgr, target[q], q)
    /\ pc' = [pc EXCEPT ![q] = "rejected"]
    /\ UNCHANGED <<target, facts, now>>

\* The request's own signal aborts while it waits.  The last consumer of a pending
\* build holds its answer back until the worker has settled.
AbortBuilding(q) ==
    LET m == ReleaseConsumer(mgr, target[q], q) IN
    /\ pc[q] = "building"
    /\ mgr' = m
    /\ pc' = [pc EXCEPT ![q] = IF m.consumers[target[q]] = {} /\ Pending(m, target[q])
                               THEN "ackwait" ELSE "cancelled"]
    /\ UNCHANGED <<target, facts, now>>

\* ... and answers once record.promise has settled.
CleanupAcknowledged(q) ==
    /\ pc[q] = "ackwait"
    /\ target[q] \notin mgr.unsettled
    /\ pc' = [pc EXCEPT ![q] = "cancelled"]
    /\ UNCHANGED <<mgr, target, facts, now>>

\* One turn of #waitForProgress for acquireProgressive: an error is thrown before
\* any unread event is returned; with nothing to return the request parks.
AwaitFirstSnapshot(q) ==
    LET r == target[q] IN
    /\ pc[q] = "progressive"
    /\ q \notin mgr.waiters[r]
    /\ IF mgr.terminal[r] \in Failures
       THEN /\ mgr' = ReleaseConsumer(mgr, r, q)
            /\ pc' = [pc EXCEPT ![q] = "rejected"]
       ELSE IF NextVersion(mgr, r, 0) > 0
            THEN /\ pc' = [pc EXCEPT ![q] = "leased"]
                 /\ UNCHANGED mgr
            ELSE /\ mgr' = [mgr EXCEPT !.waiters[r] = @ \cup {q}]
                 /\ UNCHANGED pc
    /\ UNCHANGED <<target, facts, now>>

\* The request's own signal aborts while it is parked.
AbortProgressive(q) ==
    LET r == target[q] IN
    /\ pc[q] = "progressive"
    /\ q \in mgr.waiters[r]
    /\ mgr' = ReleaseConsumer([mgr EXCEPT !.waiters[r] = @ \ {q}], r, q)
    /\ pc' = [pc EXCEPT ![q] = "cancelled"]
    /\ UNCHANGED <<target, facts, now>>

\* publishContinuation of the finished value: the session is looked up again by
\* its ref, although the lease that kept it was released by BuildResolved.
PublishStatic(q) ==
    LET r == target[q]
        m == CleanupExpired(mgr, now)
        value == m.log[r][Len(m.log[r])].items
    IN /\ pc[q] = "assembled"
       /\ IF mgr.phase # "open"
          THEN UNCHANGED mgr /\ pc' = [pc EXCEPT ![q] = "refused"]
          ELSE IF r \notin m.cached
          THEN mgr' = m /\ pc' = [pc EXCEPT ![q] = "invalid"]
          ELSE /\ \E P \in Page(value) :
                     IF P = value THEN mgr' = CleanupBuildFiles(m, r)
                     ELSE mgr' = [m EXCEPT
                              !.resultDirs = @ \cup {q},
                              !.cursors = @ \cup {<<q, 2>>},
                              !.stream[q] = OpenStream("static", r, value, P, 0, 2, now)]
               /\ pc' = [pc EXCEPT ![q] = "done"]
       /\ UNCHANGED <<target, facts, now>>

\* publishLiveContinuation: a stream over the lease, positioned at its first
\* snapshot.  The first page is served at once, or the request awaits the next
\* snapshot (LiveReadTurn); its own signal is not passed to that wait.
PublishLive(q) ==
    LET r == target[q]
        m == CleanupExpired(mgr, now)
        m1 == [m EXCEPT !.resultDirs = @ \cup {q},
                        !.stream[q] =
                            OpenStream("live", r, {}, {}, NextVersion(m, r, 0), 1, now)]
    IN /\ pc[q] = "leased"
       /\ IF mgr.phase # "open"
          THEN UNCHANGED mgr /\ pc' = [pc EXCEPT ![q] = "refused"]
          ELSE IF r \notin m.cached
          THEN /\ mgr' = ReleaseConsumer(m, r, q)
               /\ pc' = [pc EXCEPT ![q] = "invalid"]
          ELSE /\ pc' = [pc EXCEPT ![q] = "done"]
               /\ IF CanServe(m1, q)
                  THEN \E P \in Page(Available(m1, q)) : mgr' = Serve(m1, q, P, now)
                  ELSE mgr' = m1
       /\ UNCHANGED <<target, facts, now>>

\* Projecting the value throws before it is paged.  acquire has given the lease back by
\* then; what acquireProgressive returned is projected outside any try, and nobody
\* gives its lease back.
ProjectionThrows(q) ==
    /\ \/ pc[q] = "assembled" /\ pc' = [pc EXCEPT ![q] = "rejected"]
       \/ pc[q] = "leased" /\ pc' = [pc EXCEPT ![q] = "leaked"]
    /\ UNCHANGED <<mgr, target, facts, now>>

\* Resolving the root, making the result directory of a stream or writing its file throws:
\* a directory that was made stays, and so does the lease of a live stream, whose try
\* begins later.
StoreThrows(q) ==
    LET r == target[q]
        m == CleanupExpired(mgr, now)
        value == m.log[r][Len(m.log[r])].items
    IN /\ mgr.phase = "open"
       /\ pc[q] \in {"assembled", "leased"}
       /\ \/ mgr' = m
          \/ /\ r \in m.cached
             /\ pc[q] = "assembled" => value \notin Page(value)
             /\ mgr' = [m EXCEPT !.resultDirs = @ \cup {q}]
       /\ pc' = [pc EXCEPT ![q] = IF @ = "assembled" THEN "unstored" ELSE "leaked"]
       /\ UNCHANGED <<target, facts, now>>

-----------------------------------------------------------------------------
(* Calls that present a cursor.                                            *)

\* readContinuation.  A cursor of another project, or one no longer in the map, is
\* answered with an error and changes nothing but what the sweep removes.
ReadContinuation(c, root) ==
    LET q == c[1]
        m == CleanupExpired(mgr, now)
        r == m.stream[q].rec
        m1 == ClaimCursor(m, c, now)
    IN /\ IF c \notin m.cursors \/ root # RootOf[m.scope[r]]
          THEN mgr' = m
          ELSE IF Fingerprint(m.scope[r]) # m.print[r]
          THEN mgr' = InvalidateFactSession(CleanupResults(m, {q}, now), r)
          ELSE IF m.stream[q].kind = "static" \/ CanServe(m1, q)
          THEN \E P \in Page(Available(m1, q)) : mgr' = Serve(m1, q, P, now)
          ELSE mgr' = m1
       /\ UNCHANGED <<pc, target, facts, now>>

\* One turn of the loop of #readLiveContinuation: lease.next, then a page if the
\* snapshot has one.  A failed build ends the stream.
LiveReadTurn(q) ==
    LET r == mgr.stream[q].rec
        v == NextVersion(mgr, r, mgr.stream[q].seen)
        m == [mgr EXCEPT !.stream[q].seen = v]
    IN /\ mgr.stream[q].reading
       /\ q \notin mgr.waiters[r]
       /\ IF mgr.terminal[r] \in Failures
          THEN mgr' = CleanupResults(mgr, {q}, now)
          ELSE IF v = 0
          THEN mgr' = [mgr EXCEPT !.waiters[r] = @ \cup {q}]
          ELSE IF CanServe(m, q)
          THEN \E P \in Page(Available(m, q)) : mgr' = Serve(m, q, P, now)
          ELSE mgr' = m
       /\ UNCHANGED <<pc, target, facts, now>>

\* The snapshot lease.next returned cannot be projected: the read throws, and its catch
\* cleans the result up, lease included.
ReadThrows(q) ==
    LET r == mgr.stream[q].rec IN
    /\ mgr.stream[q].reading
    /\ q \notin mgr.waiters[r]
    /\ mgr.terminal[r] \notin Failures
    /\ NextVersion(mgr, r, mgr.stream[q].seen) > 0
    /\ mgr' = CleanupResults(mgr, {q}, now)
    /\ UNCHANGED <<pc, target, facts, now>>

\* cancelContinuation, with the same refusals as readContinuation.
CancelContinuation(c, root) ==
    LET m == CleanupExpired(mgr, now) IN
    /\ mgr' = IF c \notin m.cursors \/ root # RootOf[m.scope[m.stream[c[1]].rec]]
              THEN m ELSE CleanupResults(m, {c[1]}, now)
    /\ UNCHANGED <<pc, target, facts, now>>

-----------------------------------------------------------------------------
(* The build worker of a record.                                           *)

\* publish(value): throws, and changes nothing, once the build is aborted, or when the
\* value has a fact chunk and the directory it goes to is missing.
WorkerPublish(r) ==
    /\ r \in mgr.unsettled
    /\ mgr.reason[r] = "none"
    /\ Len(mgr.log[r]) < MaxEvents
    /\ \E I \in SUBSET Items : mgr' = PublishEvent(mgr, r, "progress", I)
    /\ UNCHANGED <<pc, target, facts, now>>

\* The build returns a value.  An aborted one is still cancelled, and one whose chunk
\* directory is gone fails when it writes its final chunks, if it has any.
WorkerReturns(r) ==
    /\ r \in mgr.unsettled
    /\ \/ /\ mgr.reason[r] # "none"
          /\ mgr' = SettleFailed(mgr, r, "cancelled", now)
       \/ /\ mgr.reason[r] = "none" /\ r \notin mgr.buildDirs
          /\ mgr' = SettleFailed(mgr, r, "enoent", now)
       \/ /\ mgr.reason[r] = "none"
          /\ \E I \in SUBSET Items :
                mgr' = [Settle(PublishEvent(mgr, r, "success", I), r, "success") EXCEPT
                           !.expires[r] = now + Ttl]
    /\ UNCHANGED <<pc, target, facts, now>>

\* The build throws: of its own, or because its signal aborted.
WorkerThrows(r) ==
    /\ r \in mgr.unsettled
    /\ mgr' = SettleFailed(mgr, r,
                 IF mgr.reason[r] # "none" THEN "cancelled" ELSE "failed", now)
    /\ UNCHANGED <<pc, target, facts, now>>

-----------------------------------------------------------------------------
(* Shutdown, sources and time.                                             *)

\* Continuations of settled promises that have not run yet.  Shutdown arrives as a
\* new event of the event loop, after they have.
Runnable(q) ==
    \/ pc[q] = "leased"
    \/ pc[q] = "building" /\ ~Pending(mgr, target[q])
    \/ pc[q] = "progressive" /\ q \notin mgr.waiters[target[q]]
    \/ mgr.stream[q].reading /\ q \notin mgr.waiters[mgr.stream[q].rec]

\* dispose(): refuse new work and abort every build whose worker has not settled,
\* the ones #sessions already forgot included.
Dispose ==
    /\ mgr.phase = "open"
    /\ \A q \in Requests : ~Runnable(q)
    /\ mgr' = [mgr EXCEPT
                  !.phase = "disposing",
                  !.reason = [r \in Recs |->
                      IF r \in mgr.unsettled /\ @[r] = "none" THEN "disposed" ELSE @[r]]]
    /\ UNCHANGED <<pc, target, facts, now>>

\* A read that goes on with its build.  A call of the client is an event of its own:
\* its read has run as far as it can when the next worker settles, and shutdown, which
\* completes in the wake of that, finds only reads whose build failed.
GoesOn(q) ==
    /\ mgr.stream[q].reading
    /\ q \notin mgr.waiters[mgr.stream[q].rec]
    /\ mgr.terminal[mgr.stream[q].rec] \notin Failures

\* Faulty: shutdown forgets the builds that are no longer cached.
DisposeDone_Cached ==
    /\ mgr.phase = "disposing"
    /\ \A q \in Requests : ~GoesOn(q)
    /\ mgr.unsettled \cap mgr.cached = {}
    /\ mgr' = [mgr EXCEPT !.phase = "disposed", !.cached = {}, !.cursors = {},
                          !.buildDirs = {}, !.resultDirs = {}]
    /\ UNCHANGED <<pc, target, facts, now>>

\* Every worker has settled: the maps are cleared and the temporary root removed.
DisposeDone ==
    /\ mgr.phase = "disposing"
    /\ \A q \in Requests : ~GoesOn(q)
    /\ mgr.unsettled = {}
    /\ mgr' = [mgr EXCEPT !.phase = "disposed", !.cached = {}, !.cursors = {},
                          !.expired = {}, !.failures = {},
                          !.buildDirs = {}, !.resultDirs = {}]
    /\ UNCHANGED <<pc, target, facts, now>>

\* A source or manifest file of the scope changes, appears or goes.
EditSources(s) ==
    /\ \E v \in 0 .. MaxVersion : v # facts[s] /\ facts' = [facts EXCEPT ![s] = v]
    /\ UNCHANGED <<mgr, pc, target, now>>

ClockTick ==
    /\ now < MaxTime
    /\ now' = now + 1
    /\ UNCHANGED <<mgr, pc, target, facts>>

-----------------------------------------------------------------------------
\* Cursors a client has been given: the current one of each stream, and older ones.
Issued == {<<q, n>> : q \in Requests, n \in 2 .. Cardinality(Items) + 1}

NewRequest ==
    \E q \in Requests :
        \/ \E s \in Scopes, mode \in {"building", "progressive"} : Acquire(q, s, mode)
        \/ AcquireRefused(q)
        \/ BuildResolved(q) \/ BuildRejected(q)
        \/ AbortBuilding(q) \/ CleanupAcknowledged(q)
        \/ AwaitFirstSnapshot(q) \/ AbortProgressive(q)
        \/ PublishStatic(q) \/ PublishLive(q)
        \/ ProjectionThrows(q) \/ StoreThrows(q)

CursorCall ==
    \/ \E c \in Issued, root \in Roots :
          c[2] <= mgr.stream[c[1]].page
             /\ (ReadContinuation(c, root) \/ CancelContinuation(c, root))
    \/ \E q \in Requests : LiveReadTurn(q) \/ ReadThrows(q)

Worker == \E r \in Recs : WorkerPublish(r) \/ WorkerReturns(r) \/ WorkerThrows(r)

Environment ==
    \/ Dispose \/ DisposeDone \/ ClockTick
    \/ \E s \in Scopes : EditSources(s)

Next == NewRequest \/ CursorCall \/ Worker \/ Environment

Spec == Init /\ [][Next]_vars

\* The event loop runs every continuation that is ready, and every worker, told to
\* stop or not, eventually returns or throws.
Fairness ==
    /\ \A q \in Requests :
          /\ WF_vars(BuildResolved(q) \/ BuildRejected(q))
          /\ WF_vars(AwaitFirstSnapshot(q))
          /\ WF_vars(CleanupAcknowledged(q))
          /\ WF_vars(PublishStatic(q) \/ PublishLive(q))
          /\ WF_vars(LiveReadTurn(q))
    /\ \A r \in Recs : WF_vars(WorkerReturns(r) \/ WorkerThrows(r))
    /\ WF_vars(DisposeDone)

FairSpec == Spec /\ Fairness

\* The same with the guards written out: what has its guard from some time on is done.
Taken(guard, A) == []<>~guard \/ []<><<A>>_vars

LoopRuns(q) ==
    /\ Taken(pc[q] = "building" /\ mgr.terminal[target[q]] \in {"success"} \cup Failures,
             BuildResolved(q) \/ BuildRejected(q))
    /\ Taken(pc[q] = "progressive" /\ q \notin mgr.waiters[target[q]], AwaitFirstSnapshot(q))
    /\ Taken(pc[q] = "ackwait" /\ target[q] \notin mgr.unsettled, CleanupAcknowledged(q))
    /\ Taken(pc[q] \in {"assembled", "leased"}, PublishStatic(q) \/ PublishLive(q))
    /\ Taken(mgr.stream[q].reading /\ q \notin mgr.waiters[mgr.stream[q].rec], LiveReadTurn(q))

WorkerSettles(r) == Taken(r \in mgr.unsettled, WorkerReturns(r) \/ WorkerThrows(r))

-----------------------------------------------------------------------------
(* Properties.                                                             *)

\* Every variable has its type.
TypeOK ==
    /\ mgr \in Manager
    /\ pc \in [Requests -> Places]
    /\ target \in [Requests -> Recs \cup {NoRec}]
    /\ facts \in [Scopes -> Nat]
    /\ now \in Nat

SameKey(r1, r2) == mgr.scope[r1] = mgr.scope[r2] /\ mgr.print[r1] = mgr.print[r2]

\* Requests for the same facts share one build: of two builds of one key that both
\* run, as when the sources return to a former state before a build stopped for their
\* change has settled, at least one has been told to stop.
SingleFlight ==
    \A r1, r2 \in mgr.unsettled :
        r1 # r2 /\ SameKey(r1, r2) => mgr.reason[r1] # "none" \/ mgr.reason[r2] # "none"

\* A build that still runs and was not told to stop can be found under its key and has
\* a consumer: nobody who leaves it, whichever of the abort, the cursor expiry and the
\* invalidation comes first, leaves a worker that no later call can reach.
NoOrphanWorker ==
    \A r \in mgr.unsettled :
        mgr.reason[r] = "none" => r \in mgr.cached /\ mgr.consumers[r] # {}

\* The requests that wait for a record, and the live streams of it that are open.
Owners(r) ==
    {q \in Requests :
        \/ target[q] = r /\ pc[q] \in {"building", "progressive", "leased"}
        \/ /\ LeasedBy(mgr, {q}, r) # {}
           /\ mgr.stream[q].reading \/ HasCursor(mgr, q)}

\* The requests that were answered by an exception between their lease and their stream.
Leaked(r) == {q \in Requests : target[q] = r /\ pc[q] = "leaked"}

\* The reference count of every record is its owners and the leases leaked between a lease
\* and its stream, and nothing else: that is the one path that leaks, and no other failure,
\* no cancellation, expiry or invalidation keeps a lease or gives back one still in use.
ConsumersOwned ==
    mgr.phase = "open" => \A r \in Recs : mgr.consumers[r] = Owners(r) \cup Leaked(r)

\* What is on disk can still be reached: a build directory belongs to a cached record,
\* and a result directory exists exactly while its stream has a cursor or a read.  Only
\* what a request made before its own file could not be written stays until shutdown.
NoTempLeak ==
    /\ mgr.buildDirs \subseteq mgr.cached
    /\ mgr.phase # "disposed" =>
          \A q \in Requests :
              IF q \in mgr.resultDirs
              THEN HasCursor(mgr, q) \/ mgr.stream[q].reading \/ pc[q] \in {"unstored", "leaked"}
              ELSE ~HasCursor(mgr, q) /\ ~mgr.stream[q].reading

\* A stream has at most one live cursor and none while a read is under way, so that
\* two reads of one result never run at once; a used or failed cursor stays dead.
OneCursor ==
    /\ \A c \in mgr.cursors :
          /\ ~mgr.stream[c[1]].reading
          /\ \A d \in mgr.cursors : d[1] = c[1] => d = c
    /\ \A g \in mgr.expired \cup mgr.failures : g[1] \notin mgr.cursors

\* Items the first n events of a record published.
Published(r, n) == UNION {mgr.log[r][i].items : i \in 1 .. n}

\* Paging skips no delta: a live stream that has moved on to an event has delivered
\* everything the earlier events carried, and one that ended everything there was.
EveryDelta ==
    \A q \in Requests :
        LET s == mgr.stream[q] IN
        s.kind = "live" =>
            /\ Published(s.rec, s.seen - 1) \subseteq s.delivered
            /\ s.delivered \subseteq Published(s.rec, s.seen)
            /\ s.ended => s.delivered = Published(s.rec, Len(mgr.log[s.rec]))

\* dispose() returns only when no worker runs and nothing it made is left behind.
DisposeClean ==
    mgr.phase = "disposed" =>
        /\ mgr.unsettled = {}
        /\ mgr.buildDirs = {} /\ mgr.resultDirs = {} /\ mgr.cursors = {}

\* A pending build is aborted for a reason that holds when it is: nobody that waited
\* for it is left, its sources changed, or the manager shuts down.
AbortJustified ==
    [][\A r \in Recs : mgr.reason'[r] # mgr.reason[r] =>
          \/ mgr.reason'[r] = "unwanted" /\ mgr.consumers'[r] \cap mgr.consumers[r] = {}
          \/ /\ mgr.reason'[r] = "stale"
             /\ Fingerprint(mgr.scope[r]) # mgr.print[r]
          \/ mgr.reason'[r] = "disposed" /\ mgr.phase' = "disposing"]_vars

\* A cursor that goes out of use is remembered for a full TTL as expired, or as
\* failed when its build failed, so that presenting it again gets the answer that
\* tells the client what to do and never "unknown cursor".
CursorRemembered ==
    [][mgr.phase' # "disposed" =>
          /\ \A c \in mgr.cursors \ mgr.cursors' :
              \/ <<c, now + Ttl>> \in mgr.expired'
              \/ /\ <<c, now + Ttl>> \in mgr.failures'
                 /\ mgr.terminal'[mgr.stream[c[1]].rec] \in Failures
          /\ \A g \in mgr.failures \ mgr.failures' : <<g[1], now + Ttl>> \in mgr.expired']_vars

\* The inductive invariant behind the type invariant and the safety of the builds.

\* A stream that was opened names its record, and a live one an event of its log.
StreamsOK(m) ==
    \A q \in Requests :
        /\ m.stream[q].kind # "none" => m.stream[q].rec \in Recs
        /\ m.stream[q].kind = "live" => m.stream[q].seen \in 1 .. Len(m.log[m.stream[q].rec])
        /\ m.stream[q].reading => m.stream[q].kind = "live"
        /\ HasCursor(m, q) => m.stream[q].kind # "none"

\* What the builds are in relation to the maps that hold them.
BuildsOK(m) ==
    /\ \A r \in Recs : r \in m.unsettled <=> Pending(m, r)
    /\ \A r \in Recs : m.terminal[r] = "success" => m.log[r] # <<>>
    /\ \A r \in m.cached : m.terminal[r] \in {"pending", "success"}
    /\ \A r1, r2 \in m.cached :
          m.scope[r1] = m.scope[r2] /\ m.print[r1] = m.print[r2] => r1 = r2
    /\ m.buildDirs \subseteq m.cached

WantedOK(m) ==
    \A r \in m.unsettled : m.reason[r] = "none" => r \in m.cached /\ m.consumers[r] # {}

\* A request past its admission has a record, and what it got from it is there.
RequestsOK ==
    \A q \in Requests :
        /\ pc[q] \notin {"idle", "refused"} => target[q] \in Recs
        /\ pc[q] = "assembled" => mgr.terminal[target[q]] = "success"
        /\ pc[q] = "leased" => mgr.log[target[q]] # <<>>

BuildInvariant ==
    /\ TypeOK
    /\ StreamsOK(mgr) /\ BuildsOK(mgr) /\ WantedOK(mgr)
    /\ RequestsOK

\* Every request that waits for a build is answered, whatever the build does.
RequestsAnswered ==
    \A q \in Requests :
        pc[q] \in {"building", "progressive", "leased", "ackwait"}
            ~> pc[q] \in {"assembled", "done", "rejected", "cancelled", "refused", "invalid",
                         "leaked"}

\* Every read of a live stream is answered: no wake-up is lost.
ReadsAnswered == \A q \in Requests : mgr.stream[q].reading ~> ~mgr.stream[q].reading

\* Shutdown finishes.
DisposeFinishes == (mgr.phase = "disposing") ~> (mgr.phase = "disposed")

-----------------------------------------------------------------------------
\* What a client sees of the result of a request: how far it is, what the events of its
\* build, or its stored value, hold, what it was given, and the page it is at.
FeedOf(m, q) ==
    LET s == m.stream[q] IN
    [place |-> IF s.kind = "none" THEN "none"
               ELSE IF s.reading THEN "reading"
               ELSE IF HasCursor(m, q) THEN "ready"
               ELSE IF s.ended THEN "complete" ELSE "dropped",
     offered |-> IF s.kind = "live"
                 THEN UNION {m.log[s.rec][i].items : i \in 1 .. Len(m.log[s.rec])}
                 ELSE s.stored,
     given |-> s.delivered,
     page |-> s.page]

Feeds == INSTANCE PagedFeed WITH feed <- [q \in Requests |-> FeedOf(mgr, q)]

\* Whatever joins, fails, expires, is cancelled or shut down around it, a result is paged
\* as PagedFeed promises: nothing is given twice or passed over, every page but the last
\* brings something new, and what is declared complete has been given in full.
FeedsPaged == Feeds!Spec

(* What the tests and error messages say of cancellation and of failure,    *)
(* and the code does not do.                                                *)

\* One consumer leaving does not fail the build of the others: a build fails of its
\* own or because it was told to stop, never because its files were removed.
SiblingsUnharmed == \A r \in Recs : mgr.terminal[r] # "enoent"
=============================================================================
