------------------------ MODULE BuildSession_proofs ------------------------
(* Proofs about BuildSession, for any number of requests, records, scopes  *)
(* and items, any clock and any bounds.                                    *)
EXTENDS BuildSession, FiniteSetTheorems, TLAPS

(***************************************************************************)
(* Every private method maps a manager that satisfies MgrOK to one that    *)
(* does, and loses nothing a request relies on (Extends).                  *)
(***************************************************************************)
MgrOK(m) == m \in Manager /\ StreamsOK(m) /\ BuildsOK(m) /\ WantedOK(m)

\* What a request has seen of a build stays: its events and its success.
Extends(m1, m2) ==
    \A r \in Recs :
        /\ m1.terminal[r] = "success" => m2.terminal[r] = "success"
        /\ m1.log[r] # <<>> => m2.log[r] # <<>>

-----------------------------------------------------------------------------

\* Releasing a lease: the build it aborts has no consumer left.
LEMMA ReleaseOK ==
    ASSUME NEW m, MgrOK(m), NEW r \in Recs, NEW q \in Requests
    PROVE  MgrOK(ReleaseConsumer(m, r, q)) /\ Extends(m, ReleaseConsumer(m, r, q))
<1> DEFINE n == ReleaseConsumer(m, r, q)
<1>1. n \in Manager
  BY DEF MgrOK, Manager, ReleaseConsumer, Pending, Reasons
<1>2. /\ n.cached = m.cached /\ n.unsettled = m.unsettled /\ n.terminal = m.terminal
      /\ n.log = m.log /\ n.stream = m.stream /\ n.cursors = m.cursors
      /\ n.scope = m.scope /\ n.print = m.print /\ n.buildDirs \subseteq m.buildDirs
  BY DEF MgrOK, Manager, ReleaseConsumer
<1>3. StreamsOK(n) /\ BuildsOK(n)
  BY <1>2 DEF MgrOK, StreamsOK, BuildsOK, HasCursor, Pending
<1>4. WantedOK(n)
  <2> SUFFICES ASSUME NEW k \in n.unsettled, n.reason[k] = "none"
               PROVE  k \in n.cached /\ n.consumers[k] # {}
    BY DEF WantedOK
  <2>1. k \in Recs /\ Pending(m, k)
    BY <1>2 DEF MgrOK, Manager, BuildsOK
  <2>2. m.reason[k] = "none"
    BY <2>1 DEF MgrOK, Manager, ReleaseConsumer, Reasons
  <2>3. k \in m.cached /\ m.consumers[k] # {}
    BY <1>2, <2>2 DEF MgrOK, WantedOK
  <2>4. n.consumers[k] # {}
    BY <2>1, <2>2, <2>3 DEF MgrOK, Manager, ReleaseConsumer
  <2> QED BY <1>2, <2>3, <2>4
<1>5. Extends(m, n)
  BY <1>2 DEF Extends
<1> QED BY <1>1, <1>3, <1>4, <1>5 DEF MgrOK

\* The cursor registers: nothing of a build or a stream changes.
LEMMA SweepRetiredOK ==
    ASSUME NEW m, MgrOK(m), NEW t \in Nat
    PROVE  MgrOK(SweepRetired(m, t)) /\ Extends(m, SweepRetired(m, t))
<1> DEFINE n == SweepRetired(m, t)
<1>1. n \in Manager
  <2> DEFINE failed == {g \in m.failures : g[2] <= t}
             old == {g \in m.expired : g[2] > t}
             new == {<<g[1], t + Ttl>> : g \in failed}
             e == old \cup new
             f == m.failures \ failed
  <2>1. m.failures \subseteq Cursor \X Nat /\ m.expired \subseteq Cursor \X Nat
    BY DEF MgrOK, Manager
  <2>2. new \subseteq Cursor \X Nat
    BY <2>1, TtlAssumption
  <2>3. e \in SUBSET (Cursor \X Nat) /\ f \in SUBSET (Cursor \X Nat)
    BY <2>1, <2>2
  <2>4. n = [m EXCEPT !.expired = e, !.failures = f]
    BY DEF SweepRetired
  <2> HIDE DEF e, f, n
  <2> QED BY <2>3, <2>4 DEF MgrOK, Manager
<1>2. /\ n.cached = m.cached /\ n.unsettled = m.unsettled /\ n.terminal = m.terminal
      /\ n.log = m.log /\ n.stream = m.stream /\ n.cursors = m.cursors
      /\ n.scope = m.scope /\ n.print = m.print /\ n.buildDirs = m.buildDirs
      /\ n.reason = m.reason /\ n.consumers = m.consumers
  BY DEF MgrOK, Manager, SweepRetired
<1> QED
  BY <1>1, <1>2 DEF MgrOK, StreamsOK, BuildsOK, WantedOK, HasCursor, Pending, Extends

\* Cleaning streams up: their leases go, and a pending build nobody holds is aborted.
LEMMA CleanupResultsOK ==
    ASSUME NEW m, MgrOK(m), NEW S \in SUBSET Requests, NEW t \in Nat
    PROVE  MgrOK(CleanupResults(m, S, t)) /\ Extends(m, CleanupResults(m, S, t))
<1> DEFINE n == CleanupResults(m, S, t)
           gone(r) == m.consumers[r] \cap LeasedBy(m, S, r)
<1>1. n \in Manager
  <2>1. m.consumers \in [Recs -> SUBSET Requests] /\ m.reason \in [Recs -> Reasons]
    BY DEF MgrOK, Manager
  <2>2. [r \in Recs |-> m.consumers[r] \ gone(r)] \in [Recs -> SUBSET Requests]
    BY <2>1
  <2>3. [r \in Recs |-> IF /\ gone(r) # {} /\ gone(r) = m.consumers[r]
                           /\ Pending(m, r) /\ m.reason[r] = "none"
                        THEN "unwanted" ELSE m.reason[r]] \in [Recs -> Reasons]
    BY <2>1 DEF Reasons
  <2>4. [q \in Requests |-> IF q \in S THEN [m.stream[q] EXCEPT !.reading = FALSE]
                                      ELSE m.stream[q]] \in [Requests -> Stream]
    <3>1. \A q \in Requests : m.stream[q] \in Stream
      BY DEF MgrOK, Manager
    <3>2. \A s \in Stream : [s EXCEPT !.reading = FALSE] \in Stream
      BY DEF Stream
    <3> QED BY <3>1, <3>2
  <2>5. {<<c, t + Ttl>> : c \in {d \in m.cursors : d[1] \in S}} \subseteq Cursor \X Nat
    BY TtlAssumption DEF MgrOK, Manager
  <2>6. {r \in m.buildDirs : ~(r \in m.cached /\ \E q \in S : m.stream[q].rec = r)}
           \subseteq Recs
    BY DEF MgrOK, Manager
  <2> DEFINE cs == [r \in Recs |-> m.consumers[r] \ gone(r)]
             re == [r \in Recs |-> IF /\ gone(r) # {} /\ gone(r) = m.consumers[r]
                                      /\ Pending(m, r) /\ m.reason[r] = "none"
                                   THEN "unwanted" ELSE m.reason[r]]
             st == [q \in Requests |-> IF q \in S THEN [m.stream[q] EXCEPT !.reading = FALSE]
                                                 ELSE m.stream[q]]
             ex == m.expired \cup {<<c, t + Ttl>> : c \in {d \in m.cursors : d[1] \in S}}
             bd == {r \in m.buildDirs : ~(r \in m.cached /\ \E q \in S : m.stream[q].rec = r)}
             cu == {c \in m.cursors : c[1] \notin S}
             rd == m.resultDirs \ S
  <2>7. ex \in SUBSET (Cursor \X Nat) /\ cu \in SUBSET Cursor
    BY <2>5 DEF MgrOK, Manager
  <2>8. n = [m EXCEPT !.cursors = cu, !.expired = ex, !.resultDirs = rd, !.stream = st,
                      !.consumers = cs, !.reason = re, !.buildDirs = bd]
    BY DEF CleanupResults
  <2> HIDE DEF n, cs, re, st, ex, bd, cu, rd
  <2>9. rd \in SUBSET Requests /\ cs \in [Recs -> SUBSET Requests] /\ re \in [Recs -> Reasons]
        /\ st \in [Requests -> Stream] /\ bd \in SUBSET Recs
    BY <2>2, <2>3, <2>4, <2>6 DEF cs, re, st, bd, rd, MgrOK, Manager
  <2> QED
    BY <2>7, <2>8, <2>9 DEF MgrOK, Manager
<1>2. /\ n.cached = m.cached /\ n.unsettled = m.unsettled /\ n.terminal = m.terminal
      /\ n.log = m.log /\ n.cursors \subseteq m.cursors
      /\ n.scope = m.scope /\ n.print = m.print /\ n.buildDirs \subseteq m.buildDirs
  BY DEF MgrOK, Manager, CleanupResults
<1>3. \A q \in Requests :
         /\ n.stream[q].kind = m.stream[q].kind /\ n.stream[q].rec = m.stream[q].rec
         /\ n.stream[q].seen = m.stream[q].seen
         /\ n.stream[q].reading => m.stream[q].reading
  BY DEF MgrOK, Manager, CleanupResults, Stream
<1>4. StreamsOK(n)
  BY <1>2, <1>3 DEF MgrOK, StreamsOK, HasCursor
<1>5. BuildsOK(n)
  BY <1>2 DEF MgrOK, BuildsOK, Pending
<1>6. WantedOK(n)
  <2> SUFFICES ASSUME NEW k \in n.unsettled, n.reason[k] = "none"
               PROVE  k \in n.cached /\ n.consumers[k] # {}
    BY DEF WantedOK
  <2>1. k \in Recs /\ Pending(m, k)
    BY <1>2 DEF MgrOK, Manager, BuildsOK
  <2>2. n.reason[k] = IF /\ gone(k) # {} /\ gone(k) = m.consumers[k]
                         /\ Pending(m, k) /\ m.reason[k] = "none"
                      THEN "unwanted" ELSE m.reason[k]
    BY <2>1 DEF MgrOK, Manager, CleanupResults
  <2>3. m.reason[k] = "none" /\ ~(gone(k) # {} /\ gone(k) = m.consumers[k])
    BY <2>1, <2>2
  <2>4. k \in m.cached /\ m.consumers[k] # {}
    BY <1>2, <2>3 DEF MgrOK, WantedOK
  <2>5. n.consumers[k] = m.consumers[k] \ gone(k)
    BY <2>1 DEF MgrOK, Manager, CleanupResults
  <2> QED BY <1>2, <2>3, <2>4, <2>5
<1>7. Extends(m, n)
  BY <1>2 DEF Extends
<1> QED BY <1>1, <1>4, <1>5, <1>6, <1>7 DEF MgrOK

\* Dropping settled sessions never drops a build that runs.
LEMMA SweepSessionsOK ==
    ASSUME NEW m, MgrOK(m), NEW t \in Nat
    PROVE  MgrOK(SweepSessions(m, t)) /\ Extends(m, SweepSessions(m, t))
<1> DEFINE n == SweepSessions(m, t)
           old == {r \in m.cached : /\ ~Pending(m, r) /\ m.consumers[r] = {}
                                    /\ m.expires[r] <= t}
<1>1. n \in Manager
  BY DEF MgrOK, Manager, SweepSessions
<1>2. /\ n.unsettled = m.unsettled /\ n.terminal = m.terminal
      /\ n.log = m.log /\ n.stream = m.stream /\ n.cursors = m.cursors
      /\ n.scope = m.scope /\ n.print = m.print
      /\ n.reason = m.reason /\ n.consumers = m.consumers
      /\ n.cached = m.cached \ old /\ n.buildDirs = m.buildDirs \ old
  BY DEF MgrOK, Manager, SweepSessions
<1>3. StreamsOK(n) /\ BuildsOK(n)
  BY <1>2 DEF MgrOK, StreamsOK, BuildsOK, HasCursor, Pending
<1>4. WantedOK(n)
  BY <1>2 DEF MgrOK, WantedOK, BuildsOK, Manager
<1> QED BY <1>1, <1>2, <1>3, <1>4 DEF MgrOK, Extends

\* #cleanupExpired as a whole.
LEMMA CleanupExpiredOK ==
    ASSUME NEW m, MgrOK(m), NEW t \in Nat
    PROVE  MgrOK(CleanupExpired(m, t)) /\ Extends(m, CleanupExpired(m, t))
<1> DEFINE m1 == SweepRetired(m, t)
           idle == {q \in Requests : HasCursor(m1, q) /\ m1.stream[q].expires <= t}
           m2 == CleanupResults(m1, idle, t)
<1>1. MgrOK(m1) /\ Extends(m, m1)
  BY SweepRetiredOK
<1>2. idle \in SUBSET Requests
  OBVIOUS
<1> HIDE DEF m1, idle
<1>3. MgrOK(m2) /\ Extends(m1, m2)
  BY <1>1, <1>2, CleanupResultsOK
<1> HIDE DEF m2
<1>4. MgrOK(SweepSessions(m2, t)) /\ Extends(m2, SweepSessions(m2, t))
  BY <1>3, SweepSessionsOK
<1>5. CleanupExpired(m, t) = SweepSessions(m2, t)
  BY DEF CleanupExpired, m1, m2, idle
<1> QED BY <1>1, <1>3, <1>4, <1>5 DEF Extends

\* #invalidateFactSession: the record it forgets is told to stop if it runs.
LEMMA InvalidateOK ==
    ASSUME NEW m, MgrOK(m), NEW r \in Recs
    PROVE  /\ MgrOK(InvalidateFactSession(m, r))
           /\ Extends(m, InvalidateFactSession(m, r))
<1> DEFINE n == InvalidateFactSession(m, r)
<1>1. n \in Manager
  BY DEF MgrOK, Manager, InvalidateFactSession, Reasons
<1>2. /\ n.unsettled = m.unsettled /\ n.terminal = m.terminal
      /\ n.log = m.log /\ n.stream = m.stream /\ n.cursors = m.cursors
      /\ n.scope = m.scope /\ n.print = m.print /\ n.consumers = m.consumers
      /\ n.cached = m.cached \ {r} /\ n.buildDirs \subseteq n.cached
  BY DEF MgrOK, Manager, BuildsOK, InvalidateFactSession
<1>3. StreamsOK(n) /\ BuildsOK(n)
  BY <1>2 DEF MgrOK, StreamsOK, BuildsOK, HasCursor, Pending
<1>4. WantedOK(n)
  <2> SUFFICES ASSUME NEW k \in n.unsettled, n.reason[k] = "none"
               PROVE  k \in n.cached /\ n.consumers[k] # {}
    BY DEF WantedOK
  <2>1. k \in Recs /\ Pending(m, k)
    BY <1>2 DEF MgrOK, Manager, BuildsOK
  <2>2. m.reason[k] = "none" /\ ~(k = r /\ r \in m.cached)
    BY <2>1 DEF MgrOK, Manager, InvalidateFactSession
  <2> QED BY <1>2, <2>2 DEF MgrOK, WantedOK
<1> QED BY <1>1, <1>2, <1>3, <1>4 DEF MgrOK, Extends

\* An event is appended: the logs only grow.
LEMMA PublishEventOK ==
    ASSUME NEW m, MgrOK(m), NEW r \in Recs, NEW o \in {"progress", "success"},
           NEW I \in SUBSET Items
    PROVE  /\ MgrOK(PublishEvent(m, r, o, I)) /\ Extends(m, PublishEvent(m, r, o, I))
           /\ PublishEvent(m, r, o, I).log[r] # <<>>
<1> DEFINE n == PublishEvent(m, r, o, I)
           ev == [outcome |-> o, items |-> I]
<1>1. ev \in Event
  BY DEF Event
<1>2. m.log \in [Recs -> Seq(Event)]
  BY DEF MgrOK, Manager
<1> DEFINE lg == [m.log EXCEPT ![r] = Append(@, ev)]
           wt == [m.waiters EXCEPT ![r] = {}]
<1>3. /\ lg \in [Recs -> Seq(Event)] /\ lg[r] # <<>>
      /\ \A k \in Recs : Len(lg[k]) >= Len(m.log[k])
  <2> HIDE DEF ev
  <2>1. Append(m.log[r], ev) \in Seq(Event) /\ Len(Append(m.log[r], ev)) = Len(m.log[r]) + 1
    BY <1>1, <1>2
  <2>2. lg \in [Recs -> Seq(Event)] /\ lg[r] = Append(m.log[r], ev)
    BY <1>2, <2>1
  <2>3. \A k \in Recs \ {r} : lg[k] = m.log[k]
    BY <1>2
  <2>4. \A k \in Recs : Len(m.log[k]) \in Nat
    BY <1>2
  <2> QED BY <1>2, <2>1, <2>2, <2>3, <2>4
<1>4. wt \in [Recs -> SUBSET Requests]
  BY DEF MgrOK, Manager
<1>5. n = [m EXCEPT !.log = lg, !.waiters = wt]
  BY DEF PublishEvent
<1> HIDE DEF n, lg, wt, ev
<1>6. n \in Manager
  BY <1>3, <1>4, <1>5 DEF MgrOK, Manager
<1>7. /\ n.cached = m.cached /\ n.unsettled = m.unsettled /\ n.terminal = m.terminal
      /\ n.log = lg /\ n.stream = m.stream /\ n.cursors = m.cursors
      /\ n.scope = m.scope /\ n.print = m.print /\ n.buildDirs = m.buildDirs
      /\ n.reason = m.reason /\ n.consumers = m.consumers
  BY <1>5 DEF MgrOK, Manager
<1>8. \A k \in Recs : m.log[k] # <<>> => lg[k] # <<>>
  <2> SUFFICES ASSUME NEW k \in Recs, m.log[k] # <<>> PROVE lg[k] # <<>>
    OBVIOUS
  <2>1. Len(m.log[k]) > 0
    BY <1>2
  <2> QED BY <1>3, <2>1
<1>9. StreamsOK(n)
  <2>1. \A k \in Recs : Len(m.log[k]) \in Nat /\ Len(lg[k]) \in Nat
    BY <1>2, <1>3
  <2>2. \A q \in Requests : m.stream[q].seen \in Nat
    BY DEF MgrOK, Manager, Stream
  <2> QED BY <1>3, <1>7, <2>1, <2>2 DEF MgrOK, StreamsOK, HasCursor
<1>10. BuildsOK(n) /\ WantedOK(n) /\ Extends(m, n)
  BY <1>7, <1>8 DEF MgrOK, BuildsOK, WantedOK, Pending, Extends
<1> QED BY <1>3, <1>6, <1>7, <1>9, <1>10 DEF MgrOK, n

\* A successful build: its last event and its terminal outcome come together.
LEMMA SettleSuccessOK ==
    ASSUME NEW m, MgrOK(m), NEW r \in m.unsettled, NEW I \in SUBSET Items, NEW t \in Nat,
           NEW n, n = [Settle(PublishEvent(m, r, "success", I), r, "success") EXCEPT
                          !.expires[r] = t + Ttl]
    PROVE  MgrOK(n) /\ Extends(m, n)
<1> DEFINE p == PublishEvent(m, r, "success", I)
<1>1. r \in Recs
  BY DEF MgrOK, Manager
<1>2. MgrOK(p) /\ Extends(m, p) /\ p.log[r] # <<>>
  BY <1>1, PublishEventOK
<1> HIDE DEF p
<1> DEFINE te == [p.terminal EXCEPT ![r] = "success"]
           un == p.unsettled \ {r}
           ex == [p.expires EXCEPT ![r] = t + Ttl]
<1>3. n = [p EXCEPT !.terminal = te, !.unsettled = un, !.expires = ex]
  BY <1>2 DEF p, Settle, MgrOK, Manager
<1>4. n \in Manager
  <2>1. te \in [Recs -> Terminals] /\ un \in SUBSET Recs /\ ex \in [Recs -> Nat]
    BY <1>2, TtlAssumption DEF MgrOK, Manager, Terminals
  <2> HIDE DEF te, un, ex
  <2> QED BY <1>2, <1>3, <2>1 DEF MgrOK, Manager
<1>5. /\ n.cached = p.cached /\ n.unsettled = p.unsettled \ {r}
      /\ n.terminal = [p.terminal EXCEPT ![r] = "success"]
      /\ n.log = p.log /\ n.stream = p.stream /\ n.cursors = p.cursors
      /\ n.scope = p.scope /\ n.print = p.print /\ n.buildDirs = p.buildDirs
      /\ n.reason = p.reason /\ n.consumers = p.consumers
  BY <1>2, <1>3 DEF MgrOK, Manager
<1>6. p.terminal \in [Recs -> Terminals]
  BY <1>2 DEF MgrOK, Manager
<1>7. StreamsOK(n) /\ WantedOK(n)
  BY <1>2, <1>5 DEF MgrOK, StreamsOK, WantedOK, HasCursor
<1>8. BuildsOK(n)
  <2>1. /\ n.terminal[r] = "success"
        /\ \A k \in Recs : k # r => n.terminal[k] = p.terminal[k]
    BY <1>1, <1>5, <1>6
  <2>2. /\ p.cached \subseteq Recs /\ p.unsettled \subseteq Recs
        /\ BuildsOK(p)
    BY <1>2 DEF MgrOK, Manager
  <2> HIDE DEF p
  <2> QED BY <1>1, <1>2, <1>5, <2>1, <2>2 DEF BuildsOK, Pending
<1> QED BY <1>1, <1>2, <1>4, <1>5, <1>6, <1>7, <1>8 DEF MgrOK, Extends

\* A failed build leaves every map, and loses no other build's success.
LEMMA SettleFailedOK ==
    ASSUME NEW m, MgrOK(m), NEW r \in m.unsettled, NEW kind \in Failures, NEW t \in Nat
    PROVE  MgrOK(SettleFailed(m, r, kind, t)) /\ Extends(m, SettleFailed(m, r, kind, t))
<1> DEFINE n == SettleFailed(m, r, kind, t)
           L == {q \in LeasedBy(m, Requests, r) : HasCursor(m, q)}
           cu == {c \in m.cursors : c[1] \notin L}
           fa == m.failures \cup {<<c, t + Ttl>> : c \in {d \in m.cursors : d[1] \in L}}
<1>1. r \in Recs /\ m.terminal[r] = "pending"
  BY DEF MgrOK, Manager, BuildsOK, Pending
<1>2. cu \in SUBSET Cursor /\ fa \in SUBSET (Cursor \X Nat)
  BY TtlAssumption DEF MgrOK, Manager
<1> DEFINE te == [m.terminal EXCEPT ![r] = kind]
           cs == [m.consumers EXCEPT ![r] = @ \ L]
           wt == [m.waiters EXCEPT ![r] = {}]
           rd == m.resultDirs \ L
           un == m.unsettled \ {r}
           ca == m.cached \ {r}
           bd == m.buildDirs \ {r}
<1>3. n = [m EXCEPT !.cursors = cu, !.failures = fa, !.resultDirs = rd, !.terminal = te,
                    !.unsettled = un, !.consumers = cs, !.waiters = wt, !.cached = ca,
                    !.buildDirs = bd]
  BY DEF SettleFailed, Settle, FailCursors, MgrOK, Manager
<1> HIDE DEF n, L, cu, fa
<1>4. n \in Manager
  <2>1. /\ te \in [Recs -> Terminals] /\ cs \in [Recs -> SUBSET Requests]
        /\ wt \in [Recs -> SUBSET Requests] /\ rd \in SUBSET Requests
        /\ un \in SUBSET Recs /\ ca \in SUBSET Recs /\ bd \in SUBSET Recs
    BY <1>1 DEF MgrOK, Manager, Terminals
  <2> HIDE DEF te, cs, wt, rd, un, ca, bd
  <2> QED BY <1>2, <1>3, <2>1 DEF MgrOK, Manager
<1>5. /\ n.cached = m.cached \ {r} /\ n.unsettled = m.unsettled \ {r}
      /\ n.terminal = [m.terminal EXCEPT ![r] = kind]
      /\ n.log = m.log /\ n.stream = m.stream /\ n.cursors = cu
      /\ n.scope = m.scope /\ n.print = m.print /\ n.buildDirs = m.buildDirs \ {r}
      /\ n.reason = m.reason /\ \A k \in Recs \ {r} : n.consumers[k] = m.consumers[k]
  BY <1>1, <1>3 DEF MgrOK, Manager
<1>6. m.terminal \in [Recs -> Terminals]
  BY DEF MgrOK, Manager
<1>7. StreamsOK(n)
  BY <1>5 DEF MgrOK, StreamsOK, HasCursor, cu
<1>8. WantedOK(n)
  BY <1>5 DEF MgrOK, Manager, WantedOK
<1>9. BuildsOK(n)
  BY <1>1, <1>5, <1>6 DEF MgrOK, Manager, BuildsOK, Pending, Failures
<1>10. Extends(m, n)
  BY <1>1, <1>5, <1>6 DEF Extends
<1> QED BY <1>4, <1>7, <1>8, <1>9, <1>10 DEF MgrOK, n

\* What a stream can page are items.
LEMMA AvailableOK ==
    ASSUME NEW m, m \in Manager, NEW q \in Requests,
           m.stream[q].kind = "live" =>
               /\ m.stream[q].rec \in Recs
               /\ m.stream[q].seen \in 1 .. Len(m.log[m.stream[q].rec])
    PROVE  Available(m, q) \in SUBSET Items /\ \A P \in Page(Available(m, q)) : P \in SUBSET Items
<1>1. m.stream[q] \in Stream
  BY DEF Manager
<1>2. m.stream[q].stored \in SUBSET Items
  BY <1>1 DEF Stream
<1>3. m.stream[q].kind = "live" => m.log[m.stream[q].rec][m.stream[q].seen].items \in SUBSET Items
  <2> SUFFICES ASSUME m.stream[q].kind = "live"
               PROVE  m.log[m.stream[q].rec][m.stream[q].seen].items \in SUBSET Items
    OBVIOUS
  <2>1. m.log[m.stream[q].rec] \in Seq(Event)
    BY DEF Manager
  <2>2. m.log[m.stream[q].rec][m.stream[q].seen] \in Event
    BY <2>1
  <2> QED BY <2>2 DEF Event
<1>4. Available(m, q) \in SUBSET Items
  BY <1>2, <1>3 DEF Available
<1> QED BY <1>4 DEF Page

\* One stream is replaced; everything else of the manager stays.
LEMMA StreamOK ==
    ASSUME NEW m, m \in Manager, BuildsOK(m), WantedOK(m), NEW q \in Requests,
           \A p \in Requests \ {q} :
               /\ m.stream[p].kind # "none" => m.stream[p].rec \in Recs
               /\ m.stream[p].kind = "live" => m.stream[p].seen \in 1 .. Len(m.log[m.stream[p].rec])
               /\ m.stream[p].reading => m.stream[p].kind = "live"
               /\ HasCursor(m, p) => m.stream[p].kind # "none",
           NEW s \in Stream,
           s.kind # "none", s.rec \in Recs,
           s.kind = "live" => s.seen \in 1 .. Len(m.log[s.rec]),
           s.reading => s.kind = "live",
           NEW cu \in SUBSET Cursor, NEW ex \in SUBSET (Cursor \X Nat),
           NEW rd \in SUBSET Requests,
           \A c \in cu \ m.cursors : c[1] = q,
           NEW n, n = [m EXCEPT !.stream[q] = s, !.cursors = cu, !.expired = ex,
                                !.resultDirs = rd]
    PROVE  MgrOK(n) /\ Extends(m, n)
<1> DEFINE st == [m.stream EXCEPT ![q] = s]
<1>1. st \in [Requests -> Stream]
  BY DEF Manager
<1>2. n = [m EXCEPT !.stream = st, !.cursors = cu, !.expired = ex, !.resultDirs = rd]
  BY DEF Manager
<1>3. st[q] = s /\ \A p \in Requests \ {q} : st[p] = m.stream[p]
  BY DEF Manager
<1> HIDE DEF st
<1>4. n \in Manager
  BY <1>1, <1>2 DEF Manager
<1>5. /\ n.cached = m.cached /\ n.unsettled = m.unsettled /\ n.terminal = m.terminal
      /\ n.log = m.log /\ n.stream = st /\ n.cursors = cu
      /\ n.scope = m.scope /\ n.print = m.print /\ n.buildDirs = m.buildDirs
      /\ n.reason = m.reason /\ n.consumers = m.consumers
  BY <1>2 DEF Manager
<1>6. StreamsOK(n)
  <2> SUFFICES ASSUME NEW p \in Requests
               PROVE  /\ st[p].kind # "none" => st[p].rec \in Recs
                      /\ st[p].kind = "live" => st[p].seen \in 1 .. Len(m.log[st[p].rec])
                      /\ st[p].reading => st[p].kind = "live"
                      /\ HasCursor(n, p) => st[p].kind # "none"
    BY <1>5 DEF StreamsOK
  <2>1. CASE p = q
    BY <1>3, <2>1
  <2>2. CASE p # q
    <3>1. HasCursor(n, p) => HasCursor(m, p)
      BY <1>5, <2>2 DEF HasCursor
    <3> QED BY <1>3, <2>2, <3>1
  <2> QED BY <2>1, <2>2
<1>7. BuildsOK(n) /\ WantedOK(n) /\ Extends(m, n)
  BY <1>5 DEF BuildsOK, WantedOK, Pending, Extends
<1> QED BY <1>4, <1>6, <1>7 DEF MgrOK

\* Serving a page, whether the read claimed its cursor first or not.
LEMMA ServeOK ==
    ASSUME NEW m, m \in Manager, BuildsOK(m), WantedOK(m), NEW q \in Requests,
           \A p \in Requests \ {q} :
               /\ m.stream[p].kind # "none" => m.stream[p].rec \in Recs
               /\ m.stream[p].kind = "live" => m.stream[p].seen \in 1 .. Len(m.log[m.stream[p].rec])
               /\ m.stream[p].reading => m.stream[p].kind = "live"
               /\ HasCursor(m, p) => m.stream[p].kind # "none",
           m.stream[q].kind # "none", m.stream[q].rec \in Recs,
           m.stream[q].kind = "live" => m.stream[q].seen \in 1 .. Len(m.log[m.stream[q].rec]),
           NEW P \in Page(Available(m, q)), NEW t \in Nat
    PROVE  MgrOK(Serve(m, q, P, t)) /\ Extends(m, Serve(m, q, P, t))
<1> DEFINE s == m.stream[q]
           more == \/ Available(m, q) # P
                   \/ s.kind = "live" /\ m.log[s.rec][s.seen].outcome # "success"
           s3 == [s EXCEPT !.delivered = @ \cup P, !.reading = FALSE, !.ended = ~more]
           s2 == [s3 EXCEPT !.page = @ + 1, !.expires = t + Ttl]
           n == Serve(m, q, P, t)
<1>1. P \in SUBSET Items
  BY AvailableOK
<1>2. s \in Stream
  BY DEF Manager
<1>3. s2 \in Stream /\ s3 \in Stream
  <2> DEFINE d == s.delivered \cup P
             e == ~more
  <2>1. d \in SUBSET Items /\ e \in BOOLEAN
    BY <1>1, <1>2 DEF Stream
  <2>2. s3 = [s EXCEPT !.delivered = d, !.reading = FALSE, !.ended = e]
    OBVIOUS
  <2> HIDE DEF d, e, s, s3
  <2>3. s3 \in Stream
    BY <1>2, <2>1, <2>2 DEF Stream
  <2>4. ASSUME NEW x \in Stream PROVE [x EXCEPT !.page = @ + 1, !.expires = t + Ttl] \in Stream
    <3>1. x.page + 1 \in Nat /\ t + Ttl \in Nat
      BY TtlAssumption DEF Stream
    <3> QED BY <3>1 DEF Stream
  <2> QED BY <2>3, <2>4
<1>4. /\ s2.kind = s.kind /\ s2.rec = s.rec /\ s2.seen = s.seen /\ s2.reading = FALSE
      /\ s3.kind = s.kind /\ s3.rec = s.rec /\ s3.seen = s.seen /\ s3.reading = FALSE
  BY <1>2 DEF Stream
<1>5. s.page \in Nat
  BY <1>2 DEF Stream
<1>6. CASE more
  <2> DEFINE cu == m.cursors \cup {<<q, s.page + 1>>}
  <2>1. n = [m EXCEPT !.stream[q] = s2, !.cursors = cu]
    BY <1>6 DEF Serve, Manager
  <2>2. cu \in SUBSET Cursor /\ \A c \in cu \ m.cursors : c[1] = q
    BY <1>5 DEF Manager, Cursor
  <2>3. m.expired \in SUBSET (Cursor \X Nat) /\ m.resultDirs \in SUBSET Requests
    BY DEF Manager
  <2>4. n = [m EXCEPT !.stream[q] = s2, !.cursors = cu, !.expired = m.expired,
                      !.resultDirs = m.resultDirs]
    BY <2>1 DEF Manager
  <2> HIDE DEF n, cu, s2, s3
  <2>5. MgrOK(n) /\ Extends(m, n)
    BY <1>3, <1>4, <2>2, <2>3, <2>4, StreamOK
  <2> QED BY <2>5 DEF n
<1>7. CASE ~more
  <2> DEFINE f == [m EXCEPT !.stream[q] = s3]
  <2>1. n = CleanupResults(f, {q}, t)
    BY <1>7 DEF Serve, Finish
  <2>2. /\ m.expired \in SUBSET (Cursor \X Nat) /\ m.resultDirs \in SUBSET Requests
        /\ m.cursors \in SUBSET Cursor /\ \A c \in m.cursors \ m.cursors : c[1] = q
    BY DEF Manager
  <2>3. f = [m EXCEPT !.stream[q] = s3, !.cursors = m.cursors, !.expired = m.expired,
                      !.resultDirs = m.resultDirs]
    BY DEF Manager
  <2> HIDE DEF n, f, s2, s3
  <2>4. MgrOK(f) /\ Extends(m, f)
    BY <1>3, <1>4, <2>2, <2>3, StreamOK
  <2>5. MgrOK(CleanupResults(f, {q}, t)) /\ Extends(f, CleanupResults(f, {q}, t))
    BY <2>4, CleanupResultsOK
  <2> QED BY <2>1, <2>4, <2>5 DEF Extends, n
<1> QED BY <1>6, <1>7

-----------------------------------------------------------------------------
(***************************************************************************)
(* The invariant and the actions.                                          *)
(***************************************************************************)

\* A step that moves no request.
LEMMA Carry ==
    ASSUME BuildInvariant, MgrOK(mgr'), Extends(mgr, mgr'), pc' = pc, target' = target,
           facts' \in [Scopes -> Nat], now' \in Nat
    PROVE  BuildInvariant'
<1>1. TypeOK'
  BY DEF BuildInvariant, TypeOK, MgrOK
<1>2. RequestsOK'
  BY DEF BuildInvariant, RequestsOK, Extends
<1> QED BY <1>1, <1>2 DEF BuildInvariant, MgrOK

\* A step that moves request q to place k with record r.
LEMMA CarryRequest ==
    ASSUME BuildInvariant, MgrOK(mgr'), Extends(mgr, mgr'), NEW q \in Requests,
           NEW k \in Places, NEW r \in Recs \cup {NoRec},
           pc' = [pc EXCEPT ![q] = k], target' = [target EXCEPT ![q] = r],
           facts' = facts, now' = now,
           k \notin {"idle", "refused"} => r \in Recs,
           k = "assembled" => mgr'.terminal[r] = "success",
           k = "leased" => mgr'.log[r] # <<>>
    PROVE  BuildInvariant'
<1>1. TypeOK'
  BY DEF BuildInvariant, TypeOK, MgrOK
<1>2. RequestsOK'
  <2> SUFFICES ASSUME NEW p \in Requests
               PROVE  /\ pc'[p] \notin {"idle", "refused"} => target'[p] \in Recs
                      /\ pc'[p] = "assembled" => mgr'.terminal[target'[p]] = "success"
                      /\ pc'[p] = "leased" => mgr'.log[target'[p]] # <<>>
    BY DEF RequestsOK
  <2>1. CASE p = q
    BY <2>1 DEF BuildInvariant, TypeOK
  <2>2. CASE p # q
    <3>1. pc'[p] = pc[p] /\ target'[p] = target[p]
      BY <2>2 DEF BuildInvariant, TypeOK
    <3> QED BY <3>1 DEF BuildInvariant, RequestsOK, Extends
  <2> QED BY <2>1, <2>2
<1> QED BY <1>1, <1>2 DEF BuildInvariant, MgrOK

\* The same, when the record of the request does not change.
LEMMA CarryHere ==
    ASSUME BuildInvariant, MgrOK(mgr'), Extends(mgr, mgr'), NEW q \in Requests,
           NEW k \in Places, pc' = [pc EXCEPT ![q] = k], target' = target,
           facts' = facts, now' = now,
           k \notin {"idle", "refused"} => target[q] \in Recs,
           k = "assembled" => mgr'.terminal[target[q]] = "success",
           k = "leased" => mgr'.log[target[q]] # <<>>
    PROVE  BuildInvariant'
<1>1. target' = [target EXCEPT ![q] = target[q]] /\ target[q] \in Recs \cup {NoRec}
  BY DEF BuildInvariant, TypeOK
<1> QED BY <1>1, CarryRequest

LEMMA ExtendsSelf == ASSUME NEW m PROVE Extends(m, m)
  BY DEF Extends

\* The lookup of acquire, and the record it makes when nothing is cached.
LEMMA AcquireOK ==
    ASSUME BuildInvariant, NEW q \in Requests, NEW s \in Scopes,
           NEW mode \in {"building", "progressive"}, Acquire(q, s, mode)
    PROVE  BuildInvariant'
<1> DEFINE m == CleanupExpired(mgr, now)
           f == Fingerprint(s)
           hit == Lookup(m, s, f)
<1>1. MgrOK(m) /\ Extends(mgr, m)
  BY CleanupExpiredOK DEF BuildInvariant, TypeOK, MgrOK
<1>2. f \in Nat
  BY DEF Fingerprint, BuildInvariant, TypeOK
<1>3. PICK r \in Recs :
         /\ IF hit = {} THEN m.terminal[r] = "unused" ELSE r \in hit
         /\ mgr' = [(IF hit = {} THEN CreateRecord(m, r, s, f, now) ELSE m)
                       EXCEPT !.consumers[r] = @ \cup {q}]
         /\ target' = [target EXCEPT ![q] = r]
  BY DEF Acquire
<1>4. pc' = [pc EXCEPT ![q] = mode] /\ facts' = facts /\ now' = now
  BY DEF Acquire
<1>5. now \in Nat
  BY DEF BuildInvariant, TypeOK
<1> HIDE DEF m, f
<1> DEFINE cs == [m.consumers EXCEPT ![r] = @ \cup {q}]
<1>6. cs \in [Recs -> SUBSET Requests] /\ cs[r] # {}
      /\ \A k \in Recs : m.consumers[k] # {} => cs[k] # {}
  BY <1>1 DEF MgrOK, Manager
<1>7. CASE hit = {}
  <2> DEFINE ca == m.cached \cup {r}
             un == m.unsettled \cup {r}
             sc == [m.scope EXCEPT ![r] = s]
             pr == [m.print EXCEPT ![r] = f]
             te == [m.terminal EXCEPT ![r] = "pending"]
             ex == [m.expires EXCEPT ![r] = now + Ttl]
             bd == m.buildDirs \cup {r}
  <2>1. mgr' = [m EXCEPT !.cached = ca, !.unsettled = un, !.scope = sc, !.print = pr,
                         !.terminal = te, !.expires = ex, !.buildDirs = bd,
                         !.consumers = cs]
    BY <1>1, <1>3, <1>7 DEF CreateRecord, MgrOK, Manager
  <2>2. /\ ca \in SUBSET Recs /\ un \in SUBSET Recs /\ sc \in [Recs -> Scopes]
        /\ pr \in [Recs -> Nat] /\ te \in [Recs -> Terminals] /\ ex \in [Recs -> Nat]
        /\ bd \in SUBSET Recs
    BY <1>1, <1>2, <1>5, TtlAssumption DEF MgrOK, Manager, Terminals
  <2>3. /\ te[r] = "pending" /\ sc[r] = s /\ pr[r] = f
        /\ \A k \in Recs \ {r} :
              te[k] = m.terminal[k] /\ sc[k] = m.scope[k] /\ pr[k] = m.print[k]
    BY <1>1 DEF MgrOK, Manager
  <2>4. m.terminal[r] = "unused"
    BY <1>3, <1>7
  <2> HIDE DEF ca, un, sc, pr, te, ex, bd, cs, hit
  <2>5. mgr' \in Manager
    BY <1>1, <1>6, <2>1, <2>2 DEF MgrOK, Manager
  <2>6. /\ mgr'.cached = ca /\ mgr'.unsettled = un /\ mgr'.scope = sc /\ mgr'.print = pr
        /\ mgr'.terminal = te /\ mgr'.buildDirs = bd /\ mgr'.consumers = cs
        /\ mgr'.log = m.log /\ mgr'.stream = m.stream /\ mgr'.cursors = m.cursors
        /\ mgr'.reason = m.reason
    BY <1>1, <2>1 DEF MgrOK, Manager
  <2>7. StreamsOK(mgr')
    BY <1>1, <2>6 DEF MgrOK, StreamsOK, HasCursor
  <2>8. WantedOK(mgr')
    BY <1>1, <1>6, <2>6 DEF MgrOK, Manager, WantedOK, ca, un
  <2>9. BuildsOK(mgr')
    <3>1. \A k \in m.cached : k # r /\ ~(m.scope[k] = s /\ m.print[k] = f)
      BY <1>1, <1>7, <2>4 DEF MgrOK, BuildsOK, Lookup, hit
    <3>2. r \notin m.unsettled
      BY <1>1, <2>4 DEF MgrOK, BuildsOK, Pending
    <3>3. m.cached \subseteq Recs /\ BuildsOK(m)
      BY <1>1 DEF MgrOK, Manager
    <3>4. \A k \in Recs : k \in un <=> te[k] = "pending"
      BY <2>3, <3>3 DEF BuildsOK, Pending, un
    <3>5. \A k \in Recs : te[k] = "success" => m.log[k] # <<>>
      BY <2>3, <3>3 DEF BuildsOK
    <3>6. \A k \in ca : te[k] \in {"pending", "success"}
      BY <2>3, <3>3 DEF BuildsOK, ca
    <3>7. \A k1, k2 \in ca : sc[k1] = sc[k2] /\ pr[k1] = pr[k2] => k1 = k2
      BY <2>3, <3>1, <3>3 DEF BuildsOK, ca
    <3>8. bd \subseteq ca
      BY <3>3 DEF BuildsOK, bd, ca
    <3> QED BY <2>6, <3>4, <3>5, <3>6, <3>7, <3>8 DEF BuildsOK, Pending
  <2>10. Extends(mgr, mgr')
    BY <1>1, <2>3, <2>4, <2>6 DEF Extends
  <2> QED
    BY <1>3, <1>4, <2>5, <2>7, <2>8, <2>9, <2>10, CarryRequest DEF MgrOK, Places
<1>8. CASE hit # {}
  <2>1. mgr' = [m EXCEPT !.consumers = cs]
    BY <1>1, <1>3, <1>8 DEF MgrOK, Manager
  <2> HIDE DEF cs, hit
  <2>2. mgr' \in Manager
    BY <1>1, <1>6, <2>1 DEF MgrOK, Manager
  <2>3. /\ mgr'.cached = m.cached /\ mgr'.unsettled = m.unsettled
        /\ mgr'.scope = m.scope /\ mgr'.print = m.print
        /\ mgr'.terminal = m.terminal /\ mgr'.buildDirs = m.buildDirs
        /\ mgr'.consumers = cs /\ mgr'.reason = m.reason
        /\ mgr'.log = m.log /\ mgr'.stream = m.stream /\ mgr'.cursors = m.cursors
    BY <1>1, <2>1 DEF MgrOK, Manager
  <2>4. StreamsOK(mgr') /\ BuildsOK(mgr') /\ Extends(mgr, mgr')
    BY <1>1, <2>3 DEF MgrOK, StreamsOK, BuildsOK, HasCursor, Pending, Extends
  <2>5. WantedOK(mgr')
    BY <1>1, <1>6, <2>3 DEF MgrOK, Manager, WantedOK
  <2> QED BY <1>3, <1>4, <2>2, <2>4, <2>5, CarryRequest DEF MgrOK, Places
<1> QED BY <1>7, <1>8

\* Parking or unparking a waiter touches nothing else.
LEMMA WaitersOK ==
    ASSUME NEW m, MgrOK(m), NEW r \in Recs, NEW W \in SUBSET Requests,
           NEW n, n = [m EXCEPT !.waiters[r] = W]
    PROVE  MgrOK(n) /\ Extends(m, n)
<1> DEFINE wt == [m.waiters EXCEPT ![r] = W]
<1>1. wt \in [Recs -> SUBSET Requests] /\ n = [m EXCEPT !.waiters = wt]
  BY DEF MgrOK, Manager
<1> HIDE DEF wt
<1>2. n \in Manager
  BY <1>1 DEF MgrOK, Manager
<1>3. /\ n.cached = m.cached /\ n.unsettled = m.unsettled /\ n.terminal = m.terminal
      /\ n.log = m.log /\ n.stream = m.stream /\ n.cursors = m.cursors
      /\ n.scope = m.scope /\ n.print = m.print /\ n.buildDirs = m.buildDirs
      /\ n.reason = m.reason /\ n.consumers = m.consumers
  BY <1>1 DEF MgrOK, Manager
<1> QED
  BY <1>2, <1>3 DEF MgrOK, StreamsOK, BuildsOK, WantedOK, HasCursor, Pending, Extends

\* The facts every request action starts from.
LEMMA Begin ==
    ASSUME BuildInvariant
    PROVE  /\ MgrOK(mgr) /\ Extends(mgr, mgr) /\ now \in Nat
           /\ MgrOK(CleanupExpired(mgr, now)) /\ Extends(mgr, CleanupExpired(mgr, now))
           /\ \A q \in Requests :
                 /\ pc[q] \notin {"idle", "refused"} => target[q] \in Recs
                 /\ mgr.waiters \in [Recs -> SUBSET Requests]
<1>1. MgrOK(mgr) /\ now \in Nat
  BY DEF BuildInvariant, MgrOK, TypeOK
<1> QED BY <1>1, CleanupExpiredOK, ExtendsSelf DEF BuildInvariant, RequestsOK, MgrOK, Manager

\* The answers of acquire and acquireProgressive.
LEMMA WaitingOK ==
    ASSUME BuildInvariant, NEW q \in Requests,
           \/ AcquireRefused(q) \/ BuildResolved(q) \/ BuildRejected(q)
           \/ AbortBuilding(q) \/ CleanupAcknowledged(q)
           \/ AwaitFirstSnapshot(q) \/ AbortProgressive(q) \/ ProjectionThrows(q)
    PROVE  BuildInvariant'
<1> DEFINE r == target[q]
<1>1. CASE AcquireRefused(q)
  BY <1>1, Begin, CarryHere DEF AcquireRefused, Places
<1>2. CASE BuildResolved(q)
  <2>1. r \in Recs
    BY <1>2, Begin DEF BuildResolved
  <2>2. MgrOK(mgr') /\ Extends(mgr, mgr')
    BY <1>2, <2>1, Begin, ReleaseOK DEF BuildResolved
  <2>3. mgr'.terminal[r] = "success"
    BY <1>2, <2>1, <2>2 DEF BuildResolved, Extends
  <2> QED BY <1>2, <2>1, <2>2, <2>3, CarryHere DEF BuildResolved, Places
<1>3. CASE BuildRejected(q)
  <2>1. r \in Recs
    BY <1>3, Begin DEF BuildRejected
  <2>2. MgrOK(mgr') /\ Extends(mgr, mgr')
    BY <1>3, <2>1, Begin, ReleaseOK DEF BuildRejected
  <2> QED BY <1>3, <2>1, <2>2, CarryHere DEF BuildRejected, Places
<1>4. CASE AbortBuilding(q)
  <2>1. r \in Recs
    BY <1>4, Begin DEF AbortBuilding
  <2>2. MgrOK(mgr') /\ Extends(mgr, mgr')
    BY <1>4, <2>1, Begin, ReleaseOK DEF AbortBuilding
  <2>3. PICK k \in {"ackwait", "cancelled"} : pc' = [pc EXCEPT ![q] = k]
    BY <1>4 DEF AbortBuilding
  <2> QED BY <1>4, <2>1, <2>2, <2>3, CarryHere DEF AbortBuilding, Places
<1>5. CASE CleanupAcknowledged(q)
  BY <1>5, Begin, CarryHere DEF CleanupAcknowledged, Places
<1>6. CASE AwaitFirstSnapshot(q)
  <2>1. r \in Recs
    BY <1>6, Begin DEF AwaitFirstSnapshot
  <2>2. CASE mgr.terminal[r] \in Failures
    <3>1. MgrOK(mgr') /\ Extends(mgr, mgr')
      BY <1>6, <2>1, <2>2, Begin, ReleaseOK DEF AwaitFirstSnapshot
    <3> QED BY <1>6, <2>1, <2>2, <3>1, CarryHere DEF AwaitFirstSnapshot, Places
  <2>3. CASE mgr.terminal[r] \notin Failures /\ NextVersion(mgr, r, 0) > 0
    <3>1. mgr' = mgr /\ pc' = [pc EXCEPT ![q] = "leased"]
      BY <1>6, <2>3 DEF AwaitFirstSnapshot
    <3>2. mgr.log[r] # <<>>
      BY <2>1, <2>3, Begin DEF NextVersion, MgrOK, Manager
    <3> QED BY <1>6, <2>1, <3>1, <3>2, Begin, CarryHere DEF AwaitFirstSnapshot, Places
  <2>4. CASE mgr.terminal[r] \notin Failures /\ ~(NextVersion(mgr, r, 0) > 0)
    <3>1. mgr' = [mgr EXCEPT !.waiters[r] = mgr.waiters[r] \cup {q}] /\ pc' = pc
      BY <1>6, <2>4 DEF AwaitFirstSnapshot
    <3>2. mgr.waiters[r] \cup {q} \in SUBSET Requests
      BY <2>1, Begin
    <3>3. MgrOK(mgr') /\ Extends(mgr, mgr')
      BY <2>1, <3>1, <3>2, Begin, WaitersOK
    <3> QED BY <1>6, <3>1, <3>3, Carry DEF AwaitFirstSnapshot, BuildInvariant, TypeOK
  <2> QED BY <2>2, <2>3, <2>4
<1>7. CASE AbortProgressive(q)
  <2> DEFINE m == [mgr EXCEPT !.waiters[r] = mgr.waiters[r] \ {q}]
  <2>1. r \in Recs
    BY <1>7, Begin DEF AbortProgressive
  <2>2. MgrOK(m) /\ Extends(mgr, m)
    BY <2>1, Begin, WaitersOK
  <2>3. mgr' = ReleaseConsumer(m, r, q)
    BY <1>7 DEF AbortProgressive
  <2> HIDE DEF m
  <2>4. MgrOK(mgr') /\ Extends(m, mgr')
    BY <2>1, <2>2, <2>3, ReleaseOK
  <2>5. Extends(mgr, mgr')
    BY <2>2, <2>4 DEF Extends
  <2> QED BY <1>7, <2>1, <2>4, <2>5, CarryHere DEF AbortProgressive, Places
<1>8. CASE ProjectionThrows(q)
  <2>1. target[q] \in Recs
    BY <1>8, Begin DEF ProjectionThrows
  <2>2. PICK k \in {"rejected", "leaked"} : pc' = [pc EXCEPT ![q] = k]
    BY <1>8 DEF ProjectionThrows
  <2> QED BY <1>8, <2>1, <2>2, Begin, CarryHere DEF ProjectionThrows, Places
<1> QED BY <1>1, <1>2, <1>3, <1>4, <1>5, <1>6, <1>7, <1>8

\* Between two managers nothing differs but, at most, a result directory of request q.
Littered(m, n, q) ==
    /\ n.phase = m.phase /\ n.cached = m.cached /\ n.unsettled = m.unsettled
    /\ n.scope = m.scope /\ n.print = m.print /\ n.terminal = m.terminal
    /\ n.reason = m.reason /\ n.consumers = m.consumers /\ n.waiters = m.waiters
    /\ n.log = m.log /\ n.expires = m.expires /\ n.buildDirs = m.buildDirs
    /\ n.stream = m.stream /\ n.cursors = m.cursors
    /\ n.expired = m.expired /\ n.failures = m.failures
    /\ n.resultDirs \in {m.resultDirs, m.resultDirs \cup {q}}

\* What a failed write leaves of the step: the sweep, a directory, and the answer.
LEMMA StoreThrowsIs ==
    ASSUME BuildInvariant, NEW q \in Requests, StoreThrows(q)
    PROVE  /\ Littered(CleanupExpired(mgr, now), mgr', q) /\ MgrOK(mgr')
           /\ mgr.phase = "open" /\ pc[q] \in {"assembled", "leased"}
           /\ pc' = [pc EXCEPT ![q] = IF pc[q] = "assembled" THEN "unstored" ELSE "leaked"]
           /\ target' = target /\ facts' = facts /\ now' = now
<1> DEFINE m == CleanupExpired(mgr, now)
<1>1. MgrOK(m) /\ m \in Manager
  BY Begin DEF MgrOK
<1>2. mgr' \in {m, [m EXCEPT !.resultDirs = m.resultDirs \cup {q}]}
  BY DEF StoreThrows
<1> HIDE DEF m
<1>3. Littered(m, mgr', q) /\ mgr' \in Manager
  <2>1. CASE mgr' = m
    BY <1>1, <2>1 DEF Littered
  <2>2. CASE mgr' = [m EXCEPT !.resultDirs = m.resultDirs \cup {q}]
    BY <1>1, <2>2 DEF Littered, Manager
  <2> QED BY <1>2, <2>1, <2>2
<1>4. MgrOK(mgr')
  BY <1>1, <1>3 DEF MgrOK, Littered, StreamsOK, BuildsOK, WantedOK, HasCursor, Pending
<1> QED BY <1>3, <1>4 DEF StoreThrows, m

\* A file of a result could not be written.
LEMMA StoreThrowsOK ==
    ASSUME BuildInvariant, NEW q \in Requests, StoreThrows(q)
    PROVE  BuildInvariant'
<1> DEFINE m == CleanupExpired(mgr, now)
<1>1. /\ Littered(m, mgr', q) /\ MgrOK(mgr') /\ Extends(mgr, m) /\ target[q] \in Recs
      /\ target' = target /\ facts' = facts /\ now' = now
  BY StoreThrowsIs, Begin
<1>2. PICK k \in {"unstored", "leaked"} : pc' = [pc EXCEPT ![q] = k]
  BY StoreThrowsIs
<1> HIDE DEF m
<1>3. Extends(mgr, mgr')
  BY <1>1 DEF Extends, Littered
<1> QED BY <1>1, <1>2, <1>3, CarryHere DEF Places

\* The first page of a finished result.
LEMMA PublishStaticOK ==
    ASSUME BuildInvariant, NEW q \in Requests, PublishStatic(q)
    PROVE  BuildInvariant'
<1> DEFINE r == target[q]
           m == CleanupExpired(mgr, now)
           value == m.log[r][Len(m.log[r])].items
<1>1. MgrOK(mgr) /\ Extends(mgr, mgr) /\ MgrOK(m) /\ Extends(mgr, m) /\ now \in Nat
  BY Begin
<1>2. r \in Recs /\ mgr.terminal[r] = "success"
  BY DEF PublishStatic, BuildInvariant, RequestsOK
<1>3. m.log[r] \in Seq(Event) /\ m.log[r] # <<>>
  BY <1>1, <1>2 DEF MgrOK, Manager, BuildsOK, Extends
<1>4. value \in SUBSET Items
  <2> DEFINE l == m.log[r]
  <2> HIDE DEF l
  <2>1. l \in Seq(Event) /\ l # <<>>
    BY <1>3 DEF l
  <2>2. l[Len(l)] \in Event
    BY <2>1
  <2>3. l[Len(l)].items \in SUBSET Items
    BY <2>2 DEF Event
  <2> QED BY <2>3 DEF l
<1>5. MgrOK(mgr') /\ Extends(mgr, mgr')
  <2>1. CASE mgr.phase # "open"
    BY <1>1, <2>1 DEF PublishStatic
  <2>2. CASE mgr.phase = "open" /\ r \notin m.cached
    BY <1>1, <2>2 DEF PublishStatic
  <2>3. CASE mgr.phase = "open" /\ r \in m.cached
    <3>1. PICK P \in Page(value) :
             IF P = value THEN mgr' = CleanupBuildFiles(m, r)
             ELSE mgr' = [m EXCEPT
                      !.resultDirs = @ \cup {q},
                      !.cursors = @ \cup {<<q, 2>>},
                      !.stream[q] = OpenStream("static", r, value, P, 0, 2, now)]
      BY <2>3 DEF PublishStatic
    <3>2. P \in SUBSET Items
      BY <1>4 DEF Page
    <3> HIDE DEF m, value, r
    <3>3. CASE P = value
      <4> DEFINE bd == m.buildDirs \ {r}
      <4>1. mgr' = [m EXCEPT !.buildDirs = bd]
        BY <2>3, <3>1, <3>3 DEF CleanupBuildFiles
      <4>2. bd \in SUBSET Recs /\ bd \subseteq m.cached
        BY <1>1 DEF MgrOK, Manager, BuildsOK
      <4> HIDE DEF bd
      <4>3. mgr' \in Manager
        BY <1>1, <4>1, <4>2 DEF MgrOK, Manager
      <4>4. /\ mgr'.cached = m.cached /\ mgr'.unsettled = m.unsettled
            /\ mgr'.scope = m.scope /\ mgr'.print = m.print
            /\ mgr'.terminal = m.terminal /\ mgr'.buildDirs = bd
            /\ mgr'.consumers = m.consumers /\ mgr'.reason = m.reason
            /\ mgr'.log = m.log /\ mgr'.stream = m.stream /\ mgr'.cursors = m.cursors
        BY <1>1, <4>1 DEF MgrOK, Manager
      <4> QED
        BY <1>1, <4>2, <4>3, <4>4
        DEF MgrOK, StreamsOK, BuildsOK, WantedOK, HasCursor, Pending, Extends
    <3>4. CASE P # value
      <4> DEFINE s == OpenStream("static", r, value, P, 0, 2, now)
                 cu == m.cursors \cup {<<q, 2>>}
                 rd == m.resultDirs \cup {q}
      <4>1. s \in Stream /\ s.kind = "static" /\ s.rec = r /\ s.reading = FALSE
        <5>1. now + Ttl \in Nat
          BY <1>1, TtlAssumption
        <5> QED BY <1>2, <1>4, <3>2, <5>1 DEF Stream, OpenStream
      <4>2. /\ cu \in SUBSET Cursor /\ rd \in SUBSET Requests
            /\ m.expired \in SUBSET (Cursor \X Nat) /\ \A c \in cu \ m.cursors : c[1] = q
        BY <1>1 DEF MgrOK, Manager, Cursor
      <4>3. mgr' = [m EXCEPT !.stream[q] = s, !.cursors = cu, !.expired = m.expired,
                             !.resultDirs = rd]
        BY <1>1, <3>1, <3>4 DEF MgrOK, Manager
      <4> HIDE DEF s, cu, rd
      <4>4. MgrOK(mgr') /\ Extends(m, mgr')
        <5>1. m \in Manager /\ BuildsOK(m) /\ WantedOK(m) /\ StreamsOK(m)
          BY <1>1 DEF MgrOK
        <5>2. s.kind # "none" /\ s.rec \in Recs /\ s.kind # "live" /\ ~s.reading
          BY <1>2, <4>1
        <5> QED BY <4>1, <4>2, <4>3, <5>1, <5>2, StreamOK DEF StreamsOK
      <4> QED BY <1>1, <4>4 DEF Extends
    <3> QED BY <3>3, <3>4
  <2> QED BY <2>1, <2>2, <2>3
<1>6. PICK k \in {"refused", "invalid", "done"} : pc' = [pc EXCEPT ![q] = k]
  BY DEF PublishStatic
<1> QED BY <1>2, <1>5, <1>6, CarryHere DEF PublishStatic, Places

\* The first page of a live stream, or its wait for a first snapshot.
LEMMA PublishLiveOK ==
    ASSUME BuildInvariant, NEW q \in Requests, PublishLive(q)
    PROVE  BuildInvariant'
<1> DEFINE r == target[q]
           m == CleanupExpired(mgr, now)
           s == OpenStream("live", r, {}, {}, NextVersion(m, r, 0), 1, now)
           rd == m.resultDirs \cup {q}
           m1 == [m EXCEPT !.resultDirs = @ \cup {q}, !.stream[q] = s]
<1>1. MgrOK(mgr) /\ Extends(mgr, mgr) /\ MgrOK(m) /\ Extends(mgr, m) /\ now \in Nat
  BY Begin
<1>2. r \in Recs /\ mgr.log[r] # <<>>
  BY DEF PublishLive, BuildInvariant, RequestsOK
<1>3. m.log[r] \in Seq(Event) /\ m.log[r] # <<>>
  BY <1>1, <1>2 DEF MgrOK, Manager, Extends
<1>4. MgrOK(mgr') /\ Extends(mgr, mgr')
  <2>1. CASE mgr.phase # "open"
    BY <1>1, <2>1 DEF PublishLive
  <2>2. CASE mgr.phase = "open" /\ r \notin m.cached
    <3>1. mgr' = ReleaseConsumer(m, r, q)
      BY <2>2 DEF PublishLive
    <3> HIDE DEF m
    <3>2. MgrOK(mgr') /\ Extends(m, mgr')
      BY <1>1, <1>2, <3>1, ReleaseOK
    <3> QED BY <1>1, <3>2 DEF Extends
  <2>3. CASE mgr.phase = "open" /\ r \in m.cached
    <3>1. \/ \E P \in Page(Available(m1, q)) : mgr' = Serve(m1, q, P, now)
          \/ mgr' = m1
      BY <2>3 DEF PublishLive
    <3>2. NextVersion(m, r, 0) \in 1 .. Len(m.log[r])
      BY <1>3 DEF NextVersion
    <3> HIDE DEF m, r
    <3>3. /\ s \in Stream /\ s.kind = "live" /\ s.rec = r /\ s.rec \in Recs
          /\ s.seen \in 1 .. Len(m.log[s.rec])
      <4>1. now + Ttl \in Nat /\ NextVersion(m, r, 0) \in Nat
        BY <1>1, <1>3, <3>2, TtlAssumption
      <4> QED BY <1>2, <3>2, <4>1 DEF OpenStream, Stream
    <3>4. /\ m.cursors \in SUBSET Cursor /\ m.expired \in SUBSET (Cursor \X Nat)
          /\ rd \in SUBSET Requests /\ \A c \in m.cursors \ m.cursors : c[1] = q
          /\ m \in Manager /\ BuildsOK(m) /\ WantedOK(m) /\ StreamsOK(m)
      BY <1>1 DEF MgrOK, Manager
    <3>5. m1 = [m EXCEPT !.stream[q] = s, !.cursors = m.cursors, !.expired = m.expired,
                         !.resultDirs = rd]
      BY <3>4 DEF Manager
    <3> HIDE DEF s, rd, m1
    <3>6. MgrOK(m1) /\ Extends(m, m1)
      BY <3>3, <3>4, <3>5, StreamOK DEF StreamsOK
    <3>7. m1.stream[q] = s /\ m1.log = m.log
      BY <3>4, <3>5 DEF Manager
    <3>8. \A P \in Page(Available(m1, q)) :
             MgrOK(Serve(m1, q, P, now)) /\ Extends(m1, Serve(m1, q, P, now))
      BY <1>1, <3>3, <3>6, <3>7, ServeOK DEF MgrOK, StreamsOK
    <3> QED BY <1>1, <3>1, <3>6, <3>8 DEF Extends
  <2> QED BY <2>1, <2>2, <2>3
<1>5. PICK k \in {"refused", "invalid", "done"} : pc' = [pc EXCEPT ![q] = k]
  BY DEF PublishLive
<1> QED BY <1>2, <1>4, <1>5, CarryHere DEF PublishLive, Places

\* A turn of the loop of a live read.
LEMMA LiveReadTurnOK ==
    ASSUME BuildInvariant, NEW q \in Requests, LiveReadTurn(q)
    PROVE  BuildInvariant'
<1> DEFINE r == mgr.stream[q].rec
           v == NextVersion(mgr, r, mgr.stream[q].seen)
           m == [mgr EXCEPT !.stream[q].seen = v]
           s == [mgr.stream[q] EXCEPT !.seen = v]
<1>1. MgrOK(mgr) /\ Extends(mgr, mgr) /\ now \in Nat
  BY Begin
<1>2. /\ mgr.stream[q] \in Stream /\ mgr.stream[q].kind = "live" /\ r \in Recs
      /\ mgr.log[r] \in Seq(Event) /\ mgr.stream[q].seen \in 1 .. Len(mgr.log[r])
  BY <1>1 DEF LiveReadTurn, MgrOK, Manager, StreamsOK
<1>3. MgrOK(mgr') /\ Extends(mgr, mgr')
  <2>1. CASE mgr.terminal[r] \in Failures
    BY <1>1, <2>1, CleanupResultsOK DEF LiveReadTurn
  <2>2. CASE mgr.terminal[r] \notin Failures /\ v = 0
    <3>1. mgr' = [mgr EXCEPT !.waiters[r] = mgr.waiters[r] \cup {q}]
      BY <2>2 DEF LiveReadTurn
    <3>2. mgr.waiters[r] \cup {q} \in SUBSET Requests
      BY <1>1, <1>2 DEF MgrOK, Manager
    <3> QED BY <1>1, <1>2, <3>1, <3>2, WaitersOK
  <2>3. CASE mgr.terminal[r] \notin Failures /\ v # 0
    <3>1. \/ \E P \in Page(Available(m, q)) : mgr' = Serve(m, q, P, now)
          \/ mgr' = m
      BY <2>3 DEF LiveReadTurn
    <3>2. v \in 1 .. Len(mgr.log[r])
      <4> DEFINE l == Len(mgr.log[r])
                 x == mgr.stream[q].seen
      <4>1. l \in Nat /\ x \in 1 .. l
        BY <1>2
      <4>2. v = IF l > x THEN x + 1 ELSE IF mgr.terminal[r] = "success" THEN l ELSE 0
        BY DEF NextVersion
      <4> HIDE DEF l, x, v
      <4>3. v \in 1 .. l
        BY <2>3, <4>1, <4>2
      <4> QED BY <4>3 DEF l
    <3> HIDE DEF v
    <3>3. /\ s \in Stream /\ s.kind = "live" /\ s.rec = r /\ s.rec \in Recs
          /\ s.seen = v
      <4>1. v \in Nat
        BY <1>2, <3>2
      <4>2. ASSUME NEW x \in Stream, x.kind = "live"
            PROVE  LET y == [x EXCEPT !.seen = v] IN
                   y \in Stream /\ y.kind = "live" /\ y.rec = x.rec /\ y.seen = v
        BY <4>1, <4>2 DEF Stream
      <4> QED BY <1>2, <4>2
    <3>4. /\ mgr.cursors \in SUBSET Cursor /\ mgr.expired \in SUBSET (Cursor \X Nat)
          /\ mgr.resultDirs \in SUBSET Requests /\ \A c \in mgr.cursors \ mgr.cursors : c[1] = q
          /\ mgr \in Manager /\ BuildsOK(mgr) /\ WantedOK(mgr) /\ StreamsOK(mgr)
      BY <1>1 DEF MgrOK, Manager
    <3>5. m = [mgr EXCEPT !.stream[q] = s, !.cursors = mgr.cursors,
                          !.expired = mgr.expired, !.resultDirs = mgr.resultDirs]
      BY <3>4 DEF Manager
    <3>6. s.seen \in 1 .. Len(mgr.log[s.rec])
      BY <3>2, <3>3
    <3> HIDE DEF s, m, r
    <3>7. MgrOK(m) /\ Extends(mgr, m)
      BY <3>3, <3>4, <3>5, <3>6, StreamOK DEF StreamsOK
    <3>8. m.stream[q] = s /\ m.log = mgr.log
      BY <3>4, <3>5 DEF Manager
    <3>9. \A P \in Page(Available(m, q)) :
             MgrOK(Serve(m, q, P, now)) /\ Extends(m, Serve(m, q, P, now))
      BY <1>1, <3>3, <3>6, <3>7, <3>8, ServeOK DEF MgrOK, StreamsOK
    <3> QED BY <3>1, <3>7, <3>9 DEF Extends
  <2> QED BY <2>1, <2>2, <2>3
<1> QED BY <1>3, Carry DEF LiveReadTurn, BuildInvariant, TypeOK

\* A read that throws is cleaned up.
LEMMA ReadThrowsOK ==
    ASSUME BuildInvariant, NEW q \in Requests, ReadThrows(q)
    PROVE  BuildInvariant'
<1>1. MgrOK(mgr) /\ Extends(mgr, mgr) /\ now \in Nat
  BY Begin
<1>2. MgrOK(mgr') /\ Extends(mgr, mgr')
  BY <1>1, CleanupResultsOK DEF ReadThrows
<1> QED BY <1>2, Carry DEF ReadThrows, BuildInvariant, TypeOK

\* A page asked for by cursor.
LEMMA ReadContinuationOK ==
    ASSUME BuildInvariant, NEW c \in Cursor, NEW root, ReadContinuation(c, root)
    PROVE  BuildInvariant'
<1> DEFINE q == c[1]
           m == CleanupExpired(mgr, now)
           r == m.stream[q].rec
           m1 == ClaimCursor(m, c, now)
           s == [m.stream[q] EXCEPT !.reading = TRUE]
           cu == m.cursors \ {c}
           ex == m.expired \cup {<<c, now + Ttl>>}
<1>1. MgrOK(m) /\ Extends(mgr, m) /\ now \in Nat
  BY Begin
<1>2. q \in Requests
  BY DEF Cursor
<1> HIDE DEF m
<1>3. CASE c \notin m.cursors \/ root # RootOf[m.scope[r]]
  <2>1. mgr' = m
    BY <1>3 DEF ReadContinuation, m
  <2> QED BY <1>1, <2>1, Carry DEF ReadContinuation, BuildInvariant, TypeOK
<1>4. CASE c \in m.cursors /\ root = RootOf[m.scope[r]]
  <2>1. m \in Manager /\ BuildsOK(m) /\ WantedOK(m) /\ StreamsOK(m)
    BY <1>1 DEF MgrOK
  <2>2. /\ m.stream[q] \in Stream /\ m.stream[q].kind # "none" /\ r \in Recs
        /\ m.stream[q].kind = "live" => m.stream[q].seen \in 1 .. Len(m.log[r])
    BY <1>2, <1>4, <2>1 DEF Manager, StreamsOK, HasCursor
  <2>3. CASE Fingerprint(m.scope[r]) # m.print[r]
    <3> DEFINE m2 == CleanupResults(m, {q}, now)
    <3>1. mgr' = InvalidateFactSession(m2, r)
      BY <1>4, <2>3 DEF ReadContinuation, m
    <3>2. MgrOK(m2) /\ Extends(m, m2)
      BY <1>1, <1>2, CleanupResultsOK
    <3> HIDE DEF m2
    <3>3. MgrOK(mgr') /\ Extends(m2, mgr')
      BY <2>2, <3>1, <3>2, InvalidateOK
    <3>4. Extends(mgr, mgr')
      BY <1>1, <3>2, <3>3 DEF Extends
    <3> QED BY <3>3, <3>4, Carry DEF ReadContinuation, BuildInvariant, TypeOK
  <2>4. CASE Fingerprint(m.scope[r]) = m.print[r]
    <3>1. \/ \E P \in Page(Available(m1, q)) : mgr' = Serve(m1, q, P, now)
          \/ m.stream[q].kind # "static" /\ mgr' = m1
      BY <1>4, <2>4 DEF ReadContinuation, m
    <3>2. /\ s \in Stream /\ s.kind = m.stream[q].kind /\ s.rec = r
          /\ s.seen = m.stream[q].seen /\ s.reading
      <4>1. ASSUME NEW x \in Stream
            PROVE  LET y == [x EXCEPT !.reading = TRUE] IN
                   /\ y \in Stream /\ y.kind = x.kind /\ y.rec = x.rec
                   /\ y.seen = x.seen /\ y.reading = TRUE
        BY DEF Stream
      <4> QED BY <2>2, <4>1
    <3>3. cu \in SUBSET Cursor /\ ex \in SUBSET (Cursor \X Nat)
      BY <1>1, <2>1, TtlAssumption DEF Manager
    <3>4. m1 = [m EXCEPT !.stream[q] = s, !.cursors = cu, !.expired = ex]
      BY <2>1 DEF ClaimCursor, Manager
    <3> HIDE DEF s, cu, ex, m1, q, r
    <3>5. /\ m1.stream = [m.stream EXCEPT ![q] = s] /\ m1.cursors = cu /\ m1.log = m.log
          /\ m1.cached = m.cached /\ m1.unsettled = m.unsettled /\ m1.scope = m.scope
          /\ m1.print = m.print /\ m1.terminal = m.terminal /\ m1.reason = m.reason
          /\ m1.consumers = m.consumers /\ m1.buildDirs = m.buildDirs
      BY <2>1, <3>4 DEF Manager
    <3>6. m1 \in Manager
      <4>1. [m.stream EXCEPT ![q] = s] \in [Requests -> Stream]
        BY <2>1, <3>2 DEF Manager
      <4>2. m1 = [m EXCEPT !.stream = [m.stream EXCEPT ![q] = s], !.cursors = cu,
                           !.expired = ex]
        BY <3>4
      <4> DEFINE st == [m.stream EXCEPT ![q] = s]
      <4> HIDE DEF st
      <4> QED BY <2>1, <3>3, <4>1, <4>2 DEF Manager, st
    <3>7. BuildsOK(m1) /\ WantedOK(m1) /\ Extends(mgr, m1)
      BY <1>1, <2>1, <3>5 DEF BuildsOK, WantedOK, Pending, Extends
    <3>8. m1.stream[q] = s /\ \A p \in Requests \ {q} : m1.stream[p] = m.stream[p]
      BY <1>2, <2>1, <3>5 DEF Manager
    <3>9. \A p \in Requests \ {q} :
             /\ m1.stream[p].kind # "none" => m1.stream[p].rec \in Recs
             /\ m1.stream[p].kind = "live" =>
                   m1.stream[p].seen \in 1 .. Len(m1.log[m1.stream[p].rec])
             /\ m1.stream[p].reading => m1.stream[p].kind = "live"
             /\ HasCursor(m1, p) => m1.stream[p].kind # "none"
      BY <2>1, <3>5, <3>8 DEF StreamsOK, HasCursor, cu
    <3>10. \A P \in Page(Available(m1, q)) :
              MgrOK(Serve(m1, q, P, now)) /\ Extends(m1, Serve(m1, q, P, now))
      <4>1. m1.stream[q].kind # "none" /\ m1.stream[q].rec \in Recs
        BY <2>2, <3>2, <3>8 DEF q
      <4>2. m1.stream[q].kind = "live" =>
               m1.stream[q].seen \in 1 .. Len(m1.log[m1.stream[q].rec])
        BY <2>2, <3>2, <3>5, <3>8 DEF q
      <4> QED BY <1>1, <1>2, <3>6, <3>7, <3>9, <4>1, <4>2, ServeOK
    <3>11. m.stream[q].kind # "static" => MgrOK(m1)
      <4> SUFFICES ASSUME m.stream[q].kind # "static" PROVE StreamsOK(m1)
        BY <3>6, <3>7 DEF MgrOK
      <4>1. m.stream[q].kind = "live"
        BY <2>2 DEF Stream
      <4>2. /\ s.rec \in Recs /\ s.kind = "live"
            /\ s.seen \in 1 .. Len(m1.log[s.rec])
        BY <2>2, <3>2, <3>5, <4>1 DEF q
      <4> QED BY <3>8, <3>9, <4>2 DEF StreamsOK
    <3>12. MgrOK(mgr') /\ Extends(mgr, mgr')
      BY <3>1, <3>7, <3>10, <3>11 DEF Extends, q
    <3> QED BY <3>12, Carry DEF ReadContinuation, BuildInvariant, TypeOK
  <2> QED BY <2>3, <2>4
<1> QED BY <1>3, <1>4

\* A cursor given back.
LEMMA CancelContinuationOK ==
    ASSUME BuildInvariant, NEW c \in Cursor, NEW root, CancelContinuation(c, root)
    PROVE  BuildInvariant'
<1> DEFINE m == CleanupExpired(mgr, now)
<1>1. MgrOK(m) /\ Extends(mgr, m) /\ now \in Nat /\ c[1] \in Requests
  BY Begin DEF Cursor
<1>2. mgr' = m \/ mgr' = CleanupResults(m, {c[1]}, now)
  BY DEF CancelContinuation
<1> HIDE DEF m
<1>3. MgrOK(mgr') /\ Extends(m, mgr')
  BY <1>1, <1>2, CleanupResultsOK, ExtendsSelf
<1>4. Extends(mgr, mgr')
  BY <1>1, <1>3 DEF Extends
<1> QED BY <1>3, <1>4, Carry DEF CancelContinuation, BuildInvariant, TypeOK

\* The build worker.
LEMMA WorkerOK ==
    ASSUME BuildInvariant, NEW r \in Recs,
           WorkerPublish(r) \/ WorkerReturns(r) \/ WorkerThrows(r)
    PROVE  BuildInvariant'
<1>1. MgrOK(mgr) /\ now \in Nat
  BY Begin
<1>2. CASE WorkerPublish(r)
  BY <1>1, <1>2, PublishEventOK, Carry DEF WorkerPublish, BuildInvariant, TypeOK
<1>3. CASE WorkerReturns(r)
  <2>1. /\ r \in mgr.unsettled
        /\ \/ \E k \in Failures : mgr' = SettleFailed(mgr, r, k, now)
           \/ \E I \in SUBSET Items :
                 mgr' = [Settle(PublishEvent(mgr, r, "success", I), r, "success") EXCEPT
                            !.expires[r] = now + Ttl]
    BY <1>3 DEF WorkerReturns, Failures
  <2>2. MgrOK(mgr') /\ Extends(mgr, mgr')
    BY <1>1, <2>1, SettleFailedOK, SettleSuccessOK
  <2> QED BY <1>3, <2>2, Carry DEF WorkerReturns, BuildInvariant, TypeOK
<1>4. CASE WorkerThrows(r)
  <2>1. r \in mgr.unsettled /\ \E k \in Failures : mgr' = SettleFailed(mgr, r, k, now)
    BY <1>4 DEF WorkerThrows, Failures
  <2>2. MgrOK(mgr') /\ Extends(mgr, mgr')
    BY <1>1, <2>1, SettleFailedOK
  <2> QED BY <1>4, <2>2, Carry DEF WorkerThrows, BuildInvariant, TypeOK
<1> QED BY <1>2, <1>3, <1>4

\* Shutdown.
LEMMA ShutdownOK ==
    ASSUME BuildInvariant, Dispose \/ DisposeDone
    PROVE  BuildInvariant'
<1>1. MgrOK(mgr)
  BY Begin
<1>2. CASE Dispose
  <2> DEFINE re == [r \in Recs |->
                       IF r \in mgr.unsettled /\ mgr.reason[r] = "none"
                       THEN "disposed" ELSE mgr.reason[r]]
  <2>1. mgr' = [mgr EXCEPT !.phase = "disposing", !.reason = re]
    BY <1>2 DEF Dispose
  <2>2. re \in [Recs -> Reasons] /\ \A r \in mgr.unsettled : re[r] # "none"
    BY <1>1 DEF MgrOK, Manager, Reasons
  <2> HIDE DEF re
  <2>3. mgr' \in Manager
    BY <1>1, <2>1, <2>2 DEF MgrOK, Manager
  <2>4. /\ mgr'.cached = mgr.cached /\ mgr'.unsettled = mgr.unsettled
        /\ mgr'.scope = mgr.scope /\ mgr'.print = mgr.print
        /\ mgr'.terminal = mgr.terminal /\ mgr'.buildDirs = mgr.buildDirs
        /\ mgr'.reason = re
        /\ mgr'.log = mgr.log /\ mgr'.stream = mgr.stream /\ mgr'.cursors = mgr.cursors
    BY <1>1, <2>1 DEF MgrOK, Manager
  <2>5. MgrOK(mgr') /\ Extends(mgr, mgr')
    BY <1>1, <2>2, <2>3, <2>4
    DEF MgrOK, StreamsOK, BuildsOK, WantedOK, HasCursor, Pending, Extends
  <2> QED BY <1>2, <2>5, Carry DEF Dispose, BuildInvariant, TypeOK
<1>3. CASE DisposeDone
  <2>1. /\ mgr.unsettled = {}
        /\ mgr' = [mgr EXCEPT !.phase = "disposed", !.cached = {}, !.cursors = {},
                              !.expired = {}, !.failures = {},
                              !.buildDirs = {}, !.resultDirs = {}]
    BY <1>3 DEF DisposeDone
  <2>2. mgr' \in Manager
    BY <1>1, <2>1 DEF MgrOK, Manager
  <2>3. /\ mgr'.cached = {} /\ mgr'.unsettled = mgr.unsettled
        /\ mgr'.terminal = mgr.terminal /\ mgr'.buildDirs = {}
        /\ mgr'.log = mgr.log /\ mgr'.stream = mgr.stream /\ mgr'.cursors = {}
    BY <1>1, <2>1 DEF MgrOK, Manager
  <2>4. MgrOK(mgr') /\ Extends(mgr, mgr')
    BY <1>1, <2>1, <2>2, <2>3
    DEF MgrOK, StreamsOK, BuildsOK, WantedOK, HasCursor, Pending, Extends
  <2> QED BY <1>3, <2>4, Carry DEF DisposeDone, BuildInvariant, TypeOK
<1> QED BY <1>2, <1>3

-----------------------------------------------------------------------------
LEMMA InitOK == Init => BuildInvariant
<1> SUFFICES ASSUME Init PROVE BuildInvariant
  OBVIOUS
<1>1. (CHOOSE s \in Scopes : TRUE) \in Scopes
  BY ScopesAssumption
<1>2. NoStream \in Stream
  BY DEF NoStream, Stream
<1>3. <<>> \in Seq(Event)
  OBVIOUS
<1>4. mgr \in Manager
  BY <1>1, <1>2, <1>3 DEF Init, Manager, Terminals, Reasons
<1>5. StreamsOK(mgr) /\ BuildsOK(mgr) /\ WantedOK(mgr)
  BY DEF Init, StreamsOK, BuildsOK, WantedOK, HasCursor, Pending, NoStream
<1>6. RequestsOK /\ TypeOK
  BY <1>4 DEF Init, RequestsOK, TypeOK, Places
<1> QED BY <1>5, <1>6 DEF BuildInvariant

LEMMA NextOK == BuildInvariant /\ [Next]_vars => BuildInvariant'
<1> SUFFICES ASSUME BuildInvariant, [Next]_vars PROVE BuildInvariant'
  OBVIOUS
<1>1. CASE UNCHANGED vars
  BY <1>1 DEF vars, BuildInvariant, TypeOK, RequestsOK
<1>2. CASE NewRequest
  BY <1>2, AcquireOK, WaitingOK, PublishStaticOK, PublishLiveOK, StoreThrowsOK
     DEF NewRequest
<1>3. CASE CursorCall
  <2>1. Issued \subseteq Cursor
    <3>1. Cardinality(Items) \in Nat
      BY ItemsAssumption, FS_CardinalityType
    <3> QED BY <3>1 DEF Issued, Cursor
  <2> QED BY <1>3, <2>1, ReadContinuationOK, CancelContinuationOK, LiveReadTurnOK,
          ReadThrowsOK
          DEF CursorCall
<1>4. CASE Worker
  BY <1>4, WorkerOK DEF Worker
<1>5. CASE Environment
  <2>1. CASE Dispose \/ DisposeDone
    BY <2>1, ShutdownOK
  <2>2. CASE ClockTick
    BY <2>2, Begin, Carry DEF ClockTick, BuildInvariant, TypeOK
  <2>3. ASSUME NEW s \in Scopes, EditSources(s) PROVE BuildInvariant'
    <3>1. PICK v \in 0 .. MaxVersion : facts' = [facts EXCEPT ![s] = v]
      BY <2>3 DEF EditSources
    <3>2. v \in Nat
      BY BoundAssumption
    <3>3. facts' \in [Scopes -> Nat]
      BY <3>1, <3>2 DEF BuildInvariant, TypeOK
    <3> QED BY <2>3, <3>3, Begin, Carry DEF EditSources, BuildInvariant, TypeOK
  <2> QED BY <1>5, <2>1, <2>2, <2>3 DEF Environment
<1> QED BY <1>1, <1>2, <1>3, <1>4, <1>5 DEF Next

\* The inductive invariant holds in every reachable state.
THEOREM Invariance == Spec => []BuildInvariant
<1> QED BY InitOK, NextOK, PTL DEF Spec

\* Every variable keeps its type.
THEOREM TypeCorrect == Spec => []TypeOK
<1>1. BuildInvariant => TypeOK
  BY DEF BuildInvariant
<1> QED BY <1>1, Invariance, PTL

\* No worker runs that nobody waits for or nobody can find.
THEOREM NoOrphans == Spec => []NoOrphanWorker
<1>1. BuildInvariant => NoOrphanWorker
  BY DEF BuildInvariant, WantedOK, NoOrphanWorker
<1> QED BY <1>1, Invariance, PTL

\* Requests for the same facts share one running build.
THEOREM OneBuildPerKey == Spec => []SingleFlight
<1>1. BuildInvariant => SingleFlight
  <2> SUFFICES ASSUME BuildInvariant, NEW r1 \in mgr.unsettled, NEW r2 \in mgr.unsettled,
                      r1 # r2, SameKey(r1, r2), mgr.reason[r1] = "none"
               PROVE  mgr.reason[r2] # "none"
    BY DEF SingleFlight
  <2>1. mgr.reason[r2] = "none" => r1 \in mgr.cached /\ r2 \in mgr.cached
    BY DEF BuildInvariant, WantedOK
  <2> QED BY <2>1 DEF BuildInvariant, BuildsOK, SameKey
<1> QED BY <1>1, Invariance, PTL

=============================================================================
