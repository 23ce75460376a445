------------------------- MODULE BuildStreams_proofs -------------------------
(* Proofs about the result streams of BuildSession: their cursors, their    *)
(* files and their leases.                                                  *)
EXTENDS BuildSession_proofs

(***************************************************************************)
(* The invariant of the streams of a manager.                              *)
(***************************************************************************)

\* The live cursor of a stream names its current page; one out of use names a page
\* that was current, and is not live again.
CursorsOK(m) ==
    /\ \A c \in m.cursors : c[2] = m.stream[c[1]].page /\ ~m.stream[c[1]].reading
    /\ \A g \in m.expired \cup m.failures :
          g[1] \notin m.cursors /\ g[1][2] <= m.stream[g[1][1]].page

\* The directory of a stream is there exactly while the stream has a cursor or a read.
ResultDirsOK(m) ==
    m.phase # "disposed" =>
        \A q \in Requests :
            m.stream[q].kind # "none" =>
                (q \in m.resultDirs <=> HasCursor(m, q) \/ m.stream[q].reading)

\* Nobody is parked at a settled build, and a build that never began has no events.
ParkedOK(m) ==
    \A r \in Recs :
        /\ m.waiters[r] # {} => m.terminal[r] \in {"pending", "unused"}
        /\ m.terminal[r] = "unused" => m.log[r] = <<>>

\* After shutdown a read can only learn that its build failed.
GoneOK(m) ==
    m.phase = "disposed" =>
        /\ m.unsettled = {} /\ m.cached = {} /\ m.cursors = {} /\ m.resultDirs = {}
        /\ \A q \in Requests :
              m.stream[q].reading => m.terminal[m.stream[q].rec] \in Failures

Tidy(m) == CursorsOK(m) /\ ResultDirsOK(m) /\ ParkedOK(m) /\ GoneOK(m)

\* Whom a record's reference count holds through a stream.
Leases(m, r) ==
    {q \in Requests : /\ m.stream[q].kind = "live" /\ m.stream[q].rec = r
                      /\ m.stream[q].reading \/ HasCursor(m, q)}

\* Until shutdown, the consumers of a record are the requests W says wait for it, and
\* its leases.
Owned(m, W) ==
    m.phase = "open" =>
        \A r \in Recs :
            /\ m.consumers[r] = W[r] \cup Leases(m, r)
            /\ \A q \in W[r] : q \in Requests /\ m.stream[q].kind = "none"

(***************************************************************************)
(* Clean-up: the streams of S end, nothing else of a stream changes.       *)
(***************************************************************************)
Ends(m, n, S) ==
    /\ n.phase = m.phase /\ n.unsettled = m.unsettled /\ n.terminal = m.terminal
    /\ n.log = m.log /\ n.waiters = m.waiters /\ n.cached \subseteq m.cached
    /\ n.cursors = {c \in m.cursors : c[1] \notin S}
    /\ n.resultDirs = m.resultDirs \ S
    /\ \A g \in n.expired \cup n.failures :
          \/ \E h \in m.expired \cup m.failures : h[1] = g[1]
          \/ g[1] \in m.cursors /\ g[1][1] \in S
    /\ \A q \in Requests :
          /\ n.stream[q].kind = m.stream[q].kind /\ n.stream[q].rec = m.stream[q].rec
          /\ n.stream[q].page = m.stream[q].page
          /\ n.stream[q].reading <=> m.stream[q].reading /\ q \notin S

Cleans(m, n, S) ==
    /\ Ends(m, n, S)
    /\ \A q \in Requests :
          /\ n.stream[q].seen = m.stream[q].seen /\ n.stream[q].stored = m.stream[q].stored
          /\ n.stream[q].delivered = m.stream[q].delivered
          /\ n.stream[q].ended = m.stream[q].ended

\* ... and their leases are given back.
Drops(m, n, S) == \A r \in Recs : n.consumers[r] = m.consumers[r] \ LeasedBy(m, S, r)

\* A stream stays of its kind, and one that was not opened stays as it was and gets no
\* directory.
KindsKept(m, n) ==
    \A q \in Requests :
        /\ n.stream[q].kind = m.stream[q].kind
        /\ m.stream[q].kind = "none" => n.stream[q].page = m.stream[q].page
        /\ m.stream[q].kind = "none" /\ q \in n.resultDirs => q \in m.resultDirs

\* Clean-up keeps the streams tidy.
LEMMA CleansTidy ==
    ASSUME NEW m, m \in Manager, Tidy(m), NEW n, NEW S, Ends(m, n, S)
    PROVE  Tidy(n)
<1>1. /\ m.cursors \subseteq Cursor /\ m.expired \subseteq Cursor \X Nat
      /\ m.failures \subseteq Cursor \X Nat
      /\ \A q \in Requests : m.stream[q].page \in Nat
  BY DEF Manager, Stream
<1>2. CursorsOK(n)
  <2>1. \A c \in n.cursors : c[2] = n.stream[c[1]].page /\ ~n.stream[c[1]].reading
    BY <1>1 DEF Tidy, CursorsOK, Ends, Cursor
  <2>2. ASSUME NEW g \in n.expired \cup n.failures
        PROVE  g[1] \notin n.cursors /\ g[1][2] <= n.stream[g[1][1]].page
    <3>1. CASE \E h \in m.expired \cup m.failures : h[1] = g[1]
      <4>1. PICK h \in m.expired \cup m.failures : h[1] = g[1]
        BY <3>1
      <4>2. h[1] \notin m.cursors /\ h[1][2] <= m.stream[h[1][1]].page
        BY DEF Tidy, CursorsOK
      <4>3. h[1][1] \in Requests
        BY <1>1 DEF Cursor
      <4> QED BY <4>1, <4>2, <4>3 DEF Ends
    <3>2. CASE g[1] \in m.cursors /\ g[1][1] \in S
      <4>1. g[1][1] \in Requests
        BY <1>1, <3>2 DEF Cursor
      <4> QED BY <1>1, <3>2, <4>1 DEF Tidy, CursorsOK, Ends
    <3> QED BY <3>1, <3>2 DEF Ends
  <2> QED BY <2>1, <2>2 DEF CursorsOK
<1>3. ResultDirsOK(n)
  BY DEF Tidy, ResultDirsOK, Ends, HasCursor
<1>4. ParkedOK(n)
  BY DEF Tidy, ParkedOK, Ends
<1>5. GoneOK(n)
  BY DEF Tidy, GoneOK, Ends
<1> QED BY <1>2, <1>3, <1>4, <1>5 DEF Tidy

\* Clean-up keeps the counts exact.
LEMMA CleansOwned ==
    ASSUME NEW m, NEW W, Owned(m, W), NEW n, NEW S, Ends(m, n, S), Drops(m, n, S)
    PROVE  Owned(n, W)
<1> SUFFICES ASSUME n.phase = "open", NEW r \in Recs
             PROVE  /\ n.consumers[r] = W[r] \cup Leases(n, r)
                    /\ \A q \in W[r] : q \in Requests /\ n.stream[q].kind = "none"
  BY DEF Owned
<1>1. /\ m.consumers[r] = W[r] \cup Leases(m, r)
      /\ \A q \in W[r] : q \in Requests /\ m.stream[q].kind = "none"
  BY DEF Owned, Ends
<1>2. \A q \in Requests : HasCursor(n, q) <=> HasCursor(m, q) /\ q \notin S
  BY DEF Ends, HasCursor
<1>3. Leases(n, r) = Leases(m, r) \ S
  BY <1>2 DEF Leases, Ends
<1>4. n.consumers[r] = m.consumers[r] \ LeasedBy(m, S, r)
  BY DEF Drops
<1>5. \A q \in Leases(m, r) : q \in LeasedBy(m, S, r) <=> q \in S
  BY DEF Leases, LeasedBy
<1>6. \A q \in W[r] : q \notin LeasedBy(m, S, r)
  BY <1>1 DEF LeasedBy
<1>7. n.consumers[r] = W[r] \cup Leases(n, r)
  BY <1>1, <1>3, <1>4, <1>5, <1>6
<1>8. \A q \in W[r] : q \in Requests /\ n.stream[q].kind = "none"
  BY <1>1 DEF Ends
<1> QED BY <1>7, <1>8

-----------------------------------------------------------------------------
(* The private methods that clean up.                                      *)

LEMMA CleansSelf ==
    ASSUME NEW m, MgrOK(m) PROVE Cleans(m, m, {}) /\ Drops(m, m, {})
  BY DEF Cleans, Ends, Drops, LeasedBy, MgrOK, Manager, Stream

\* Two clean-ups, one after the other.
LEMMA CleansTwice ==
    ASSUME NEW l, NEW m, NEW n, NEW S, NEW T, Cleans(l, m, S), Cleans(m, n, T)
    PROVE  Cleans(l, n, S \cup T)
<1>1. n.cursors = {c \in l.cursors : c[1] \notin S \cup T}
  BY DEF Cleans, Ends
<1>2. \A g \in n.expired \cup n.failures :
         \/ \E h \in l.expired \cup l.failures : h[1] = g[1]
         \/ g[1] \in l.cursors /\ g[1][1] \in S \cup T
  <2> SUFFICES ASSUME NEW g \in n.expired \cup n.failures
               PROVE  \/ \E h \in l.expired \cup l.failures : h[1] = g[1]
                      \/ g[1] \in l.cursors /\ g[1][1] \in S \cup T
    OBVIOUS
  <2>1. CASE g[1] \in m.cursors /\ g[1][1] \in T
    BY <2>1 DEF Cleans, Ends
  <2>2. CASE \E h \in m.expired \cup m.failures : h[1] = g[1]
    <3>1. PICK h \in m.expired \cup m.failures : h[1] = g[1]
      BY <2>2
    <3>2. \/ \E k \in l.expired \cup l.failures : k[1] = h[1]
          \/ h[1] \in l.cursors /\ h[1][1] \in S
      BY DEF Cleans, Ends
    <3> QED BY <3>1, <3>2
  <2> QED BY <2>1, <2>2 DEF Cleans, Ends
<1> QED BY <1>1, <1>2 DEF Cleans, Ends

LEMMA DropsTwice ==
    ASSUME NEW l, NEW m, NEW n, NEW S, NEW T, Ends(l, m, S), Drops(l, m, S),
           Drops(m, n, T), S \subseteq Requests, T \subseteq Requests
    PROVE  Drops(l, n, S \cup T)
  BY DEF Ends, Drops, LeasedBy

LEMMA SweepRetiredCleans ==
    ASSUME NEW m, MgrOK(m), NEW t \in Nat
    PROVE  Cleans(m, SweepRetired(m, t), {}) /\ Drops(m, SweepRetired(m, t), {})
<1> DEFINE n == SweepRetired(m, t)
<1>1. /\ n.phase = m.phase /\ n.unsettled = m.unsettled /\ n.terminal = m.terminal
      /\ n.log = m.log /\ n.waiters = m.waiters /\ n.cached = m.cached
      /\ n.cursors = m.cursors /\ n.resultDirs = m.resultDirs
      /\ n.consumers = m.consumers /\ n.stream = m.stream
      /\ n.expired = {g \in m.expired : g[2] > t}
                        \cup {<<g[1], t + Ttl>> : g \in {g \in m.failures : g[2] <= t}}
      /\ n.failures = m.failures \ {g \in m.failures : g[2] <= t}
  BY DEF MgrOK, Manager, SweepRetired
<1>2. \A g \in n.expired \cup n.failures : \E h \in m.expired \cup m.failures : h[1] = g[1]
  BY <1>1
<1> QED BY <1>1, <1>2 DEF Cleans, Ends, Drops, LeasedBy

LEMMA SweepSessionsCleans ==
    ASSUME NEW m, MgrOK(m), NEW t \in Nat
    PROVE  Cleans(m, SweepSessions(m, t), {}) /\ Drops(m, SweepSessions(m, t), {})
<1> DEFINE n == SweepSessions(m, t)
<1>1. /\ n.phase = m.phase /\ n.unsettled = m.unsettled /\ n.terminal = m.terminal
      /\ n.log = m.log /\ n.waiters = m.waiters /\ n.cached \subseteq m.cached
      /\ n.cursors = m.cursors /\ n.resultDirs = m.resultDirs
      /\ n.consumers = m.consumers /\ n.stream = m.stream
      /\ n.expired = m.expired /\ n.failures = m.failures
  BY DEF MgrOK, Manager, SweepSessions
<1> QED BY <1>1 DEF Cleans, Ends, Drops, LeasedBy

LEMMA InvalidateCleans ==
    ASSUME NEW m, MgrOK(m), NEW r \in Recs
    PROVE  /\ Cleans(m, InvalidateFactSession(m, r), {})
           /\ Drops(m, InvalidateFactSession(m, r), {})
<1> DEFINE n == InvalidateFactSession(m, r)
<1>1. /\ n.phase = m.phase /\ n.unsettled = m.unsettled /\ n.terminal = m.terminal
      /\ n.log = m.log /\ n.waiters = m.waiters /\ n.cached \subseteq m.cached
      /\ n.cursors = m.cursors /\ n.resultDirs = m.resultDirs
      /\ n.consumers = m.consumers /\ n.stream = m.stream
      /\ n.expired = m.expired /\ n.failures = m.failures
  BY DEF MgrOK, Manager, InvalidateFactSession
<1> QED BY <1>1 DEF Cleans, Ends, Drops, LeasedBy

\* A request that waits gives its lease back: no stream changes.
LEMMA ReleaseCleans ==
    ASSUME NEW m, MgrOK(m), NEW r \in Recs, NEW q \in Requests
    PROVE  /\ Cleans(m, ReleaseConsumer(m, r, q), {})
           /\ ReleaseConsumer(m, r, q).consumers = [m.consumers EXCEPT ![r] = @ \ {q}]
<1> DEFINE n == ReleaseConsumer(m, r, q)
<1>1. /\ n.phase = m.phase /\ n.unsettled = m.unsettled /\ n.terminal = m.terminal
      /\ n.log = m.log /\ n.waiters = m.waiters /\ n.cached = m.cached
      /\ n.cursors = m.cursors /\ n.resultDirs = m.resultDirs
      /\ n.stream = m.stream /\ n.expired = m.expired /\ n.failures = m.failures
  BY DEF MgrOK, Manager, ReleaseConsumer
<1>2. n.consumers = [m.consumers EXCEPT ![r] = @ \ {q}]
  <2>1. CASE q \in m.consumers[r]
    BY <2>1 DEF MgrOK, Manager, ReleaseConsumer
  <2>2. CASE q \notin m.consumers[r]
    <3>1. m.consumers[r] \ {q} = m.consumers[r]
      BY <2>2
    <3> QED BY <2>2, <3>1 DEF MgrOK, Manager, ReleaseConsumer
  <2> QED BY <2>1, <2>2
<1> QED BY <1>1, <1>2 DEF Cleans, Ends

LEMMA CleanupResultsCleans ==
    ASSUME NEW m, m \in Manager, NEW S \in SUBSET Requests, NEW t \in Nat
    PROVE  Cleans(m, CleanupResults(m, S, t), S) /\ Drops(m, CleanupResults(m, S, t), S)
<1> DEFINE n == CleanupResults(m, S, t)
<1>1. /\ n.phase = m.phase /\ n.unsettled = m.unsettled /\ n.terminal = m.terminal
      /\ n.log = m.log /\ n.waiters = m.waiters /\ n.cached = m.cached
      /\ n.cursors = {c \in m.cursors : c[1] \notin S}
      /\ n.resultDirs = m.resultDirs \ S /\ n.failures = m.failures
      /\ n.expired = m.expired \cup {<<c, t + Ttl>> : c \in {d \in m.cursors : d[1] \in S}}
  BY DEF Manager, CleanupResults
<1>2. \A r \in Recs : n.consumers[r] = m.consumers[r] \ (m.consumers[r] \cap LeasedBy(m, S, r))
  BY DEF Manager, CleanupResults
<1>3. \A q \in Requests :
         n.stream[q] = IF q \in S THEN [m.stream[q] EXCEPT !.reading = FALSE] ELSE m.stream[q]
  BY DEF Manager, CleanupResults
<1>4. \A q \in Requests :
         /\ n.stream[q].kind = m.stream[q].kind /\ n.stream[q].rec = m.stream[q].rec
         /\ n.stream[q].seen = m.stream[q].seen /\ n.stream[q].page = m.stream[q].page
         /\ n.stream[q].delivered = m.stream[q].delivered
         /\ n.stream[q].ended = m.stream[q].ended
         /\ n.stream[q].reading <=> m.stream[q].reading /\ q \notin S
  <2>1. ASSUME NEW s \in Stream
        PROVE  LET u == [s EXCEPT !.reading = FALSE] IN
               /\ u.kind = s.kind /\ u.rec = s.rec /\ u.seen = s.seen /\ u.page = s.page
               /\ u.delivered = s.delivered /\ u.ended = s.ended /\ u.reading = FALSE
    BY DEF Stream
  <2>2. \A q \in Requests : m.stream[q] \in Stream
    BY DEF Manager
  <2> HIDE DEF n
  <2> QED BY <1>3, <2>1, <2>2
<1>5. \A g \in n.expired \cup n.failures :
         \/ \E h \in m.expired \cup m.failures : h[1] = g[1]
         \/ g[1] \in m.cursors /\ g[1][1] \in S
  BY <1>1
<1>8. \A q \in Requests : n.stream[q].stored = m.stream[q].stored
  <2>1. \A s \in Stream : [s EXCEPT !.reading = FALSE].stored = s.stored
    BY DEF Stream
  <2>2. \A q \in Requests : m.stream[q] \in Stream
    BY DEF Manager
  <2> HIDE DEF n
  <2> QED BY <1>3, <2>1, <2>2
<1> HIDE DEF n
<1>6. Cleans(m, n, S)
  BY <1>1, <1>4, <1>5, <1>8 DEF Cleans, Ends
<1>7. Drops(m, n, S)
  BY <1>2 DEF Drops
<1> QED BY <1>6, <1>7 DEF n

LEMMA CleanupExpiredCleans ==
    ASSUME NEW m, MgrOK(m), NEW t \in Nat
    PROVE  \E S \in SUBSET Requests :
              Cleans(m, CleanupExpired(m, t), S) /\ Drops(m, CleanupExpired(m, t), S)
<1> DEFINE m1 == SweepRetired(m, t)
           idle == {q \in Requests : HasCursor(m1, q) /\ m1.stream[q].expires <= t}
           m2 == CleanupResults(m1, idle, t)
           n == SweepSessions(m2, t)
<1>1. MgrOK(m1) /\ Cleans(m, m1, {}) /\ Drops(m, m1, {})
  BY SweepRetiredOK, SweepRetiredCleans
<1>2. idle \in SUBSET Requests
  OBVIOUS
<1> HIDE DEF m1, idle
<1>3. MgrOK(m2) /\ Cleans(m1, m2, idle) /\ Drops(m1, m2, idle)
  BY <1>1, <1>2, CleanupResultsOK, CleanupResultsCleans DEF MgrOK
<1> HIDE DEF m2
<1>4. Cleans(m2, n, {}) /\ Drops(m2, n, {})
  BY <1>3, SweepSessionsCleans
<1>5. CleanupExpired(m, t) = n
  BY DEF CleanupExpired, m1, m2, idle
<1> HIDE DEF n
<1>6. Cleans(m, m2, {} \cup idle) /\ Drops(m, m2, {} \cup idle)
  BY <1>1, <1>2, <1>3, CleansTwice, DropsTwice DEF Cleans
<1>7. Cleans(m, n, ({} \cup idle) \cup {}) /\ Drops(m, n, ({} \cup idle) \cup {})
  BY <1>2, <1>4, <1>6, CleansTwice, DropsTwice DEF Cleans
<1> QED BY <1>2, <1>5, <1>7

-----------------------------------------------------------------------------
(* The private methods that change a build.                                *)

\* Owned is about consumers, streams and cursors alone.
LEMMA OwnedSame ==
    ASSUME NEW m, NEW n, NEW W, Owned(m, W), n.phase = m.phase, n.consumers = m.consumers,
           n.stream = m.stream, n.cursors = m.cursors
    PROVE  Owned(n, W)
  BY DEF Owned, Leases, HasCursor

\* An event of record r is published, and the build may settle with it.
Publishes(m, n, r) ==
    /\ n.phase = m.phase /\ n.cached = m.cached /\ n.unsettled \subseteq m.unsettled
    /\ n.cursors = m.cursors /\ n.expired = m.expired /\ n.failures = m.failures
    /\ n.stream = m.stream /\ n.resultDirs = m.resultDirs /\ n.consumers = m.consumers
    /\ n.waiters[r] = {} /\ n.terminal[r] \in {"pending", "success"}
    /\ \A k \in Recs \ {r} : /\ n.waiters[k] = m.waiters[k]
                             /\ n.terminal[k] = m.terminal[k]
                             /\ n.log[k] = m.log[k]

LEMMA PublishedTidy ==
    ASSUME NEW m, MgrOK(m), Tidy(m), NEW W, Owned(m, W), NEW r \in m.unsettled, NEW n,
           Publishes(m, n, r)
    PROVE  Tidy(n) /\ Owned(n, W)
<1>1. CursorsOK(n) /\ ResultDirsOK(n)
  BY DEF Tidy, CursorsOK, ResultDirsOK, HasCursor, Publishes
<1>2. ParkedOK(n)
  BY DEF Tidy, ParkedOK, Publishes
<1>3. GoneOK(n)
  BY DEF Tidy, GoneOK, Publishes
<1>4. Owned(n, W)
  BY OwnedSame DEF Publishes
<1> QED BY <1>1, <1>2, <1>3, <1>4 DEF Tidy

LEMMA PublishEventTidy ==
    ASSUME NEW m, MgrOK(m), Tidy(m), NEW W, Owned(m, W), NEW r \in m.unsettled,
           NEW o \in {"progress", "success"}, NEW I \in SUBSET Items
    PROVE  Tidy(PublishEvent(m, r, o, I)) /\ Owned(PublishEvent(m, r, o, I), W)
<1> DEFINE n == PublishEvent(m, r, o, I)
<1>1. r \in Recs /\ m.terminal[r] = "pending"
  BY DEF MgrOK, Manager, BuildsOK, Pending
<1>2. /\ n.phase = m.phase /\ n.cached = m.cached /\ n.unsettled = m.unsettled
      /\ n.cursors = m.cursors /\ n.expired = m.expired /\ n.failures = m.failures
      /\ n.stream = m.stream /\ n.resultDirs = m.resultDirs /\ n.consumers = m.consumers
      /\ n.terminal = m.terminal
  BY DEF PublishEvent, MgrOK, Manager
<1>3. n.waiters[r] = {} /\ \A k \in Recs \ {r} : n.waiters[k] = m.waiters[k]
  BY <1>1 DEF PublishEvent, MgrOK, Manager
<1>4. \A k \in Recs \ {r} : n.log[k] = m.log[k]
  BY DEF PublishEvent, MgrOK, Manager
<1> HIDE DEF n
<1>5. Publishes(m, n, r)
  BY <1>1, <1>2, <1>3, <1>4 DEF Publishes
<1> QED BY <1>5, PublishedTidy DEF n

LEMMA SettleSuccessTidy ==
    ASSUME NEW m, MgrOK(m), Tidy(m), NEW W, Owned(m, W), NEW r \in m.unsettled,
           NEW I \in SUBSET Items, NEW t \in Nat,
           NEW n, n = [Settle(PublishEvent(m, r, "success", I), r, "success") EXCEPT
                          !.expires[r] = t + Ttl]
    PROVE  Tidy(n) /\ Owned(n, W)
<1> DEFINE p == PublishEvent(m, r, "success", I)
<1>1. r \in Recs
  BY DEF MgrOK, Manager
<1>2. MgrOK(p)
  BY <1>1, PublishEventOK
<1>3. /\ p.phase = m.phase /\ p.cached = m.cached /\ p.unsettled = m.unsettled
      /\ p.cursors = m.cursors /\ p.expired = m.expired /\ p.failures = m.failures
      /\ p.stream = m.stream /\ p.resultDirs = m.resultDirs /\ p.consumers = m.consumers
      /\ p.terminal = m.terminal
      /\ p.waiters[r] = {} /\ \A k \in Recs \ {r} : p.waiters[k] = m.waiters[k]
      /\ \A k \in Recs \ {r} : p.log[k] = m.log[k]
  BY <1>1 DEF PublishEvent, MgrOK, Manager
<1> HIDE DEF p
<1>4. n = [Settle(p, r, "success") EXCEPT !.expires[r] = t + Ttl]
  BY DEF p
<1>5. /\ n.phase = p.phase /\ n.cached = p.cached /\ n.unsettled = p.unsettled \ {r}
      /\ n.cursors = p.cursors /\ n.expired = p.expired /\ n.failures = p.failures
      /\ n.stream = p.stream /\ n.resultDirs = p.resultDirs /\ n.consumers = p.consumers
      /\ n.waiters = p.waiters /\ n.log = p.log
      /\ n.terminal[r] = "success" /\ \A k \in Recs \ {r} : n.terminal[k] = p.terminal[k]
  <2> DEFINE te == [p.terminal EXCEPT ![r] = "success"]
             un == p.unsettled \ {r}
             ex == [p.expires EXCEPT ![r] = t + Ttl]
  <2>1. n = [p EXCEPT !.terminal = te, !.unsettled = un, !.expires = ex]
    BY <1>2, <1>4 DEF Settle, MgrOK, Manager
  <2>2. te[r] = "success" /\ \A k \in Recs \ {r} : te[k] = p.terminal[k]
    BY <1>1, <1>2 DEF MgrOK, Manager
  <2> HIDE DEF te, ex
  <2> QED BY <1>2, <2>1, <2>2 DEF MgrOK, Manager
<1>6. Publishes(m, n, r)
  BY <1>3, <1>5 DEF Publishes
<1> QED BY <1>6, PublishedTidy

\* A failed build takes the cursors of its streams, and their leases, with it.
LEMMA SettleFailedTidy ==
    ASSUME NEW m, MgrOK(m), Tidy(m), NEW W, Owned(m, W), NEW r \in m.unsettled,
           NEW kind \in Failures, NEW t \in Nat
    PROVE  Tidy(SettleFailed(m, r, kind, t)) /\ Owned(SettleFailed(m, r, kind, t), W)
<1> DEFINE n == SettleFailed(m, r, kind, t)
           L == {q \in LeasedBy(m, Requests, r) : HasCursor(m, q)}
<1>1. r \in Recs /\ m.terminal[r] = "pending" /\ m.phase # "disposed"
  BY DEF MgrOK, Manager, BuildsOK, Pending, Tidy, GoneOK
<1>2. /\ n.phase = m.phase /\ n.cached = m.cached \ {r} /\ n.unsettled = m.unsettled \ {r}
      /\ n.cursors = {c \in m.cursors : c[1] \notin L}
      /\ n.failures = m.failures \cup {<<c, t + Ttl>> : c \in {d \in m.cursors : d[1] \in L}}
      /\ n.resultDirs = m.resultDirs \ L /\ n.expired = m.expired
      /\ n.stream = m.stream /\ n.log = m.log
  BY DEF SettleFailed, Settle, FailCursors, MgrOK, Manager
<1>3. /\ n.consumers[r] = m.consumers[r] \ L /\ n.waiters[r] = {} /\ n.terminal[r] = kind
      /\ \A k \in Recs \ {r} : /\ n.consumers[k] = m.consumers[k]
                               /\ n.waiters[k] = m.waiters[k]
                               /\ n.terminal[k] = m.terminal[k]
  <2> HIDE DEF L
  <2>1. n = [[m EXCEPT !.cursors = {c \in @ : c[1] \notin L},
                       !.failures = @ \cup {<<c, t + Ttl>> : c \in {d \in m.cursors : d[1] \in L}},
                       !.resultDirs = @ \ L] EXCEPT
               !.terminal[r] = kind, !.unsettled = @ \ {r}, !.consumers[r] = @ \ L,
               !.waiters[r] = {}, !.cached = @ \ {r}, !.buildDirs = @ \ {r}]
    BY DEF SettleFailed, Settle, FailCursors, L, MgrOK, Manager
  <2>2. r \in Recs
    BY <1>1
  <2> QED BY <2>1, <2>2 DEF MgrOK, Manager
<1>4. /\ m.cursors \subseteq Cursor /\ \A q \in Requests : m.stream[q].page \in Nat
  BY DEF MgrOK, Manager, Stream
<1>5. \A q \in Requests : HasCursor(m, q) => ~m.stream[q].reading
  BY DEF HasCursor, Tidy, CursorsOK
<1>6. \A q \in L : ~m.stream[q].reading
  BY <1>5 DEF LeasedBy
<1> DEFINE LL == L
<1> HIDE DEF n
<1>7. \A q \in Requests : HasCursor(n, q) <=> HasCursor(m, q) /\ q \notin LL
  BY <1>2 DEF HasCursor
<1>8. CursorsOK(n)
  <2>1. \A c \in n.cursors : c[2] = n.stream[c[1]].page /\ ~n.stream[c[1]].reading
    BY <1>2 DEF Tidy, CursorsOK
  <2>2. ASSUME NEW g \in n.expired \cup n.failures
        PROVE  g[1] \notin n.cursors /\ g[1][2] <= n.stream[g[1][1]].page
    <3>1. CASE g \in m.expired \cup m.failures
      BY <1>2, <3>1 DEF Tidy, CursorsOK
    <3>2. CASE g[1] \in m.cursors /\ g[1][1] \in L
      <4>1. g[1][1] \in Requests
        BY <1>4, <3>2 DEF Cursor
      <4> QED BY <1>2, <1>4, <3>2, <4>1 DEF Tidy, CursorsOK
    <3> QED BY <1>2, <3>1, <3>2
  <2> QED BY <2>1, <2>2 DEF CursorsOK
<1>9. ResultDirsOK(n)
  BY <1>1, <1>2, <1>6, <1>7 DEF Tidy, ResultDirsOK
<1>10. ParkedOK(n)
  BY <1>1, <1>2, <1>3 DEF Tidy, ParkedOK, Failures
<1>11. GoneOK(n)
  BY <1>1, <1>2 DEF GoneOK
<1>12. Owned(n, W)
  <2> SUFFICES ASSUME n.phase = "open", NEW k \in Recs
               PROVE  n.consumers[k] = W[k] \cup Leases(n, k)
    BY <1>2 DEF Owned
  <2>1. /\ m.consumers[k] = W[k] \cup Leases(m, k)
        /\ \A q \in W[k] : q \in Requests /\ m.stream[q].kind = "none"
    BY <1>2 DEF Owned
  <2>2. \A q \in L : m.stream[q].kind = "live" /\ m.stream[q].rec = r
    BY DEF LeasedBy
  <2>3. CASE k = r
    <3>1. Leases(n, k) = Leases(m, k) \ LL
      BY <1>2, <1>6, <1>7, <2>2 DEF Leases
    <3>2. \A q \in W[k] : q \notin LL
      BY <2>1, <2>2
    <3> HIDE DEF LL
    <3>3. n.consumers[k] = m.consumers[k] \ LL
      BY <1>3, <2>3 DEF LL
    <3> QED BY <2>1, <3>1, <3>2, <3>3
  <2>4. CASE k # r
    <3>1. Leases(n, k) = Leases(m, k)
      BY <1>2, <1>7, <2>2, <2>4 DEF Leases
    <3> QED BY <1>3, <2>1, <2>4, <3>1
  <2> QED BY <2>3, <2>4
<1> QED BY <1>8, <1>9, <1>10, <1>11, <1>12 DEF Tidy, n

-----------------------------------------------------------------------------
(* The private methods that change a stream.                               *)

\* A read takes the only cursor of its stream.
LEMMA ClaimTidy ==
    ASSUME NEW m, m \in Manager, Tidy(m), NEW W, Owned(m, W), NEW c \in m.cursors,
           NEW t \in Nat
    PROVE  LET n == ClaimCursor(m, c, t) IN
           /\ Tidy(n) /\ Owned(n, W) /\ KindsKept(m, n)
           /\ n.stream[c[1]].reading /\ n.phase # "disposed"
<1> DEFINE n == ClaimCursor(m, c, t)
           q == c[1]
           s == [m.stream[q] EXCEPT !.reading = TRUE]
<1>1. /\ c \in Cursor /\ q \in Requests /\ m.cursors \subseteq Cursor
      /\ m.expired \subseteq Cursor \X Nat /\ m.failures \subseteq Cursor \X Nat
      /\ \A p \in Requests : m.stream[p].page \in Nat
  BY DEF Manager, Cursor, Stream
<1>2. /\ s.kind = m.stream[q].kind /\ s.rec = m.stream[q].rec /\ s.page = m.stream[q].page
      /\ s.reading = TRUE
  <2>1. ASSUME NEW x \in Stream
        PROVE  LET y == [x EXCEPT !.reading = TRUE] IN
               /\ y.kind = x.kind /\ y.rec = x.rec /\ y.page = x.page /\ y.reading = TRUE
    BY DEF Stream
  <2>2. m.stream[q] \in Stream
    BY <1>1 DEF Manager
  <2> QED BY <2>1, <2>2
<1> HIDE DEF s
<1>3. /\ n.phase = m.phase /\ n.unsettled = m.unsettled /\ n.terminal = m.terminal
      /\ n.log = m.log /\ n.waiters = m.waiters /\ n.cached = m.cached
      /\ n.consumers = m.consumers /\ n.resultDirs = m.resultDirs
      /\ n.cursors = m.cursors \ {c} /\ n.expired = m.expired \cup {<<c, t + Ttl>>}
      /\ n.failures = m.failures
      /\ n.stream[q] = s /\ \A p \in Requests \ {q} : n.stream[p] = m.stream[p]
  BY <1>1 DEF ClaimCursor, s, Manager
<1>4. \A d \in m.cursors : d[1] = q => d = c
  <2> SUFFICES ASSUME NEW d \in m.cursors, d[1] = q PROVE d = c
    OBVIOUS
  <2>1. d[2] = m.stream[q].page /\ c[2] = m.stream[q].page
    BY DEF Tidy, CursorsOK
  <2>2. d \in Requests \X Nat /\ c \in Requests \X Nat
    BY <1>1 DEF Cursor
  <2> QED BY <2>1, <2>2
<1>5. ~HasCursor(n, q) /\ HasCursor(m, q) /\ ~m.stream[q].reading
  BY <1>3, <1>4 DEF HasCursor, Tidy, CursorsOK
<1>6. \A p \in Requests \ {q} : HasCursor(n, p) <=> HasCursor(m, p)
  BY <1>3 DEF HasCursor
<1>7. m.phase # "disposed"
  BY DEF Tidy, GoneOK
<1> HIDE DEF n
<1>8. CursorsOK(n)
  <2>1. ASSUME NEW d \in n.cursors
        PROVE  d[2] = n.stream[d[1]].page /\ ~n.stream[d[1]].reading
    <3>1. d \in m.cursors /\ d[1] # q /\ d[1] \in Requests
      BY <1>1, <1>3, <1>4 DEF Cursor
    <3> QED BY <1>3, <3>1 DEF Tidy, CursorsOK
  <2>2. ASSUME NEW g \in n.expired \cup n.failures
        PROVE  g[1] \notin n.cursors /\ g[1][2] <= n.stream[g[1][1]].page
    <3>1. CASE g \in m.expired \cup m.failures
      <4>1. g[1][1] \in Requests
        BY <1>1, <3>1 DEF Cursor
      <4>2. n.stream[g[1][1]].page = m.stream[g[1][1]].page
        BY <1>2, <1>3, <4>1
      <4> QED BY <1>3, <3>1, <4>2 DEF Tidy, CursorsOK
    <3>2. CASE g[1] = c
      <4>1. c[2] = m.stream[q].page
        BY DEF Tidy, CursorsOK
      <4> QED BY <1>1, <1>2, <1>3, <3>2, <4>1
    <3> QED BY <1>3, <3>1, <3>2
  <2> QED BY <2>1, <2>2 DEF CursorsOK
<1>9. ResultDirsOK(n)
  BY <1>1, <1>2, <1>3, <1>5, <1>6 DEF Tidy, ResultDirsOK
<1>10. ParkedOK(n) /\ GoneOK(n)
  BY <1>3, <1>7 DEF Tidy, ParkedOK, GoneOK
<1>11. \A r \in Recs : Leases(n, r) = Leases(m, r)
  BY <1>1, <1>2, <1>3, <1>5, <1>6 DEF Leases
<1>12. Owned(n, W)
  <2>1. \A p \in Requests : n.stream[p].kind = m.stream[p].kind
    BY <1>2, <1>3
  <2> QED BY <1>3, <1>11, <2>1 DEF Owned
<1>13. KindsKept(m, n)
  BY <1>2, <1>3 DEF KindsKept
<1> QED BY <1>2, <1>3, <1>7, <1>8, <1>9, <1>10, <1>12, <1>13 DEF Tidy, n

\* The stream that is read gets its next cursor, or ends.
LEMMA ServeTidy ==
    ASSUME NEW m, m \in Manager, Tidy(m), NEW W, Owned(m, W), NEW q \in Requests,
           m.stream[q].reading, m.stream[q].kind # "none", m.phase # "disposed",
           m.stream[q].kind = "live" =>
               /\ m.stream[q].rec \in Recs
               /\ m.stream[q].seen \in 1 .. Len(m.log[m.stream[q].rec]),
           NEW P \in Page(Available(m, q)), NEW t \in Nat
    PROVE  /\ Tidy(Serve(m, q, P, t)) /\ Owned(Serve(m, q, P, t), W)
           /\ KindsKept(m, Serve(m, q, P, t))
<1> DEFINE s == m.stream[q]
           more == \/ Available(m, q) # P
                   \/ s.kind = "live" /\ m.log[s.rec][s.seen].outcome # "success"
           s3 == [s EXCEPT !.delivered = @ \cup P, !.reading = FALSE, !.ended = ~more]
           s2 == [s3 EXCEPT !.page = @ + 1, !.expires = t + Ttl]
           n == Serve(m, q, P, t)
<1>1. /\ P \in SUBSET Items /\ s \in Stream /\ s.page \in Nat
      /\ m.cursors \subseteq Cursor
      /\ m.expired \subseteq Cursor \X Nat /\ m.failures \subseteq Cursor \X Nat
      /\ \A p \in Requests : m.stream[p].page \in Nat
  BY AvailableOK DEF Manager, Stream
<1>2. /\ s3 \in Stream
      /\ s2.kind = s.kind /\ s2.rec = s.rec /\ s2.page = s.page + 1 /\ s2.reading = FALSE
      /\ s3.kind = s.kind /\ s3.rec = s.rec /\ s3.page = s.page /\ s3.reading = FALSE
  <2> DEFINE d == s.delivered \cup P
             e == ~more
  <2>1. d \in SUBSET Items /\ e \in BOOLEAN
    BY <1>1 DEF Stream
  <2>2. s3 = [s EXCEPT !.delivered = d, !.reading = FALSE, !.ended = e]
    OBVIOUS
  <2> HIDE DEF d, e, s, s3
  <2>3. /\ s3 \in Stream /\ s3.kind = s.kind /\ s3.rec = s.rec /\ s3.page = s.page
        /\ s3.reading = FALSE
    BY <1>1, <2>1, <2>2 DEF Stream
  <2>4. ASSUME NEW x \in Stream
        PROVE  LET y == [x EXCEPT !.page = @ + 1, !.expires = t + Ttl] IN
               /\ y.kind = x.kind /\ y.rec = x.rec /\ y.page = x.page + 1
               /\ y.reading = x.reading
    BY DEF Stream
  <2> QED BY <2>3, <2>4
<1>3. ~HasCursor(m, q)
  BY DEF HasCursor, Tidy, CursorsOK
<1>4. CASE more
  <2> DEFINE next == <<q, s.page + 1>>
  <2> HIDE DEF s2, s3
  <2>1. n = [m EXCEPT !.stream[q] = s2, !.cursors = @ \cup {next}]
    BY <1>4 DEF Serve, s2, s3
  <2>2. /\ n.phase = m.phase /\ n.unsettled = m.unsettled /\ n.terminal = m.terminal
        /\ n.log = m.log /\ n.waiters = m.waiters /\ n.cached = m.cached
        /\ n.consumers = m.consumers /\ n.resultDirs = m.resultDirs
        /\ n.cursors = m.cursors \cup {next} /\ n.expired = m.expired
        /\ n.failures = m.failures
        /\ n.stream[q] = s2 /\ \A p \in Requests \ {q} : n.stream[p] = m.stream[p]
    BY <2>1 DEF Manager
  <2>3. HasCursor(n, q) /\ \A p \in Requests \ {q} : HasCursor(n, p) <=> HasCursor(m, p)
    <3>1. next[1] = q
      OBVIOUS
    <3> HIDE DEF next
    <3>2. n.cursors = m.cursors \cup {next}
      BY <2>2
    <3> QED BY <3>1, <3>2 DEF HasCursor
  <2> HIDE DEF n
  <2>4. CursorsOK(n)
    <3>1. ASSUME NEW d \in n.cursors
          PROVE  d[2] = n.stream[d[1]].page /\ ~n.stream[d[1]].reading
      <4>1. CASE d = next
        BY <1>2, <2>2, <4>1
      <4>2. CASE d \in m.cursors
        <5>1. d[1] # q /\ d[1] \in Requests
          BY <1>1, <1>3, <4>2 DEF HasCursor, Cursor
        <5> QED BY <2>2, <4>2, <5>1 DEF Tidy, CursorsOK
      <4> QED BY <2>2, <4>1, <4>2
    <3>2. ASSUME NEW g \in n.expired \cup n.failures
          PROVE  g[1] \notin n.cursors /\ g[1][2] <= n.stream[g[1][1]].page
      <4>1. /\ g \in m.expired \cup m.failures /\ g[1][1] \in Requests /\ g[1][2] \in Nat
        BY <1>1, <2>2 DEF Cursor
      <4>2. g[1] \notin m.cursors /\ g[1][2] <= m.stream[g[1][1]].page
        BY <4>1 DEF Tidy, CursorsOK
      <4>3. CASE g[1][1] = q
        <5>1. g[1][2] <= s.page
          BY <4>2, <4>3
        <5>2. g[1][2] # s.page + 1 /\ g[1][2] <= s.page + 1
          BY <1>1, <4>1, <5>1
        <5>3. g[1] # next
          BY <5>2
        <5> QED BY <1>2, <2>2, <4>2, <4>3, <5>2, <5>3
      <4>4. CASE g[1][1] # q
        BY <2>2, <4>1, <4>2, <4>4
      <4> QED BY <4>3, <4>4
    <3> QED BY <3>1, <3>2 DEF CursorsOK
  <2>5. ResultDirsOK(n)
    BY <1>2, <2>2, <2>3 DEF Tidy, ResultDirsOK
  <2>6. ParkedOK(n) /\ GoneOK(n)
    BY <2>2 DEF Tidy, ParkedOK, GoneOK
  <2>7. \A r \in Recs : Leases(n, r) = Leases(m, r)
    BY <1>2, <2>2, <2>3 DEF Leases
  <2>8. \A p \in Requests : n.stream[p].kind = m.stream[p].kind
    BY <1>2, <2>2
  <2>9. Owned(n, W)
    BY <2>2, <2>7, <2>8 DEF Owned
  <2>10. KindsKept(m, n)
    BY <1>2, <2>2 DEF KindsKept
  <2> QED BY <2>4, <2>5, <2>6, <2>9, <2>10 DEF Tidy, n
<1>5. CASE ~more
  <2> DEFINE f == [m EXCEPT !.stream[q] = s3]
  <2>1. n = CleanupResults(f, {q}, t)
    BY <1>5 DEF Serve, Finish
  <2> HIDE DEF n, s3
  <2>2. /\ f.phase = m.phase /\ f.unsettled = m.unsettled /\ f.terminal = m.terminal
        /\ f.log = m.log /\ f.waiters = m.waiters /\ f.cached = m.cached
        /\ f.consumers = m.consumers /\ f.resultDirs = m.resultDirs
        /\ f.cursors = m.cursors /\ f.expired = m.expired /\ f.failures = m.failures
        /\ f.stream[q] = s3 /\ \A p \in Requests \ {q} : f.stream[p] = m.stream[p]
    BY DEF Manager
  <2>3. f \in Manager
    <3> DEFINE st == [m.stream EXCEPT ![q] = s3]
    <3>1. st \in [Requests -> Stream]
      BY <1>2 DEF Manager
    <3>2. f = [m EXCEPT !.stream = st]
      BY DEF Manager
    <3> HIDE DEF st, f
    <3> QED BY <3>1, <3>2 DEF Manager
  <2> HIDE DEF f
  <2>4. Ends(f, n, {q}) /\ Drops(f, n, {q})
    BY <2>1, <2>3, CleanupResultsCleans DEF Cleans
  <2>5. Ends(m, n, {q})
    BY <1>2, <2>2, <2>4 DEF Ends
  <2>6. Drops(m, n, {q})
    BY <1>2, <2>2, <2>4 DEF Drops, LeasedBy
  <2>7. KindsKept(m, n)
    BY <2>5 DEF KindsKept, Ends
  <2> QED BY <2>5, <2>6, <2>7, CleansTidy, CleansOwned DEF n
<1> QED BY <1>4, <1>5

\* A request opens its stream s, with a first cursor or while its first page is read;
\* the lease a live stream is made over was the request's own.
Opens(m, n, q, s, C, W, V) ==
    /\ m.phase # "disposed" /\ m.stream[q].kind = "none" /\ m.stream[q].page = 0
    /\ ~HasCursor(m, q) /\ ~m.stream[q].reading
    /\ s \in Stream /\ s.page \in Nat \ {0}
    /\ \/ /\ s.kind = "static" /\ ~s.reading /\ C = {<<q, s.page>>}
          /\ \A r \in Recs : V[r] = W[r] /\ q \notin V[r]
       \/ /\ s.kind = "live" /\ s.reading /\ C = {}
          /\ \A r \in Recs : /\ q \in W[r] <=> s.rec = r
                             /\ V[r] = W[r] \ {q}
    /\ n = [m EXCEPT !.resultDirs = @ \cup {q}, !.cursors = @ \cup C, !.stream[q] = s]

LEMMA OpenTidy ==
    ASSUME NEW m, m \in Manager, Tidy(m), NEW W, NEW V, Owned(m, W), NEW q \in Requests,
           NEW s, NEW C, NEW n, Opens(m, n, q, s, C, W, V)
    PROVE  /\ n \in Manager /\ Tidy(n) /\ Owned(n, V)
           /\ n.phase = m.phase /\ n.log = m.log /\ n.stream[q] = s
           /\ n.resultDirs = m.resultDirs \cup {q}
           /\ \A p \in Requests \ {q} : n.stream[p] = m.stream[p]
<1> USE DEF Opens
<1>1. /\ m.cursors \subseteq Cursor
      /\ m.expired \subseteq Cursor \X Nat /\ m.failures \subseteq Cursor \X Nat
      /\ \A p \in Requests : m.stream[p].page \in Nat
  BY DEF Manager, Stream
<1>2. /\ n.phase = m.phase /\ n.unsettled = m.unsettled /\ n.terminal = m.terminal
      /\ n.log = m.log /\ n.waiters = m.waiters /\ n.cached = m.cached
      /\ n.consumers = m.consumers /\ n.resultDirs = m.resultDirs \cup {q}
      /\ n.cursors = m.cursors \cup C /\ n.expired = m.expired /\ n.failures = m.failures
      /\ n.stream[q] = s /\ \A p \in Requests \ {q} : n.stream[p] = m.stream[p]
  BY DEF Manager
<1>3. n \in Manager
  <2> DEFINE st == [m.stream EXCEPT ![q] = s]
             cu == m.cursors \cup C
             rd == m.resultDirs \cup {q}
  <2>1. st \in [Requests -> Stream] /\ cu \in SUBSET Cursor /\ rd \in SUBSET Requests
    BY DEF Manager, Cursor
  <2>2. n = [m EXCEPT !.resultDirs = rd, !.cursors = cu, !.stream = st]
    BY DEF Manager
  <2> HIDE DEF st, cu, rd
  <2> QED BY ONLY <2>1, <2>2, m \in Manager DEF Manager
<1>4. /\ HasCursor(n, q) <=> ~s.reading
      /\ \A p \in Requests \ {q} : HasCursor(n, p) <=> HasCursor(m, p)
  <2>1. /\ \A c \in C : c[1] = q
        /\ C # {} <=> ~s.reading
    <3>1. CASE ~s.reading /\ C = {<<q, s.page>>}
      <4>1. \A c \in C : c[1] = q
        BY ONLY <3>1
      <4>2. C # {}
        BY ONLY <3>1
      <4> QED BY <3>1, <4>1, <4>2
    <3>2. CASE s.reading /\ C = {}
      BY ONLY <3>2
    <3> QED BY <3>1, <3>2, Zenon
  <2>2. n.cursors = m.cursors \cup C
    BY <1>2
  <2>3. ~\E c \in m.cursors : c[1] = q
    BY DEF HasCursor
  <2> QED BY ONLY <2>1, <2>2, <2>3 DEF HasCursor
<1>5. CursorsOK(n)
  <2>1. ASSUME NEW d \in n.cursors
        PROVE  d[2] = n.stream[d[1]].page /\ ~n.stream[d[1]].reading
    <3>1. CASE d \in C
      BY <1>2, <3>1
    <3>2. CASE d \in m.cursors
      <4>1. d[1] # q /\ d[1] \in Requests
        BY <1>1, <3>2 DEF HasCursor, Cursor
      <4> QED BY <1>2, <3>2, <4>1 DEF Tidy, CursorsOK
    <3> QED BY <1>2, <3>1, <3>2
  <2>2. ASSUME NEW g \in n.expired \cup n.failures
        PROVE  g[1] \notin n.cursors /\ g[1][2] <= n.stream[g[1][1]].page
    <3>1. /\ g \in m.expired \cup m.failures /\ g[1][1] \in Requests /\ g[1][2] \in Nat
      BY <1>1, <1>2 DEF Cursor
    <3>2. g[1] \notin m.cursors /\ g[1][2] <= m.stream[g[1][1]].page
      BY <3>1 DEF Tidy, CursorsOK
    <3>3. CASE g[1][1] = q
      <4>1. g[1][2] = 0
        BY <3>1, <3>2, <3>3
      <4>2. g[1] \notin C
        BY <4>1
      <4> QED BY <1>2, <3>2, <3>3, <4>1, <4>2
    <3>4. CASE g[1][1] # q
      BY <1>2, <3>1, <3>2, <3>4
    <3> QED BY <3>3, <3>4
  <2> QED BY <2>1, <2>2 DEF CursorsOK
<1>6. ResultDirsOK(n)
  BY <1>2, <1>4 DEF Tidy, ResultDirsOK
<1>7. ParkedOK(n) /\ GoneOK(n)
  BY <1>2 DEF Tidy, ParkedOK, GoneOK
<1>8. Owned(n, V)
  <2> SUFFICES ASSUME m.phase = "open", NEW r \in Recs
               PROVE  /\ n.consumers[r] = V[r] \cup Leases(n, r)
                      /\ \A p \in V[r] : p \in Requests /\ n.stream[p].kind = "none"
    BY <1>2 DEF Owned
  <2>1. /\ m.consumers[r] = W[r] \cup Leases(m, r)
        /\ \A p \in W[r] : p \in Requests /\ m.stream[p].kind = "none"
    BY DEF Owned
  <2>2. Leases(n, r) = IF s.kind = "live" /\ s.rec = r THEN Leases(m, r) \cup {q}
                       ELSE Leases(m, r)
    BY <1>2, <1>4 DEF Leases
  <2>3. q \notin V[r]
    OBVIOUS
  <2>4. \A p \in V[r] : p \in Requests /\ n.stream[p].kind = "none"
    BY <1>2, <2>1, <2>3
  <2>5. n.consumers[r] = V[r] \cup Leases(n, r)
    <3>1. CASE s.kind = "static"
      BY <1>2, <2>1, <2>2, <3>1
    <3>2. CASE s.kind = "live" /\ s.rec = r
      BY <1>2, <2>1, <2>2, <3>2
    <3>3. CASE s.kind = "live" /\ s.rec # r
      <4>1. V[r] = W[r] /\ Leases(n, r) = Leases(m, r)
        <5>1. s.kind # "static" /\ q \notin W[r] /\ V[r] = W[r] \ {q}
          BY <3>3
        <5> QED BY <2>2, <3>3, <5>1
      <4> QED BY <1>2, <2>1, <2>2, <3>3, <4>1
    <3> QED BY <3>1, <3>2, <3>3
  <2> QED BY <2>4, <2>5
<1> QED BY <1>2, <1>3, <1>5, <1>6, <1>7, <1>8 DEF Tidy

\* A read goes on to a later event.
LEMMA SeenTidy ==
    ASSUME NEW m, m \in Manager, Tidy(m), NEW W, Owned(m, W), NEW q \in Requests,
           NEW v, NEW n, n = [m EXCEPT !.stream[q].seen = v]
    PROVE  /\ Tidy(n) /\ Owned(n, W) /\ KindsKept(m, n)
           /\ n.stream[q].reading = m.stream[q].reading /\ n.phase = m.phase
<1> DEFINE s == [m.stream[q] EXCEPT !.seen = v]
<1>1. /\ s.kind = m.stream[q].kind /\ s.rec = m.stream[q].rec /\ s.page = m.stream[q].page
      /\ s.reading = m.stream[q].reading
  <2>1. ASSUME NEW x \in Stream
        PROVE  LET y == [x EXCEPT !.seen = v] IN
               /\ y.kind = x.kind /\ y.rec = x.rec /\ y.page = x.page
               /\ y.reading = x.reading
    BY DEF Stream
  <2>2. m.stream[q] \in Stream
    BY DEF Manager
  <2> QED BY <2>1, <2>2
<1>2. /\ n.phase = m.phase /\ n.unsettled = m.unsettled /\ n.terminal = m.terminal
      /\ n.log = m.log /\ n.waiters = m.waiters /\ n.cached = m.cached
      /\ n.consumers = m.consumers /\ n.resultDirs = m.resultDirs
      /\ n.cursors = m.cursors /\ n.expired = m.expired /\ n.failures = m.failures
      /\ n.stream[q] = s /\ \A p \in Requests \ {q} : n.stream[p] = m.stream[p]
  BY DEF Manager
<1> HIDE DEF s
<1>3. \A p \in Requests :
         /\ n.stream[p].kind = m.stream[p].kind /\ n.stream[p].rec = m.stream[p].rec
         /\ n.stream[p].page = m.stream[p].page
         /\ n.stream[p].reading = m.stream[p].reading
  BY <1>1, <1>2
<1>4. \A c \in m.cursors : c[1] \in Requests
  BY DEF Manager, Cursor
<1>5. \A g \in m.expired \cup m.failures : g[1][1] \in Requests
  BY DEF Manager, Cursor
<1>6. CursorsOK(n)
  BY <1>2, <1>3, <1>4, <1>5 DEF Tidy, CursorsOK
<1>7. ResultDirsOK(n) /\ ParkedOK(n) /\ GoneOK(n)
  BY <1>2, <1>3 DEF Tidy, ResultDirsOK, ParkedOK, GoneOK, HasCursor
<1>8. Owned(n, W)
  <2>1. \A r \in Recs : Leases(n, r) = Leases(m, r)
    BY <1>2, <1>3 DEF Leases, HasCursor
  <2> QED BY <1>2, <1>3, <2>1 DEF Owned
<1> QED BY <1>2, <1>3, <1>6, <1>7, <1>8 DEF Tidy, KindsKept

\* A waiter parks at a build that has nothing for it yet, or leaves.
LEMMA ParkTidy ==
    ASSUME NEW m, m \in Manager, Tidy(m), NEW W, Owned(m, W), NEW r \in Recs, NEW X,
           X # {} => m.terminal[r] \in {"pending", "unused"},
           NEW n, n = [m EXCEPT !.waiters[r] = X]
    PROVE  Tidy(n) /\ Owned(n, W) /\ KindsKept(m, n)
<1>1. /\ n.phase = m.phase /\ n.unsettled = m.unsettled /\ n.terminal = m.terminal
      /\ n.log = m.log /\ n.cached = m.cached
      /\ n.consumers = m.consumers /\ n.resultDirs = m.resultDirs
      /\ n.cursors = m.cursors /\ n.expired = m.expired /\ n.failures = m.failures
      /\ n.stream = m.stream
      /\ n.waiters[r] = X /\ \A k \in Recs \ {r} : n.waiters[k] = m.waiters[k]
  BY DEF Manager
<1>2. CursorsOK(n) /\ ResultDirsOK(n) /\ GoneOK(n)
  BY <1>1 DEF Tidy, CursorsOK, ResultDirsOK, GoneOK, HasCursor
<1>3. ParkedOK(n)
  BY <1>1 DEF Tidy, ParkedOK
<1>4. Owned(n, W)
  BY <1>1, OwnedSame
<1> QED BY <1>1, <1>2, <1>3, <1>4 DEF Tidy, KindsKept

\* A request that waits, and has no stream yet, leaves.
LEMMA ReleaseTidy ==
    ASSUME NEW m, MgrOK(m), Tidy(m), NEW W, NEW V, Owned(m, W), NEW r \in Recs,
           NEW q \in Requests, m.stream[q].kind = "none",
           \A k \in Recs : V[k] = W[k] \ {q} /\ (q \in W[k] => k = r)
    PROVE  LET n == ReleaseConsumer(m, r, q) IN
           Tidy(n) /\ Owned(n, V) /\ KindsKept(m, n)
<1> DEFINE n == ReleaseConsumer(m, r, q)
<1>1. Ends(m, n, {}) /\ n.consumers = [m.consumers EXCEPT ![r] = @ \ {q}]
  BY ReleaseCleans DEF Cleans
<1>2. m \in Manager /\ m.consumers \in [Recs -> SUBSET Requests]
  BY DEF MgrOK, Manager
<1> HIDE DEF n
<1>3. Tidy(n)
  BY <1>1, <1>2, CleansTidy
<1>4. Owned(n, V)
  <2> SUFFICES ASSUME m.phase = "open", NEW k \in Recs
               PROVE  /\ n.consumers[k] = V[k] \cup Leases(n, k)
                      /\ \A p \in V[k] : p \in Requests /\ n.stream[p].kind = "none"
    BY <1>1 DEF Owned, Ends
  <2>1. /\ m.consumers[k] = W[k] \cup Leases(m, k)
        /\ \A p \in W[k] : p \in Requests /\ m.stream[p].kind = "none"
    BY DEF Owned
  <2>2. Leases(n, k) = Leases(m, k) /\ q \notin Leases(m, k)
    BY <1>1 DEF Leases, Ends, HasCursor
  <2>3. n.consumers[k] = IF k = r THEN m.consumers[k] \ {q} ELSE m.consumers[k]
    BY <1>1, <1>2
  <2>4. n.consumers[k] = V[k] \cup Leases(n, k)
    BY <2>1, <2>2, <2>3
  <2>5. \A p \in V[k] : p \in Requests /\ n.stream[p].kind = "none"
    BY <1>1, <2>1 DEF Ends
  <2> QED BY <2>4, <2>5
<1>5. KindsKept(m, n)
  BY <1>1 DEF KindsKept, Ends
<1> QED BY <1>3, <1>4, <1>5 DEF n

-----------------------------------------------------------------------------
(***************************************************************************)
(* The invariant and the actions.                                          *)
(***************************************************************************)

\* Where a request holds a lease of its own, the leaked one included.
Holding == {"building", "progressive", "leased", "leaked"}

\* The requests that hold a lease of a record.
Waiting == [r \in Recs |-> {q \in Requests : target[q] = r /\ pc[q] \in Holding}]

\* A request has no stream before its result is published, and no directory without a
\* stream unless its own file could not be written.
FreshOK ==
    \A q \in Requests :
        /\ pc[q] # "done" => mgr.stream[q].kind = "none"
        /\ mgr.stream[q].kind = "none" => mgr.stream[q].page = 0
        /\ mgr.stream[q].kind = "none" /\ q \in mgr.resultDirs => pc[q] \in {"unstored", "leaked"}

\* No request is answered again, or given a result it already has.
Onwards ==
    \A q \in Requests :
        /\ pc'[q] # "done" => pc[q] # "done"
        /\ pc[q] \in {"unstored", "leaked"} => pc'[q] \in {"unstored", "leaked"}

StreamInvariant == Tidy(mgr) /\ Owned(mgr, Waiting) /\ FreshOK

LEMMA KindsTwice ==
    ASSUME NEW l, NEW m, NEW n, KindsKept(l, m), KindsKept(m, n)
    PROVE  KindsKept(l, n)
  BY DEF KindsKept

LEMMA CarryFresh ==
    ASSUME FreshOK, KindsKept(mgr, mgr'),
           Onwards
    PROVE  FreshOK'
  BY DEF FreshOK, KindsKept, Onwards

\* What a request without a stream has.
LEMMA NoStreamYet ==
    ASSUME FreshOK, NEW m, MgrOK(m), KindsKept(mgr, m), NEW q \in Requests, pc[q] # "done"
    PROVE  /\ m.stream[q].kind = "none" /\ m.stream[q].page = 0
           /\ ~HasCursor(m, q) /\ ~m.stream[q].reading
<1>1. m.stream[q].kind = "none" /\ m.stream[q].page = 0
  BY DEF FreshOK, KindsKept
<1> QED BY <1>1 DEF MgrOK, StreamsOK

\* Cleaning up keeps the three parts.
LEMMA CleansStreams ==
    ASSUME NEW m, MgrOK(m), Tidy(m), NEW W, Owned(m, W), NEW n, NEW S,
           Cleans(m, n, S), Drops(m, n, S)
    PROVE  /\ Tidy(n) /\ Owned(n, W) /\ KindsKept(m, n)
           /\ n.phase = m.phase /\ n.log = m.log /\ n.terminal = m.terminal
<1>1. Ends(m, n, S) /\ m \in Manager
  BY DEF Cleans, MgrOK
<1> QED BY <1>1, CleansTidy, CleansOwned DEF KindsKept, Ends

LEMMA BeginStreams ==
    ASSUME BuildInvariant, StreamInvariant
    PROVE  LET m == CleanupExpired(mgr, now) IN
           /\ MgrOK(m) /\ Tidy(m) /\ Owned(m, Waiting) /\ KindsKept(mgr, m)
           /\ m.phase = mgr.phase /\ m.log = mgr.log /\ m.terminal = mgr.terminal
<1> DEFINE m == CleanupExpired(mgr, now)
<1>1. MgrOK(mgr) /\ now \in Nat /\ MgrOK(m)
  BY Begin
<1>2. PICK S \in SUBSET Requests : Cleans(mgr, m, S) /\ Drops(mgr, m, S)
  BY <1>1, CleanupExpiredCleans
<1> HIDE DEF m
<1> QED BY <1>1, <1>2, CleansStreams DEF StreamInvariant, m

\* A request that leaves the place where it waited.
LEMMA WaitingLeft ==
    ASSUME BuildInvariant, NEW q \in Requests, NEW k \in Places,
           k \notin Holding,
           pc' = [pc EXCEPT ![q] = k], target' = target
    PROVE  \A r \in Recs : /\ Waiting'[r] = Waiting[r] \ {q}
                           /\ q \in Waiting[r] => r = target[q]
<1>1. pc \in [Requests -> Places]
  BY DEF BuildInvariant, TypeOK
<1> QED BY <1>1 DEF Waiting, Holding

LEMMA WaitingSame ==
    ASSUME BuildInvariant, NEW q \in Requests, NEW k \in Places,
           k \in Holding <=> pc[q] \in Holding,
           pc' = [pc EXCEPT ![q] = k], target' = target
    PROVE  Waiting' = Waiting
<1>1. pc \in [Requests -> Places]
  BY DEF BuildInvariant, TypeOK
<1> QED BY <1>1 DEF Waiting, Holding

\* A request gives its lease back and leaves.
LEMMA LeaveStreams ==
    ASSUME BuildInvariant, StreamInvariant, NEW q \in Requests,
           pc[q] \in {"building", "progressive", "leased"},
           NEW m, MgrOK(m), Tidy(m), Owned(m, Waiting), KindsKept(mgr, m),
           mgr' = ReleaseConsumer(m, target[q], q), NEW k \in Places,
           k \notin Holding,
           pc' = [pc EXCEPT ![q] = k], target' = target
    PROVE  StreamInvariant'
<1>1. target[q] \in Recs
  BY DEF BuildInvariant, RequestsOK
<1>2. m.stream[q].kind = "none"
  BY NoStreamYet DEF StreamInvariant
<1>3. \A r \in Recs : /\ Waiting'[r] = Waiting[r] \ {q}
                      /\ q \in Waiting[r] => r = target[q]
  BY WaitingLeft
<1> DEFINE V == Waiting'
           W == Waiting
<1> HIDE DEF V, W
<1>4. Owned(m, W) /\ \A r \in Recs : V[r] = W[r] \ {q} /\ (q \in W[r] => r = target[q])
  BY <1>3 DEF V, W
<1>5. Tidy(mgr') /\ Owned(mgr', V) /\ KindsKept(m, mgr')
  BY <1>1, <1>2, <1>4, ReleaseTidy
<1>6. FreshOK'
  <2>1. KindsKept(mgr, mgr')
    BY <1>5, KindsTwice
  <2>2. Onwards
    BY DEF Onwards, Holding, BuildInvariant, TypeOK
  <2> QED BY <2>1, <2>2, CarryFresh DEF StreamInvariant
<1> QED BY <1>5, <1>6 DEF StreamInvariant, V

\* The manager changes, and nobody waits for another record than before.
LEMMA CarryStreams ==
    ASSUME StreamInvariant, Tidy(mgr'), Owned(mgr', Waiting), KindsKept(mgr, mgr'),
           Waiting' = Waiting, Onwards
    PROVE  StreamInvariant'
<1>1. FreshOK'
  BY CarryFresh DEF StreamInvariant
<1> QED BY <1>1 DEF StreamInvariant

\* The answers of acquire and acquireProgressive.
LEMMA WaitingStreams ==
    ASSUME BuildInvariant, StreamInvariant, NEW q \in Requests,
           \/ AcquireRefused(q) \/ BuildResolved(q) \/ BuildRejected(q)
           \/ AbortBuilding(q) \/ CleanupAcknowledged(q)
           \/ AwaitFirstSnapshot(q) \/ AbortProgressive(q) \/ ProjectionThrows(q)
    PROVE  StreamInvariant'
<1> DEFINE r == target[q]
<1>1. /\ MgrOK(mgr) /\ Tidy(mgr) /\ Owned(mgr, Waiting) /\ KindsKept(mgr, mgr)
      /\ pc \in [Requests -> Places] /\ mgr \in Manager
  BY Begin DEF StreamInvariant, KindsKept, BuildInvariant, TypeOK
<1>2. CASE AcquireRefused(q) \/ CleanupAcknowledged(q) \/ ProjectionThrows(q)
  <2>1. PICK k \in {"refused", "cancelled", "rejected", "leaked"} :
           /\ pc' = [pc EXCEPT ![q] = k] /\ pc[q] \in {"idle", "ackwait", "assembled", "leased"}
           /\ k \in Holding <=> pc[q] \in Holding
    BY <1>2 DEF AcquireRefused, CleanupAcknowledged, ProjectionThrows, Holding
  <2>2. mgr' = mgr /\ target' = target
    BY <1>2 DEF AcquireRefused, CleanupAcknowledged, ProjectionThrows
  <2>3. Waiting' = Waiting
    BY <2>1, <2>2, WaitingSame DEF Places, Holding
  <2>4. Onwards
    BY <1>1, <2>1 DEF Onwards
  <2> QED BY <1>1, <2>2, <2>3, <2>4, CarryStreams
<1>3. CASE BuildResolved(q) \/ BuildRejected(q) \/ AbortBuilding(q)
  <2>1. PICK k \in {"assembled", "rejected", "ackwait", "cancelled"} :
           pc' = [pc EXCEPT ![q] = k]
    BY <1>3 DEF BuildResolved, BuildRejected, AbortBuilding
  <2>2. pc[q] = "building" /\ mgr' = ReleaseConsumer(mgr, r, q) /\ target' = target
    BY <1>3 DEF BuildResolved, BuildRejected, AbortBuilding
  <2> QED BY <1>1, <2>1, <2>2, LeaveStreams DEF Places, Holding
<1>4. CASE AwaitFirstSnapshot(q)
  <2>1. r \in Recs /\ pc[q] = "progressive" /\ target' = target
    BY <1>4 DEF AwaitFirstSnapshot, BuildInvariant, RequestsOK
  <2>2. CASE mgr.terminal[r] \in Failures
    <3>1. mgr' = ReleaseConsumer(mgr, r, q) /\ pc' = [pc EXCEPT ![q] = "rejected"]
      BY <1>4, <2>2 DEF AwaitFirstSnapshot
    <3> QED BY <1>1, <2>1, <3>1, LeaveStreams DEF Places, Holding
  <2>3. CASE mgr.terminal[r] \notin Failures /\ NextVersion(mgr, r, 0) > 0
    <3>1. mgr' = mgr /\ pc' = [pc EXCEPT ![q] = "leased"]
      BY <1>4, <2>3 DEF AwaitFirstSnapshot
    <3>2. Waiting' = Waiting
      BY <2>1, <3>1, WaitingSame DEF Places, Holding
    <3>3. Onwards
      BY <1>1, <2>1, <3>1 DEF Onwards
    <3> QED BY <1>1, <3>1, <3>2, <3>3, CarryStreams
  <2>4. CASE mgr.terminal[r] \notin Failures /\ ~(NextVersion(mgr, r, 0) > 0)
    <3>1. mgr' = [mgr EXCEPT !.waiters[r] = mgr.waiters[r] \cup {q}] /\ pc' = pc
      BY <1>4, <2>4 DEF AwaitFirstSnapshot
    <3>2. mgr.log[r] \in Seq(Event) /\ mgr.terminal[r] \in Terminals
      BY <1>1, <2>1 DEF Manager
    <3>3. mgr.terminal[r] # "success"
      <4>1. ASSUME mgr.terminal[r] = "success" PROVE FALSE
        <5>1. mgr.log[r] # <<>>
          BY <2>1, <4>1 DEF BuildInvariant, BuildsOK
        <5>2. Len(mgr.log[r]) > 0
          BY <3>2, <5>1
        <5> QED BY <2>4, <4>1, <5>2 DEF NextVersion
      <4> QED BY <4>1
    <3>4. mgr.terminal[r] \in {"pending", "unused"}
      BY <2>4, <3>2, <3>3 DEF Terminals
    <3>5. Waiting' = Waiting
      BY <2>1, <3>1 DEF Waiting
    <3>6. Tidy(mgr') /\ Owned(mgr', Waiting) /\ KindsKept(mgr, mgr')
      BY <1>1, <2>1, <3>1, <3>4, ParkTidy
    <3>7. Onwards
      BY <3>1 DEF Onwards
    <3> QED BY <3>5, <3>6, <3>7, CarryStreams
  <2> QED BY <2>2, <2>3, <2>4
<1>5. CASE AbortProgressive(q)
  <2> DEFINE X == mgr.waiters[r] \ {q}
             m == [mgr EXCEPT !.waiters[r] = X]
  <2>1. r \in Recs /\ pc[q] = "progressive" /\ target' = target /\ mgr.waiters[r] # {}
    BY <1>5 DEF AbortProgressive, BuildInvariant, RequestsOK
  <2>2. mgr' = ReleaseConsumer(m, r, q) /\ pc' = [pc EXCEPT ![q] = "cancelled"]
    BY <1>5 DEF AbortProgressive
  <2>3. X \in SUBSET Requests /\ (X # {} => mgr.terminal[r] \in {"pending", "unused"})
    BY <1>1, <2>1 DEF Tidy, ParkedOK, Manager
  <2> HIDE DEF X
  <2>4. MgrOK(m)
    BY <1>1, <2>1, <2>3, WaitersOK
  <2>5. Tidy(m) /\ Owned(m, Waiting) /\ KindsKept(mgr, m)
    BY <1>1, <2>1, <2>3, ParkTidy
  <2> HIDE DEF m
  <2> QED BY <1>1, <2>1, <2>2, <2>4, <2>5, LeaveStreams DEF Places, Holding
<1> QED BY <1>2, <1>3, <1>4, <1>5

\* The lookup of acquire, and the record it makes when nothing is cached.
LEMMA AcquireStreams ==
    ASSUME BuildInvariant, StreamInvariant, NEW q \in Requests, NEW s \in Scopes,
           NEW mode \in {"building", "progressive"}, Acquire(q, s, mode)
    PROVE  StreamInvariant'
<1> DEFINE m == CleanupExpired(mgr, now)
           f == Fingerprint(s)
           hit == Lookup(m, s, f)
<1>1. /\ MgrOK(m) /\ Tidy(m) /\ Owned(m, Waiting) /\ KindsKept(mgr, m)
      /\ m.phase = "open" /\ pc[q] = "idle" /\ m \in Manager
  BY BeginStreams DEF Acquire, MgrOK
<1>2. PICK r \in Recs :
         /\ IF hit = {} THEN m.terminal[r] = "unused" ELSE r \in hit
         /\ mgr' = [(IF hit = {} THEN CreateRecord(m, r, s, f, now) ELSE m)
                       EXCEPT !.consumers[r] = @ \cup {q}]
         /\ target' = [target EXCEPT ![q] = r]
  BY DEF Acquire
<1>3. pc' = [pc EXCEPT ![q] = mode] /\ pc \in [Requests -> Places]
      /\ target \in [Requests -> Recs \cup {NoRec}]
  BY DEF Acquire, BuildInvariant, TypeOK
<1>4. /\ m.stream[q].kind = "none"
      /\ \A k \in Recs : Waiting'[k] = IF k = r THEN Waiting[k] \cup {q} ELSE Waiting[k]
  BY <1>1, <1>2, <1>3, NoStreamYet DEF Waiting, Holding, StreamInvariant
<1> HIDE DEF m, f, hit
<1>5. /\ mgr'.phase = m.phase /\ mgr'.log = m.log /\ mgr'.waiters = m.waiters
      /\ mgr'.cursors = m.cursors /\ mgr'.expired = m.expired
      /\ mgr'.failures = m.failures /\ mgr'.stream = m.stream
      /\ mgr'.resultDirs = m.resultDirs
      /\ mgr'.consumers = [m.consumers EXCEPT ![r] = @ \cup {q}]
      /\ \A k \in Recs : \/ mgr'.terminal[k] = m.terminal[k]
                         \/ m.terminal[k] = "unused" /\ mgr'.terminal[k] = "pending"
  <2>1. CASE hit = {}
    <3>1. m.terminal[r] = "unused"
      BY <1>2, <2>1
    <3>2. mgr' = [CreateRecord(m, r, s, f, now) EXCEPT !.consumers[r] = @ \cup {q}]
      BY <1>2, <2>1
    <3> QED BY <1>1, <3>1, <3>2 DEF CreateRecord, Manager
  <2>2. CASE hit # {}
    <3>1. mgr' = [m EXCEPT !.consumers[r] = @ \cup {q}]
      BY <1>2, <2>2
    <3> QED BY <1>1, <3>1 DEF Manager
  <2> QED BY <2>1, <2>2
<1>6. CursorsOK(mgr') /\ ResultDirsOK(mgr') /\ GoneOK(mgr')
  BY <1>1, <1>5 DEF Tidy, CursorsOK, ResultDirsOK, GoneOK, HasCursor
<1>7. ParkedOK(mgr')
  BY <1>1, <1>5 DEF Tidy, ParkedOK
<1>8. Owned(mgr', Waiting')
  <2> SUFFICES ASSUME NEW k \in Recs
               PROVE  /\ mgr'.consumers[k] = Waiting'[k] \cup Leases(mgr', k)
                      /\ \A p \in Waiting'[k] : p \in Requests /\ mgr'.stream[p].kind = "none"
    BY DEF Owned
  <2>1. /\ m.consumers[k] = Waiting[k] \cup Leases(m, k)
        /\ \A p \in Waiting[k] : p \in Requests /\ m.stream[p].kind = "none"
    BY <1>1 DEF Owned
  <2>2. Leases(mgr', k) = Leases(m, k)
    BY <1>5 DEF Leases, HasCursor
  <2>3. mgr'.consumers[k] = IF k = r THEN m.consumers[k] \cup {q} ELSE m.consumers[k]
    BY <1>1, <1>5 DEF Manager
  <2>4. mgr'.consumers[k] = Waiting'[k] \cup Leases(mgr', k)
    BY <1>4, <2>1, <2>2, <2>3
  <2>5. \A p \in Waiting'[k] : p \in Requests /\ mgr'.stream[p].kind = "none"
    <3>1. \A p \in Waiting'[k] : p = q \/ p \in Waiting[k]
      BY <1>4
    <3>2. mgr'.stream = m.stream
      BY <1>5
    <3>3. m.stream[q].kind = "none"
      BY <1>4
    <3> QED BY <2>1, <3>1, <3>2, <3>3
  <2> QED BY <2>4, <2>5
<1>9. FreshOK'
  <2>1. KindsKept(mgr, mgr')
    BY <1>1, <1>5 DEF KindsKept
  <2>2. Onwards
    BY <1>1, <1>3 DEF Onwards
  <2> QED BY <2>1, <2>2, CarryFresh DEF StreamInvariant
<1> QED BY <1>6, <1>7, <1>8, <1>9 DEF StreamInvariant, Tidy

\* publishContinuation: one page, or a static stream behind its first page.
LEMMA PublishStaticStreams ==
    ASSUME BuildInvariant, StreamInvariant, NEW q \in Requests, PublishStatic(q)
    PROVE  StreamInvariant'
<1> DEFINE r == target[q]
           m == CleanupExpired(mgr, now)
           value == m.log[r][Len(m.log[r])].items
<1>1. /\ MgrOK(m) /\ Tidy(m) /\ Owned(m, Waiting) /\ KindsKept(mgr, m)
      /\ m.phase = mgr.phase /\ pc[q] = "assembled" /\ m \in Manager
      /\ m.log = mgr.log /\ m.terminal = mgr.terminal /\ now \in Nat
  BY BeginStreams, Begin DEF PublishStatic, MgrOK
<1>2. pc \in [Requests -> Places] /\ target' = target /\ r \in Recs
  BY <1>1 DEF PublishStatic, BuildInvariant, TypeOK, RequestsOK
<1>3. PICK k \in {"refused", "invalid", "done"} : pc' = [pc EXCEPT ![q] = k]
  BY DEF PublishStatic
<1>4. Waiting' = Waiting
  BY <1>1, <1>2, <1>3, WaitingSame DEF Places, Holding
<1>5. Onwards
  BY <1>1, <1>2, <1>3 DEF Onwards
<1>6. /\ m.stream[q].kind = "none" /\ m.stream[q].page = 0
      /\ ~HasCursor(m, q) /\ ~m.stream[q].reading
  BY <1>1, NoStreamYet DEF StreamInvariant
<1>7. /\ Tidy(mgr) /\ Owned(mgr, Waiting) /\ KindsKept(mgr, mgr)
  BY DEF StreamInvariant, KindsKept
<1>8. value \in SUBSET Items
  <2>1. m.log[r] \in Seq(Event) /\ m.log[r] # <<>>
    BY <1>1, <1>2 DEF Manager, BuildInvariant, BuildsOK, RequestsOK
  <2>2. Len(m.log[r]) \in 1 .. Len(m.log[r])
    BY <2>1
  <2>3. m.log[r][Len(m.log[r])] \in Event
    BY <2>1, <2>2
  <2> QED BY <2>3 DEF Event
<1>9. CASE mgr.phase # "open"
  <2>1. mgr' = mgr
    BY <1>9 DEF PublishStatic
  <2> QED BY <1>4, <1>5, <1>7, <2>1, CarryStreams
<1>10. CASE mgr.phase = "open" /\ r \notin m.cached
  <2>1. mgr' = m
    BY <1>10 DEF PublishStatic
  <2> QED BY <1>1, <1>4, <1>5, <2>1, CarryStreams
<1>11. CASE mgr.phase = "open" /\ r \in m.cached
  <2>1. PICK P \in Page(value) :
           IF P = value THEN mgr' = CleanupBuildFiles(m, r)
           ELSE mgr' = [m EXCEPT
                    !.resultDirs = @ \cup {q},
                    !.cursors = @ \cup {<<q, 2>>},
                    !.stream[q] = OpenStream("static", r, value, P, 0, 2, now)]
    BY <1>11 DEF PublishStatic
  <2>2. CASE P = value
    <3>1. mgr' = CleanupBuildFiles(m, r)
      BY <2>1, <2>2
    <3> HIDE DEF m
    <3>2. /\ mgr'.phase = m.phase /\ mgr'.unsettled = m.unsettled
          /\ mgr'.terminal = m.terminal /\ mgr'.log = m.log /\ mgr'.waiters = m.waiters
          /\ mgr'.cached = m.cached /\ mgr'.consumers = m.consumers
          /\ mgr'.resultDirs = m.resultDirs /\ mgr'.cursors = m.cursors
          /\ mgr'.expired = m.expired /\ mgr'.failures = m.failures
          /\ mgr'.stream = m.stream
      BY <1>1, <3>1 DEF CleanupBuildFiles, Manager
    <3>3. Cleans(m, mgr', {}) /\ Drops(m, mgr', {})
      BY <3>2 DEF Cleans, Ends, Drops, LeasedBy
    <3>4. Tidy(mgr') /\ Owned(mgr', Waiting) /\ KindsKept(m, mgr')
      BY <1>1, <3>3, CleansStreams
    <3>5. KindsKept(mgr, mgr')
      BY <1>1, <3>4, KindsTwice
    <3> QED BY <1>4, <1>5, <3>4, <3>5, CarryStreams
  <2>3. CASE P # value
    <3> DEFINE s == OpenStream("static", r, value, P, 0, 2, now)
               C == {<<q, s.page>>}
    <3>1. P \in SUBSET Items
      BY <1>8 DEF Page
    <3>2. /\ s \in Stream /\ s.page = 2 /\ s.kind = "static" /\ ~s.reading
      <4>1. now + Ttl \in Nat
        BY <1>1, TtlAssumption
      <4> HIDE DEF value, m
      <4> QED BY <1>2, <1>8, <3>1, <4>1 DEF OpenStream, Stream
    <3>3. mgr' = [m EXCEPT !.resultDirs = @ \cup {q}, !.cursors = @ \cup C, !.stream[q] = s]
      BY <2>1, <2>3, <3>2
    <3>4. \A j \in Recs : q \notin Waiting[j]
      BY <1>1 DEF Waiting, Holding
    <3>5. s.page \in Nat \ {0}
      BY <3>2
    <3> HIDE DEF s, m
    <3>6. /\ Tidy(mgr') /\ Owned(mgr', Waiting) /\ mgr'.stream[q] = s
          /\ \A p \in Requests \ {q} : mgr'.stream[p] = m.stream[p]
      <4>1. Opens(m, mgr', q, s, C, Waiting, Waiting)
        BY <1>1, <1>6, <1>11, <3>2, <3>3, <3>4, <3>5, Zenon DEF Opens
      <4> DEFINE W == Waiting
                 n == mgr'
      <4>2. m \in Manager /\ Tidy(m) /\ Owned(m, W) /\ Opens(m, n, q, s, C, W, W)
        BY <1>1, <4>1
      <4> HIDE DEF C, r, value, W, n
      <4>3. /\ n \in Manager /\ Tidy(n) /\ Owned(n, W)
            /\ n.phase = m.phase /\ n.log = m.log /\ n.stream[q] = s
            /\ n.resultDirs = m.resultDirs \cup {q}
            /\ \A p \in Requests \ {q} : n.stream[p] = m.stream[p]
        BY <4>2, OpenTidy
      <4> QED BY <4>3 DEF W, n
    <3>9. mgr'.resultDirs = m.resultDirs \cup {q}
      BY <1>1, <3>3 DEF Manager
    <3>7. k = "done"
      BY <1>2, <1>3, <1>11, <2>1 DEF PublishStatic, m
    <3>8. FreshOK'
      <4> SUFFICES ASSUME NEW p \in Requests
                   PROVE  /\ pc'[p] # "done" => mgr'.stream[p].kind = "none"
                          /\ mgr'.stream[p].kind = "none" =>
                                /\ mgr'.stream[p].page = 0
                                /\ p \in mgr'.resultDirs => pc'[p] \in {"unstored", "leaked"}
        BY DEF FreshOK
      <4>1. CASE p = q
        BY <1>2, <1>3, <3>2, <3>6, <3>7, <4>1
      <4>2. CASE p # q
        <5>1. /\ pc'[p] = pc[p] /\ mgr'.stream[p] = m.stream[p]
              /\ p \in mgr'.resultDirs <=> p \in m.resultDirs
          BY <1>2, <1>3, <3>6, <3>9, <4>2
        <5> QED BY <1>1, <5>1 DEF FreshOK, StreamInvariant, KindsKept
      <4> QED BY <4>1, <4>2
    <3> QED BY <1>4, <3>6, <3>8 DEF StreamInvariant
  <2> QED BY <2>2, <2>3
<1> QED BY <1>9, <1>10, <1>11

\* A live stream is opened with its lease taken and its first page being read.
LEMMA OpenLive ==
    ASSUME NEW x \in Recs, NEW n \in Nat
    PROVE  LET y == OpenStream("live", x, {}, {}, 1, 1, n) IN
           /\ y \in Stream /\ y.kind = "live" /\ y.rec = x /\ y.reading
           /\ y.seen = 1 /\ y.page \in Nat \ {0} /\ y.delivered = {} /\ ~y.ended
<1> DEFINE e == n + Ttl
           y == [kind |-> "live", rec |-> x, stored |-> {}, delivered |-> {},
                 seen |-> 1, page |-> 1, expires |-> e, reading |-> TRUE,
                 ended |-> FALSE]
<1>1. e \in Nat
  BY TtlAssumption
<1>2. OpenStream("live", x, {}, {}, 1, 1, n) = y
  BY DEF OpenStream
<1> HIDE DEF e
<1>3. y \in Stream /\ y.kind = "live" /\ y.rec = x /\ y.reading
      /\ y.seen = 1 /\ y.page \in Nat \ {0} /\ y.delivered = {} /\ ~y.ended
  BY <1>1 DEF Stream
<1> HIDE DEF y
<1> QED BY <1>2, <1>3

\* publishLiveContinuation: the request's lease becomes the lease of its stream.
LEMMA PublishLiveStreams ==
    ASSUME BuildInvariant, StreamInvariant, NEW q \in Requests, PublishLive(q)
    PROVE  StreamInvariant'
<1> DEFINE r == target[q]
           m == CleanupExpired(mgr, now)
           s == OpenStream("live", r, {}, {}, NextVersion(m, r, 0), 1, now)
           m1 == [m EXCEPT !.resultDirs = @ \cup {q}, !.stream[q] = s]
<1>1. /\ MgrOK(m) /\ Tidy(m) /\ Owned(m, Waiting) /\ KindsKept(mgr, m)
      /\ m.phase = mgr.phase /\ pc[q] = "leased" /\ m \in Manager
      /\ m.log = mgr.log /\ m.terminal = mgr.terminal /\ now \in Nat
  BY BeginStreams, Begin DEF PublishLive, MgrOK
<1>2. pc \in [Requests -> Places] /\ target' = target /\ r \in Recs
  BY <1>1 DEF PublishLive, BuildInvariant, TypeOK, RequestsOK
<1>3. PICK k \in {"refused", "invalid", "done"} : pc' = [pc EXCEPT ![q] = k]
  BY DEF PublishLive
<1>4. Onwards
  BY <1>1, <1>2, <1>3 DEF Onwards
<1>5. \A j \in Recs : /\ Waiting'[j] = Waiting[j] \ {q}
                      /\ q \in Waiting[j] <=> j = r
  BY <1>1, <1>2, <1>3 DEF Waiting, Holding
<1>6. /\ m.stream[q].kind = "none" /\ m.stream[q].page = 0
      /\ ~HasCursor(m, q) /\ ~m.stream[q].reading
  BY <1>1, NoStreamYet DEF StreamInvariant
<1>7. CASE mgr.phase # "open"
  <2>1. mgr' = mgr
    BY <1>7 DEF PublishLive
  <2>2. Tidy(mgr') /\ Owned(mgr', Waiting') /\ KindsKept(mgr, mgr')
    BY <1>7, <2>1 DEF StreamInvariant, Owned, KindsKept
  <2>3. FreshOK'
    BY <1>4, <2>2, CarryFresh DEF StreamInvariant
  <2> QED BY <2>2, <2>3 DEF StreamInvariant
<1>8. CASE mgr.phase = "open" /\ r \notin m.cached
  <2>1. mgr' = ReleaseConsumer(m, r, q) /\ pc' = [pc EXCEPT ![q] = "invalid"]
    BY <1>8 DEF PublishLive
  <2> HIDE DEF m
  <2> QED BY <1>1, <1>2, <2>1, LeaveStreams DEF Places, Holding
<1>9. CASE mgr.phase = "open" /\ r \in m.cached
  <2>1. /\ pc' = [pc EXCEPT ![q] = "done"]
        /\ \/ mgr' = m1
           \/ \E P \in Page(Available(m1, q)) : mgr' = Serve(m1, q, P, now)
    BY <1>9 DEF PublishLive
  <2>2. m.log[r] \in Seq(Event) /\ m.log[r] # <<>>
    BY <1>1, <1>2 DEF Manager, BuildInvariant, RequestsOK
  <2>3. NextVersion(m, r, 0) = 1 /\ 1 \in 1 .. Len(m.log[r])
    <3>1. Len(m.log[r]) \in Nat /\ Len(m.log[r]) > 0
      BY <2>2
    <3> QED BY <3>1 DEF NextVersion
  <2>4. /\ s \in Stream /\ s.kind = "live" /\ s.rec = r /\ s.reading /\ s.seen = 1
        /\ s.page \in Nat \ {0}
    <3>1. s = OpenStream("live", r, {}, {}, 1, 1, now)
      BY <2>3
    <3> HIDE DEF m, s, r
    <3> QED BY <1>1, <1>2, <3>1, OpenLive
  <2> DEFINE V == Waiting'
             W == Waiting
  <2>5. Opens(m, m1, q, s, {}, W, V)
    <3>1. m1 = [m EXCEPT !.resultDirs = @ \cup {q}, !.cursors = @ \cup {}, !.stream[q] = s]
      BY <1>1 DEF Manager
    <3> HIDE DEF m, s, m1, V, W, r
    <3>2. \A j \in Recs : V[j] = W[j] \ {q} /\ (q \in W[j] <=> s.rec = j)
      BY <1>5, <2>4 DEF V, W
    <3>3. m.phase # "disposed"
      BY <1>1, <1>9
    <3> QED BY <1>6, <2>4, <3>1, <3>2, <3>3, Zenon DEF Opens
  <2> HIDE DEF m, s, m1, V, W
  <2>6. Owned(m, W)
    BY <1>1 DEF W
  <2>7. /\ m1 \in Manager /\ Tidy(m1) /\ Owned(m1, V)
        /\ m1.phase = m.phase /\ m1.log = m.log /\ m1.stream[q] = s
        /\ m1.resultDirs = m.resultDirs \cup {q}
        /\ \A p \in Requests \ {q} : m1.stream[p] = m.stream[p]
    BY <1>1, <2>5, <2>6, OpenTidy
  <2>8. /\ Tidy(mgr') /\ Owned(mgr', V) /\ KindsKept(m1, mgr')
    <3>1. ASSUME NEW P \in Page(Available(m1, q)), mgr' = Serve(m1, q, P, now)
          PROVE  /\ Tidy(mgr') /\ Owned(mgr', V) /\ KindsKept(m1, mgr')
      <4>1. /\ m1.stream[q].reading /\ m1.stream[q].kind # "none" /\ m1.phase # "disposed"
            /\ m1.stream[q].rec \in Recs
            /\ m1.stream[q].seen \in 1 .. Len(m1.log[m1.stream[q].rec])
        BY <1>1, <1>2, <1>9, <2>3, <2>4, <2>7
      <4> QED BY <1>1, <2>7, <3>1, <4>1, ServeTidy
    <3>2. KindsKept(m1, m1)
      BY DEF KindsKept
    <3> QED BY <2>1, <2>7, <3>1, <3>2
  <2>9. FreshOK'
    <3> SUFFICES ASSUME NEW p \in Requests
                 PROVE  /\ pc'[p] # "done" => mgr'.stream[p].kind = "none"
                        /\ mgr'.stream[p].kind = "none" =>
                              /\ mgr'.stream[p].page = 0
                              /\ p \in mgr'.resultDirs => pc'[p] \in {"unstored", "leaked"}
      BY DEF FreshOK
    <3>1. CASE p = q
      <4>1. pc'[q] = "done"
        BY <1>2, <2>1
      <4>2. mgr'.stream[q].kind = "live"
        BY <2>4, <2>7, <2>8 DEF KindsKept
      <4> QED BY <3>1, <4>1, <4>2
    <3>2. CASE p # q
      <4>1. pc'[p] = pc[p]
        BY <1>2, <2>1, <3>2
      <4>2. m1.stream[p] = m.stream[p] /\ (p \in m1.resultDirs <=> p \in m.resultDirs)
        BY <2>7, <3>2
      <4> QED BY <1>1, <2>8, <4>1, <4>2 DEF KindsKept, FreshOK, StreamInvariant
    <3> QED BY <3>1, <3>2
  <2> QED BY <2>8, <2>9 DEF StreamInvariant, V
<1> QED BY <1>7, <1>8, <1>9

\* A file of a result could not be written: a live request keeps its lease.
LEMMA StoreThrowsStreams ==
    ASSUME BuildInvariant, StreamInvariant, NEW q \in Requests, StoreThrows(q)
    PROVE  StreamInvariant'
<1> DEFINE m == CleanupExpired(mgr, now)
<1>1. /\ MgrOK(m) /\ Tidy(m) /\ Owned(m, Waiting) /\ KindsKept(mgr, m)
      /\ m.phase = mgr.phase
  BY BeginStreams
<1>2. /\ Littered(m, mgr', q) /\ mgr.phase = "open" /\ pc[q] \in {"assembled", "leased"}
      /\ target' = target /\ pc \in [Requests -> Places]
  BY StoreThrowsIs DEF BuildInvariant, TypeOK
<1>3. PICK k \in {"unstored", "leaked"} :
         pc' = [pc EXCEPT ![q] = k] /\ (k \in Holding <=> pc[q] \in Holding)
  BY StoreThrowsIs DEF Holding
<1>4. Waiting' = Waiting
  BY <1>2, <1>3, WaitingSame DEF Places
<1>5. m.stream[q].kind = "none"
  BY <1>1, <1>2, NoStreamYet DEF StreamInvariant
<1> HIDE DEF m
<1>6. /\ mgr'.phase = m.phase /\ mgr'.unsettled = m.unsettled /\ mgr'.terminal = m.terminal
      /\ mgr'.log = m.log /\ mgr'.waiters = m.waiters /\ mgr'.cached = m.cached
      /\ mgr'.consumers = m.consumers /\ mgr'.stream = m.stream
      /\ mgr'.cursors = m.cursors /\ mgr'.expired = m.expired /\ mgr'.failures = m.failures
      /\ \A p \in Requests \ {q} : p \in mgr'.resultDirs <=> p \in m.resultDirs
  BY <1>2 DEF Littered
<1>7. CursorsOK(mgr') /\ ParkedOK(mgr')
  BY <1>1, <1>6 DEF Tidy, CursorsOK, ParkedOK
<1>8. ResultDirsOK(mgr') /\ GoneOK(mgr')
  BY <1>1, <1>2, <1>5, <1>6 DEF Tidy, ResultDirsOK, GoneOK, HasCursor
<1>9. Owned(mgr', Waiting')
  BY <1>1, <1>4, <1>6, OwnedSame
<1>10. FreshOK'
  <2> SUFFICES ASSUME NEW p \in Requests
               PROVE  /\ pc'[p] # "done" => mgr'.stream[p].kind = "none"
                      /\ mgr'.stream[p].kind = "none" =>
                            /\ mgr'.stream[p].page = 0
                            /\ p \in mgr'.resultDirs => pc'[p] \in {"unstored", "leaked"}
    BY DEF FreshOK
  <2>1. mgr'.stream[p] = m.stream[p]
    BY <1>6
  <2>2. CASE p = q
    BY <1>1, <1>2, <1>3, <1>5, <2>1, <2>2 DEF FreshOK, StreamInvariant, KindsKept
  <2>3. CASE p # q
    <3>1. pc'[p] = pc[p] /\ (p \in mgr'.resultDirs <=> p \in m.resultDirs)
      BY <1>2, <1>3, <1>6, <2>3
    <3> QED BY <1>1, <2>1, <3>1 DEF FreshOK, StreamInvariant, KindsKept
  <2> QED BY <2>2, <2>3
<1> QED BY <1>7, <1>8, <1>9, <1>10 DEF StreamInvariant, Tidy

\* The calls that present a cursor, and the worker, move no request.
LEMMA CarryCall ==
    ASSUME StreamInvariant, Tidy(mgr'), Owned(mgr', Waiting), KindsKept(mgr, mgr'),
           pc' = pc, target' = target
    PROVE  StreamInvariant'
<1>1. Waiting' = Waiting /\ Onwards
  BY DEF Waiting, Onwards
<1> QED BY <1>1, CarryStreams

\* A turn of the loop of a live read.
LEMMA LiveReadTurnStreams ==
    ASSUME BuildInvariant, StreamInvariant, NEW q \in Requests, LiveReadTurn(q)
    PROVE  StreamInvariant'
<1> DEFINE r == mgr.stream[q].rec
           v == NextVersion(mgr, r, mgr.stream[q].seen)
           m == [mgr EXCEPT !.stream[q].seen = v]
<1>1. /\ MgrOK(mgr) /\ mgr \in Manager /\ now \in Nat
      /\ Tidy(mgr) /\ Owned(mgr, Waiting) /\ KindsKept(mgr, mgr)
      /\ pc' = pc /\ target' = target /\ mgr.stream[q].reading
  BY Begin DEF LiveReadTurn, StreamInvariant, KindsKept, MgrOK
<1>2. /\ mgr.stream[q].kind = "live" /\ r \in Recs
      /\ mgr.log[r] \in Seq(Event) /\ mgr.stream[q].seen \in 1 .. Len(mgr.log[r])
      /\ mgr.terminal[r] \in Terminals
  BY <1>1 DEF MgrOK, Manager, StreamsOK
<1>3. CASE mgr.terminal[r] \in Failures
  <2>1. mgr' = CleanupResults(mgr, {q}, now)
    BY <1>3 DEF LiveReadTurn
  <2>2. Cleans(mgr, mgr', {q}) /\ Drops(mgr, mgr', {q})
    BY <1>1, <2>1, CleanupResultsCleans
  <2> QED BY <1>1, <2>2, CleansStreams, CarryCall
<1>4. CASE mgr.terminal[r] \notin Failures
  <2>1. mgr.phase # "disposed"
    BY <1>1, <1>4 DEF Tidy, GoneOK
  <2> DEFINE l == Len(mgr.log[r])
             x == mgr.stream[q].seen
  <2>2. l \in Nat /\ x \in 1 .. l
    BY <1>2
  <2>3. v = IF l > x THEN x + 1 ELSE IF mgr.terminal[r] = "success" THEN l ELSE 0
    BY DEF NextVersion
  <2>4. CASE v = 0
    <3>1. mgr' = [mgr EXCEPT !.waiters[r] = mgr.waiters[r] \cup {q}]
      BY <1>4, <2>4 DEF LiveReadTurn
    <3>2. mgr.terminal[r] # "success"
      <4> HIDE DEF l, x, v
      <4> QED BY <2>2, <2>3, <2>4
    <3>3. mgr.terminal[r] \in {"pending", "unused"}
      BY <1>2, <1>4, <3>2 DEF Terminals
    <3> QED BY <1>1, <1>2, <3>1, <3>3, ParkTidy, CarryCall
  <2>5. CASE v # 0
    <3>1. \/ \E P \in Page(Available(m, q)) : mgr' = Serve(m, q, P, now)
          \/ mgr' = m
      BY <1>4, <2>5 DEF LiveReadTurn
    <3>2. v \in 1 .. l
      <4> HIDE DEF l, x, v
      <4> QED BY <2>2, <2>3, <2>5
    <3>3. m.log = mgr.log /\ m.stream[q] = [mgr.stream[q] EXCEPT !.seen = v]
      BY <1>1 DEF Manager
    <3>4. m.stream[q].rec = r /\ m.stream[q].seen = v /\ m.stream[q].kind = "live"
      <4>1. ASSUME NEW y \in Stream
            PROVE  LET z == [y EXCEPT !.seen = v] IN
                   z.rec = y.rec /\ z.seen = v /\ z.kind = y.kind
        BY DEF Stream
      <4>2. mgr.stream[q] \in Stream
        BY <1>1 DEF Manager
      <4> QED BY <1>2, <3>3, <4>1, <4>2
    <3>5. m \in Manager
      <4> DEFINE st == [mgr.stream EXCEPT ![q].seen = v]
      <4>1. v \in Nat
        BY <2>2, <3>2
      <4>2. ASSUME NEW y \in Stream PROVE [y EXCEPT !.seen = v] \in Stream
        BY <4>1 DEF Stream
      <4>3. mgr.stream \in [Requests -> Stream]
        BY <1>1 DEF Manager
      <4>4. st \in [Requests -> Stream]
        BY <4>2, <4>3
      <4>5. m = [mgr EXCEPT !.stream = st]
        BY <1>1 DEF Manager
      <4> HIDE DEF st, m, v, r
      <4> QED BY <1>1, <4>4, <4>5 DEF Manager
    <3>6. /\ Tidy(m) /\ Owned(m, Waiting) /\ KindsKept(mgr, m)
          /\ m.stream[q].reading /\ m.phase # "disposed"
      <4> HIDE DEF v
      <4> QED BY <1>1, <2>1, SeenTidy
    <3> HIDE DEF v, m, r
    <3>7. ASSUME NEW P \in Page(Available(m, q)), mgr' = Serve(m, q, P, now)
          PROVE  Tidy(mgr') /\ Owned(mgr', Waiting) /\ KindsKept(mgr, mgr')
      <4>1. m.stream[q].rec \in Recs /\ m.stream[q].seen \in 1 .. Len(m.log[m.stream[q].rec])
        BY <1>2, <3>2, <3>3, <3>4
      <4>2. Tidy(mgr') /\ Owned(mgr', Waiting) /\ KindsKept(m, mgr')
        BY <1>1, <3>4, <3>5, <3>6, <3>7, <4>1, ServeTidy
      <4> QED BY <3>6, <4>2, KindsTwice
    <3> QED BY <1>1, <3>1, <3>6, <3>7, CarryCall
  <2> QED BY <2>4, <2>5
<1> QED BY <1>3, <1>4

\* A read that throws gives its lease back.
LEMMA ReadThrowsStreams ==
    ASSUME BuildInvariant, StreamInvariant, NEW q \in Requests, ReadThrows(q)
    PROVE  StreamInvariant'
<1>1. /\ MgrOK(mgr) /\ mgr \in Manager /\ now \in Nat
      /\ Tidy(mgr) /\ Owned(mgr, Waiting) /\ KindsKept(mgr, mgr)
      /\ pc' = pc /\ target' = target /\ mgr' = CleanupResults(mgr, {q}, now)
  BY Begin DEF ReadThrows, StreamInvariant, KindsKept, MgrOK
<1>2. Cleans(mgr, mgr', {q}) /\ Drops(mgr, mgr', {q})
  BY <1>1, CleanupResultsCleans
<1> QED BY <1>1, <1>2, CleansStreams, CarryCall

\* A page asked for by cursor, and a cursor given back.
LEMMA ReadContinuationStreams ==
    ASSUME BuildInvariant, StreamInvariant, NEW c \in Cursor, NEW root,
           ReadContinuation(c, root)
    PROVE  StreamInvariant'
<1> DEFINE q == c[1]
           m == CleanupExpired(mgr, now)
           r == m.stream[q].rec
           m1 == ClaimCursor(m, c, now)
<1>1. /\ MgrOK(m) /\ m \in Manager /\ Tidy(m) /\ Owned(m, Waiting) /\ KindsKept(mgr, m)
      /\ now \in Nat /\ q \in Requests /\ pc' = pc /\ target' = target
  BY BeginStreams, Begin DEF ReadContinuation, MgrOK, Cursor
<1>2. \/ mgr' = m
      \/ c \in m.cursors /\ mgr' = InvalidateFactSession(CleanupResults(m, {q}, now), r)
      \/ c \in m.cursors /\ mgr' = m1
      \/ c \in m.cursors /\ \E P \in Page(Available(m1, q)) : mgr' = Serve(m1, q, P, now)
  BY DEF ReadContinuation
<1> HIDE DEF m
<1>3. CASE mgr' = m
  BY <1>1, <1>3, CarryCall
<1>4. c \in m.cursors => /\ m.stream[q].kind # "none" /\ r \in Recs
                         /\ m.stream[q].kind = "live" =>
                               m.stream[q].seen \in 1 .. Len(m.log[r])
  BY <1>1 DEF MgrOK, StreamsOK, HasCursor
<1>5. CASE c \in m.cursors /\ mgr' = InvalidateFactSession(CleanupResults(m, {q}, now), r)
  <2> DEFINE m2 == CleanupResults(m, {q}, now)
  <2>1. /\ MgrOK(m2) /\ Cleans(m, m2, {q}) /\ Drops(m, m2, {q})
    BY <1>1, CleanupResultsOK, CleanupResultsCleans
  <2> HIDE DEF m2
  <2>2. Tidy(m2) /\ Owned(m2, Waiting) /\ KindsKept(m, m2)
    BY <1>1, <2>1, CleansStreams
  <2>3. mgr' = InvalidateFactSession(m2, r)
    BY <1>5 DEF m2
  <2>4. Cleans(m2, mgr', {}) /\ Drops(m2, mgr', {})
    BY <1>4, <1>5, <2>1, <2>3, InvalidateCleans
  <2>5. Tidy(mgr') /\ Owned(mgr', Waiting) /\ KindsKept(m2, mgr')
    BY <2>1, <2>2, <2>4, CleansStreams
  <2> QED BY <1>1, <2>2, <2>5, KindsTwice, CarryCall
<1>6. ASSUME c \in m.cursors
      PROVE  /\ Tidy(m1) /\ Owned(m1, Waiting) /\ KindsKept(mgr, m1)
             /\ m1.stream[q].reading /\ m1.phase # "disposed"
  BY <1>1, <1>6, ClaimTidy, KindsTwice
<1>7. CASE c \in m.cursors /\ mgr' = m1
  BY <1>1, <1>6, <1>7, CarryCall
<1>8. CASE c \in m.cursors /\ \E P \in Page(Available(m1, q)) : mgr' = Serve(m1, q, P, now)
  <2>1. m1 \in Manager /\ m1.log = m.log
        /\ m1.stream[q] = [m.stream[q] EXCEPT !.reading = TRUE]
    <3> DEFINE st == [m.stream EXCEPT ![q].reading = TRUE]
               cu == m.cursors \ {c}
               ex == m.expired \cup {<<c, now + Ttl>>}
    <3>1. ASSUME NEW y \in Stream PROVE [y EXCEPT !.reading = TRUE] \in Stream
      BY DEF Stream
    <3>2. m.stream \in [Requests -> Stream] /\ now + Ttl \in Nat
      BY <1>1, TtlAssumption DEF Manager
    <3>3. st \in [Requests -> Stream] /\ st[q] = [m.stream[q] EXCEPT !.reading = TRUE]
      BY <1>1, <3>1, <3>2
    <3>4. cu \in SUBSET Cursor /\ ex \in SUBSET (Cursor \X Nat)
      BY <1>1, <3>2 DEF Manager
    <3>5. m1 = [m EXCEPT !.cursors = cu, !.expired = ex, !.stream = st]
      BY <1>1 DEF ClaimCursor, Manager
    <3> HIDE DEF st, cu, ex, m1, q
    <3> QED BY <1>1, <3>3, <3>4, <3>5 DEF Manager
  <2>2. /\ m1.stream[q].kind = m.stream[q].kind /\ m1.stream[q].rec = r
        /\ m1.stream[q].seen = m.stream[q].seen
    <3>1. ASSUME NEW y \in Stream
          PROVE  LET z == [y EXCEPT !.reading = TRUE] IN
                 z.rec = y.rec /\ z.seen = y.seen /\ z.kind = y.kind
      BY DEF Stream
    <3>2. m.stream[q] \in Stream
      BY <1>1 DEF Manager
    <3> QED BY <2>1, <3>1, <3>2
  <2> HIDE DEF m1
  <2>3. PICK P \in Page(Available(m1, q)) : mgr' = Serve(m1, q, P, now)
    BY <1>8
  <2>4. /\ m1.stream[q].kind # "none"
        /\ m1.stream[q].kind = "live" =>
              /\ m1.stream[q].rec \in Recs
              /\ m1.stream[q].seen \in 1 .. Len(m1.log[m1.stream[q].rec])
    BY <1>4, <1>8, <2>1, <2>2
  <2>5. Tidy(mgr') /\ Owned(mgr', Waiting) /\ KindsKept(m1, mgr')
    BY <1>1, <1>6, <1>8, <2>1, <2>3, <2>4, ServeTidy
  <2> QED BY <1>1, <1>6, <1>8, <2>5, KindsTwice, CarryCall
<1> QED BY <1>2, <1>3, <1>5, <1>7, <1>8

LEMMA CancelContinuationStreams ==
    ASSUME BuildInvariant, StreamInvariant, NEW c \in Cursor, NEW root,
           CancelContinuation(c, root)
    PROVE  StreamInvariant'
<1> DEFINE m == CleanupExpired(mgr, now)
           q == c[1]
<1>1. /\ MgrOK(m) /\ m \in Manager /\ Tidy(m) /\ Owned(m, Waiting) /\ KindsKept(mgr, m)
      /\ now \in Nat /\ q \in Requests /\ pc' = pc /\ target' = target
  BY BeginStreams, Begin DEF CancelContinuation, MgrOK, Cursor
<1>2. mgr' = m \/ mgr' = CleanupResults(m, {q}, now)
  BY DEF CancelContinuation
<1> HIDE DEF m, q
<1>3. CASE mgr' = m
  BY <1>1, <1>3, CarryCall
<1>4. CASE mgr' = CleanupResults(m, {q}, now)
  <2>1. Cleans(m, mgr', {q}) /\ Drops(m, mgr', {q})
    BY <1>1, <1>4, CleanupResultsCleans
  <2>2. Tidy(mgr') /\ Owned(mgr', Waiting) /\ KindsKept(m, mgr')
    BY <1>1, <2>1, CleansStreams
  <2> QED BY <1>1, <2>2, KindsTwice, CarryCall
<1> QED BY <1>2, <1>3, <1>4

\* The build worker.
LEMMA WorkerStreams ==
    ASSUME BuildInvariant, StreamInvariant, NEW r \in Recs,
           WorkerPublish(r) \/ WorkerReturns(r) \/ WorkerThrows(r)
    PROVE  StreamInvariant'
<1>1. /\ MgrOK(mgr) /\ mgr \in Manager /\ now \in Nat
      /\ Tidy(mgr) /\ Owned(mgr, Waiting) /\ r \in mgr.unsettled
      /\ pc' = pc /\ target' = target
  BY Begin DEF WorkerPublish, WorkerReturns, WorkerThrows, StreamInvariant, MgrOK
<1>2. \/ \E I \in SUBSET Items : mgr' = PublishEvent(mgr, r, "progress", I)
      \/ \E k \in Failures : mgr' = SettleFailed(mgr, r, k, now)
      \/ \E I \in SUBSET Items :
            mgr' = [Settle(PublishEvent(mgr, r, "success", I), r, "success") EXCEPT
                       !.expires[r] = now + Ttl]
  BY DEF WorkerPublish, WorkerReturns, WorkerThrows, Failures
<1>3. Tidy(mgr') /\ Owned(mgr', Waiting)
  BY <1>1, <1>2, PublishEventTidy, SettleFailedTidy, SettleSuccessTidy
<1>4. mgr'.stream = mgr.stream
  BY <1>1, <1>2 DEF PublishEvent, SettleFailed, FailCursors, Settle, Manager
<1>5. mgr'.resultDirs \subseteq mgr.resultDirs
  <2>1. ASSUME NEW k \in Failures
        PROVE  SettleFailed(mgr, r, k, now).resultDirs \subseteq mgr.resultDirs
    BY <1>1 DEF SettleFailed, FailCursors, Settle, Manager
  <2>2. ASSUME NEW o, NEW I \in SUBSET Items
        PROVE  PublishEvent(mgr, r, o, I).resultDirs = mgr.resultDirs
    BY <1>1 DEF PublishEvent, Manager
  <2>3. ASSUME NEW I \in SUBSET Items
        PROVE  [Settle(PublishEvent(mgr, r, "success", I), r, "success") EXCEPT
                   !.expires[r] = now + Ttl].resultDirs = mgr.resultDirs
    BY <1>1 DEF PublishEvent, Settle, Manager
  <2> QED BY <1>2, <2>1, <2>2, <2>3, Zenon
<1>6. KindsKept(mgr, mgr')
  BY <1>4, <1>5 DEF KindsKept
<1> QED BY <1>1, <1>3, <1>6, CarryCall

\* Shutdown.
LEMMA ShutdownStreams ==
    ASSUME BuildInvariant, StreamInvariant, Dispose \/ DisposeDone
    PROVE  StreamInvariant'
<1>1. /\ MgrOK(mgr) /\ mgr \in Manager /\ Tidy(mgr)
      /\ pc' = pc /\ target' = target
  BY Begin DEF Dispose, DisposeDone, StreamInvariant, MgrOK
<1>2. CASE Dispose
  <2>1. /\ mgr'.phase = "disposing" /\ mgr'.terminal = mgr.terminal
        /\ mgr'.log = mgr.log /\ mgr'.waiters = mgr.waiters
        /\ mgr'.cursors = mgr.cursors /\ mgr'.expired = mgr.expired
        /\ mgr'.failures = mgr.failures /\ mgr'.stream = mgr.stream
        /\ mgr'.resultDirs = mgr.resultDirs /\ mgr.phase = "open"
    BY <1>1, <1>2 DEF Dispose, Manager
  <2>2. Tidy(mgr') /\ Owned(mgr', Waiting) /\ KindsKept(mgr, mgr')
    BY <1>1, <2>1
    DEF Tidy, CursorsOK, ResultDirsOK, ParkedOK, GoneOK, Owned, KindsKept, HasCursor
  <2> QED BY <1>1, <2>2, CarryCall
<1>3. CASE DisposeDone
  <2>1. /\ mgr'.phase = "disposed" /\ mgr'.terminal = mgr.terminal
        /\ mgr'.log = mgr.log /\ mgr'.waiters = mgr.waiters
        /\ mgr'.cursors = {} /\ mgr'.expired = {} /\ mgr'.failures = {}
        /\ mgr'.stream = mgr.stream /\ mgr'.resultDirs = {} /\ mgr'.cached = {}
        /\ mgr'.unsettled = {} /\ mgr.unsettled = {}
    BY <1>1, <1>3 DEF DisposeDone, Manager
  <2>2. \A q \in Requests :
           mgr.stream[q].reading => mgr.terminal[mgr.stream[q].rec] \in Failures
    <3> SUFFICES ASSUME NEW q \in Requests, mgr.stream[q].reading,
                        mgr.terminal[mgr.stream[q].rec] \notin Failures
                 PROVE  FALSE
      OBVIOUS
    <3> DEFINE r == mgr.stream[q].rec
    <3>1. q \in mgr.waiters[r]
      BY <1>3 DEF DisposeDone, GoesOn
    <3>2. /\ r \in Recs /\ mgr.log[r] \in Seq(Event)
          /\ mgr.stream[q].seen \in 1 .. Len(mgr.log[r])
      BY <1>1 DEF MgrOK, Manager, StreamsOK
    <3>3. mgr.terminal[r] \in {"pending", "unused"}
      BY <1>1, <3>1, <3>2 DEF Tidy, ParkedOK
    <3>4. mgr.terminal[r] # "pending"
      BY <1>1, <2>1, <3>2 DEF MgrOK, BuildsOK, Pending
    <3>5. mgr.log[r] = <<>>
      BY <1>1, <3>2, <3>3, <3>4 DEF Tidy, ParkedOK
    <3> QED BY <3>2, <3>5
  <2>3. Tidy(mgr') /\ Owned(mgr', Waiting) /\ KindsKept(mgr, mgr')
    BY <1>1, <2>1, <2>2
    DEF Tidy, CursorsOK, ResultDirsOK, ParkedOK, GoneOK, Owned, KindsKept
  <2> QED BY <1>1, <2>3, CarryCall
<1> QED BY <1>2, <1>3

-----------------------------------------------------------------------------
LEMMA InitStreams == Init => StreamInvariant
<1> SUFFICES ASSUME Init PROVE StreamInvariant
  OBVIOUS
<1>1. /\ mgr.phase = "open" /\ mgr.cursors = {} /\ mgr.expired = {} /\ mgr.failures = {}
      /\ mgr.resultDirs = {}
      /\ \A q \in Requests : /\ mgr.stream[q].kind = "none" /\ mgr.stream[q].page = 0
                             /\ ~mgr.stream[q].reading /\ pc[q] = "idle"
      /\ \A r \in Recs : /\ mgr.consumers[r] = {} /\ mgr.waiters[r] = {}
                         /\ mgr.log[r] = <<>>
  BY DEF Init, NoStream
<1>2. Tidy(mgr)
  BY <1>1 DEF Tidy, CursorsOK, ResultDirsOK, ParkedOK, GoneOK, HasCursor
<1>3. \A r \in Recs : Leases(mgr, r) = {} /\ Waiting[r] = {}
  BY <1>1 DEF Leases, Waiting, Holding
<1>4. Owned(mgr, Waiting)
  BY <1>1, <1>3 DEF Owned
<1> QED BY <1>1, <1>2, <1>4 DEF StreamInvariant, FreshOK

LEMMA NextStreams == BuildInvariant /\ StreamInvariant /\ [Next]_vars => StreamInvariant'
<1> SUFFICES ASSUME BuildInvariant, StreamInvariant, [Next]_vars PROVE StreamInvariant'
  OBVIOUS
<1>1. CASE mgr' = mgr /\ pc' = pc /\ target' = target
  <2>1. KindsKept(mgr, mgr') /\ Tidy(mgr') /\ Owned(mgr', Waiting)
    BY <1>1 DEF StreamInvariant, KindsKept
  <2> QED BY <1>1, <2>1, CarryCall
<1>2. CASE NewRequest
  BY <1>2, AcquireStreams, WaitingStreams, PublishStaticStreams, PublishLiveStreams,
     StoreThrowsStreams DEF NewRequest
<1>3. CASE CursorCall
  <2>1. Issued \subseteq Cursor
    <3>1. Cardinality(Items) \in Nat
      BY ItemsAssumption, FS_CardinalityType
    <3> QED BY <3>1 DEF Issued, Cursor
  <2> QED BY <1>3, <2>1, ReadContinuationStreams, CancelContinuationStreams,
             LiveReadTurnStreams, ReadThrowsStreams DEF CursorCall
<1>4. CASE Worker
  BY <1>4, WorkerStreams DEF Worker
<1>5. CASE Dispose \/ DisposeDone
  BY <1>5, ShutdownStreams
<1> QED BY <1>1, <1>2, <1>3, <1>4, <1>5
        DEF Next, Environment, ClockTick, EditSources, vars

LEMMA StreamsInvariance == Spec => [](BuildInvariant /\ StreamInvariant)
<1>1. Init => BuildInvariant /\ StreamInvariant
  BY InitOK, InitStreams
<1>2. BuildInvariant /\ StreamInvariant /\ [Next]_vars => (BuildInvariant /\ StreamInvariant)'
  BY NextOK, NextStreams
<1> QED BY <1>1, <1>2, PTL DEF Spec

\* A stream has at most one live cursor, none while it is read, and a cursor that went
\* out of use stays dead.
THEOREM CursorsUsedOnce == Spec => []OneCursor
<1>1. BuildInvariant /\ StreamInvariant => OneCursor
  <2> SUFFICES ASSUME BuildInvariant, StreamInvariant PROVE OneCursor
    OBVIOUS
  <2>1. mgr.cursors \subseteq Requests \X Nat
    BY DEF BuildInvariant, TypeOK, Manager, Cursor
  <2>2. \A c \in mgr.cursors : c[2] = mgr.stream[c[1]].page /\ ~mgr.stream[c[1]].reading
    BY DEF StreamInvariant, Tidy, CursorsOK
  <2>3. \A c, d \in mgr.cursors : d[1] = c[1] => d = c
    BY <2>1, <2>2
  <2>4. \A g \in mgr.expired \cup mgr.failures : g[1] \notin mgr.cursors
    BY DEF StreamInvariant, Tidy, CursorsOK
  <2> QED BY <2>2, <2>3, <2>4 DEF OneCursor
<1> QED BY <1>1, StreamsInvariance, PTL

\* Every directory on disk belongs to a cached build or to a stream that goes on.
THEOREM NothingLeaks == Spec => []NoTempLeak
<1>1. BuildInvariant /\ StreamInvariant => NoTempLeak
  <2> SUFFICES ASSUME BuildInvariant, StreamInvariant PROVE NoTempLeak
    OBVIOUS
  <2>1. mgr.buildDirs \subseteq mgr.cached
    BY DEF BuildInvariant, BuildsOK
  <2>2. ASSUME mgr.phase # "disposed", NEW q \in Requests
        PROVE  IF q \in mgr.resultDirs
               THEN HasCursor(mgr, q) \/ mgr.stream[q].reading \/ pc[q] \in {"unstored", "leaked"}
               ELSE ~HasCursor(mgr, q) /\ ~mgr.stream[q].reading
    <3>1. CASE mgr.stream[q].kind = "none"
      <4>1. ~HasCursor(mgr, q) /\ ~mgr.stream[q].reading
        BY <3>1 DEF BuildInvariant, StreamsOK
      <4>2. q \in mgr.resultDirs => pc[q] \in {"unstored", "leaked"}
        BY <3>1 DEF StreamInvariant, FreshOK
      <4> QED BY <4>1, <4>2
    <3>2. CASE mgr.stream[q].kind # "none"
      BY <2>2, <3>2 DEF StreamInvariant, Tidy, ResultDirsOK
    <3> QED BY <3>1, <3>2
  <2> QED BY <2>1, <2>2 DEF NoTempLeak
<1> QED BY <1>1, StreamsInvariance, PTL

\* When shutdown is complete no worker runs, and no directory or cursor is left, also
\* by a read that is answered after it.
THEOREM ShutdownIsClean == Spec => []DisposeClean
<1>1. BuildInvariant /\ StreamInvariant => DisposeClean
  BY DEF BuildInvariant, BuildsOK, StreamInvariant, Tidy, GoneOK, DisposeClean
<1> QED BY <1>1, StreamsInvariance, PTL

\* Until shutdown the reference count of a build is exactly the requests that wait for
\* it, the streams that are open on it, and the leases of requests that were answered by
\* an exception between the lease and the stream: there is no other leak.
THEOREM CountsAreExact == Spec => []ConsumersOwned
<1>1. BuildInvariant /\ StreamInvariant => ConsumersOwned
  <2> SUFFICES ASSUME BuildInvariant, StreamInvariant, mgr.phase = "open", NEW r \in Recs
               PROVE  mgr.consumers[r] = Owners(r) \cup Leaked(r)
    BY DEF ConsumersOwned
  <2>1. mgr.consumers[r] = Waiting[r] \cup Leases(mgr, r)
    BY DEF StreamInvariant, Owned
  <2>2. Owners(r) \cup Leaked(r) = Waiting[r] \cup Leases(mgr, r)
    BY DEF Owners, Leaked, Waiting, Holding, Leases, LeasedBy
  <2> QED BY <2>1, <2>2
<1> QED BY <1>1, StreamsInvariance, PTL
=============================================================================
