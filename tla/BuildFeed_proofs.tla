-------------------------- MODULE BuildFeed_proofs --------------------------
(* Proofs about what the live streams of BuildSession deliver, about what   *)
(* a step may do to an abort signal and to a cursor, that every request is  *)
(* answered and no wake-up is lost, and that paging a result implements     *)
(* PagedFeed.                                                               *)
EXTENDS BuildStreams_proofs

(***************************************************************************)
(* The invariant of what was delivered.                                    *)
(***************************************************************************)

\* A successful outcome is the last event of a build, and its terminal outcome.
LogOK(m) ==
    \A r \in Recs : \A i \in 1 .. Len(m.log[r]) :
        m.log[r][i].outcome = "success" => i = Len(m.log[r]) /\ m.terminal[r] = "success"

\* A live stream has delivered what the events before its own carried, and nothing that
\* no event up to its own carried.
Delivers(m, q) ==
    LET s == m.stream[q]
        L == m.log[s.rec]
    IN s.kind = "live" =>
           /\ \A i \in 1 .. s.seen - 1 : L[i].items \subseteq s.delivered
           /\ \A x \in s.delivered : \E i \in 1 .. s.seen : x \in L[i].items

\* A stream ends for good, and a live one on the last event of its build.
Fed(m, q) ==
    LET s == m.stream[q]
        L == m.log[s.rec]
    IN /\ Delivers(m, q)
       /\ s.ended => ~s.reading /\ ~HasCursor(m, q)
       /\ s.kind = "live" /\ s.ended => /\ L[s.seen].outcome = "success"
                                        /\ L[s.seen].items \subseteq s.delivered

\* A read goes on from an event only when it has delivered all of it.
Emptied(m, q) ==
    LET s == m.stream[q]
        L == m.log[s.rec]
    IN s.kind = "live" /\ s.reading =>
           L[s.seen].items \subseteq s.delivered /\ L[s.seen].outcome # "success"

FeedOK(m) == LogOK(m) /\ \A q \in Requests : Fed(m, q) /\ Emptied(m, q)

(***************************************************************************)
(* Steps that deliver nothing.                                             *)
(***************************************************************************)

\* Events are only appended.
Grows(m, n) ==
    \A r \in Recs :
        /\ Len(m.log[r]) <= Len(n.log[r])
        /\ \A i \in 1 .. Len(m.log[r]) : n.log[r][i] = m.log[r][i]

\* Stream q delivers nothing, and gets neither a read nor a cursor.
Rests(m, n, q) ==
    /\ n.stream[q].kind = m.stream[q].kind /\ n.stream[q].rec = m.stream[q].rec
    /\ n.stream[q].seen = m.stream[q].seen
    /\ n.stream[q].delivered = m.stream[q].delivered
    /\ n.stream[q].ended = m.stream[q].ended
    /\ n.stream[q].reading => m.stream[q].reading
    /\ HasCursor(n, q) => HasCursor(m, q)

\* A live stream is at an event of its build.
LiveOK(m) ==
    \A q \in Requests : m.stream[q].kind = "live" =>
        m.stream[q].rec \in Recs /\ m.stream[q].seen \in 1 .. Len(m.log[m.stream[q].rec])

LEMMA RestsFed ==
    ASSUME NEW m, m \in Manager, LiveOK(m), NEW n, Grows(m, n), NEW q \in Requests,
           Rests(m, n, q), Fed(m, q)
    PROVE  Fed(n, q) /\ (Emptied(m, q) => Emptied(n, q))
<1>0. n.stream[q].ended => ~n.stream[q].reading /\ ~HasCursor(n, q)
  BY DEF Fed, Rests
<1> SUFFICES ASSUME n.stream[q].kind = "live"
             PROVE  Fed(n, q) /\ (Emptied(m, q) => Emptied(n, q))
  BY <1>0 DEF Fed, Delivers, Emptied
<1> DEFINE r == m.stream[q].rec
           v == m.stream[q].seen
           d == m.stream[q].delivered
           l == Len(m.log[r])
<1>1. /\ m.stream[q].kind = "live" /\ n.stream[q].rec = r /\ n.stream[q].seen = v
      /\ n.stream[q].delivered = d /\ n.stream[q].ended = m.stream[q].ended
  BY DEF Rests
<1>2. r \in Recs /\ v \in 1 .. l
  BY <1>1 DEF LiveOK
<1>3. m.log[r] \in Seq(Event)
  BY <1>2 DEF Manager
<1>4. l \in Nat
  BY <1>3
<1>5. \A i \in 1 .. l : n.log[r][i] = m.log[r][i]
  BY <1>2 DEF Grows
<1>6. v \in Nat /\ \A i \in 1 .. v - 1 : i \in 1 .. l
  <2> HIDE DEF r, v, l
  <2> QED BY <1>2, <1>4
<1>7. \A i \in 1 .. v : i \in 1 .. l
  <2> HIDE DEF r, v, l
  <2> QED BY <1>2, <1>4
<1>8. n.log[r][v] = m.log[r][v]
  BY <1>2, <1>5
<1>9. /\ \A i \in 1 .. v - 1 : m.log[r][i].items \subseteq d
      /\ \A x \in d : \E i \in 1 .. v : x \in m.log[r][i].items
      /\ m.stream[q].ended => /\ m.log[r][v].outcome = "success"
                              /\ m.log[r][v].items \subseteq d
  BY <1>1 DEF Fed, Delivers
<1>10. /\ \A i \in 1 .. v - 1 : n.log[r][i].items \subseteq d
       /\ \A x \in d : \E i \in 1 .. v : x \in n.log[r][i].items
       /\ m.stream[q].ended => /\ n.log[r][v].outcome = "success"
                               /\ n.log[r][v].items \subseteq d
  <2> HIDE DEF r, v, d, l
  <2> QED BY <1>5, <1>6, <1>7, <1>8, <1>9
<1>11. Fed(n, q)
  BY <1>0, <1>1, <1>10 DEF Fed, Delivers
<1>12. ASSUME Emptied(m, q) PROVE Emptied(n, q)
  BY <1>1, <1>8, <1>12 DEF Emptied, Rests
<1> QED BY <1>11, <1>12

\* The logs are the same, and success stays.
SameLogs(m, n) ==
    n.log = m.log /\ \A r \in Recs : m.terminal[r] = "success" => n.terminal[r] = "success"

LEMMA SameLogsOK ==
    ASSUME NEW m, m \in Manager, NEW n, SameLogs(m, n), LogOK(m)
    PROVE  LogOK(n) /\ Grows(m, n)
<1>1. LogOK(n)
  BY DEF SameLogs, LogOK
<1>2. \A r \in Recs : Len(m.log[r]) \in Nat
  BY DEF Manager
<1> QED BY <1>1, <1>2 DEF SameLogs, Grows

\* One stream changes, and the others rest.
LEMMA OthersFeed ==
    ASSUME NEW m, m \in Manager, LiveOK(m), LogOK(m), NEW n, SameLogs(m, n),
           NEW q \in Requests, Fed(n, q), Emptied(n, q),
           \A p \in Requests \ {q} : Fed(m, p) /\ Emptied(m, p) /\ Rests(m, n, p)
    PROVE  FeedOK(n)
<1>1. LogOK(n) /\ Grows(m, n)
  BY SameLogsOK
<1>2. \A p \in Requests \ {q} : Fed(n, p) /\ Emptied(n, p)
  BY <1>1, RestsFed
<1> QED BY <1>1, <1>2 DEF FeedOK

LEMMA RestsFeed ==
    ASSUME NEW m, MgrOK(m), FeedOK(m), NEW n, SameLogs(m, n),
           \A q \in Requests : Rests(m, n, q)
    PROVE  FeedOK(n)
<1>1. LogOK(n) /\ Grows(m, n)
  BY SameLogsOK DEF MgrOK, FeedOK
<1>2. LiveOK(m)
  BY DEF MgrOK, StreamsOK, LiveOK
<1> QED BY <1>1, <1>2, RestsFed DEF MgrOK, FeedOK

LEMMA CleansFeed ==
    ASSUME NEW m, MgrOK(m), FeedOK(m), NEW n, NEW S, Cleans(m, n, S)
    PROVE  FeedOK(n)
<1>1. SameLogs(m, n)
  BY DEF SameLogs, Cleans, Ends
<1>2. \A q \in Requests : Rests(m, n, q)
  BY DEF Rests, Cleans, Ends, HasCursor
<1> QED BY <1>1, <1>2, RestsFeed

\* No stream changes, and no cursor is new.
LEMMA SameFeed ==
    ASSUME NEW m, MgrOK(m), FeedOK(m), NEW n, SameLogs(m, n), n.stream = m.stream,
           n.cursors \subseteq m.cursors
    PROVE  FeedOK(n)
<1>1. \A q \in Requests : Rests(m, n, q)
  BY DEF Rests, HasCursor
<1> QED BY <1>1, RestsFeed

LEMMA BeginFeed ==
    ASSUME BuildInvariant, FeedOK(mgr)
    PROVE  LET m == CleanupExpired(mgr, now) IN
           /\ MgrOK(m) /\ m \in Manager /\ FeedOK(m)
           /\ m.log = mgr.log /\ m.terminal = mgr.terminal /\ now \in Nat
<1> DEFINE m == CleanupExpired(mgr, now)
<1>1. MgrOK(mgr) /\ now \in Nat /\ MgrOK(m)
  BY Begin
<1>2. PICK S \in SUBSET Requests : Cleans(mgr, m, S)
  BY <1>1, CleanupExpiredCleans
<1> HIDE DEF m
<1>3. FeedOK(m) /\ m.log = mgr.log /\ m.terminal = mgr.terminal
  <2>1. FeedOK(m)
    BY <1>1, <1>2, CleansFeed
  <2> QED BY <1>2, <2>1 DEF Cleans, Ends
<1> QED BY <1>1, <1>3 DEF m, MgrOK

-----------------------------------------------------------------------------
(* Steps that publish, and steps that deliver.                             *)

\* An event is appended to the log of r, which succeeds when the event says so.
Appends(m, n, r, o, I) ==
    /\ n.log = [m.log EXCEPT ![r] = Append(@, [outcome |-> o, items |-> I])]
    /\ n.stream = m.stream /\ n.cursors = m.cursors
    /\ o = "success" => n.terminal[r] = "success"
    /\ \A k \in Recs \ {r} : n.terminal[k] = m.terminal[k]

LEMMA AppendFeed ==
    ASSUME NEW m, MgrOK(m), FeedOK(m), NEW r \in m.unsettled, NEW o, NEW I, NEW n,
           Appends(m, n, r, o, I)
    PROVE  FeedOK(n)
<1> USE DEF Appends
<1> DEFINE l == Len(m.log[r])
           e == [outcome |-> o, items |-> I]
<1>1. /\ r \in Recs /\ m \in Manager /\ m.terminal[r] = "pending"
      /\ m.log \in [Recs -> Seq(Event)]
  BY DEF MgrOK, Manager, BuildsOK, Pending
<1>2. /\ n.log[r] = Append(m.log[r], e) /\ m.log[r] \in Seq(Event)
      /\ \A k \in Recs \ {r} : n.log[k] = m.log[k]
  BY <1>1
<1>3. e.outcome = o
  OBVIOUS
<1> HIDE DEF e
<1>4. /\ l \in Nat /\ Len(n.log[r]) = l + 1 /\ n.log[r][l + 1] = e
      /\ \A i \in 1 .. l : n.log[r][i] = m.log[r][i]
  BY <1>2
<1>5. Grows(m, n)
  <2>1. \A k \in Recs : Len(m.log[k]) \in Nat
    BY <1>1
  <2> QED BY <1>2, <1>4, <2>1 DEF Grows
<1>6. LogOK(n)
  <2> SUFFICES ASSUME NEW k \in Recs, NEW i \in 1 .. Len(n.log[k]),
                      n.log[k][i].outcome = "success"
               PROVE  i = Len(n.log[k]) /\ n.terminal[k] = "success"
    BY DEF LogOK
  <2>1. CASE k # r
    BY <1>2, <2>1 DEF FeedOK, LogOK
  <2>2. CASE k = r
    <3>1. i \in 1 .. l \/ i = l + 1
      <4> HIDE DEF l
      <4> QED BY <1>4, <2>2
    <3>2. CASE i \in 1 .. l
      <4>1. m.log[r][i].outcome = "success"
        BY <1>4, <2>2, <3>2
      <4> QED BY <1>1, <3>2, <4>1 DEF FeedOK, LogOK
    <3>3. CASE i = l + 1
      BY <1>3, <1>4, <2>2, <3>3
    <3> QED BY <3>1, <3>2, <3>3
  <2> QED BY <2>1, <2>2
<1>7. \A q \in Requests : Rests(m, n, q)
  BY DEF Rests, HasCursor
<1>8. LiveOK(m)
  BY DEF MgrOK, StreamsOK, LiveOK
<1> QED BY <1>5, <1>6, <1>7, <1>8, RestsFed DEF MgrOK, FeedOK

\* A client sees the same of stream p ...
Alike(m, n, p) ==
    /\ n.stream[p].kind = m.stream[p].kind /\ n.stream[p].rec = m.stream[p].rec
    /\ n.stream[p].stored = m.stream[p].stored
    /\ n.stream[p].delivered = m.stream[p].delivered
    /\ n.stream[p].page = m.stream[p].page
    /\ n.stream[p].ended = m.stream[p].ended
    /\ n.stream[p].reading <=> m.stream[p].reading
    /\ HasCursor(n, p) <=> HasCursor(m, p)

\* ... which is at the event it was at.
Unmoved(m, n, p) == n.stream[p].seen = m.stream[p].seen /\ Alike(m, n, p)

LEMMA FeedAlike ==
    ASSUME NEW m, NEW n, NEW q, n.log = m.log, Alike(m, n, q)
    PROVE  FeedOf(n, q) = FeedOf(m, q)
<1> DEFINE O(L, r) == UNION {L[r][i].items : i \in 1 .. Len(L[r])}
           F(k, o, s, h) == [place |-> IF k = "none" THEN "none"
                                       ELSE IF s.reading THEN "reading"
                                       ELSE IF h THEN "ready"
                                       ELSE IF s.ended THEN "complete" ELSE "dropped",
                             offered |-> IF k = "live" THEN o ELSE s.stored,
                             given |-> s.delivered, page |-> s.page]
<1>1. \A k, s, x :
         FeedOf(x, q) = F(x.stream[q].kind, O(x.log, x.stream[q].rec), x.stream[q], HasCursor(x, q))
  BY DEF FeedOf
<1>2. ASSUME NEW k, NEW o, NEW s, NEW u, NEW h, NEW g, s.stored = u.stored,
             s.delivered = u.delivered, s.page = u.page, s.ended = u.ended,
             s.reading <=> u.reading, h <=> g
      PROVE  F(k, o, s, h) = F(k, o, u, g)
  BY <1>2
<1> HIDE DEF O, F
<1>3. O(n.log, n.stream[q].rec) = O(m.log, m.stream[q].rec)
  BY DEF Alike
<1> QED BY <1>1, <1>2, <1>3 DEF Alike

\* There is more to come after page P.
More(m, q, P) ==
    \/ Available(m, q) # P
    \/ m.stream[q].kind = "live" /\ m.log[m.stream[q].rec][m.stream[q].seen].outcome # "success"

\* From m to n stream q delivers P.
Serves(m, n, q, P) ==
    /\ P \in SUBSET Items /\ n.log = m.log /\ n.terminal = m.terminal
    /\ n.stream[q].kind = m.stream[q].kind /\ n.stream[q].rec = m.stream[q].rec
    /\ n.stream[q].seen = m.stream[q].seen /\ n.stream[q].stored = m.stream[q].stored
    /\ n.stream[q].delivered = m.stream[q].delivered \cup P
    /\ ~n.stream[q].reading
    /\ More(m, q, P) => /\ n.stream[q].ended = FALSE /\ HasCursor(n, q)
                        /\ n.stream[q].page = m.stream[q].page + 1
    /\ ~More(m, q, P) => /\ n.stream[q].ended = TRUE /\ ~HasCursor(n, q)
                         /\ n.stream[q].page = m.stream[q].page
    /\ \A p \in Requests \ {q} : Unmoved(m, n, p)

\* A page that is served goes to the client with the next cursor, or ends the stream.
LEMMA ServeShape ==
    ASSUME NEW m, m \in Manager, LiveOK(m), NEW q \in Requests, m.stream[q].kind # "none",
           NEW P \in Page(Available(m, q)), NEW t \in Nat
    PROVE  Serves(m, Serve(m, q, P, t), q, P)
<1> DEFINE s == m.stream[q]
           more == More(m, q, P)
           s3 == [s EXCEPT !.delivered = @ \cup P, !.reading = FALSE, !.ended = ~more]
           s2 == [s3 EXCEPT !.page = @ + 1, !.expires = t + Ttl]
           n == Serve(m, q, P, t)
           d == s.delivered \cup P
<1>1. /\ P \in SUBSET Items /\ s \in Stream
      /\ s.kind = "live" => s.rec \in Recs /\ s.seen \in 1 .. Len(m.log[s.rec])
  <2>1. s \in Stream
    BY DEF Manager
  <2>2. s.kind = "live" => s.rec \in Recs /\ s.seen \in 1 .. Len(m.log[s.rec])
    BY DEF LiveOK
  <2>3. P \in SUBSET Items
    BY <2>2, AvailableOK
  <2> QED BY <2>1, <2>2, <2>3
<1>2. /\ s3 \in Stream
      /\ s3.kind = s.kind /\ s3.rec = s.rec /\ s3.seen = s.seen /\ s3.delivered = d
      /\ s3.reading = FALSE /\ s3.ended = ~more
      /\ s3.stored = s.stored /\ s3.page = s.page
      /\ s2.kind = s.kind /\ s2.rec = s.rec /\ s2.seen = s.seen /\ s2.delivered = d
      /\ s2.reading = FALSE /\ s2.ended = ~more
      /\ s2.stored = s.stored /\ s2.page = s.page + 1
  <2> DEFINE e == ~more
  <2>1. d \in SUBSET Items /\ e \in BOOLEAN
    BY <1>1 DEF Stream
  <2>2. s3 = [s EXCEPT !.delivered = d, !.reading = FALSE, !.ended = e]
    OBVIOUS
  <2> HIDE DEF d, e, s, s3
  <2>3. /\ s3 \in Stream /\ s3.kind = s.kind /\ s3.rec = s.rec /\ s3.seen = s.seen
        /\ s3.delivered = d /\ s3.reading = FALSE /\ s3.ended = e
        /\ s3.stored = s.stored /\ s3.page = s.page
    BY <1>1, <2>1, <2>2 DEF Stream
  <2>4. ASSUME NEW x \in Stream
        PROVE  LET y == [x EXCEPT !.page = @ + 1, !.expires = t + Ttl] IN
               /\ y.kind = x.kind /\ y.rec = x.rec /\ y.seen = x.seen
               /\ y.delivered = x.delivered /\ y.reading = x.reading
               /\ y.ended = x.ended /\ y.stored = x.stored /\ y.page = x.page + 1
    BY DEF Stream
  <2> QED BY <2>3, <2>4 DEF e
<1>3. CASE more
  <2> DEFINE next == <<q, s.page + 1>>
  <2> HIDE DEF s2, s3, d
  <2>1. n = [m EXCEPT !.stream[q] = s2, !.cursors = @ \cup {next}]
    BY <1>3 DEF Serve, More, s2, s3
  <2>2. /\ n.log = m.log /\ n.terminal = m.terminal /\ n.cursors = m.cursors \cup {next}
        /\ n.stream[q] = s2 /\ \A p \in Requests \ {q} : n.stream[p] = m.stream[p]
    BY <2>1 DEF Manager
  <2>3. HasCursor(n, q) /\ \A p \in Requests \ {q} : HasCursor(n, p) <=> HasCursor(m, p)
    <3>1. next[1] = q
      OBVIOUS
    <3> HIDE DEF next
    <3> QED BY <2>2, <3>1 DEF HasCursor
  <2> HIDE DEF n
  <2>4. \A p \in Requests \ {q} : Unmoved(m, n, p)
    BY <2>2, <2>3 DEF Unmoved, Alike
  <2> HIDE DEF more, s
  <2>5. /\ n.stream[q].kind = s.kind /\ n.stream[q].rec = s.rec
        /\ n.stream[q].seen = s.seen /\ n.stream[q].stored = s.stored
        /\ n.stream[q].delivered = d /\ ~n.stream[q].reading
        /\ n.stream[q].ended = FALSE /\ n.stream[q].page = s.page + 1
    BY <1>2, <1>3, <2>2
  <2> QED BY <1>1, <1>3, <2>2, <2>3, <2>4, <2>5 DEF Serves, more, s, d, n
<1>4. CASE ~more
  <2> DEFINE f == [m EXCEPT !.stream[q] = s3]
  <2>1. n = CleanupResults(f, {q}, t)
    BY <1>4 DEF Serve, Finish, More
  <2> HIDE DEF n, s3, d
  <2>2. /\ f.log = m.log /\ f.terminal = m.terminal /\ f.cursors = m.cursors
        /\ f.stream[q] = s3 /\ \A p \in Requests \ {q} : f.stream[p] = m.stream[p]
    BY DEF Manager
  <2>3. f \in Manager
    <3> DEFINE st == [m.stream EXCEPT ![q] = s3]
    <3>1. st \in [Requests -> Stream]
      BY <1>2 DEF Manager
    <3>2. f = [m EXCEPT !.stream = st]
      BY DEF Manager
    <3> HIDE DEF st, f
    <3> QED BY <3>1, <3>2 DEF Manager
  <2> HIDE DEF f
  <2>4. Cleans(f, n, {q})
    BY <2>1, <2>3, CleanupResultsCleans
  <2>5. /\ n.log = m.log /\ n.terminal = m.terminal
        /\ n.cursors = {c \in m.cursors : c[1] # q}
        /\ n.stream[q].kind = s3.kind /\ n.stream[q].rec = s3.rec
        /\ n.stream[q].seen = s3.seen /\ n.stream[q].stored = s3.stored
        /\ n.stream[q].delivered = s3.delivered /\ n.stream[q].page = s3.page
        /\ n.stream[q].ended = s3.ended /\ ~n.stream[q].reading
    BY <2>2, <2>4 DEF Cleans, Ends
  <2>8. ~HasCursor(n, q)
    BY <2>5 DEF HasCursor
  <2>9. \A p \in Requests \ {q} : Unmoved(m, n, p)
    <3> SUFFICES ASSUME NEW p \in Requests \ {q} PROVE Unmoved(m, n, p)
      OBVIOUS
    <3>1. n.stream[p].reading <=> m.stream[p].reading
      BY <2>2, <2>4 DEF Cleans, Ends
    <3>2. HasCursor(n, p) <=> HasCursor(m, p)
      BY <2>5 DEF HasCursor
    <3> QED BY <2>2, <2>4, <3>1, <3>2 DEF Cleans, Ends, Unmoved, Alike
  <2> HIDE DEF more, s
  <2>10. s3.ended = TRUE
    BY <1>2, <1>4
  <2> QED BY <1>1, <1>2, <1>4, <2>5, <2>8, <2>9, <2>10 DEF Serves, more, s, d, n
<1> HIDE DEF more
<1> QED BY <1>3, <1>4 DEF more

\* A page that is served is part of the event the stream is at, and the last one of a
\* live stream is the rest of it.
LEMMA ServeFeed ==
    ASSUME NEW m, m \in Manager, LiveOK(m), LogOK(m), NEW q \in Requests,
           m.stream[q].kind # "none", Delivers(m, q),
           \A p \in Requests \ {q} : Fed(m, p) /\ Emptied(m, p),
           NEW P \in Page(Available(m, q)), NEW t \in Nat
    PROVE  FeedOK(Serve(m, q, P, t))
<1> DEFINE s == m.stream[q]
           more == More(m, q, P)
           n == Serve(m, q, P, t)
           d == s.delivered \cup P
<1>1. s.kind = "live" => s.rec \in Recs /\ s.seen \in 1 .. Len(m.log[s.rec])
  BY DEF LiveOK
<1>3. /\ n.stream[q].kind = s.kind /\ n.stream[q].rec = s.rec
      /\ n.stream[q].seen = s.seen /\ n.stream[q].delivered = d
      /\ ~n.stream[q].reading /\ n.log = m.log /\ n.terminal = m.terminal
      /\ n.stream[q].ended => ~more /\ ~HasCursor(n, q)
      /\ \A p \in Requests \ {q} : Rests(m, n, p)
  <2>1. Serves(m, n, q, P)
    BY ServeShape
  <2> HIDE DEF n
  <2> QED BY <2>1 DEF Serves, Unmoved, Alike, Rests
<1> HIDE DEF n
<1>4. ASSUME s.kind = "live"
      PROVE  /\ \A i \in 1 .. s.seen - 1 : m.log[s.rec][i].items \subseteq d
             /\ \A x \in d : \E i \in 1 .. s.seen : x \in m.log[s.rec][i].items
             /\ ~more => /\ m.log[s.rec][s.seen].outcome = "success"
                         /\ m.log[s.rec][s.seen].items \subseteq d
  <2> DEFINE L == m.log[s.rec]
             v == s.seen
             g == s.delivered
  <2>1. /\ \A i \in 1 .. v - 1 : L[i].items \subseteq g
        /\ \A x \in g : \E i \in 1 .. v : x \in L[i].items
    BY <1>4 DEF Delivers
  <2>2. Available(m, q) = L[v].items \ g
    BY <1>4 DEF Available
  <2>3. P \subseteq Available(m, q)
    BY DEF Page
  <2>4. v \in 1 .. v
    <3>1. m.log[s.rec] \in Seq(Event)
      BY <1>1, <1>4 DEF Manager
    <3>2. Len(L) \in Nat /\ v \in 1 .. Len(L)
      BY <1>1, <1>4, <3>1
    <3> HIDE DEF v, L
    <3> QED BY <3>2
  <2>5. ~more => P = Available(m, q) /\ L[v].outcome = "success"
    BY <1>4 DEF More
  <2>6. d = g \cup P
    OBVIOUS
  <2> HIDE DEF L, v, g, more, d, s
  <2>7. /\ \A i \in 1 .. v - 1 : L[i].items \subseteq d
        /\ \A x \in d : \E i \in 1 .. v : x \in L[i].items
        /\ ~more => L[v].outcome = "success" /\ L[v].items \subseteq d
    BY <2>1, <2>2, <2>3, <2>4, <2>5, <2>6
  <2> QED BY <2>7 DEF L, v
<1> HIDE DEF more, d
<1>5. Fed(n, q) /\ Emptied(n, q)
  BY <1>3, <1>4 DEF Fed, Delivers, Emptied
<1>6. SameLogs(m, n)
  BY <1>3 DEF SameLogs
<1> QED BY <1>3, <1>5, <1>6, OthersFeed DEF n

\* A stream that is opened, claimed or moved on reads its event ...
Reads(m, n, q) ==
    /\ n \in Manager /\ n.log = m.log /\ n.terminal = m.terminal
    /\ n.cursors \subseteq m.cursors
    /\ \A p \in Requests \ {q} : /\ n.stream[p] = m.stream[p]
                                 /\ HasCursor(n, p) <=> HasCursor(m, p)
    /\ n.stream[q].kind # "none"
    /\ n.stream[q].kind = "live" =>
          /\ ~n.stream[q].ended
          /\ n.stream[q].rec \in Recs
          /\ n.stream[q].seen \in 1 .. Len(n.log[n.stream[q].rec])
    /\ Delivers(n, q)

LEMMA ReadLive ==
    ASSUME NEW m, MgrOK(m), FeedOK(m), NEW q \in Requests, NEW n, Reads(m, n, q)
    PROVE  LiveOK(n) /\ LogOK(n)
<1> USE DEF Reads
<1>1. LiveOK(m) /\ LogOK(n)
  BY DEF MgrOK, StreamsOK, LiveOK, LogOK, FeedOK
<1>2. LiveOK(n)
  <2> SUFFICES ASSUME NEW p \in Requests, n.stream[p].kind = "live"
               PROVE  n.stream[p].rec \in Recs
                      /\ n.stream[p].seen \in 1 .. Len(n.log[n.stream[p].rec])
    BY DEF LiveOK
  <2>1. CASE p = q
    BY <2>1
  <2>2. CASE p # q
    BY <1>1, <2>2 DEF LiveOK
  <2> QED BY <2>1, <2>2
<1> QED BY <1>1, <1>2

\* ... and is served a page of it, or goes on when there is nothing in it.
LEMMA ReadFeed ==
    ASSUME NEW m, MgrOK(m), FeedOK(m), NEW q \in Requests, NEW n, Reads(m, n, q)
    PROVE  /\ \A P \in Page(Available(n, q)), t \in Nat : FeedOK(Serve(n, q, P, t))
           /\ n.stream[q].kind = "live" /\ ~CanServe(n, q) => FeedOK(n)
<1> USE DEF Reads
<1>1. LiveOK(m) /\ m \in Manager /\ SameLogs(m, n) /\ LogOK(n) /\ Grows(m, n)
  BY SameLogsOK DEF MgrOK, StreamsOK, LiveOK, SameLogs, FeedOK
<1>2. \A p \in Requests \ {q} : Rests(m, n, p)
  BY DEF Rests, HasCursor
<1>3. LiveOK(n)
  BY ReadLive
<1>4. \A p \in Requests \ {q} : Fed(n, p) /\ Emptied(n, p)
  BY <1>1, <1>2, RestsFed DEF FeedOK
<1>5. ASSUME n.stream[q].kind = "live", ~CanServe(n, q) PROVE FeedOK(n)
  <2>1. Emptied(n, q)
    <3> DEFINE u == n.stream[q]
               e == n.log[u.rec][u.seen]
    <3>1. e.items \ u.delivered = {} /\ e.outcome # "success"
      BY <1>5 DEF CanServe, Available
    <3>2. e.items \subseteq u.delivered
      BY <3>1
    <3> QED BY <3>1, <3>2 DEF Emptied
  <2>2. Fed(n, q)
    BY <1>5 DEF Fed
  <2> QED BY <1>1, <1>4, <2>1, <2>2 DEF FeedOK
<1>6. ASSUME NEW P \in Page(Available(n, q)), NEW t \in Nat
      PROVE  FeedOK(Serve(n, q, P, t))
  BY <1>1, <1>3, <1>4, ServeFeed
<1> QED BY <1>5, <1>6

-----------------------------------------------------------------------------
(***************************************************************************)
(* The actions.                                                            *)
(***************************************************************************)

LEMMA AcquireFeed ==
    ASSUME BuildInvariant, FeedOK(mgr), NEW q \in Requests, NEW s \in Scopes,
           NEW mode \in {"building", "progressive"}, Acquire(q, s, mode)
    PROVE  FeedOK(mgr')
<1> DEFINE m == CleanupExpired(mgr, now)
           f == Fingerprint(s)
           hit == Lookup(m, s, f)
<1>1. MgrOK(m) /\ m \in Manager /\ FeedOK(m)
  BY BeginFeed
<1>2. PICK r \in Recs :
         /\ IF hit = {} THEN m.terminal[r] = "unused" ELSE r \in hit
         /\ mgr' = [(IF hit = {} THEN CreateRecord(m, r, s, f, now) ELSE m)
                       EXCEPT !.consumers[r] = @ \cup {q}]
  BY DEF Acquire
<1> HIDE DEF m, f, hit
<1>3. /\ mgr'.log = m.log /\ mgr'.cursors = m.cursors /\ mgr'.stream = m.stream
      /\ \A k \in Recs : \/ mgr'.terminal[k] = m.terminal[k]
                         \/ m.terminal[k] = "unused"
  <2>1. CASE hit = {}
    <3>1. m.terminal[r] = "unused"
      BY <1>2, <2>1
    <3>2. mgr' = [CreateRecord(m, r, s, f, now) EXCEPT !.consumers[r] = @ \cup {q}]
      BY <1>2, <2>1
    <3> QED BY <1>1, <3>1, <3>2 DEF CreateRecord, Manager
  <2>2. CASE hit # {}
    <3>1. mgr' = [m EXCEPT !.consumers[r] = @ \cup {q}]
      BY <1>2, <2>2
    <3> QED BY <1>1, <3>1 DEF Manager
  <2> QED BY <2>1, <2>2
<1>4. SameLogs(m, mgr')
  BY <1>3 DEF SameLogs
<1> QED BY <1>1, <1>3, <1>4, SameFeed

\* A waiter parks, or leaves.
LEMMA ParkFeed ==
    ASSUME NEW m, MgrOK(m), FeedOK(m), NEW r \in Recs, NEW X
    PROVE  FeedOK([m EXCEPT !.waiters[r] = X])
<1> DEFINE n == [m EXCEPT !.waiters[r] = X]
<1>1. n.log = m.log /\ n.terminal = m.terminal /\ n.cursors = m.cursors
      /\ n.stream = m.stream
  BY DEF MgrOK, Manager
<1> HIDE DEF n
<1>2. SameLogs(m, n)
  BY <1>1 DEF SameLogs
<1>3. FeedOK(n)
  BY <1>1, <1>2, SameFeed
<1> QED BY <1>3 DEF n

LEMMA ReleaseFeed ==
    ASSUME NEW m, MgrOK(m), FeedOK(m), NEW r \in Recs, NEW q \in Requests
    PROVE  FeedOK(ReleaseConsumer(m, r, q))
  BY ReleaseCleans, CleansFeed

\* An exception that leaves a directory behind.
LEMMA StoreThrowsFeed ==
    ASSUME BuildInvariant, FeedOK(mgr), NEW q \in Requests, StoreThrows(q)
    PROVE  FeedOK(mgr')
<1> DEFINE m == CleanupExpired(mgr, now)
<1>1. MgrOK(m) /\ FeedOK(m) /\ Littered(m, mgr', q)
  BY BeginFeed, StoreThrowsIs
<1> HIDE DEF m
<1>2. SameLogs(m, mgr') /\ mgr'.stream = m.stream /\ mgr'.cursors \subseteq m.cursors
  BY <1>1 DEF Littered, SameLogs
<1> QED BY <1>1, <1>2, SameFeed

\* The answers of acquire and acquireProgressive.
LEMMA WaitingFeed ==
    ASSUME BuildInvariant, FeedOK(mgr), NEW q \in Requests,
           \/ AcquireRefused(q) \/ BuildResolved(q) \/ BuildRejected(q)
           \/ AbortBuilding(q) \/ CleanupAcknowledged(q)
           \/ AwaitFirstSnapshot(q) \/ AbortProgressive(q) \/ ProjectionThrows(q)
    PROVE  FeedOK(mgr')
<1> DEFINE r == target[q]
<1>1. MgrOK(mgr) /\ mgr.waiters \in [Recs -> SUBSET Requests]
  BY Begin DEF MgrOK, Manager
<1>2. CASE AcquireRefused(q) \/ CleanupAcknowledged(q) \/ ProjectionThrows(q)
  BY <1>2 DEF AcquireRefused, CleanupAcknowledged, ProjectionThrows
<1>3. ASSUME pc[q] \in {"building", "progressive"} PROVE r \in Recs
  BY <1>3, Begin
<1>4. CASE BuildResolved(q) \/ BuildRejected(q) \/ AbortBuilding(q)
  <2>1. pc[q] = "building" /\ mgr' = ReleaseConsumer(mgr, r, q)
    BY <1>4 DEF BuildResolved, BuildRejected, AbortBuilding
  <2> QED BY <1>1, <1>3, <2>1, ReleaseFeed
<1>5. CASE AwaitFirstSnapshot(q)
  <2>1. /\ pc[q] = "progressive"
        /\ \/ mgr' = ReleaseConsumer(mgr, r, q)
           \/ mgr' = mgr
           \/ mgr' = [mgr EXCEPT !.waiters[r] = mgr.waiters[r] \cup {q}]
    BY <1>5 DEF AwaitFirstSnapshot
  <2> DEFINE X == mgr.waiters[r] \cup {q}
  <2>2. r \in Recs
    BY <1>3, <2>1
  <2>3. CASE mgr' = [mgr EXCEPT !.waiters[r] = X]
    <3> HIDE DEF X
    <3> QED BY <1>1, <2>2, <2>3, ParkFeed
  <2>4. CASE mgr' = ReleaseConsumer(mgr, r, q)
    BY <1>1, <2>2, <2>4, ReleaseFeed
  <2> QED BY <2>1, <2>3, <2>4
<1>6. CASE AbortProgressive(q)
  <2> DEFINE X == mgr.waiters[r] \ {q}
             m == [mgr EXCEPT !.waiters[r] = X]
  <2>1. r \in Recs /\ mgr' = ReleaseConsumer(m, r, q)
    BY <1>3, <1>6 DEF AbortProgressive
  <2>2. X \in SUBSET Requests
    BY <1>1, <2>1
  <2> HIDE DEF X
  <2>3. MgrOK(m) /\ FeedOK(m)
    BY <1>1, <2>1, <2>2, WaitersOK, ParkFeed
  <2> HIDE DEF m
  <2> QED BY <2>1, <2>3, ReleaseFeed
<1> QED BY <1>2, <1>4, <1>5, <1>6

\* publishContinuation: one page, or a static stream behind its first page.
LEMMA PublishStaticFeed ==
    ASSUME BuildInvariant, FeedOK(mgr), NEW q \in Requests, PublishStatic(q)
    PROVE  FeedOK(mgr')
<1> DEFINE r == target[q]
           m == CleanupExpired(mgr, now)
           value == m.log[r][Len(m.log[r])].items
<1>1. MgrOK(m) /\ m \in Manager /\ FeedOK(m)
  BY BeginFeed
<1>2. \/ mgr' = mgr \/ mgr' = m \/ mgr' = CleanupBuildFiles(m, r)
      \/ \E P \in Page(value) :
            mgr' = [m EXCEPT !.resultDirs = @ \cup {q}, !.cursors = @ \cup {<<q, 2>>},
                             !.stream[q] = OpenStream("static", r, value, P, 0, 2, now)]
  BY DEF PublishStatic
<1> HIDE DEF m, value
<1>3. CASE mgr' = CleanupBuildFiles(m, r)
  <2>1. /\ mgr'.log = m.log /\ mgr'.terminal = m.terminal /\ mgr'.cursors = m.cursors
        /\ mgr'.stream = m.stream
    BY <1>1, <1>3 DEF CleanupBuildFiles, Manager
  <2>2. SameLogs(m, mgr')
    BY <2>1 DEF SameLogs
  <2> QED BY <1>1, <2>1, <2>2, SameFeed
<1>4. ASSUME NEW P \in Page(value),
             mgr' = [m EXCEPT !.resultDirs = @ \cup {q}, !.cursors = @ \cup {<<q, 2>>},
                              !.stream[q] = OpenStream("static", r, value, P, 0, 2, now)]
      PROVE  FeedOK(mgr')
  <2> DEFINE s == OpenStream("static", r, value, P, 0, 2, now)
             next == <<q, 2>>
  <2>1. s.kind = "static" /\ s.ended = FALSE
    BY DEF OpenStream
  <2> HIDE DEF s
  <2>2. /\ mgr'.log = m.log /\ mgr'.terminal = m.terminal
        /\ mgr'.cursors = m.cursors \cup {next} /\ mgr'.stream[q] = s
        /\ \A p \in Requests \ {q} : mgr'.stream[p] = m.stream[p]
    BY <1>1, <1>4 DEF Manager, s
  <2>3. \A p \in Requests \ {q} : HasCursor(mgr', p) => HasCursor(m, p)
    <3>1. next[1] = q
      OBVIOUS
    <3> HIDE DEF next
    <3> QED BY <2>2, <3>1 DEF HasCursor
  <2>4. \A p \in Requests \ {q} : Rests(m, mgr', p)
    BY <2>2, <2>3 DEF Rests
  <2>5. Fed(mgr', q) /\ Emptied(mgr', q)
    BY <2>1, <2>2 DEF Fed, Delivers, Emptied
  <2>6. SameLogs(m, mgr') /\ LiveOK(m)
    BY <1>1, <2>2 DEF SameLogs, MgrOK, StreamsOK, LiveOK
  <2> QED BY <1>1, <2>4, <2>5, <2>6, OthersFeed DEF FeedOK
<1> QED BY <1>1, <1>2, <1>3, <1>4

\* The stream of publishLiveContinuation, before its first page.
Opening(m, q) ==
    [m EXCEPT !.resultDirs = @ \cup {q},
              !.stream[q] = OpenStream("live", target[q], {}, {},
                                       NextVersion(m, target[q], 0), 1, now)]

\* It is at the first event of its build.
LEMMA OpeningReads ==
    ASSUME BuildInvariant, FeedOK(mgr), NEW q \in Requests, pc[q] = "leased"
    PROVE  LET m == CleanupExpired(mgr, now)
               n == Opening(m, q)
           IN /\ Reads(m, n, q)
              /\ n.stream[q].kind = "live" /\ n.stream[q].delivered = {}
              /\ n.stream[q].page = 1 /\ n.stream[q].reading = TRUE
<1> DEFINE r == target[q]
           m == CleanupExpired(mgr, now)
           s == OpenStream("live", r, {}, {}, NextVersion(m, r, 0), 1, now)
           m1 == [m EXCEPT !.resultDirs = @ \cup {q}, !.stream[q] = s]
<1>1. /\ MgrOK(m) /\ m \in Manager /\ FeedOK(m) /\ now \in Nat /\ m.log = mgr.log
  BY BeginFeed
<1>2. /\ r \in Recs /\ m.log[r] \in Seq(Event) /\ m.log[r] # <<>>
  BY <1>1, Begin DEF Manager, BuildInvariant, RequestsOK
<1>4. NextVersion(m, r, 0) = 1 /\ 1 \in 1 .. Len(m.log[r])
  <2>1. Len(m.log[r]) \in Nat /\ Len(m.log[r]) > 0
    BY <1>2
  <2> QED BY <2>1 DEF NextVersion
<1>5. /\ s \in Stream /\ s.kind = "live" /\ s.rec = r /\ s.seen = 1
      /\ s.delivered = {} /\ ~s.ended
      /\ s.page = 1 /\ s.reading = TRUE
  <2>1. s = OpenStream("live", r, {}, {}, 1, 1, now)
    BY <1>4
  <2>2. s.page = 1 /\ s.reading = TRUE
    BY DEF OpenStream
  <2> HIDE DEF m, s, r
  <2> QED BY <1>1, <1>2, <2>1, <2>2, OpenLive
<1>10. Opening(m, q) = m1
  BY DEF Opening
<1> HIDE DEF m, s, r
<1>6. /\ m1.log = m.log /\ m1.terminal = m.terminal /\ m1.cursors = m.cursors
      /\ m1.stream[q] = s /\ \A p \in Requests \ {q} : m1.stream[p] = m.stream[p]
  BY <1>1 DEF Manager
<1>7. m1 \in Manager
  <2> DEFINE st == [m.stream EXCEPT ![q] = s]
             rd == m.resultDirs \cup {q}
  <2>1. st \in [Requests -> Stream] /\ rd \in SUBSET Requests
    BY <1>1, <1>5 DEF Manager
  <2>2. m1 = [m EXCEPT !.resultDirs = rd, !.stream = st]
    BY <1>1 DEF Manager
  <2> HIDE DEF st, rd, m1
  <2> QED BY <1>1, <2>1, <2>2 DEF Manager
<1> HIDE DEF m1
<1>8. Delivers(m1, q)
  <2>1. m1.stream[q].delivered = {} /\ m1.stream[q].seen - 1 = 0
    BY <1>5, <1>6
  <2> QED BY <2>1 DEF Delivers
<1>9. Reads(m, m1, q)
  <2>1. \A p \in Requests : HasCursor(m1, p) <=> HasCursor(m, p)
    BY <1>6 DEF HasCursor
  <2> QED BY <1>2, <1>4, <1>5, <1>6, <1>7, <1>8, <2>1 DEF Reads
<1> QED BY <1>5, <1>6, <1>9, <1>10 DEF m

\* publishLiveContinuation: a stream at the first event of its build.
LEMMA PublishLiveFeed ==
    ASSUME BuildInvariant, FeedOK(mgr), NEW q \in Requests, PublishLive(q)
    PROVE  FeedOK(mgr')
<1> DEFINE r == target[q]
           m == CleanupExpired(mgr, now)
           m1 == Opening(m, q)
<1>1. /\ MgrOK(m) /\ m \in Manager /\ FeedOK(m) /\ now \in Nat /\ pc[q] = "leased"
  BY BeginFeed DEF PublishLive
<1>2. r \in Recs
  BY <1>1 DEF BuildInvariant, RequestsOK
<1>3. \/ mgr' = mgr \/ mgr' = ReleaseConsumer(m, r, q)
      \/ ~CanServe(m1, q) /\ mgr' = m1
      \/ \E P \in Page(Available(m1, q)) : mgr' = Serve(m1, q, P, now)
  BY DEF PublishLive, Opening
<1>4. Reads(m, m1, q) /\ m1.stream[q].kind = "live"
  BY <1>1, OpeningReads
<1> HIDE DEF m, r, m1
<1>5. /\ \A P \in Page(Available(m1, q)), t \in Nat : FeedOK(Serve(m1, q, P, t))
      /\ ~CanServe(m1, q) => FeedOK(m1)
  BY <1>1, <1>4, ReadFeed
<1> QED BY <1>1, <1>2, <1>3, <1>5, ReleaseFeed

\* A read that goes on to the next event.
LEMMA TurnReads ==
    ASSUME BuildInvariant, FeedOK(mgr), NEW q \in Requests, mgr.stream[q].reading,
           NextVersion(mgr, mgr.stream[q].rec, mgr.stream[q].seen) # 0
    PROVE  LET v == NextVersion(mgr, mgr.stream[q].rec, mgr.stream[q].seen)
               m == [mgr EXCEPT !.stream[q].seen = v]
           IN Reads(mgr, m, q) /\ m.stream[q].kind = "live" /\ FeedOf(m, q) = FeedOf(mgr, q)
<1> DEFINE r == mgr.stream[q].rec
           x == mgr.stream[q].seen
           v == NextVersion(mgr, r, x)
           m == [mgr EXCEPT !.stream[q].seen = v]
<1>1. MgrOK(mgr) /\ mgr \in Manager /\ now \in Nat /\ mgr.stream[q].reading
  BY Begin DEF MgrOK
<1>2. /\ mgr.stream[q] \in Stream /\ mgr.stream[q].kind = "live" /\ r \in Recs
      /\ mgr.log[r] \in Seq(Event) /\ x \in 1 .. Len(mgr.log[r])
  BY <1>1 DEF MgrOK, Manager, StreamsOK
<1>3. v # 0
  OBVIOUS
<1> DEFINE l == Len(mgr.log[r])
<1>11. l \in Nat /\ x \in 1 .. l
  BY <1>2
<1>12. v = IF l > x THEN x + 1 ELSE IF mgr.terminal[r] = "success" THEN l ELSE 0
  BY DEF NextVersion
<1>13. v \in 1 .. l /\ (v = x \/ v = x + 1) /\ x \in Nat /\ x >= 1
  <2> HIDE DEF v, l, x
  <2> QED BY <1>3, <1>11, <1>12
<1> HIDE DEF v
<1>14. /\ m.log = mgr.log /\ m.terminal = mgr.terminal /\ m.cursors = mgr.cursors
      /\ m.stream[q] = [mgr.stream[q] EXCEPT !.seen = v]
      /\ \A p \in Requests \ {q} : m.stream[p] = mgr.stream[p]
  BY <1>1 DEF Manager
<1>15. ASSUME NEW y \in Stream
      PROVE  LET z == [y EXCEPT !.seen = v] IN
             /\ z \in Stream /\ z.kind = y.kind /\ z.rec = y.rec /\ z.seen = v
             /\ z.delivered = y.delivered /\ z.ended = y.ended
             /\ z.page = y.page /\ z.reading = y.reading
  <2>1. v \in Nat
    BY <1>11, <1>13
  <2> QED BY <2>1 DEF Stream
<1>16. /\ m.stream[q] \in Stream /\ m.stream[q].kind = "live" /\ m.stream[q].rec = r
      /\ m.stream[q].seen = v /\ m.stream[q].delivered = mgr.stream[q].delivered
      /\ m.stream[q].ended = mgr.stream[q].ended /\ m.stream[q].page = mgr.stream[q].page
      /\ m.stream[q].reading = mgr.stream[q].reading
  <2> HIDE DEF m
  <2> QED BY <1>2, <1>14, <1>15
<1>17. m \in Manager
  <2> DEFINE st == [mgr.stream EXCEPT ![q].seen = v]
  <2>1. mgr.stream \in [Requests -> Stream]
    BY <1>1 DEF Manager
  <2>2. st \in [Requests -> Stream]
    BY <1>15, <2>1
  <2>3. m = [mgr EXCEPT !.stream = st]
    BY <1>1 DEF Manager
  <2> HIDE DEF st, m, r, x, l
  <2> QED BY <1>1, <2>2, <2>3 DEF Manager
<1>18. ~m.stream[q].ended
  BY <1>1, <1>2, <1>16 DEF FeedOK, Fed
<1>19. Delivers(m, q)
  <2> DEFINE d == mgr.stream[q].delivered
             L == mgr.log[r]
  <2>1. /\ \A i \in 1 .. x - 1 : L[i].items \subseteq d
        /\ \A y \in d : \E i \in 1 .. x : y \in L[i].items
        /\ L[x].items \subseteq d
    BY <1>1, <1>2 DEF FeedOK, Fed, Delivers, Emptied
  <2> HIDE DEF d, L, x
  <2>2. \A i \in 1 .. v - 1 : i \in 1 .. x - 1 \/ i = x
    BY <1>13
  <2>3. \A i \in 1 .. x : i \in 1 .. v
    BY <1>11, <1>13
  <2>4. /\ \A i \in 1 .. v - 1 : L[i].items \subseteq d
        /\ \A y \in d : \E i \in 1 .. v : y \in L[i].items
    BY <2>1, <2>2, <2>3
  <2> HIDE DEF m, r
  <2> QED BY <1>14, <1>16, <2>4 DEF Delivers, d, L
<1> HIDE DEF m, r, l, x
<1>20. m.stream[q].seen \in 1 .. Len(m.log[m.stream[q].rec])
  BY <1>13, <1>14, <1>16 DEF l
<1>21. /\ m.stream[q].kind # "none" /\ m.stream[q].rec \in Recs
       /\ m.cursors \subseteq mgr.cursors
  BY <1>2, <1>14, <1>16 DEF r
<1>22. Reads(mgr, m, q)
  <2>1. \A p \in Requests : HasCursor(m, p) <=> HasCursor(mgr, p)
    BY <1>14 DEF HasCursor
  <2> QED BY <1>14, <1>16, <1>17, <1>18, <1>19, <1>20, <1>21, <2>1 DEF Reads
<1>23. FeedOf(m, q) = FeedOf(mgr, q)
  <2>1. m.stream[q].stored = mgr.stream[q].stored
    BY <1>2, <1>14 DEF Stream
  <2>2. HasCursor(m, q) <=> HasCursor(mgr, q)
    BY <1>14 DEF HasCursor
  <2>3. Alike(mgr, m, q)
    BY <1>2, <1>16, <2>1, <2>2 DEF Alike, r
  <2> QED BY <1>14, <2>3, FeedAlike
<1> QED BY <1>16, <1>22, <1>23 DEF m, v, x, r

\* One turn of a read that goes on to the next event.
LEMMA LiveReadTurnFeed ==
    ASSUME BuildInvariant, FeedOK(mgr), NEW q \in Requests, LiveReadTurn(q)
    PROVE  FeedOK(mgr')
<1> DEFINE r == mgr.stream[q].rec
           x == mgr.stream[q].seen
           v == NextVersion(mgr, r, x)
           m == [mgr EXCEPT !.stream[q].seen = v]
<1>1. MgrOK(mgr) /\ mgr \in Manager /\ now \in Nat /\ mgr.stream[q].reading
  BY Begin DEF LiveReadTurn, MgrOK
<1>2. /\ mgr.stream[q] \in Stream /\ mgr.stream[q].kind = "live" /\ r \in Recs
      /\ mgr.log[r] \in Seq(Event) /\ x \in 1 .. Len(mgr.log[r])
  BY <1>1 DEF MgrOK, Manager, StreamsOK
<1>3. \/ mgr' = CleanupResults(mgr, {q}, now)
      \/ mgr' = [mgr EXCEPT !.waiters[r] = mgr.waiters[r] \cup {q}]
      \/ v # 0 /\ ~CanServe(m, q) /\ mgr' = m
      \/ v # 0 /\ \E P \in Page(Available(m, q)) : mgr' = Serve(m, q, P, now)
  BY DEF LiveReadTurn
<1>4. CASE mgr' = CleanupResults(mgr, {q}, now)
  BY <1>1, <1>4, CleanupResultsCleans, CleansFeed
<1>5. CASE mgr' = [mgr EXCEPT !.waiters[r] = mgr.waiters[r] \cup {q}]
  BY <1>1, <1>2, <1>5, ParkFeed
<1>6. ASSUME v # 0
      PROVE  /\ \A P \in Page(Available(m, q)), t \in Nat : FeedOK(Serve(m, q, P, t))
             /\ ~CanServe(m, q) => FeedOK(m)
  BY <1>1, <1>6, TurnReads, ReadFeed
<1> QED BY <1>1, <1>3, <1>4, <1>5, <1>6

\* A cursor of q that is claimed, before its page.
Claimed(m, n, q) ==
    /\ q \in Requests /\ m.stream[q].kind # "none"
    /\ Reads(m, n, q)
    /\ n.stream[q].kind = m.stream[q].kind
    /\ FeedOf(n, q) = [FeedOf(m, q) EXCEPT !.place = "reading"]

\* A read that throws is cleaned up.
LEMMA ReadThrowsFeed ==
    ASSUME BuildInvariant, FeedOK(mgr), NEW q \in Requests, ReadThrows(q)
    PROVE  FeedOK(mgr')
<1>1. MgrOK(mgr) /\ mgr \in Manager /\ now \in Nat /\ mgr' = CleanupResults(mgr, {q}, now)
  BY Begin DEF ReadThrows, MgrOK
<1> QED BY <1>1, CleanupResultsCleans, CleansFeed

LEMMA ClaimReads ==
    ASSUME NEW m, MgrOK(m), FeedOK(m), NEW c \in m.cursors, NEW t \in Nat
    PROVE  Claimed(m, ClaimCursor(m, c, t), c[1])
<1> DEFINE q == c[1]
           r == m.stream[q].rec
           n == ClaimCursor(m, c, t)
           s == [m.stream[q] EXCEPT !.reading = TRUE]
           cu == m.cursors \ {c}
           ex == m.expired \cup {<<c, t + Ttl>>}
           st == [m.stream EXCEPT ![q] = s]
<1>1. m \in Manager /\ q \in Requests /\ c \in Cursor
  BY DEF MgrOK, Manager, Cursor
<1>2. /\ m.stream[q].kind # "none" /\ r \in Recs /\ HasCursor(m, q)
      /\ m.stream[q].kind = "live" => m.stream[q].seen \in 1 .. Len(m.log[r])
  BY <1>1 DEF MgrOK, StreamsOK, HasCursor
<1>3. /\ s \in Stream /\ s.kind = m.stream[q].kind /\ s.rec = r
      /\ s.seen = m.stream[q].seen /\ s.delivered = m.stream[q].delivered
      /\ s.ended = m.stream[q].ended /\ s.stored = m.stream[q].stored
      /\ s.page = m.stream[q].page /\ s.reading = TRUE
  <2>1. ASSUME NEW y \in Stream
        PROVE  LET z == [y EXCEPT !.reading = TRUE] IN
               /\ z \in Stream /\ z.kind = y.kind /\ z.rec = y.rec
               /\ z.seen = y.seen /\ z.delivered = y.delivered /\ z.ended = y.ended
               /\ z.stored = y.stored /\ z.page = y.page /\ z.reading = TRUE
    BY DEF Stream
  <2>2. m.stream[q] \in Stream
    BY <1>1 DEF Manager
  <2> HIDE DEF q
  <2> QED BY <2>1, <2>2
<1>4. n = [m EXCEPT !.cursors = cu, !.expired = ex, !.stream = st]
  BY <1>1 DEF ClaimCursor, Manager
<1>5. cu \in SUBSET Cursor /\ ex \in SUBSET (Cursor \X Nat)
  <2>1. t + Ttl \in Nat
    BY TtlAssumption
  <2> QED BY <1>1, <2>1 DEF Manager
<1>6. st \in [Requests -> Stream] /\ st[q] = s
      /\ \A p \in Requests \ {q} : st[p] = m.stream[p]
  <2> HIDE DEF s
  <2> QED BY <1>1, <1>3 DEF Manager
<1>7. cu \subseteq m.cursors /\ \A d \in m.cursors : d[1] # q => d \in cu
  OBVIOUS
<1> HIDE DEF s, cu, ex, st, n
<1>8. /\ n \in Manager /\ n.log = m.log /\ n.terminal = m.terminal
      /\ n.cursors = cu /\ n.stream = st
  <2> HIDE DEF q
  <2> QED BY <1>1, <1>4, <1>5, <1>6 DEF Manager
<1>9. n.stream[q].kind = "live" => ~n.stream[q].ended
  BY <1>1, <1>2, <1>3, <1>6, <1>8 DEF FeedOK, Fed
<1>10. Delivers(n, q)
  <2>1. Delivers(m, q)
    BY <1>1 DEF FeedOK, Fed
  <2> HIDE DEF q
  <2>2. /\ n.stream[q].kind = m.stream[q].kind /\ n.stream[q].rec = m.stream[q].rec
        /\ n.stream[q].seen = m.stream[q].seen /\ n.log = m.log
        /\ n.stream[q].delivered = m.stream[q].delivered
    BY <1>3, <1>6, <1>8 DEF r
  <2> QED BY <2>1, <2>2 DEF Delivers
<1>11. /\ n.stream[q].kind # "none"
       /\ n.stream[q].kind = "live" =>
             /\ n.stream[q].rec \in Recs
             /\ n.stream[q].seen \in 1 .. Len(n.log[n.stream[q].rec])
  BY <1>2, <1>3, <1>6, <1>8
<1>12. /\ n.cursors \subseteq m.cursors /\ n.stream[q].kind = m.stream[q].kind
       /\ \A p \in Requests \ {q} : n.stream[p] = m.stream[p]
  BY <1>3, <1>6, <1>7, <1>8
<1>13. \A p \in Requests \ {q} : HasCursor(n, p) <=> HasCursor(m, p)
  <2> HIDE DEF q
  <2> QED BY <1>7, <1>8 DEF HasCursor, q
<1>14. FeedOf(n, q) = [FeedOf(m, q) EXCEPT !.place = "reading"]
  <2> DEFINE u == n.stream[q]
             o == FeedOf(n, q).offered
  <2>1. /\ u.kind = m.stream[q].kind /\ u.reading = TRUE /\ u.kind # "none"
        /\ u.rec = m.stream[q].rec /\ u.stored = m.stream[q].stored
        /\ u.delivered = m.stream[q].delivered /\ u.page = m.stream[q].page
    BY <1>2, <1>3, <1>6, <1>8
  <2> HIDE DEF q, r
  <2>2. FeedOf(n, q) = [place |-> "reading", offered |-> o, given |-> u.delivered,
                        page |-> u.page]
    BY <2>1 DEF FeedOf
  <2>3. FeedOf(m, q).offered = o /\ FeedOf(m, q).given = u.delivered
        /\ FeedOf(m, q).page = u.page
    BY <1>8, <2>1 DEF FeedOf
  <2>4. FeedOf(m, q) = [place |-> FeedOf(m, q).place, offered |-> FeedOf(m, q).offered,
                        given |-> FeedOf(m, q).given, page |-> FeedOf(m, q).page]
    BY DEF FeedOf
  <2> HIDE DEF u, o
  <2> QED BY <2>2, <2>3, <2>4
<1> HIDE DEF q
<1>15. Reads(m, n, q)
  BY <1>8, <1>9, <1>10, <1>11, <1>12, <1>13 DEF Reads
<1> QED BY <1>1, <1>2, <1>12, <1>14, <1>15 DEF Claimed, q, n

\* A page asked for by cursor, and a cursor given back.
LEMMA ReadContinuationFeed ==
    ASSUME BuildInvariant, FeedOK(mgr), NEW c \in Cursor, NEW root,
           ReadContinuation(c, root)
    PROVE  FeedOK(mgr')
<1> DEFINE q == c[1]
           m == CleanupExpired(mgr, now)
           r == m.stream[q].rec
           m1 == ClaimCursor(m, c, now)
<1>1. /\ MgrOK(m) /\ m \in Manager /\ FeedOK(m) /\ now \in Nat /\ q \in Requests
  BY BeginFeed DEF Cursor
<1>2. \/ mgr' = m
      \/ c \in m.cursors /\ mgr' = InvalidateFactSession(CleanupResults(m, {q}, now), r)
      \/ /\ c \in m.cursors /\ mgr' = m1
         /\ m.stream[q].kind # "static" /\ ~CanServe(m1, q)
      \/ c \in m.cursors /\ \E P \in Page(Available(m1, q)) : mgr' = Serve(m1, q, P, now)
  BY DEF ReadContinuation
<1> HIDE DEF m
<1>3. c \in m.cursors => m.stream[q].kind # "none" /\ r \in Recs
  BY <1>1 DEF MgrOK, StreamsOK, HasCursor
<1>4. CASE c \in m.cursors /\ mgr' = InvalidateFactSession(CleanupResults(m, {q}, now), r)
  <2> DEFINE m2 == CleanupResults(m, {q}, now)
  <2>1. MgrOK(m2) /\ Cleans(m, m2, {q})
    BY <1>1, CleanupResultsOK, CleanupResultsCleans
  <2> HIDE DEF m2
  <2>2. FeedOK(m2)
    BY <1>1, <2>1, CleansFeed
  <2>3. mgr' = InvalidateFactSession(m2, r)
    BY <1>4 DEF m2
  <2> QED BY <1>3, <1>4, <2>1, <2>2, <2>3, InvalidateCleans, CleansFeed
<1>5. ASSUME c \in m.cursors
      PROVE  /\ m1.stream[q].kind = m.stream[q].kind
             /\ \A P \in Page(Available(m1, q)), t \in Nat : FeedOK(Serve(m1, q, P, t))
             /\ m1.stream[q].kind = "live" /\ ~CanServe(m1, q) => FeedOK(m1)
  <2>1. Claimed(m, m1, q)
    BY <1>1, <1>5, ClaimReads
  <2> HIDE DEF m1
  <2> QED BY <1>1, <2>1, ReadFeed DEF Claimed
<1> HIDE DEF m1
<1>6. CASE c \in m.cursors /\ mgr' = m1 /\ m.stream[q].kind # "static" /\ ~CanServe(m1, q)
  <2>1. m.stream[q].kind = "live"
    <3>1. m.stream[q] \in Stream
      BY <1>1 DEF Manager
    <3>2. m.stream[q].kind \in {"none", "static", "live"}
      BY <3>1 DEF Stream
    <3> QED BY <1>3, <1>6, <3>2
  <2> QED BY <1>5, <1>6, <2>1
<1> QED BY <1>1, <1>2, <1>4, <1>5, <1>6

LEMMA CancelContinuationFeed ==
    ASSUME BuildInvariant, FeedOK(mgr), NEW c \in Cursor, NEW root,
           CancelContinuation(c, root)
    PROVE  FeedOK(mgr')
<1> DEFINE m == CleanupExpired(mgr, now)
<1>1. MgrOK(m) /\ m \in Manager /\ FeedOK(m) /\ now \in Nat /\ c[1] \in Requests
  BY BeginFeed DEF Cursor
<1>2. mgr' = m \/ mgr' = CleanupResults(m, {c[1]}, now)
  BY DEF CancelContinuation
<1> HIDE DEF m
<1> QED BY <1>1, <1>2, CleanupResultsCleans, CleansFeed

\* The build worker publishes an event, or fails.
LEMMA WorkerAppends ==
    ASSUME BuildInvariant, NEW r \in Recs,
           WorkerPublish(r) \/ WorkerReturns(r) \/ WorkerThrows(r)
    PROVE  \/ \E o, I : Appends(mgr, mgr', r, o, I)
           \/ \E k \in Failures : mgr' = SettleFailed(mgr, r, k, now)
<1>1. MgrOK(mgr) /\ mgr \in Manager /\ r \in mgr.unsettled
  BY Begin DEF WorkerPublish, WorkerReturns, WorkerThrows, MgrOK
<1>2. \/ \E I \in SUBSET Items : mgr' = PublishEvent(mgr, r, "progress", I)
      \/ \E k \in Failures : mgr' = SettleFailed(mgr, r, k, now)
      \/ \E I \in SUBSET Items :
            mgr' = [Settle(PublishEvent(mgr, r, "success", I), r, "success") EXCEPT
                       !.expires[r] = now + Ttl]
  BY DEF WorkerPublish, WorkerReturns, WorkerThrows, Failures
<1>3. ASSUME NEW I \in SUBSET Items, mgr' = PublishEvent(mgr, r, "progress", I)
      PROVE  Appends(mgr, mgr', r, "progress", I)
  <2>1. /\ mgr'.log = [mgr.log EXCEPT ![r] = Append(@, [outcome |-> "progress", items |-> I])]
        /\ mgr'.stream = mgr.stream /\ mgr'.cursors = mgr.cursors
        /\ mgr'.terminal = mgr.terminal
    BY <1>1, <1>3 DEF PublishEvent, Manager
  <2> QED BY <2>1 DEF Appends
<1>4. ASSUME NEW I \in SUBSET Items,
             mgr' = [Settle(PublishEvent(mgr, r, "success", I), r, "success") EXCEPT
                        !.expires[r] = now + Ttl]
      PROVE  Appends(mgr, mgr', r, "success", I)
  <2> DEFINE lg == [mgr.log EXCEPT ![r] = Append(@, [outcome |-> "success", items |-> I])]
             te == [mgr.terminal EXCEPT ![r] = "success"]
             wt == [mgr.waiters EXCEPT ![r] = {}]
             un == mgr.unsettled \ {r}
             ex == [mgr.expires EXCEPT ![r] = now + Ttl]
  <2>1. mgr' = [mgr EXCEPT !.log = lg, !.waiters = wt, !.terminal = te,
                           !.unsettled = un, !.expires = ex]
    BY <1>1, <1>4 DEF PublishEvent, Settle, Manager
  <2>2. te[r] = "success" /\ \A k \in Recs \ {r} : te[k] = mgr.terminal[k]
    BY <1>1 DEF Manager
  <2> HIDE DEF lg, te, wt, un, ex
  <2>3. mgr'.log = lg /\ mgr'.stream = mgr.stream /\ mgr'.cursors = mgr.cursors
        /\ mgr'.terminal = te
    BY <1>1, <2>1 DEF Manager
  <2> QED BY <2>2, <2>3 DEF Appends, lg
<1> QED BY <1>2, <1>3, <1>4

LEMMA WorkerFeed ==
    ASSUME BuildInvariant, FeedOK(mgr), NEW r \in Recs,
           WorkerPublish(r) \/ WorkerReturns(r) \/ WorkerThrows(r)
    PROVE  FeedOK(mgr')
<1>1. MgrOK(mgr) /\ mgr \in Manager /\ r \in mgr.unsettled
  BY Begin DEF WorkerPublish, WorkerReturns, WorkerThrows, MgrOK
<1>2. ASSUME NEW k \in Failures, mgr' = SettleFailed(mgr, r, k, now)
      PROVE  FeedOK(mgr')
  <2>1. /\ mgr'.log = mgr.log /\ mgr'.stream = mgr.stream
        /\ mgr'.cursors \subseteq mgr.cursors
    BY <1>1, <1>2 DEF SettleFailed, Settle, FailCursors, Manager
  <2>2. \A j \in Recs \ {r} : mgr'.terminal[j] = mgr.terminal[j]
    BY <1>1, <1>2 DEF SettleFailed, Settle, FailCursors, Manager
  <2>3. mgr.terminal[r] = "pending"
    BY <1>1 DEF MgrOK, BuildsOK, Pending
  <2>4. SameLogs(mgr, mgr')
    BY <2>1, <2>2, <2>3 DEF SameLogs
  <2> QED BY <1>1, <2>1, <2>4, SameFeed
<1> QED BY <1>1, <1>2, WorkerAppends, AppendFeed

\* Shutdown.
LEMMA ShutdownFeed ==
    ASSUME BuildInvariant, FeedOK(mgr), Dispose \/ DisposeDone
    PROVE  FeedOK(mgr')
<1>1. MgrOK(mgr) /\ mgr \in Manager
  BY Begin DEF MgrOK
<1>2. /\ mgr'.log = mgr.log /\ mgr'.stream = mgr.stream /\ mgr'.terminal = mgr.terminal
      /\ mgr'.cursors \subseteq mgr.cursors
  BY <1>1 DEF Dispose, DisposeDone, Manager
<1>3. SameLogs(mgr, mgr')
  BY <1>2 DEF SameLogs
<1> QED BY <1>1, <1>2, <1>3, SameFeed

-----------------------------------------------------------------------------
LEMMA InitFeed == Init => FeedOK(mgr)
<1> SUFFICES ASSUME Init PROVE FeedOK(mgr)
  OBVIOUS
<1>1. /\ \A q \in Requests : mgr.stream[q].kind = "none" /\ mgr.stream[q].ended = FALSE
      /\ \A r \in Recs : mgr.log[r] = <<>>
  BY DEF Init, NoStream
<1>2. LogOK(mgr)
  BY <1>1 DEF LogOK
<1> QED BY <1>1, <1>2 DEF FeedOK, Fed, Delivers, Emptied

LEMMA NextFeed == BuildInvariant /\ FeedOK(mgr) /\ [Next]_vars => FeedOK(mgr')
<1> SUFFICES ASSUME BuildInvariant, FeedOK(mgr), [Next]_vars PROVE FeedOK(mgr')
  OBVIOUS
<1>1. CASE mgr' = mgr
  BY <1>1
<1>2. CASE NewRequest
  BY <1>2, AcquireFeed, WaitingFeed, PublishStaticFeed, PublishLiveFeed, StoreThrowsFeed
     DEF NewRequest
<1>3. CASE CursorCall
  <2>1. Issued \subseteq Cursor
    <3>1. Cardinality(Items) \in Nat
      BY ItemsAssumption, FS_CardinalityType
    <3> QED BY <3>1 DEF Issued, Cursor
  <2> QED BY <1>3, <2>1, ReadContinuationFeed, CancelContinuationFeed, LiveReadTurnFeed,
          ReadThrowsFeed
          DEF CursorCall
<1>4. CASE Worker
  BY <1>4, WorkerFeed DEF Worker
<1>5. CASE Dispose \/ DisposeDone
  BY <1>5, ShutdownFeed
<1> QED BY <1>1, <1>2, <1>3, <1>4, <1>5
        DEF Next, Environment, ClockTick, EditSources, vars

LEMMA FeedInvariance == Spec => [](BuildInvariant /\ FeedOK(mgr))
<1>1. Init => BuildInvariant /\ FeedOK(mgr)
  BY InitOK, InitFeed
<1>2. BuildInvariant /\ FeedOK(mgr) /\ [Next]_vars => (BuildInvariant /\ FeedOK(mgr))'
  <2>1. FeedOK(mgr') => FeedOK(mgr)'
    BY DEF FeedOK, LogOK, Fed, Delivers, Emptied, HasCursor
  <2> QED BY <2>1, NextOK, NextFeed
<1> QED BY <1>1, <1>2, PTL DEF Spec

\* A client that pages a live result to its end has been given every item that any
\* event of the build carried, and on the way no event is passed over half delivered.
THEOREM NoDeltaSkipped == Spec => []EveryDelta
<1>1. BuildInvariant /\ FeedOK(mgr) => EveryDelta
  <2> SUFFICES ASSUME BuildInvariant, FeedOK(mgr), NEW q \in Requests,
                      mgr.stream[q].kind = "live"
               PROVE  LET s == mgr.stream[q] IN
                      /\ Published(s.rec, s.seen - 1) \subseteq s.delivered
                      /\ s.delivered \subseteq Published(s.rec, s.seen)
                      /\ s.ended => s.delivered = Published(s.rec, Len(mgr.log[s.rec]))
    BY DEF EveryDelta
  <2> DEFINE r == mgr.stream[q].rec
             v == mgr.stream[q].seen
             d == mgr.stream[q].delivered
             L == mgr.log[r]
  <2>1. r \in Recs /\ v \in 1 .. Len(L) /\ L \in Seq(Event)
    BY DEF BuildInvariant, StreamsOK, TypeOK, Manager
  <2>2. /\ \A i \in 1 .. v - 1 : L[i].items \subseteq d
        /\ \A x \in d : \E i \in 1 .. v : x \in L[i].items
        /\ mgr.stream[q].ended => L[v].outcome = "success" /\ L[v].items \subseteq d
    BY DEF FeedOK, Fed, Delivers
  <2>3. Published(r, v - 1) \subseteq d
    BY <2>2 DEF Published
  <2>4. d \subseteq Published(r, v)
    BY <2>2 DEF Published
  <2>5. ASSUME mgr.stream[q].ended PROVE d = Published(r, Len(L))
    <3>1. v = Len(L)
      BY <2>1, <2>2, <2>5 DEF FeedOK, LogOK
    <3>2. \A i \in 1 .. v : i \in 1 .. v - 1 \/ i = v
      <4> HIDE DEF v, L
      <4> QED BY <2>1
    <3>3. Published(r, v) \subseteq d
      BY <2>2, <2>5, <3>2 DEF Published
    <3> QED BY <2>4, <3>1, <3>3
  <2> QED BY <2>3, <2>4, <2>5
<1> QED BY <1>1, FeedInvariance, PTL
-----------------------------------------------------------------------------
(***************************************************************************)
(* What a step may do to an abort signal and to a cursor.                  *)
(***************************************************************************)

\* From m to n, at time t: consumers only leave, a build that is told to stop has none
\* left, and a cursor or a failure that goes is remembered as expired.
Prunes(m, n, t) ==
    /\ n.scope = m.scope /\ n.print = m.print
    /\ \A r \in Recs : n.consumers[r] \subseteq m.consumers[r]
    /\ \A r \in Recs : n.reason[r] # m.reason[r] =>
                          n.reason[r] = "unwanted" /\ n.consumers[r] = {}
    /\ \A c \in m.cursors \ n.cursors : <<c, t + Ttl>> \in n.expired
    /\ \A g \in m.failures \ n.failures : <<g[1], t + Ttl>> \in n.expired
    /\ \A c : <<c, t + Ttl>> \in m.expired => <<c, t + Ttl>> \in n.expired

LEMMA PrunesTwice ==
    ASSUME NEW l, NEW m, NEW n, NEW t, Prunes(l, m, t), Prunes(m, n, t)
    PROVE  Prunes(l, n, t)
<1>1. \A r \in Recs : n.reason[r] # l.reason[r] =>
                         n.reason[r] = "unwanted" /\ n.consumers[r] = {}
  <2> SUFFICES ASSUME NEW r \in Recs, n.reason[r] # l.reason[r]
               PROVE  n.reason[r] = "unwanted" /\ n.consumers[r] = {}
    OBVIOUS
  <2>1. CASE n.reason[r] # m.reason[r]
    BY <2>1 DEF Prunes
  <2>2. CASE n.reason[r] = m.reason[r]
    <3>1. m.reason[r] = "unwanted" /\ m.consumers[r] = {}
      BY <2>2 DEF Prunes
    <3>2. n.consumers[r] \subseteq m.consumers[r]
      BY DEF Prunes
    <3> QED BY <2>2, <3>1, <3>2
  <2> QED BY <2>1, <2>2
<1>2. /\ n.scope = l.scope /\ n.print = l.print
      /\ \A r \in Recs : n.consumers[r] \subseteq l.consumers[r]
  BY DEF Prunes
<1>3. \A c \in l.cursors \ n.cursors : <<c, t + Ttl>> \in n.expired
  BY DEF Prunes
<1>4. \A g \in l.failures \ n.failures : <<g[1], t + Ttl>> \in n.expired
  BY DEF Prunes
<1>5. \A c : <<c, t + Ttl>> \in l.expired => <<c, t + Ttl>> \in n.expired
  BY DEF Prunes
<1> QED BY <1>1, <1>2, <1>3, <1>4, <1>5 DEF Prunes

\* A change that touches none of this.
LEMMA PrunesSame ==
    ASSUME NEW m, NEW n, NEW t, n.scope = m.scope, n.print = m.print,
           n.consumers = m.consumers, n.reason = m.reason, n.failures = m.failures,
           n.expired = m.expired, m.cursors \subseteq n.cursors
    PROVE  Prunes(m, n, t)
  BY DEF Prunes

LEMMA SweepRetiredPrunes ==
    ASSUME NEW m, m \in Manager, NEW t \in Nat
    PROVE  Prunes(m, SweepRetired(m, t), t)
<1> DEFINE n == SweepRetired(m, t)
           failed == {g \in m.failures : g[2] <= t}
<1>1. /\ n.scope = m.scope /\ n.print = m.print /\ n.consumers = m.consumers
      /\ n.reason = m.reason /\ n.cursors = m.cursors
      /\ n.expired = {g \in m.expired : g[2] > t} \cup {<<g[1], t + Ttl>> : g \in failed}
      /\ n.failures = m.failures \ failed
  BY DEF Manager, SweepRetired
<1>2. \A c : <<c, t + Ttl>> \in m.expired => <<c, t + Ttl>> \in n.expired
  <2> SUFFICES ASSUME NEW c, <<c, t + Ttl>> \in m.expired
               PROVE  <<c, t + Ttl>> \in n.expired
    OBVIOUS
  <2>1. t + Ttl > t
    BY TtlAssumption
  <2> QED BY <1>1, <2>1
<1> HIDE DEF n
<1>3. \A g \in m.failures \ n.failures : <<g[1], t + Ttl>> \in n.expired
  BY <1>1
<1>4. /\ n.scope = m.scope /\ n.print = m.print /\ n.cursors = m.cursors
      /\ \A r \in Recs : n.consumers[r] = m.consumers[r] /\ n.reason[r] = m.reason[r]
  BY <1>1
<1> QED BY <1>2, <1>3, <1>4 DEF Prunes, n

LEMMA SweepSessionsPrunes ==
    ASSUME NEW m, m \in Manager, NEW t \in Nat
    PROVE  Prunes(m, SweepSessions(m, t), t)
<1> DEFINE n == SweepSessions(m, t)
<1>1. /\ n.scope = m.scope /\ n.print = m.print /\ n.consumers = m.consumers
      /\ n.reason = m.reason /\ n.failures = m.failures /\ n.expired = m.expired
      /\ n.cursors = m.cursors
  BY DEF Manager, SweepSessions
<1> QED BY <1>1, PrunesSame

LEMMA CleanupResultsPrunes ==
    ASSUME NEW m, m \in Manager, NEW S \in SUBSET Requests, NEW t \in Nat
    PROVE  Prunes(m, CleanupResults(m, S, t), t)
<1> DEFINE n == CleanupResults(m, S, t)
           gone(r) == m.consumers[r] \cap LeasedBy(m, S, r)
<1>1. /\ n.scope = m.scope /\ n.print = m.print /\ n.failures = m.failures
      /\ n.cursors = {c \in m.cursors : c[1] \notin S}
      /\ n.expired = m.expired \cup {<<c, t + Ttl>> : c \in {d \in m.cursors : d[1] \in S}}
  BY DEF Manager, CleanupResults
<1>2. \A r \in Recs :
         /\ n.consumers[r] = m.consumers[r] \ gone(r)
         /\ n.reason[r] # m.reason[r] => n.reason[r] = "unwanted" /\ gone(r) = m.consumers[r]
  BY DEF Manager, CleanupResults
<1> HIDE DEF n, gone
<1>3. \A r \in Recs : /\ n.consumers[r] \subseteq m.consumers[r]
                      /\ n.reason[r] # m.reason[r] =>
                            n.reason[r] = "unwanted" /\ n.consumers[r] = {}
  BY <1>2
<1>4. \A c \in m.cursors \ n.cursors : <<c, t + Ttl>> \in n.expired
  BY <1>1
<1> QED BY <1>1, <1>3, <1>4 DEF Prunes, n

LEMMA BeginPrunes ==
    ASSUME BuildInvariant
    PROVE  LET m == CleanupExpired(mgr, now) IN
           MgrOK(m) /\ m \in Manager /\ now \in Nat /\ Prunes(mgr, m, now)
<1> DEFINE m1 == SweepRetired(mgr, now)
           idle == {q \in Requests : HasCursor(m1, q) /\ m1.stream[q].expires <= now}
           m2 == CleanupResults(m1, idle, now)
           n == SweepSessions(m2, now)
<1>1. MgrOK(mgr) /\ mgr \in Manager /\ now \in Nat /\ MgrOK(CleanupExpired(mgr, now))
  BY Begin DEF MgrOK
<1>2. MgrOK(m1) /\ Prunes(mgr, m1, now)
  BY <1>1, SweepRetiredOK, SweepRetiredPrunes
<1>3. idle \in SUBSET Requests
  OBVIOUS
<1> HIDE DEF m1, idle
<1>4. MgrOK(m2) /\ Prunes(m1, m2, now)
  BY <1>1, <1>2, <1>3, CleanupResultsOK, CleanupResultsPrunes DEF MgrOK
<1> HIDE DEF m2
<1>5. Prunes(m2, n, now)
  BY <1>1, <1>4, SweepSessionsPrunes DEF MgrOK
<1>6. CleanupExpired(mgr, now) = n
  BY DEF CleanupExpired, m1, m2, idle
<1> HIDE DEF n
<1> QED BY <1>1, <1>2, <1>4, <1>5, <1>6, PrunesTwice DEF MgrOK

LEMMA ReleasePrunes ==
    ASSUME NEW m, m \in Manager, NEW r \in Recs, NEW q \in Requests, NEW t
    PROVE  Prunes(m, ReleaseConsumer(m, r, q), t)
<1> DEFINE n == ReleaseConsumer(m, r, q)
<1>1. CASE q \notin m.consumers[r]
  BY <1>1 DEF ReleaseConsumer, Prunes
<1>2. CASE q \in m.consumers[r]
  <2>1. /\ n.scope = m.scope /\ n.print = m.print /\ n.failures = m.failures
        /\ n.cursors = m.cursors /\ n.expired = m.expired
    BY DEF Manager, ReleaseConsumer
  <2>2. /\ n.consumers[r] = m.consumers[r] \ {q}
        /\ \A k \in Recs \ {r} : n.consumers[k] = m.consumers[k] /\ n.reason[k] = m.reason[k]
        /\ n.reason[r] # m.reason[r] => n.reason[r] = "unwanted" /\ m.consumers[r] = {q}
    BY <1>2 DEF Manager, ReleaseConsumer
  <2> HIDE DEF n
  <2>3. n.reason[r] # m.reason[r] => n.consumers[r] = {}
    BY <2>2
  <2> QED BY <2>1, <2>2, <2>3 DEF Prunes, n
<1> QED BY <1>1, <1>2

LEMMA ClaimPrunes ==
    ASSUME NEW m, m \in Manager, NEW c, NEW t \in Nat
    PROVE  Prunes(m, ClaimCursor(m, c, t), t)
<1> DEFINE n == ClaimCursor(m, c, t)
<1>1. /\ n.scope = m.scope /\ n.print = m.print /\ n.consumers = m.consumers
      /\ n.reason = m.reason /\ n.failures = m.failures
      /\ n.expired = m.expired \cup {<<c, t + Ttl>>} /\ n.cursors = m.cursors \ {c}
  BY DEF Manager, ClaimCursor
<1> QED BY <1>1 DEF Prunes

LEMMA ServePrunes ==
    ASSUME NEW m, m \in Manager, NEW q \in Requests,
           m.stream[q].kind = "live" =>
               /\ m.stream[q].rec \in Recs
               /\ m.stream[q].seen \in 1 .. Len(m.log[m.stream[q].rec]),
           NEW P \in Page(Available(m, q)), NEW t \in Nat
    PROVE  Prunes(m, Serve(m, q, P, t), t)
<1> DEFINE s == m.stream[q]
           more == \/ Available(m, q) # P
                   \/ s.kind = "live" /\ m.log[s.rec][s.seen].outcome # "success"
           e == ~more
           d == s.delivered \cup P
           s3 == [s EXCEPT !.delivered = d, !.reading = FALSE, !.ended = e]
           s2 == [s3 EXCEPT !.page = @ + 1, !.expires = t + Ttl]
           f == [m EXCEPT !.stream[q] = s3]
           n == Serve(m, q, P, t)
<1>1. CASE more
  <2> DEFINE next == <<q, s.page + 1>>
  <2>1. n = [m EXCEPT !.stream[q] = s2, !.cursors = @ \cup {next}]
    BY <1>1 DEF Serve
  <2> HIDE DEF s2, next
  <2>2. /\ n.scope = m.scope /\ n.print = m.print /\ n.consumers = m.consumers
        /\ n.reason = m.reason /\ n.failures = m.failures /\ n.expired = m.expired
        /\ n.cursors = m.cursors \cup {next}
    BY <2>1 DEF Manager
  <2> HIDE DEF n
  <2> QED BY <2>2, PrunesSame DEF n
<1>2. CASE ~more
  <2>1. n = CleanupResults(f, {q}, t)
    BY <1>2 DEF Serve, Finish
  <2>2. s3 \in Stream
    <3>1. P \in SUBSET Items /\ s \in Stream
      BY AvailableOK DEF Manager
    <3>2. d \in SUBSET Items /\ e \in BOOLEAN
      BY <3>1 DEF Stream
    <3> HIDE DEF d, e, s
    <3> QED BY <3>1, <3>2 DEF Stream
  <2> HIDE DEF s3, n
  <2>3. f \in Manager
    <3> DEFINE st == [m.stream EXCEPT ![q] = s3]
    <3>1. st \in [Requests -> Stream]
      BY <2>2 DEF Manager
    <3>2. f = [m EXCEPT !.stream = st]
      BY DEF Manager
    <3> HIDE DEF st, f
    <3> QED BY <3>1, <3>2 DEF Manager
  <2>4. /\ f.scope = m.scope /\ f.print = m.print /\ f.consumers = m.consumers
        /\ f.reason = m.reason /\ f.failures = m.failures /\ f.expired = m.expired
        /\ f.cursors = m.cursors
    BY DEF Manager
  <2> HIDE DEF f
  <2>5. Prunes(m, f, t)
    BY <2>4, PrunesSame
  <2> QED BY <2>1, <2>3, <2>5, CleanupResultsPrunes, PrunesTwice DEF n
<1> QED BY <1>1, <1>2
\* The bodies of AbortJustified and CursorRemembered.
AbortStep ==
    \A r \in Recs : mgr.reason'[r] # mgr.reason[r] =>
        \/ mgr.reason'[r] = "unwanted" /\ mgr.consumers'[r] \cap mgr.consumers[r] = {}
        \/ /\ mgr.reason'[r] = "stale"
           /\ Fingerprint(mgr.scope[r]) # mgr.print[r]
        \/ mgr.reason'[r] = "disposed" /\ mgr.phase' = "disposing"

RememberStep ==
    mgr.phase' # "disposed" =>
        /\ \A c \in mgr.cursors \ mgr.cursors' :
            \/ <<c, now + Ttl>> \in mgr.expired'
            \/ /\ <<c, now + Ttl>> \in mgr.failures'
               /\ mgr.terminal'[mgr.stream[c[1]].rec] \in Failures
        /\ \A g \in mgr.failures \ mgr.failures' : <<g[1], now + Ttl>> \in mgr.expired'

LEMMA PrunesStep ==
    ASSUME Prunes(mgr, mgr', now) PROVE AbortStep /\ RememberStep
<1>1. AbortStep
  BY DEF Prunes, AbortStep
<1>2. RememberStep
  BY DEF Prunes, RememberStep
<1> QED BY <1>1, <1>2

LEMMA SameStep ==
    ASSUME mgr' = mgr PROVE AbortStep /\ RememberStep
  BY DEF AbortStep, RememberStep

LEMMA AcquireStep ==
    ASSUME BuildInvariant, StreamInvariant, NEW q \in Requests, NEW s \in Scopes,
           NEW mode \in {"building", "progressive"}, Acquire(q, s, mode)
    PROVE  AbortStep /\ RememberStep
<1> DEFINE m == CleanupExpired(mgr, now)
           f == Fingerprint(s)
           hit == Lookup(m, s, f)
<1>1. m \in Manager /\ Prunes(mgr, m, now) /\ mgr.phase = "open" /\ pc[q] = "idle"
  BY BeginPrunes DEF Acquire
<1>2. PICK r \in Recs :
         /\ IF hit = {} THEN m.terminal[r] = "unused" ELSE r \in hit
         /\ mgr' = [(IF hit = {} THEN CreateRecord(m, r, s, f, now) ELSE m)
                       EXCEPT !.consumers[r] = @ \cup {q}]
  BY DEF Acquire
<1> HIDE DEF m, f, hit
<1>3. /\ mgr'.reason = m.reason /\ mgr'.cursors = m.cursors /\ mgr'.expired = m.expired
      /\ mgr'.failures = m.failures
      /\ \A k \in Recs : mgr'.consumers[k] \subseteq m.consumers[k] \cup {q}
  <2>1. CASE hit = {}
    <3>1. mgr' = [CreateRecord(m, r, s, f, now) EXCEPT !.consumers[r] = @ \cup {q}]
      BY <1>2, <2>1
    <3> QED BY <1>1, <3>1 DEF CreateRecord, Manager
  <2>2. CASE hit # {}
    <3>1. mgr' = [m EXCEPT !.consumers[r] = @ \cup {q}]
      BY <1>2, <2>2
    <3> QED BY <1>1, <3>1 DEF Manager
  <2> QED BY <2>1, <2>2
<1>4. \A k \in Recs : q \notin mgr.consumers[k]
  <2>1. \A k \in Recs : mgr.consumers[k] = Waiting[k] \cup Leases(mgr, k)
    BY <1>1 DEF StreamInvariant, Owned
  <2>2. mgr.stream[q].kind = "none"
    BY <1>1 DEF StreamInvariant, FreshOK
  <2> QED BY <1>1, <2>1, <2>2 DEF Waiting, Holding, Leases
<1>5. AbortStep
  <2> SUFFICES ASSUME NEW k \in Recs, mgr'.reason[k] # mgr.reason[k]
               PROVE  /\ mgr'.reason[k] = "unwanted"
                      /\ mgr'.consumers[k] \cap mgr.consumers[k] = {}
    BY DEF AbortStep
  <2>1. m.reason[k] = "unwanted" /\ m.consumers[k] = {}
    BY <1>1, <1>3 DEF Prunes
  <2>2. mgr'.consumers[k] \subseteq {q}
    BY <1>3, <2>1
  <2> QED BY <1>3, <1>4, <2>1, <2>2
<1>6. RememberStep
  BY <1>1, <1>3 DEF Prunes, RememberStep
<1> QED BY <1>5, <1>6

LEMMA WaitingStep ==
    ASSUME BuildInvariant, NEW q \in Requests,
           \/ AcquireRefused(q) \/ BuildResolved(q) \/ BuildRejected(q)
           \/ AbortBuilding(q) \/ CleanupAcknowledged(q)
           \/ AwaitFirstSnapshot(q) \/ AbortProgressive(q) \/ ProjectionThrows(q)
    PROVE  AbortStep /\ RememberStep
<1> DEFINE r == target[q]
           X == mgr.waiters[r] \cup {q}
           Y == mgr.waiters[r] \ {q}
           m == [mgr EXCEPT !.waiters[r] = Y]
<1>1. MgrOK(mgr) /\ mgr \in Manager /\ now \in Nat
  BY Begin DEF MgrOK
<1>2. CASE AcquireRefused(q) \/ CleanupAcknowledged(q) \/ ProjectionThrows(q)
  BY <1>2, SameStep DEF AcquireRefused, CleanupAcknowledged, ProjectionThrows
<1>3. CASE \/ BuildResolved(q) \/ BuildRejected(q) \/ AbortBuilding(q)
           \/ AwaitFirstSnapshot(q) \/ AbortProgressive(q)
  <2>1. /\ pc[q] \in {"building", "progressive"}
        /\ \/ mgr' = ReleaseConsumer(mgr, r, q)
           \/ mgr' = mgr
           \/ mgr' = [mgr EXCEPT !.waiters[r] = X]
           \/ mgr' = ReleaseConsumer(m, r, q)
    BY <1>3 DEF BuildResolved, BuildRejected, AbortBuilding, AwaitFirstSnapshot,
               AbortProgressive
  <2>2. r \in Recs
    BY <2>1, Begin
  <2>3. Y \in SUBSET Requests
    BY <1>1, <2>2 DEF Manager
  <2> HIDE DEF X, Y
  <2>4. CASE mgr' = [mgr EXCEPT !.waiters[r] = X]
    <3>1. /\ mgr'.scope = mgr.scope /\ mgr'.print = mgr.print
          /\ mgr'.consumers = mgr.consumers /\ mgr'.reason = mgr.reason
          /\ mgr'.failures = mgr.failures /\ mgr'.expired = mgr.expired
          /\ mgr'.cursors = mgr.cursors
      BY <1>1, <2>4 DEF Manager
    <3> QED BY <3>1, PrunesSame, PrunesStep
  <2>5. CASE mgr' = ReleaseConsumer(m, r, q)
    <3>1. /\ m.scope = mgr.scope /\ m.print = mgr.print
          /\ m.consumers = mgr.consumers /\ m.reason = mgr.reason
          /\ m.failures = mgr.failures /\ m.expired = mgr.expired
          /\ m.cursors = mgr.cursors
      BY <1>1 DEF Manager
    <3>2. m \in Manager
      BY <1>1, <2>2, <2>3, WaitersOK DEF MgrOK
    <3> HIDE DEF m
    <3>3. Prunes(mgr, m, now) /\ Prunes(m, mgr', now)
      BY <2>2, <2>5, <3>1, <3>2, PrunesSame, ReleasePrunes
    <3> QED BY <3>3, PrunesTwice, PrunesStep
  <2> QED BY <1>1, <2>1, <2>2, <2>4, <2>5, ReleasePrunes, SameStep, PrunesStep
<1> QED BY <1>2, <1>3

\* An exception changes no reason and takes no cursor but by the sweep.
LEMMA StoreThrowsStep ==
    ASSUME BuildInvariant, NEW q \in Requests, StoreThrows(q)
    PROVE  AbortStep /\ RememberStep
<1> DEFINE m == CleanupExpired(mgr, now)
<1>1. Prunes(mgr, m, now) /\ Littered(m, mgr', q)
  BY BeginPrunes, StoreThrowsIs
<1> HIDE DEF m
<1>2. Prunes(m, mgr', now)
  BY <1>1, PrunesSame DEF Littered
<1> QED BY <1>1, <1>2, PrunesTwice, PrunesStep

LEMMA PublishStep ==
    ASSUME BuildInvariant, NEW q \in Requests, PublishStatic(q) \/ PublishLive(q)
    PROVE  AbortStep /\ RememberStep
<1> DEFINE r == target[q]
           m == CleanupExpired(mgr, now)
<1>1. /\ MgrOK(m) /\ m \in Manager /\ now \in Nat /\ Prunes(mgr, m, now)
      /\ m.log = mgr.log /\ r \in Recs
  <2>1. m.log = mgr.log
    BY Begin, CleanupExpiredCleans DEF Cleans, Ends
  <2> QED BY <2>1, BeginPrunes, Begin DEF PublishStatic, PublishLive
<1>2. CASE PublishStatic(q)
  <2> DEFINE value == m.log[r][Len(m.log[r])].items
             st(P) == OpenStream("static", r, value, P, 0, 2, now)
             next == <<q, 2>>
  <2>1. \/ mgr' = mgr \/ mgr' = m \/ mgr' = CleanupBuildFiles(m, r)
        \/ \E P \in Page(value) :
              mgr' = [m EXCEPT !.resultDirs = @ \cup {q}, !.cursors = @ \cup {next},
                               !.stream[q] = st(P)]
    BY <1>2 DEF PublishStatic
  <2> HIDE DEF m, value, st, next
  <2>2. ASSUME mgr' # mgr PROVE Prunes(m, mgr', now)
    <3>1. /\ mgr'.scope = m.scope /\ mgr'.print = m.print
          /\ mgr'.consumers = m.consumers /\ mgr'.reason = m.reason
          /\ mgr'.failures = m.failures /\ mgr'.expired = m.expired
          /\ m.cursors \subseteq mgr'.cursors
      <4>1. ASSUME NEW P, mgr' = [m EXCEPT !.resultDirs = @ \cup {q},
                                           !.cursors = @ \cup {next}, !.stream[q] = st(P)]
            PROVE  /\ mgr'.scope = m.scope /\ mgr'.print = m.print
                   /\ mgr'.consumers = m.consumers /\ mgr'.reason = m.reason
                   /\ mgr'.failures = m.failures /\ mgr'.expired = m.expired
                   /\ m.cursors \subseteq mgr'.cursors
        <5> DEFINE sp == st(P)
        <5>1. mgr' = [m EXCEPT !.resultDirs = @ \cup {q}, !.cursors = @ \cup {next},
                               !.stream[q] = sp]
          BY <4>1
        <5> HIDE DEF sp
        <5> QED BY <1>1, <5>1 DEF Manager
      <4>2. CASE mgr' = CleanupBuildFiles(m, r)
        BY <1>1, <4>2 DEF CleanupBuildFiles, Manager
      <4> QED BY <2>1, <2>2, <4>1, <4>2
    <3> QED BY <3>1, PrunesSame
  <2> QED BY <1>1, <2>2, PrunesTwice, PrunesStep, SameStep
<1>3. CASE PublishLive(q)
  <2> DEFINE s == OpenStream("live", r, {}, {}, NextVersion(m, r, 0), 1, now)
             m1 == [m EXCEPT !.resultDirs = @ \cup {q}, !.stream[q] = s]
  <2>1. \/ mgr' = mgr \/ mgr' = ReleaseConsumer(m, r, q) \/ mgr' = m1
        \/ \E P \in Page(Available(m1, q)) : mgr' = Serve(m1, q, P, now)
    BY <1>3 DEF PublishLive
  <2>2. m.log[r] \in Seq(Event) /\ m.log[r] # <<>>
    BY <1>1, <1>3 DEF Manager, PublishLive, BuildInvariant, RequestsOK
  <2>3. NextVersion(m, r, 0) = 1 /\ 1 \in 1 .. Len(m.log[r])
    <3>1. Len(m.log[r]) \in Nat /\ Len(m.log[r]) > 0
      BY <2>2
    <3> QED BY <3>1 DEF NextVersion
  <2>4. s \in Stream /\ s.rec = r /\ s.seen = 1
    <3>1. s = OpenStream("live", r, {}, {}, 1, 1, now)
      BY <2>3
    <3> HIDE DEF m, s, r
    <3> QED BY <1>1, <3>1, OpenLive
  <2> HIDE DEF m, s, r
  <2>5. /\ m1.scope = m.scope /\ m1.print = m.print /\ m1.log = m.log
        /\ m1.consumers = m.consumers /\ m1.reason = m.reason
        /\ m1.failures = m.failures /\ m1.expired = m.expired
        /\ m1.cursors = m.cursors /\ m1.stream[q] = s
    BY <1>1 DEF Manager
  <2>6. m1 \in Manager
    <3> DEFINE st == [m.stream EXCEPT ![q] = s]
               rd == m.resultDirs \cup {q}
    <3>1. st \in [Requests -> Stream] /\ rd \in SUBSET Requests
      BY <1>1, <2>4 DEF Manager
    <3>2. m1 = [m EXCEPT !.resultDirs = rd, !.stream = st]
      BY <1>1 DEF Manager
    <3> HIDE DEF st, rd, m1
    <3> QED BY <1>1, <3>1, <3>2 DEF Manager
  <2> HIDE DEF m1
  <2>7. Prunes(m, m1, now)
    BY <2>5, PrunesSame
  <2>8. m1.stream[q].rec \in Recs /\ m1.stream[q].seen \in 1 .. Len(m1.log[m1.stream[q].rec])
    BY <1>1, <2>3, <2>4, <2>5
  <2>9. CASE mgr' = m1
    BY <1>1, <2>7, <2>9, PrunesTwice, PrunesStep
  <2>10. CASE \E P \in Page(Available(m1, q)) : mgr' = Serve(m1, q, P, now)
    <3>1. Prunes(m1, mgr', now)
      BY <1>1, <2>6, <2>8, <2>10, ServePrunes
    <3> QED BY <1>1, <2>7, <3>1, PrunesTwice, PrunesStep
  <2>11. CASE mgr' = ReleaseConsumer(m, r, q)
    BY <1>1, <2>11, ReleasePrunes, PrunesTwice, PrunesStep
  <2> QED BY <2>1, <2>9, <2>10, <2>11, SameStep
<1> QED BY <1>2, <1>3

\* A live read that goes on, and a page asked for by cursor.
LEMMA LiveReadTurnStep ==
    ASSUME BuildInvariant, NEW q \in Requests, LiveReadTurn(q)
    PROVE  AbortStep /\ RememberStep
<1> DEFINE r == mgr.stream[q].rec
           x == mgr.stream[q].seen
           v == NextVersion(mgr, r, x)
           m == [mgr EXCEPT !.stream[q].seen = v]
           X == mgr.waiters[r] \cup {q}
<1>1. MgrOK(mgr) /\ mgr \in Manager /\ now \in Nat /\ mgr.stream[q].reading
  BY Begin DEF LiveReadTurn, MgrOK
<1>2. /\ mgr.stream[q] \in Stream /\ mgr.stream[q].kind = "live" /\ r \in Recs
      /\ mgr.log[r] \in Seq(Event) /\ x \in 1 .. Len(mgr.log[r])
  BY <1>1 DEF MgrOK, Manager, StreamsOK
<1>3. \/ mgr' = CleanupResults(mgr, {q}, now)
      \/ mgr' = [mgr EXCEPT !.waiters[r] = X]
      \/ v # 0 /\ mgr' = m
      \/ v # 0 /\ \E P \in Page(Available(m, q)) : mgr' = Serve(m, q, P, now)
  BY DEF LiveReadTurn
<1>4. CASE mgr' = CleanupResults(mgr, {q}, now)
  BY <1>1, <1>4, CleanupResultsPrunes, PrunesStep
<1>5. CASE mgr' = [mgr EXCEPT !.waiters[r] = X]
  <2> HIDE DEF X
  <2>1. /\ mgr'.scope = mgr.scope /\ mgr'.print = mgr.print
        /\ mgr'.consumers = mgr.consumers /\ mgr'.reason = mgr.reason
        /\ mgr'.failures = mgr.failures /\ mgr'.expired = mgr.expired
        /\ mgr'.cursors = mgr.cursors
    BY <1>1, <1>5 DEF Manager
  <2> QED BY <2>1, PrunesSame, PrunesStep
<1>6. /\ m.scope = mgr.scope /\ m.print = mgr.print /\ m.log = mgr.log
      /\ m.consumers = mgr.consumers /\ m.reason = mgr.reason
      /\ m.failures = mgr.failures /\ m.expired = mgr.expired
      /\ m.cursors = mgr.cursors /\ m.stream[q] = [mgr.stream[q] EXCEPT !.seen = v]
  <2> HIDE DEF v
  <2> QED BY <1>1 DEF Manager
<1>7. Prunes(mgr, m, now)
  <2> HIDE DEF m
  <2> QED BY <1>6, PrunesSame
<1>8. ASSUME v # 0, NEW P \in Page(Available(m, q)) PROVE Prunes(m, Serve(m, q, P, now), now)
  <2> DEFINE l == Len(mgr.log[r])
  <2>1. l \in Nat /\ x \in 1 .. l
    BY <1>2
  <2>2. v = IF l > x THEN x + 1 ELSE IF mgr.terminal[r] = "success" THEN l ELSE 0
    BY DEF NextVersion
  <2>3. v \in 1 .. l
    <3> HIDE DEF v, l, x
    <3> QED BY <1>8, <2>1, <2>2
  <2> HIDE DEF v
  <2>4. ASSUME NEW y \in Stream
        PROVE  LET z == [y EXCEPT !.seen = v] IN
               z \in Stream /\ z.rec = y.rec /\ z.seen = v
    <3>1. v \in Nat
      BY <2>1, <2>3
    <3> QED BY <3>1 DEF Stream
  <2>5. m \in Manager
    <3> DEFINE st == [mgr.stream EXCEPT ![q].seen = v]
    <3>1. mgr.stream \in [Requests -> Stream]
      BY <1>1 DEF Manager
    <3>2. st \in [Requests -> Stream]
      BY <2>4, <3>1
    <3>3. m = [mgr EXCEPT !.stream = st]
      BY <1>1 DEF Manager
    <3> HIDE DEF st, m, r, x, l
    <3> QED BY <1>1, <3>2, <3>3 DEF Manager
  <2> HIDE DEF m
  <2>6. m.stream[q].rec = r /\ m.stream[q].seen = v
    BY <1>2, <1>6, <2>4
  <2>7. m.stream[q].rec \in Recs /\ m.stream[q].seen \in 1 .. Len(m.log[m.stream[q].rec])
    BY <1>2, <1>6, <2>3, <2>6
  <2> QED BY <1>1, <1>8, <2>5, <2>7, ServePrunes
<1> HIDE DEF m, v
<1>9. CASE mgr' = m
  BY <1>7, <1>9, PrunesStep
<1>10. CASE v # 0 /\ \E P \in Page(Available(m, q)) : mgr' = Serve(m, q, P, now)
  <2>1. Prunes(m, mgr', now)
    BY <1>8, <1>10
  <2> QED BY <1>7, <2>1, PrunesTwice, PrunesStep
<1> QED BY <1>3, <1>4, <1>5, <1>9, <1>10

LEMMA ReadThrowsStep ==
    ASSUME BuildInvariant, NEW q \in Requests, ReadThrows(q)
    PROVE  AbortStep /\ RememberStep
<1>1. MgrOK(mgr) /\ mgr \in Manager /\ now \in Nat /\ mgr' = CleanupResults(mgr, {q}, now)
  BY Begin DEF ReadThrows, MgrOK
<1> QED BY <1>1, CleanupResultsPrunes, PrunesStep

LEMMA ReadContinuationStep ==
    ASSUME BuildInvariant, NEW c \in Cursor, NEW root, ReadContinuation(c, root)
    PROVE  AbortStep /\ RememberStep
<1> DEFINE q == c[1]
           m == CleanupExpired(mgr, now)
           r == m.stream[q].rec
           m1 == ClaimCursor(m, c, now)
<1>1. /\ MgrOK(m) /\ m \in Manager /\ now \in Nat /\ q \in Requests
      /\ Prunes(mgr, m, now)
  BY BeginPrunes DEF Cursor
<1>2. \/ mgr' = m
      \/ /\ c \in m.cursors /\ Fingerprint(m.scope[r]) # m.print[r]
         /\ mgr' = InvalidateFactSession(CleanupResults(m, {q}, now), r)
      \/ mgr' = m1
      \/ c \in m.cursors /\ \E P \in Page(Available(m1, q)) : mgr' = Serve(m1, q, P, now)
  BY DEF ReadContinuation
<1> HIDE DEF m
<1>3. c \in m.cursors => /\ r \in Recs
                         /\ m.stream[q].kind = "live" =>
                               m.stream[q].seen \in 1 .. Len(m.log[r])
  BY <1>1 DEF MgrOK, StreamsOK, HasCursor
<1>4. CASE /\ c \in m.cursors /\ Fingerprint(m.scope[r]) # m.print[r]
           /\ mgr' = InvalidateFactSession(CleanupResults(m, {q}, now), r)
  <2> DEFINE m2 == CleanupResults(m, {q}, now)
  <2>1. m2 \in Manager /\ Prunes(m, m2, now)
    BY <1>1, CleanupResultsOK, CleanupResultsPrunes DEF MgrOK
  <2> HIDE DEF m2
  <2>2. mgr' = InvalidateFactSession(m2, r)
    BY <1>4 DEF m2
  <2>3. /\ mgr'.consumers = m2.consumers /\ mgr'.failures = m2.failures
        /\ mgr'.expired = m2.expired /\ mgr'.cursors = m2.cursors
        /\ \A k \in Recs : mgr'.reason[k] # m2.reason[k] => k = r /\ mgr'.reason[k] = "stale"
    BY <2>1, <2>2 DEF InvalidateFactSession, Manager
  <2>4. Prunes(mgr, m2, now)
    BY <1>1, <2>1, PrunesTwice
  <2>5. RememberStep
    BY <2>3, <2>4 DEF Prunes, RememberStep
  <2>6. AbortStep
    <3> SUFFICES ASSUME NEW k \in Recs, mgr'.reason[k] # mgr.reason[k]
                 PROVE  \/ /\ mgr'.reason[k] = "unwanted"
                           /\ mgr'.consumers[k] \cap mgr.consumers[k] = {}
                        \/ /\ mgr'.reason[k] = "stale"
                           /\ Fingerprint(mgr.scope[k]) # mgr.print[k]
      BY DEF AbortStep
    <3>1. CASE mgr'.reason[k] # m2.reason[k]
      <4>1. k = r /\ mgr'.reason[k] = "stale"
        BY <2>3, <3>1
      <4>2. m.scope = mgr.scope /\ m.print = mgr.print
        BY <1>1 DEF Prunes
      <4> QED BY <1>4, <4>1, <4>2
    <3>2. CASE mgr'.reason[k] = m2.reason[k]
      BY <2>3, <2>4, <3>2 DEF Prunes
    <3> QED BY <3>1, <3>2
  <2> QED BY <2>5, <2>6
<1>5. Prunes(mgr, m1, now)
  BY <1>1, ClaimPrunes, PrunesTwice
<1>6. CASE c \in m.cursors /\ \E P \in Page(Available(m1, q)) : mgr' = Serve(m1, q, P, now)
  <2> DEFINE s == [m.stream[q] EXCEPT !.reading = TRUE]
             cu == m.cursors \ {c}
             ex == m.expired \cup {<<c, now + Ttl>>}
             st == [m.stream EXCEPT ![q] = s]
  <2>1. /\ s \in Stream /\ s.kind = m.stream[q].kind /\ s.rec = r
        /\ s.seen = m.stream[q].seen
    <3>1. ASSUME NEW y \in Stream
          PROVE  LET z == [y EXCEPT !.reading = TRUE] IN
                 /\ z \in Stream /\ z.kind = y.kind /\ z.rec = y.rec /\ z.seen = y.seen
      BY DEF Stream
    <3>2. m.stream[q] \in Stream
      BY <1>1 DEF Manager
    <3> HIDE DEF q
    <3> QED BY <3>1, <3>2
  <2>2. m1 = [m EXCEPT !.cursors = cu, !.expired = ex, !.stream = st]
    BY <1>1 DEF ClaimCursor, Manager
  <2>3. cu \in SUBSET Cursor /\ ex \in SUBSET (Cursor \X Nat)
    <3>1. now + Ttl \in Nat
      BY <1>1, TtlAssumption
    <3> QED BY <1>1, <3>1 DEF Manager
  <2>4. st \in [Requests -> Stream] /\ st[q] = s
    <3> HIDE DEF s
    <3> QED BY <1>1, <2>1 DEF Manager
  <2> HIDE DEF s, cu, ex, st, m1
  <2>5. m1 \in Manager /\ m1.log = m.log /\ m1.stream[q] = s
    <3> HIDE DEF q
    <3> QED BY <1>1, <2>2, <2>3, <2>4 DEF Manager
  <2>6. m1.stream[q].kind = "live" =>
           /\ m1.stream[q].rec \in Recs
           /\ m1.stream[q].seen \in 1 .. Len(m1.log[m1.stream[q].rec])
    BY <1>3, <1>6, <2>1, <2>5
  <2> HIDE DEF q
  <2>7. Prunes(m1, mgr', now)
    BY <1>1, <1>6, <2>5, <2>6, ServePrunes
  <2> QED BY <1>5, <2>7, PrunesTwice, PrunesStep
<1> QED BY <1>1, <1>2, <1>4, <1>5, <1>6, PrunesStep

LEMMA CancelContinuationStep ==
    ASSUME BuildInvariant, NEW c \in Cursor, NEW root, CancelContinuation(c, root)
    PROVE  AbortStep /\ RememberStep
<1> DEFINE m == CleanupExpired(mgr, now)
           S == {c[1]}
<1>1. /\ m \in Manager /\ now \in Nat /\ S \in SUBSET Requests /\ Prunes(mgr, m, now)
  BY BeginPrunes DEF Cursor
<1>2. mgr' = m \/ mgr' = CleanupResults(m, S, now)
  BY DEF CancelContinuation
<1> HIDE DEF m, S
<1> QED BY <1>1, <1>2, CleanupResultsPrunes, PrunesTwice, PrunesStep

\* The build worker: a failed build turns the cursors of its streams into failures.
LEMMA WorkerStep ==
    ASSUME BuildInvariant, NEW r \in Recs,
           WorkerPublish(r) \/ WorkerReturns(r) \/ WorkerThrows(r)
    PROVE  AbortStep /\ RememberStep
<1>1. MgrOK(mgr) /\ mgr \in Manager
  BY Begin DEF MgrOK
<1>2. \/ \E I \in SUBSET Items : mgr' = PublishEvent(mgr, r, "progress", I)
      \/ \E k \in Failures : mgr' = SettleFailed(mgr, r, k, now)
      \/ \E I \in SUBSET Items :
            mgr' = [Settle(PublishEvent(mgr, r, "success", I), r, "success") EXCEPT
                       !.expires[r] = now + Ttl]
  BY DEF WorkerPublish, WorkerReturns, WorkerThrows, Failures
<1>3. ASSUME NEW I, \/ mgr' = PublishEvent(mgr, r, "progress", I)
                    \/ mgr' = [Settle(PublishEvent(mgr, r, "success", I), r, "success") EXCEPT
                                  !.expires[r] = now + Ttl]
      PROVE  AbortStep /\ RememberStep
  <2>1. /\ mgr'.scope = mgr.scope /\ mgr'.print = mgr.print
        /\ mgr'.consumers = mgr.consumers /\ mgr'.reason = mgr.reason
        /\ mgr'.failures = mgr.failures /\ mgr'.expired = mgr.expired
        /\ mgr'.cursors = mgr.cursors
    BY <1>1, <1>3 DEF PublishEvent, Settle, Manager
  <2> QED BY <2>1, PrunesSame, PrunesStep
<1>4. ASSUME NEW k \in Failures, mgr' = SettleFailed(mgr, r, k, now)
      PROVE  AbortStep /\ RememberStep
  <2> DEFINE L == {q \in LeasedBy(mgr, Requests, r) : HasCursor(mgr, q)}
  <2>1. /\ mgr'.reason = mgr.reason /\ mgr'.expired = mgr.expired
        /\ mgr'.cursors = {c \in mgr.cursors : c[1] \notin L}
        /\ mgr'.failures = mgr.failures
                              \cup {<<c, now + Ttl>> : c \in {d \in mgr.cursors : d[1] \in L}}
        /\ mgr'.terminal[r] = k
    BY <1>1, <1>4 DEF SettleFailed, Settle, FailCursors, Manager
  <2>2. \A q \in L : mgr.stream[q].rec = r
    BY DEF LeasedBy
  <2> HIDE DEF L
  <2>3. AbortStep
    BY <2>1 DEF AbortStep
  <2>4. RememberStep
    BY <2>1, <2>2 DEF RememberStep
  <2> QED BY <2>3, <2>4
<1> QED BY <1>2, <1>3, <1>4

\* Shutdown.
LEMMA ShutdownStep ==
    ASSUME BuildInvariant, Dispose \/ DisposeDone
    PROVE  AbortStep /\ RememberStep
<1>1. mgr \in Manager
  BY DEF BuildInvariant, TypeOK
<1>2. CASE Dispose
  <2>1. /\ mgr'.phase = "disposing" /\ mgr'.cursors = mgr.cursors
        /\ mgr'.failures = mgr.failures
        /\ \A r \in Recs : mgr'.reason[r] # mgr.reason[r] => mgr'.reason[r] = "disposed"
    BY <1>1, <1>2 DEF Dispose, Manager
  <2> QED BY <2>1 DEF AbortStep, RememberStep
<1>3. CASE DisposeDone
  <2>1. mgr'.phase = "disposed" /\ mgr'.reason = mgr.reason
    BY <1>1, <1>3 DEF DisposeDone, Manager
  <2> QED BY <2>1 DEF AbortStep, RememberStep
<1> QED BY <1>2, <1>3

LEMMA StepsOK ==
    BuildInvariant /\ StreamInvariant /\ [Next]_vars => AbortStep /\ RememberStep
<1> SUFFICES ASSUME BuildInvariant, StreamInvariant, [Next]_vars
             PROVE  AbortStep /\ RememberStep
  OBVIOUS
<1>1. CASE mgr' = mgr
  BY <1>1, SameStep
<1>2. CASE NewRequest
  BY <1>2, AcquireStep, WaitingStep, PublishStep, StoreThrowsStep DEF NewRequest
<1>3. CASE CursorCall
  <2>1. Issued \subseteq Cursor
    <3>1. Cardinality(Items) \in Nat
      BY ItemsAssumption, FS_CardinalityType
    <3> QED BY <3>1 DEF Issued, Cursor
  <2> QED BY <1>3, <2>1, ReadContinuationStep, CancelContinuationStep, LiveReadTurnStep,
          ReadThrowsStep
          DEF CursorCall
<1>4. CASE Worker
  BY <1>4, WorkerStep DEF Worker
<1>5. CASE Dispose \/ DisposeDone
  BY <1>5, ShutdownStep
<1> QED BY <1>1, <1>2, <1>3, <1>4, <1>5
        DEF Next, Environment, ClockTick, EditSources, vars

\* A build is told to stop only when none of those who waited for it is left, its
\* sources have changed, or the manager shuts down.
THEOREM AbortsAreJustified == Spec => AbortJustified
<1>1. BuildInvariant /\ StreamInvariant /\ [Next]_vars => [AbortStep]_vars
  BY StepsOK
<1>2. AbortJustified <=> [][AbortStep]_vars
  BY DEF AbortJustified, AbortStep
<1> QED BY <1>1, <1>2, StreamsInvariance, PTL DEF Spec

\* Until the manager is disposed of, a cursor that goes is remembered for a whole TTL,
\* and a failure for another one after its own.
THEOREM CursorsAreRemembered == Spec => CursorRemembered
<1>1. BuildInvariant /\ StreamInvariant /\ [Next]_vars => [RememberStep]_vars
  BY StepsOK
<1>2. CursorRemembered <=> [][RememberStep]_vars
  BY DEF CursorRemembered, RememberStep
<1> QED BY <1>1, <1>2, StreamsInvariance, PTL DEF Spec
-----------------------------------------------------------------------------
(***************************************************************************)
(* Every request is answered.                                              *)
(***************************************************************************)

\* The outcomes and the events of the builds, and who waits for them, stay as they are.
Kept == {"terminal", "log", "waiters"}
Keeps(m, n) ==
    Kept \subseteq DOMAIN m =>
        /\ Kept \subseteq DOMAIN n
        /\ n.terminal = m.terminal /\ n.log = m.log /\ n.waiters = m.waiters

LEMMA KeepsTwice ==
    ASSUME NEW l, NEW m, NEW n, Keeps(l, m), Keeps(m, n) PROVE Keeps(l, n)
  BY DEF Keeps, Kept

LEMMA CleanupKeeps ==
    ASSUME NEW m, NEW S, NEW t PROVE Keeps(m, CleanupResults(m, S, t))
  BY DEF Keeps, Kept, CleanupResults

LEMMA SweepKeeps ==
    ASSUME NEW m, NEW t PROVE Keeps(m, CleanupExpired(m, t))
<1> DEFINE m1 == SweepRetired(m, t)
           idle == {q \in Requests : HasCursor(m1, q) /\ m1.stream[q].expires <= t}
           m2 == CleanupResults(m1, idle, t)
<1>1. Keeps(m, m1)
  BY DEF Keeps, Kept, SweepRetired
<1>2. CleanupExpired(m, t) = SweepSessions(m2, t)
  BY DEF CleanupExpired
<1> HIDE DEF m1, idle
<1>3. Keeps(m1, m2)
  BY CleanupKeeps
<1> HIDE DEF m2
<1>4. Keeps(m2, SweepSessions(m2, t))
  BY DEF Keeps, Kept, SweepSessions
<1> QED BY <1>1, <1>2, <1>3, <1>4, KeepsTwice

LEMMA ServeKeeps ==
    ASSUME NEW m, NEW q, NEW P, NEW t PROVE Keeps(m, Serve(m, q, P, t))
<1>1. ASSUME NEW x, NEW y
      PROVE  Keeps(m, [m EXCEPT !.stream[q] = x, !.cursors = y]) /\ Keeps(m, [m EXCEPT !.stream[q] = x])
  BY DEF Keeps, Kept
<1> QED BY <1>1, CleanupKeeps DEF Keeps, Kept, Serve, Finish

LEMMA OthersKeep ==
    ASSUME NEW m, NEW r, NEW q, NEW c, NEW t
    PROVE  /\ Keeps(m, ReleaseConsumer(m, r, q)) /\ Keeps(m, CleanupBuildFiles(m, r))
           /\ Keeps(m, InvalidateFactSession(m, r)) /\ Keeps(m, ClaimCursor(m, c, t))
<1>1. Keeps(m, ReleaseConsumer(m, r, q)) /\ Keeps(m, CleanupBuildFiles(m, r))
  BY DEF Keeps, Kept, ReleaseConsumer, CleanupBuildFiles
<1>2. Keeps(m, InvalidateFactSession(m, r)) /\ Keeps(m, ClaimCursor(m, c, t))
  BY DEF Keeps, Kept, InvalidateFactSession, ClaimCursor
<1> QED BY <1>1, <1>2

\* Most calls of a client, and the clean-up, change nothing of that.
LEMMA CallsKeep ==
    ASSUME NEW q,
           \/ AcquireRefused(q) \/ BuildResolved(q) \/ BuildRejected(q)
           \/ AbortBuilding(q) \/ CleanupAcknowledged(q)
           \/ ProjectionThrows(q) \/ StoreThrows(q) \/ PublishStatic(q) \/ PublishLive(q)
           \/ ReadThrows(q)
           \/ \E c, root : ReadContinuation(c, root) \/ CancelContinuation(c, root)
    PROVE  Keeps(mgr, mgr')
<1> DEFINE e == CleanupExpired(mgr, now)
<1>1. Keeps(mgr, e) /\ Keeps(mgr, mgr)
  BY SweepKeeps DEF Keeps, Kept
<1> HIDE DEF e
<1>2. CASE AcquireRefused(q) \/ CleanupAcknowledged(q) \/ ProjectionThrows(q)
  BY <1>1, <1>2 DEF AcquireRefused, CleanupAcknowledged, ProjectionThrows
<1>3. CASE BuildResolved(q) \/ BuildRejected(q) \/ AbortBuilding(q)
  BY <1>3, OthersKeep DEF BuildResolved, BuildRejected, AbortBuilding
<1>4. CASE PublishStatic(q)
  <2>1. ASSUME NEW D, NEW C, NEW s
        PROVE  Keeps(e, [e EXCEPT !.resultDirs = D, !.cursors = C, !.stream[q] = s])
    BY DEF Keeps, Kept
  <2>2. \/ mgr' = mgr \/ mgr' = e \/ mgr' = CleanupBuildFiles(e, target[q])
        \/ \E P : mgr' = [e EXCEPT !.resultDirs = e.resultDirs \cup {q},
                                   !.cursors = e.cursors \cup {<<q, 2>>},
                                   !.stream[q] = OpenStream("static", target[q],
                                       e.log[target[q]][Len(e.log[target[q]])].items, P, 0, 2, now)]
    BY <1>4 DEF PublishStatic, e
  <2> QED BY <1>1, <2>1, <2>2, OthersKeep, KeepsTwice
<1>5. CASE PublishLive(q)
  <2> DEFINE s == OpenStream("live", target[q], {}, {}, NextVersion(e, target[q], 0), 1, now)
             m1 == [e EXCEPT !.resultDirs = e.resultDirs \cup {q}, !.stream[q] = s]
  <2>1. \/ mgr' = mgr \/ mgr' = ReleaseConsumer(e, target[q], q) \/ mgr' = m1
        \/ \E P : mgr' = Serve(m1, q, P, now)
    BY <1>5 DEF PublishLive, e
  <2> HIDE DEF s
  <2>2. Keeps(e, m1)
    BY DEF Keeps, Kept
  <2> HIDE DEF m1
  <2>3. Keeps(mgr, m1)
    BY <1>1, <2>2, KeepsTwice
  <2>4. ASSUME NEW P PROVE Keeps(mgr, Serve(m1, q, P, now))
    BY <2>3, ServeKeeps, KeepsTwice
  <2>5. Keeps(mgr, ReleaseConsumer(e, target[q], q))
    BY <1>1, OthersKeep, KeepsTwice
  <2> QED BY <1>1, <2>1, <2>3, <2>4, <2>5
<1>6. ASSUME NEW c, NEW root, ReadContinuation(c, root) \/ CancelContinuation(c, root)
      PROVE  Keeps(mgr, mgr')
  <2>1. \/ mgr' = e \/ mgr' = CleanupResults(e, {c[1]}, now)
        \/ \E r : mgr' = InvalidateFactSession(CleanupResults(e, {c[1]}, now), r)
        \/ mgr' = ClaimCursor(e, c, now)
        \/ \E P : mgr' = Serve(ClaimCursor(e, c, now), c[1], P, now)
    BY <1>6 DEF ReadContinuation, CancelContinuation, e
  <2> QED BY <1>1, <2>1, CleanupKeeps, OthersKeep, ServeKeeps, KeepsTwice
<1>7. CASE StoreThrows(q)
  <2>1. mgr' = e \/ mgr' = [e EXCEPT !.resultDirs = e.resultDirs \cup {q}]
    BY <1>7 DEF StoreThrows, e
  <2>2. ASSUME NEW D PROVE Keeps(e, [e EXCEPT !.resultDirs = D])
    BY DEF Keeps, Kept
  <2> QED BY <1>1, <2>1, <2>2, KeepsTwice
<1>8. CASE ReadThrows(q)
  BY <1>8, CleanupKeeps DEF ReadThrows
<1> QED BY <1>2, <1>3, <1>4, <1>5, <1>6, <1>7, <1>8

LEMMA BeginKeeps ==
    ASSUME mgr \in Manager
    PROVE  LET m == CleanupExpired(mgr, now) IN
           m.terminal = mgr.terminal /\ m.log = mgr.log /\ m.waiters = mgr.waiters
<1>1. Kept \subseteq DOMAIN mgr
  BY DEF Manager, Kept
<1> QED BY <1>1, SweepKeeps DEF Keeps

\* A request, or a read that has come to event v, parks at r, which has no more for it.
Parks(q, r, v) ==
    /\ mgr'.terminal = mgr.terminal /\ mgr'.log = mgr.log /\ mgr'.stream = mgr.stream
    /\ mgr'.waiters = [mgr.waiters EXCEPT ![r] = @ \cup {q}]
    /\ mgr.terminal[r] \notin Failures /\ ~(NextVersion(mgr, r, v) > 0)

\* The three turns that may touch the waiters.
LEMMA TurnsPark ==
    ASSUME mgr \in Manager, NEW q \in Requests
    PROVE  /\ AwaitFirstSnapshot(q) =>
                  Keeps(mgr, mgr') \/ (Parks(q, target[q], 0) /\ pc' = pc)
           /\ LiveReadTurn(q) =>
                  Keeps(mgr, mgr') \/ Parks(q, mgr.stream[q].rec, mgr.stream[q].seen)
           /\ AbortProgressive(q) =>
                  /\ mgr'.terminal = mgr.terminal /\ mgr'.log = mgr.log
                  /\ mgr'.waiters = [mgr.waiters EXCEPT ![target[q]] = @ \ {q}]
<1>1. ASSUME NEW r, NEW W
      PROVE  LET n == [mgr EXCEPT !.waiters[r] = W] IN
             /\ n.terminal = mgr.terminal /\ n.log = mgr.log /\ n.stream = mgr.stream
             /\ n.waiters = [mgr.waiters EXCEPT ![r] = W]
             /\ Kept \subseteq DOMAIN n
  BY DEF Manager, Kept
<1>2. Keeps(mgr, mgr)
  BY DEF Keeps
<1>3. ASSUME AwaitFirstSnapshot(q)
      PROVE  Keeps(mgr, mgr') \/ (Parks(q, target[q], 0) /\ pc' = pc)
  <2> DEFINE r == target[q]
  <2>1. CASE mgr' = mgr \/ mgr' = ReleaseConsumer(mgr, r, q)
    BY <1>2, <2>1, OthersKeep
  <2>2. CASE /\ mgr.terminal[r] \notin Failures /\ ~(NextVersion(mgr, r, 0) > 0) /\ pc' = pc
             /\ mgr' = [mgr EXCEPT !.waiters[r] = mgr.waiters[r] \cup {q}]
    BY <1>1, <2>2 DEF Parks
  <2> QED BY <1>3, <2>1, <2>2 DEF AwaitFirstSnapshot
<1>4. ASSUME LiveReadTurn(q)
      PROVE  Keeps(mgr, mgr') \/ Parks(q, mgr.stream[q].rec, mgr.stream[q].seen)
  <2> DEFINE r == mgr.stream[q].rec
             v == NextVersion(mgr, r, mgr.stream[q].seen)
             m == [mgr EXCEPT !.stream[q].seen = v]
  <2>1. CASE mgr' = CleanupResults(mgr, {q}, now)
    BY <2>1, CleanupKeeps
  <2>2. CASE /\ mgr.terminal[r] \notin Failures /\ v = 0
             /\ mgr' = [mgr EXCEPT !.waiters[r] = mgr.waiters[r] \cup {q}]
    <3>1. ~(v > 0)
      BY <2>2
    <3> QED BY <1>1, <2>2, <3>1 DEF Parks
  <2>3. CASE mgr' = m \/ \E P : mgr' = Serve(m, q, P, now)
    <3> HIDE DEF v
    <3>1. Keeps(mgr, m)
      BY DEF Keeps, Kept
    <3> HIDE DEF m
    <3> QED BY <2>3, <3>1, ServeKeeps, KeepsTwice
  <2> QED BY <1>4, <2>1, <2>2, <2>3 DEF LiveReadTurn
<1>5. ASSUME AbortProgressive(q)
      PROVE  /\ mgr'.terminal = mgr.terminal /\ mgr'.log = mgr.log
             /\ mgr'.waiters = [mgr.waiters EXCEPT ![target[q]] = @ \ {q}]
  <2> DEFINE r == target[q]
             W == mgr.waiters[r] \ {q}
             m == [mgr EXCEPT !.waiters[r] = W]
  <2>1. mgr' = ReleaseConsumer(m, r, q)
    BY <1>5 DEF AbortProgressive
  <2>2. /\ m.terminal = mgr.terminal /\ m.log = mgr.log /\ Kept \subseteq DOMAIN m
        /\ m.waiters = [mgr.waiters EXCEPT ![r] = W]
    BY <1>1
  <2> HIDE DEF m
  <2>3. Keeps(m, mgr')
    BY <2>1, OthersKeep
  <2> QED BY <2>2, <2>3 DEF Keeps
<1> QED BY <1>3, <1>4, <1>5

Outcome(r) == mgr.terminal[r]
Finished == {"success"} \cup Failures

\* Who is parked changes by these turns only.
ParkingStep ==
    \/ mgr'.waiters = mgr.waiters
    \/ \E q \in Requests : /\ AwaitFirstSnapshot(q) /\ pc' = pc
                           /\ Parks(q, target[q], 0)
    \/ \E q \in Requests : /\ LiveReadTurn(q)
                           /\ Parks(q, mgr.stream[q].rec, mgr.stream[q].seen)
    \/ \E q \in Requests : /\ AbortProgressive(q)
                           /\ mgr'.waiters = [mgr.waiters EXCEPT ![target[q]] = @ \ {q}]

\* Without a step of a worker no build has an event or an outcome; one may begin.
QuietStep ==
    /\ mgr'.log = mgr.log
    /\ \A r \in Recs : \/ Outcome(r)' = Outcome(r)
                       \/ Outcome(r) = "unused" /\ Outcome(r)' = "pending"
    /\ ParkingStep

LEMMA OthersQuiet ==
    ASSUME BuildInvariant, [Next]_vars, ~Worker PROVE QuietStep
<1>1. mgr \in Manager /\ Kept \subseteq DOMAIN mgr /\ mgr.terminal \in [Recs -> Terminals]
  BY DEF BuildInvariant, TypeOK, Manager, Kept
<1>2. ASSUME mgr'.terminal = mgr.terminal, mgr'.log = mgr.log, ParkingStep PROVE QuietStep
  <2>1. \A r \in Recs : Outcome(r)' = Outcome(r)
    BY <1>2 DEF Outcome
  <2> QED BY <1>2, <2>1 DEF QuietStep
<1>3. ASSUME mgr'.waiters = mgr.waiters PROVE ParkingStep
  BY <1>3 DEF ParkingStep
<1>4. ASSUME Keeps(mgr, mgr') PROVE QuietStep
  <2>1. mgr'.terminal = mgr.terminal /\ mgr'.log = mgr.log /\ mgr'.waiters = mgr.waiters
    BY <1>1, <1>4 DEF Keeps
  <2> QED BY <1>2, <1>3, <2>1
<1>5. ASSUME NEW q \in Requests, NEW s \in Scopes, NEW mode, Acquire(q, s, mode)
      PROVE  QuietStep
  <2> DEFINE m == CleanupExpired(mgr, now)
             f == Fingerprint(s)
             hit == Lookup(m, s, f)
  <2>1. /\ m \in Manager /\ m.terminal = mgr.terminal /\ m.log = mgr.log
        /\ m.waiters = mgr.waiters
    BY <1>1, Begin, BeginKeeps DEF MgrOK
  <2>2. PICK k \in Recs :
           /\ IF hit = {} THEN m.terminal[k] = "unused" ELSE k \in hit
           /\ mgr' = [(IF hit = {} THEN CreateRecord(m, k, s, f, now) ELSE m)
                         EXCEPT !.consumers[k] = @ \cup {q}]
    BY <1>5 DEF Acquire
  <2> HIDE DEF m, f, hit
  <2>3. CASE hit = {}
    <3>1. mgr' = [CreateRecord(m, k, s, f, now) EXCEPT !.consumers[k] = @ \cup {q}]
      BY <2>2, <2>3
    <3>2. /\ mgr'.terminal = [m.terminal EXCEPT ![k] = "pending"]
          /\ mgr'.log = m.log /\ mgr'.waiters = m.waiters
      BY <2>1, <3>1 DEF CreateRecord, Manager
    <3>3. mgr.terminal[k] = "unused"
      BY <2>1, <2>2, <2>3
    <3>4. ASSUME NEW r \in Recs
          PROVE  \/ Outcome(r)' = Outcome(r)
                 \/ Outcome(r) = "unused" /\ Outcome(r)' = "pending"
      BY <1>1, <2>1, <3>2, <3>3 DEF Outcome
    <3>5. ParkingStep
      BY <1>3, <2>1, <3>2
    <3> QED BY <2>1, <3>2, <3>4, <3>5 DEF QuietStep
  <2>4. CASE hit # {}
    <3>1. mgr' = [m EXCEPT !.consumers[k] = @ \cup {q}]
      BY <2>2, <2>4
    <3>2. mgr'.terminal = m.terminal /\ mgr'.log = m.log /\ mgr'.waiters = m.waiters
      BY <2>1, <3>1 DEF Manager
    <3> QED BY <1>2, <1>3, <2>1, <3>2
  <2> QED BY <2>3, <2>4
<1>6. ASSUME NEW q \in Requests, AwaitFirstSnapshot(q) \/ LiveReadTurn(q) \/ AbortProgressive(q)
      PROVE  QuietStep
  <2>1. CASE AwaitFirstSnapshot(q)
    <3>1. Keeps(mgr, mgr') \/ (Parks(q, target[q], 0) /\ pc' = pc)
      BY <1>1, <2>1, TurnsPark
    <3>2. ASSUME Parks(q, target[q], 0), pc' = pc PROVE QuietStep
      <4>1. ParkingStep
        BY <2>1, <3>2 DEF ParkingStep
      <4> QED BY <1>2, <3>2, <4>1 DEF Parks
    <3> QED BY <1>4, <3>1, <3>2
  <2>2. CASE LiveReadTurn(q)
    <3>1. Keeps(mgr, mgr') \/ Parks(q, mgr.stream[q].rec, mgr.stream[q].seen)
      BY <1>1, <2>2, TurnsPark
    <3>2. ASSUME Parks(q, mgr.stream[q].rec, mgr.stream[q].seen) PROVE QuietStep
      <4>1. ParkingStep
        BY <2>2, <3>2 DEF ParkingStep
      <4> QED BY <1>2, <3>2, <4>1 DEF Parks
    <3> QED BY <1>4, <3>1, <3>2
  <2>3. CASE AbortProgressive(q)
    <3>1. /\ mgr'.terminal = mgr.terminal /\ mgr'.log = mgr.log
          /\ mgr'.waiters = [mgr.waiters EXCEPT ![target[q]] = @ \ {q}]
      BY <1>1, <2>3, TurnsPark
    <3>2. ParkingStep
      BY <2>3, <3>1 DEF ParkingStep
    <3> QED BY <1>2, <3>1, <3>2
  <2> QED BY <1>6, <2>1, <2>2, <2>3
<1>7. CASE Dispose \/ DisposeDone
  <2>1. /\ mgr'.terminal = mgr.terminal /\ mgr'.log = mgr.log /\ mgr'.waiters = mgr.waiters
    BY <1>1, <1>7 DEF Dispose, DisposeDone, Manager
  <2> QED BY <1>2, <1>3, <2>1
<1>8. CASE mgr' = mgr
  BY <1>2, <1>3, <1>8
<1>9. CASE NewRequest
  BY <1>4, <1>5, <1>6, <1>9, CallsKeep DEF NewRequest
<1>10. CASE CursorCall
  BY <1>4, <1>6, <1>10, CallsKeep DEF CursorCall
<1> QED BY <1>7, <1>8, <1>9, <1>10 DEF Next, Environment, ClockTick, EditSources, vars

\* A worker publishes, fails or succeeds, and wakes everybody each time.
Works(k) ==
    /\ Outcome(k) = "pending" /\ mgr'.stream = mgr.stream
    /\ mgr'.waiters = [mgr.waiters EXCEPT ![k] = {}]
    /\ \/ /\ mgr'.terminal = mgr.terminal
          /\ \E e \in Event : mgr'.log = [mgr.log EXCEPT ![k] = Append(@, e)]
       \/ /\ \E t \in Failures : mgr'.terminal = [mgr.terminal EXCEPT ![k] = t]
          /\ mgr'.log = mgr.log
       \/ /\ mgr'.terminal = [mgr.terminal EXCEPT ![k] = "success"]
          /\ \E e \in Event : /\ e.outcome = "success"
                              /\ mgr'.log = [mgr.log EXCEPT ![k] = Append(@, e)]

LEMMA WorkerWorks ==
    ASSUME BuildInvariant, NEW k \in Recs,
           WorkerPublish(k) \/ WorkerReturns(k) \/ WorkerThrows(k)
    PROVE  /\ Works(k)
           /\ WorkerReturns(k) \/ WorkerThrows(k) => Outcome(k)' \in Finished
<1>1. mgr \in Manager /\ mgr.terminal \in [Recs -> Terminals]
  BY DEF BuildInvariant, TypeOK, Manager
<1>2. Outcome(k) = "pending"
  BY DEF WorkerPublish, WorkerReturns, WorkerThrows, BuildInvariant, BuildsOK, Pending, Outcome
<1>3. ASSUME NEW I \in SUBSET Items, NEW o \in {"progress", "success"}
      PROVE  [outcome |-> o, items |-> I] \in Event
  BY DEF Event
<1>4. ASSUME NEW I \in SUBSET Items, mgr' = PublishEvent(mgr, k, "progress", I)
      PROVE  Works(k)
  <2> DEFINE e == [outcome |-> "progress", items |-> I]
  <2>1. e \in Event
    BY <1>3
  <2>2. /\ mgr'.terminal = mgr.terminal /\ mgr'.log = [mgr.log EXCEPT ![k] = Append(@, e)]
        /\ mgr'.stream = mgr.stream /\ mgr'.waiters = [mgr.waiters EXCEPT ![k] = {}]
    BY <1>1, <1>4 DEF PublishEvent, Manager
  <2> QED BY <1>2, <2>1, <2>2 DEF Works
<1>5. ASSUME NEW t \in Failures, mgr' = SettleFailed(mgr, k, t, now)
      PROVE  Works(k) /\ Outcome(k)' \in Finished
  <2>1. /\ mgr'.terminal = [mgr.terminal EXCEPT ![k] = t] /\ mgr'.log = mgr.log
        /\ mgr'.stream = mgr.stream /\ mgr'.waiters = [mgr.waiters EXCEPT ![k] = {}]
    BY <1>1, <1>5 DEF SettleFailed, Settle, FailCursors, Manager
  <2> QED BY <1>1, <1>2, <2>1 DEF Works, Outcome, Finished
<1>6. ASSUME NEW I \in SUBSET Items,
             mgr' = [Settle(PublishEvent(mgr, k, "success", I), k, "success")
                        EXCEPT !.expires[k] = now + Ttl]
      PROVE  Works(k) /\ Outcome(k)' \in Finished
  <2> DEFINE e == [outcome |-> "success", items |-> I]
  <2>1. e \in Event /\ e.outcome = "success"
    BY <1>3
  <2>2. /\ mgr'.terminal = [mgr.terminal EXCEPT ![k] = "success"]
        /\ mgr'.log = [mgr.log EXCEPT ![k] = Append(@, e)]
        /\ mgr'.stream = mgr.stream /\ mgr'.waiters = [mgr.waiters EXCEPT ![k] = {}]
    BY <1>1, <1>6 DEF Settle, PublishEvent, Manager
  <2> HIDE DEF e
  <2> QED BY <1>1, <1>2, <2>1, <2>2 DEF Works, Outcome, Finished
<1> QED BY <1>4, <1>5, <1>6 DEF WorkerPublish, WorkerReturns, WorkerThrows, Failures

\* A build that has not begun begins, one that runs comes to an outcome, for good.
LEMMA OutcomeStep ==
    ASSUME BuildInvariant, [Next]_vars, NEW r \in Recs
    PROVE  \/ Outcome(r)' = Outcome(r)
           \/ Outcome(r) = "unused" /\ Outcome(r)' = "pending"
           \/ Outcome(r) = "pending" /\ Outcome(r)' \in Finished
<1>1. mgr.terminal \in [Recs -> Terminals]
  BY DEF BuildInvariant, TypeOK, Manager
<1>2. CASE ~Worker
  BY <1>2, OthersQuiet DEF QuietStep
<1>3. ASSUME NEW k \in Recs, Works(k)
      PROVE  \/ Outcome(r)' = Outcome(r)
             \/ Outcome(r) = "pending" /\ Outcome(r)' \in Finished
  BY <1>1, <1>3 DEF Works, Outcome, Finished
<1> QED BY <1>2, <1>3, WorkerWorks DEF Worker

\* Where a request goes from where it is.
Onward(place) ==
    CASE place = "building" -> {"assembled", "rejected", "ackwait", "cancelled"}
      [] place = "progressive" -> {"leased", "rejected", "cancelled"}
      [] place = "ackwait" -> {"cancelled"}
      [] place = "leased" -> {"done", "refused", "invalid", "leaked"}
      [] place = "assembled" -> {"done", "refused", "invalid", "rejected", "unstored"}
      [] OTHER -> {}

\* A step of the call of a request moves that request only.
LEMMA CallMoves ==
    ASSUME BuildInvariant, NEW p \in Requests,
           \/ BuildResolved(p) \/ BuildRejected(p) \/ AbortBuilding(p)
           \/ CleanupAcknowledged(p) \/ AwaitFirstSnapshot(p) \/ AbortProgressive(p)
           \/ PublishStatic(p) \/ ProjectionThrows(p) \/ PublishLive(p) \/ StoreThrows(p)
    PROVE  /\ pc[p] # "idle" /\ target' = target
           /\ \E k \in Onward(pc[p]) \cup {pc[p]} : pc' = [pc EXCEPT ![p] = k]
<1>0. pc \in [Requests -> Places]
  BY DEF BuildInvariant, TypeOK
<1>1. target' = target
  BY DEF BuildResolved, BuildRejected, AbortBuilding, CleanupAcknowledged,
         AwaitFirstSnapshot, AbortProgressive, PublishStatic, ProjectionThrows, PublishLive,
         StoreThrows
<1>2. CASE BuildResolved(p) \/ BuildRejected(p) \/ CleanupAcknowledged(p) \/ AbortProgressive(p)
           \/ ProjectionThrows(p)
  BY <1>1, <1>2 DEF BuildResolved, BuildRejected, CleanupAcknowledged, AbortProgressive,
                    ProjectionThrows, Onward
<1>3. CASE AbortBuilding(p)
  <2>1. pc[p] = "building" /\ \E k \in {"ackwait", "cancelled"} : pc' = [pc EXCEPT ![p] = k]
    BY <1>3 DEF AbortBuilding
  <2> QED BY <1>1, <2>1 DEF Onward
<1>4. CASE AwaitFirstSnapshot(p)
  <2>1. pc[p] = "progressive"
        /\ (pc' = pc \/ \E k \in {"leased", "rejected"} : pc' = [pc EXCEPT ![p] = k])
    BY <1>4 DEF AwaitFirstSnapshot
  <2>2. pc = [pc EXCEPT ![p] = pc[p]]
    BY <1>0
  <2> QED BY <1>1, <2>1, <2>2 DEF Onward
<1>5. CASE PublishStatic(p) \/ PublishLive(p)
  <2>1. pc[p] \in {"assembled", "leased"}
        /\ \E k \in {"done", "refused", "invalid"} : pc' = [pc EXCEPT ![p] = k]
    BY <1>5 DEF PublishStatic, PublishLive
  <2> QED BY <1>1, <2>1 DEF Onward
<1>6. CASE StoreThrows(p)
  <2>1. \/ pc[p] = "assembled" /\ pc' = [pc EXCEPT ![p] = "unstored"]
        \/ pc[p] = "leased" /\ pc' = [pc EXCEPT ![p] = "leaked"]
    BY <1>6 DEF StoreThrows
  <2> QED BY <1>1, <2>1 DEF Onward
<1> QED BY <1>2, <1>3, <1>4, <1>5, <1>6

\* A request that has begun keeps its build and moves on, or stays; one that has not
\* begins with an acquisition of its own, or is refused.
LEMMA RequestStep ==
    ASSUME BuildInvariant, [Next]_vars, NEW q \in Requests
    PROVE  /\ pc[q] # "idle" => /\ target'[q] = target[q]
                                /\ pc'[q] = pc[q] \/ pc'[q] \in Onward(pc[q])
           /\ pc[q] = "idle" =>
                 \/ pc'[q] \in {"idle", "refused"}
                 \/ \E s \in Scopes, mode \in {"building", "progressive"} : Acquire(q, s, mode)
<1>1. pc \in [Requests -> Places] /\ target \in [Requests -> Recs \cup {NoRec}]
  BY DEF BuildInvariant, TypeOK
<1>2. ASSUME NEW p \in Requests, NEW s \in Scopes, NEW mode \in {"building", "progressive"},
             Acquire(p, s, mode)
      PROVE  \/ p = q /\ pc[q] = "idle"
             \/ target'[q] = target[q] /\ pc'[q] = pc[q]
  BY <1>1, <1>2 DEF Acquire
<1>3. ASSUME NEW p \in Requests, AcquireRefused(p)
      PROVE  \/ pc[q] = "idle" /\ pc'[q] = "refused"
             \/ target'[q] = target[q] /\ pc'[q] = pc[q]
  BY <1>1, <1>3 DEF AcquireRefused
<1>4. ASSUME NEW p \in Requests,
             \/ BuildResolved(p) \/ BuildRejected(p) \/ AbortBuilding(p)
             \/ CleanupAcknowledged(p) \/ AwaitFirstSnapshot(p) \/ AbortProgressive(p)
             \/ PublishStatic(p) \/ ProjectionThrows(p) \/ PublishLive(p) \/ StoreThrows(p)
      PROVE  /\ target'[q] = target[q]
             /\ \/ pc'[q] = pc[q]
                \/ pc[q] # "idle" /\ pc'[q] \in Onward(pc[q])
  <2>1. /\ pc[p] # "idle" /\ target' = target
        /\ \E k \in Onward(pc[p]) \cup {pc[p]} : pc' = [pc EXCEPT ![p] = k]
    BY <1>4, CallMoves
  <2> QED BY <1>1, <2>1
<1>5. ASSUME UNCHANGED <<pc, target>>
      PROVE  target'[q] = target[q] /\ pc'[q] = pc[q]
  BY <1>5
<1>6. CASE NewRequest
  BY <1>1, <1>2, <1>3, <1>4, <1>6 DEF NewRequest
<1>7. CASE UNCHANGED <<pc, target>>
  BY <1>5, <1>7
<1> QED BY <1>6, <1>7 DEF Next, CursorCall, ReadContinuation, CancelContinuation, LiveReadTurn,
           ReadThrows,
           Worker, WorkerPublish, WorkerReturns, WorkerThrows,
           Environment, Dispose, DisposeDone, ClockTick, EditSources, vars

\* The build of a request has begun.
Begun == \A q \in Requests : pc[q] \notin {"idle", "refused"} => Outcome(target[q]) # "unused"

LEMMA BegunNext == BuildInvariant /\ Begun /\ [Next]_vars => Begun'
<1> SUFFICES ASSUME BuildInvariant, Begun, [Next]_vars, NEW q \in Requests,
                    pc'[q] \notin {"idle", "refused"}
             PROVE  Outcome(target[q])' # "unused"
  BY DEF Begun
<1>1. CASE pc[q] # "idle"
  <2>1. target'[q] = target[q] /\ (pc'[q] = pc[q] \/ pc'[q] \in Onward(pc[q]))
    BY <1>1, RequestStep
  <2>2. pc[q] # "refused"
    BY <2>1 DEF Onward
  <2>3. target[q] \in Recs /\ Outcome(target[q]) # "unused"
    BY <1>1, <2>2 DEF Begun, BuildInvariant, RequestsOK
  <2>4. PICK r \in Recs : r = target[q]
    BY <2>3
  <2>5. Outcome(r)' # "unused"
    BY <2>3, <2>4, OutcomeStep DEF Finished, Failures
  <2> QED BY <2>1, <2>4, <2>5 DEF Outcome
<1>2. CASE pc[q] = "idle"
  <2>1. PICK s \in Scopes, mode \in {"building", "progressive"} : Acquire(q, s, mode)
    BY <1>2, RequestStep
  <2> DEFINE m == CleanupExpired(mgr, now)
             f == Fingerprint(s)
             hit == Lookup(m, s, f)
  <2>2. m \in Manager /\ BuildsOK(m)
    BY Begin DEF MgrOK
  <2>3. PICK k \in Recs :
           /\ IF hit = {} THEN m.terminal[k] = "unused" ELSE k \in hit
           /\ mgr' = [(IF hit = {} THEN CreateRecord(m, k, s, f, now) ELSE m)
                         EXCEPT !.consumers[k] = @ \cup {q}]
           /\ target' = [target EXCEPT ![q] = k]
    BY <2>1 DEF Acquire
  <2>4. target'[q] = k
    BY <2>3 DEF BuildInvariant, TypeOK
  <2>5. CASE hit # {}
    <3>1. k \in m.cached
      BY <2>3, <2>5 DEF Lookup
    <3>2. m.terminal[k] # "unused"
      BY <2>2, <3>1 DEF BuildsOK
    <3> HIDE DEF m, f, hit
    <3>3. mgr' = [m EXCEPT !.consumers[k] = @ \cup {q}]
      BY <2>3, <2>5
    <3>4. mgr'.terminal = m.terminal
      BY <2>2, <3>3 DEF Manager
    <3> QED BY <2>4, <3>2, <3>4 DEF Outcome
  <2>6. CASE hit = {}
    <3> HIDE DEF m, f, hit
    <3>1. mgr' = [CreateRecord(m, k, s, f, now) EXCEPT !.consumers[k] = @ \cup {q}]
      BY <2>3, <2>6
    <3>2. mgr'.terminal = [m.terminal EXCEPT ![k] = "pending"] /\ k \in DOMAIN m.terminal
      BY <2>2, <3>1 DEF CreateRecord, Manager
    <3> QED BY <2>4, <3>2 DEF Outcome
  <2> QED BY <2>5, <2>6
<1> QED BY <1>1, <1>2

LEMMA AlwaysBegun == Spec => []Begun
<1>1. Init => Begun
  BY DEF Init, Begun
<1> QED BY <1>1, BegunNext, Invariance, PTL DEF Spec

At(q, r, place) == target[q] = r /\ pc[q] = place
Over(r) == Outcome(r) \in Finished
Answered(q) ==
    pc[q] \in {"assembled", "done", "rejected", "cancelled", "refused", "invalid", "leaked"}
Waits(q) == pc[q] \in {"building", "progressive", "leased", "ackwait"}

\* Whoever waits for a build waits for one that runs or is over.
LEMMA BuildBegun ==
    ASSUME BuildInvariant, Begun, NEW q \in Requests, NEW r \in Recs, target[q] = r, Waits(q)
    PROVE  Over(r) \/ r \in mgr.unsettled
<1>1. Outcome(r) \in Terminals
  BY DEF BuildInvariant, TypeOK, Manager, Outcome
<1>2. Outcome(r) # "unused"
  BY DEF Begun, Waits
<1> QED BY <1>1, <1>2
        DEF Over, Finished, Terminals, Failures, Outcome, BuildInvariant, BuildsOK, Pending

\* A build that is over stays over, and one whose worker settles is over.
LEMMA BuildEnds ==
    ASSUME BuildInvariant, [Next]_vars, NEW r \in Recs,
           Over(r) \/ WorkerReturns(r) \/ WorkerThrows(r)
    PROVE  Over(r)'
<1>1. CASE Over(r)
  BY <1>1, OutcomeStep DEF Over, Finished, Failures
<1>2. CASE WorkerReturns(r) \/ WorkerThrows(r)
  BY <1>2, WorkerWorks DEF Over
<1> QED BY <1>1, <1>2

\* From where a request waits its own steps lead on.
LEMMA WaitingMoves ==
    ASSUME BuildInvariant, [Next]_vars, NEW q \in Requests, NEW r \in Recs
    PROVE  /\ At(q, r, "building") =>
                  \/ At(q, r, "building")' \/ At(q, r, "ackwait")' \/ Answered(q)'
           /\ At(q, r, "progressive") =>
                  \/ At(q, r, "progressive")' \/ At(q, r, "leased")' \/ Answered(q)'
           /\ At(q, r, "leased") => At(q, r, "leased")' \/ Answered(q)'
           /\ At(q, r, "ackwait") => At(q, r, "ackwait")' \/ Answered(q)'
  BY RequestStep DEF At, Onward, Answered

\* The turns that the outcome of the build lets a request take.
LEMMA WaitingTurns ==
    ASSUME BuildInvariant, StreamInvariant, NEW q \in Requests, NEW r \in Recs
    PROVE  /\ At(q, r, "building") /\ (BuildResolved(q) \/ BuildRejected(q)) => Answered(q)'
           /\ At(q, r, "progressive") /\ Over(r) =>
                  /\ q \notin mgr.waiters[target[q]]
                  /\ AwaitFirstSnapshot(q) => At(q, r, "leased")' \/ Answered(q)'
           /\ At(q, r, "ackwait") /\ Over(r) => target[q] \notin mgr.unsettled
           /\ CleanupAcknowledged(q) => Answered(q)'
           /\ PublishStatic(q) \/ PublishLive(q) => Answered(q)'
<1>1. pc \in [Requests -> Places]
  BY DEF BuildInvariant, TypeOK
<1>2. At(q, r, "building") /\ (BuildResolved(q) \/ BuildRejected(q)) => Answered(q)'
  BY <1>1 DEF BuildResolved, BuildRejected, Answered
<1>3. ASSUME At(q, r, "progressive"), Over(r)
      PROVE  /\ q \notin mgr.waiters[target[q]]
             /\ AwaitFirstSnapshot(q) => At(q, r, "leased")' \/ Answered(q)'
  <2>1. q \notin mgr.waiters[target[q]]
    BY <1>3 DEF At, Over, Outcome, Finished, Failures, StreamInvariant, Tidy, ParkedOK
  <2>2. mgr.terminal[r] \in Failures \/ NextVersion(mgr, r, 0) > 0
    <3>1. CASE mgr.terminal[r] = "success"
      <4>1. mgr.log[r] \in Seq(Event) /\ mgr.log[r] # <<>>
        BY <3>1 DEF BuildInvariant, BuildsOK, TypeOK, Manager
      <4>2. Len(mgr.log[r]) \in Nat /\ Len(mgr.log[r]) > 0
        BY <4>1
      <4> QED BY <4>2 DEF NextVersion
    <3> QED BY <3>1, <1>3 DEF Over, Outcome, Finished
  <2>3. ASSUME AwaitFirstSnapshot(q) PROVE At(q, r, "leased")' \/ Answered(q)'
    <3>1. target' = target /\ (pc' = [pc EXCEPT ![q] = "rejected"] \/ pc' = [pc EXCEPT ![q] = "leased"])
      BY <1>3, <2>2, <2>3 DEF AwaitFirstSnapshot, At
    <3> QED BY <1>1, <1>3, <3>1 DEF At, Answered
  <2> QED BY <2>1, <2>3
<1>4. At(q, r, "ackwait") /\ Over(r) => target[q] \notin mgr.unsettled
  BY DEF At, Over, Outcome, Finished, Failures, BuildInvariant, BuildsOK, Pending
<1>5. CleanupAcknowledged(q) => Answered(q)'
  BY <1>1 DEF CleanupAcknowledged, Answered
<1>6. PublishStatic(q) \/ PublishLive(q) => Answered(q)'
  <2> SUFFICES ASSUME PublishStatic(q) \/ PublishLive(q)
               PROVE  \E k \in {"done", "refused", "invalid"} : pc' = [pc EXCEPT ![q] = k]
    BY <1>1 DEF Answered
  <2> QED BY DEF PublishStatic, PublishLive
<1> QED BY <1>2, <1>3, <1>4, <1>5, <1>6

AnsweredFrom(q, r) == [](Waits(q) /\ target[q] = r => <>Answered(q))

\* A request for one build is answered.
LEMMA RequestAnswered ==
    ASSUME NEW q \in Requests, NEW r \in Recs
    PROVE  Spec /\ LoopRuns(q) /\ WorkerSettles(r) => AnsweredFrom(q, r)
<1> DEFINE J == BuildInvariant /\ StreamInvariant /\ Begun
           B == At(q, r, "building")
           P == At(q, r, "progressive")
           K == At(q, r, "ackwait")
           L == At(q, r, "leased")
           A == Answered(q)
           O == Over(r)
<1>1. Spec => []J
  BY StreamsInvariance, AlwaysBegun, Invariance, PTL
<1>2. J /\ (B \/ P \/ K \/ L) => O \/ r \in mgr.unsettled
  BY BuildBegun DEF At, Waits
<1>3. J /\ [Next]_vars /\ O => O'
  BY BuildEnds
<1>4. J /\ [Next]_vars /\ <<WorkerReturns(r) \/ WorkerThrows(r)>>_vars => O'
  BY BuildEnds
<1>5. J /\ [Next]_vars /\ B => B' \/ K' \/ A'
  BY WaitingMoves
<1>6. J /\ [Next]_vars /\ P => P' \/ L' \/ A'
  BY WaitingMoves
<1>7. J /\ [Next]_vars /\ K => K' \/ A'
  BY WaitingMoves
<1>8. J /\ [Next]_vars /\ L => L' \/ A'
  BY WaitingMoves
<1>9. B /\ O => pc[q] = "building" /\ mgr.terminal[target[q]] \in {"success"} \cup Failures
  BY DEF At, Over, Outcome, Finished
<1>10. J /\ B /\ <<BuildResolved(q) \/ BuildRejected(q)>>_vars => A'
  BY WaitingTurns
<1>11. J /\ P /\ O => pc[q] = "progressive" /\ q \notin mgr.waiters[target[q]]
  BY WaitingTurns DEF At
<1>12. J /\ P /\ O /\ <<AwaitFirstSnapshot(q)>>_vars => L' \/ A'
  BY WaitingTurns
<1>13. J /\ K /\ O => pc[q] = "ackwait" /\ target[q] \notin mgr.unsettled
  BY WaitingTurns DEF At
<1>14. J /\ <<CleanupAcknowledged(q)>>_vars => A'
  BY WaitingTurns
<1>15. L => pc[q] \in {"assembled", "leased"}
  BY DEF At
<1>16. J /\ <<PublishStatic(q) \/ PublishLive(q)>>_vars => A'
  BY WaitingTurns
<1>17. Waits(q) /\ target[q] = r <=> B \/ P \/ K \/ L
  BY DEF Waits, At
<1>18. LoopRuns(q) =>
          /\ []<>~(pc[q] = "building" /\ mgr.terminal[target[q]] \in {"success"} \cup Failures)
             \/ []<><<BuildResolved(q) \/ BuildRejected(q)>>_vars
          /\ []<>~(pc[q] = "progressive" /\ q \notin mgr.waiters[target[q]])
             \/ []<><<AwaitFirstSnapshot(q)>>_vars
          /\ []<>~(pc[q] = "ackwait" /\ target[q] \notin mgr.unsettled)
             \/ []<><<CleanupAcknowledged(q)>>_vars
          /\ []<>~(pc[q] \in {"assembled", "leased"})
             \/ []<><<PublishStatic(q) \/ PublishLive(q)>>_vars
  BY DEF LoopRuns, Taken
<1>19. WorkerSettles(r) =>
          []<>~(r \in mgr.unsettled) \/ []<><<WorkerReturns(r) \/ WorkerThrows(r)>>_vars
  BY DEF WorkerSettles, Taken
<1>20. AnsweredFrom(q, r) <=> [](Waits(q) /\ target[q] = r => <>A)
  BY DEF AnsweredFrom
<1> HIDE DEF J, B, P, K, L, A, O
<1> QED
  BY <1>1, <1>2, <1>3, <1>4, <1>5, <1>6, <1>7, <1>8, <1>9, <1>10, <1>11, <1>12, <1>13, <1>14,
     <1>15, <1>16, <1>17, <1>18, <1>19, <1>20, PTL DEF Spec

\* Every request that waits for a build is answered (acquire, acquireProgressive and the
\* first page of a stream), provided every worker settles and the event loop runs what
\* is ready: a parked request is always woken, whatever the build does.
THEOREM RequestsAreAnswered ==
    Spec /\ (\A q \in Requests : LoopRuns(q)) /\ (\A r \in Recs : WorkerSettles(r))
        => RequestsAnswered
<1> DEFINE Fair == (\A q \in Requests : LoopRuns(q)) /\ (\A r \in Recs : WorkerSettles(r))
<1>1. ASSUME NEW q \in Requests PROVE Spec /\ Fair => (Waits(q) ~> Answered(q))
  <2>1. Spec /\ Fair => \A r \in Recs : AnsweredFrom(q, r)
    BY RequestAnswered
  <2>2. (\A r \in Recs : AnsweredFrom(q, r))
        => [](\A r \in Recs : Waits(q) /\ target[q] = r => <>Answered(q))
    BY DEF AnsweredFrom
  <2>3. BuildInvariant => (Waits(q) => target[q] \in Recs)
    BY DEF BuildInvariant, RequestsOK, Waits
  <2>4. (\A r \in Recs : Waits(q) /\ target[q] = r => <>Answered(q)) /\ (Waits(q) => target[q] \in Recs)
        => (Waits(q) => <>Answered(q))
    OBVIOUS
  <2> QED BY <2>1, <2>2, <2>3, <2>4, Invariance, PTL
<1>2. Spec /\ Fair => \A q \in Requests : Waits(q) ~> Answered(q)
  BY <1>1
<1>3. RequestsAnswered <=> \A q \in Requests : Waits(q) ~> Answered(q)
  BY DEF RequestsAnswered, Waits, Answered
<1> QED BY <1>2, <1>3
-----------------------------------------------------------------------------
(***************************************************************************)
(* No wake-up is lost.                                                     *)
(***************************************************************************)

\* From m to n stream q stays as it is.
Holds(m, n, q) ==
    "stream" \in DOMAIN m /\ q \in DOMAIN m.stream =>
        /\ "stream" \in DOMAIN n /\ q \in DOMAIN n.stream
        /\ n.stream[q] = m.stream[q]

LEMMA HoldsTwice ==
    ASSUME NEW l, NEW m, NEW n, NEW q, Holds(l, m, q), Holds(m, n, q) PROVE Holds(l, n, q)
  BY DEF Holds

LEMMA CleanupHolds ==
    ASSUME NEW m, NEW q \in Requests, NEW S, q \notin S, NEW t
    PROVE  Holds(m, CleanupResults(m, S, t), q)
  BY DEF Holds, CleanupResults

\* A sweep ends only streams that wait for their cursor.
LEMMA SweepHolds ==
    ASSUME NEW m, NEW q \in Requests, ~HasCursor(m, q), NEW t
    PROVE  Holds(m, CleanupExpired(m, t), q)
<1> DEFINE m1 == SweepRetired(m, t)
           idle == {p \in Requests : HasCursor(m1, p) /\ m1.stream[p].expires <= t}
           m2 == CleanupResults(m1, idle, t)
<1>1. Holds(m, m1, q) /\ m1.cursors = m.cursors
  BY DEF Holds, SweepRetired
<1>2. q \notin idle
  BY <1>1 DEF HasCursor
<1>3. CleanupExpired(m, t) = SweepSessions(m2, t)
  BY DEF CleanupExpired
<1> HIDE DEF m1, idle
<1>4. Holds(m1, m2, q)
  BY <1>2, CleanupHolds
<1> HIDE DEF m2
<1>5. Holds(m2, SweepSessions(m2, t), q)
  BY DEF Holds, SweepSessions
<1> QED BY <1>1, <1>3, <1>4, <1>5, HoldsTwice

LEMMA ServeHolds ==
    ASSUME NEW m, NEW q \in Requests, NEW p, p # q, NEW P, NEW t
    PROVE  Holds(m, Serve(m, p, P, t), q)
<1>1. ASSUME NEW x, NEW y
      PROVE  /\ Holds(m, [m EXCEPT !.stream[p] = x, !.cursors = y], q)
             /\ Holds(m, [m EXCEPT !.stream[p] = x], q)
  BY DEF Holds
<1>2. ASSUME NEW n PROVE Holds(n, CleanupResults(n, {p}, t), q)
  BY CleanupHolds
<1>3. \/ \E x, y : Serve(m, p, P, t) = [m EXCEPT !.stream[p] = x, !.cursors = y]
      \/ \E x : Serve(m, p, P, t) = CleanupResults([m EXCEPT !.stream[p] = x], {p}, t)
  BY DEF Serve, Finish
<1>4. ASSUME NEW x, Serve(m, p, P, t) = CleanupResults([m EXCEPT !.stream[p] = x], {p}, t)
      PROVE  Holds(m, Serve(m, p, P, t), q)
  <2> DEFINE n == [m EXCEPT !.stream[p] = x]
  <2>1. Holds(m, n, q)
    BY <1>1
  <2>2. Holds(n, CleanupResults(n, {p}, t), q)
    BY <1>2
  <2> HIDE DEF n
  <2>3. Holds(m, CleanupResults(n, {p}, t), q)
    BY <2>1, <2>2, HoldsTwice
  <2> QED BY <1>4, <2>3 DEF n
<1>5. ASSUME NEW x, NEW y, Serve(m, p, P, t) = [m EXCEPT !.stream[p] = x, !.cursors = y]
      PROVE  Holds(m, Serve(m, p, P, t), q)
  <2> DEFINE n == Serve(m, p, P, t)
  <2>1. n = [m EXCEPT !.stream[p] = x, !.cursors = y]
    BY <1>5
  <2> HIDE DEF n
  <2>2. Holds(m, n, q)
    BY <2>1 DEF Holds
  <2> QED BY <2>2 DEF n
<1>6. CASE \E x, y : Serve(m, p, P, t) = [m EXCEPT !.stream[p] = x, !.cursors = y]
  BY <1>5, <1>6
<1>7. CASE \E x : Serve(m, p, P, t) = CleanupResults([m EXCEPT !.stream[p] = x], {p}, t)
  BY <1>4, <1>7
<1> QED BY <1>3, <1>6, <1>7

LEMMA OthersHold ==
    ASSUME NEW m, NEW q, NEW r, NEW p, NEW c, c[1] # q, NEW t
    PROVE  /\ Holds(m, ReleaseConsumer(m, r, p), q) /\ Holds(m, CleanupBuildFiles(m, r), q)
           /\ Holds(m, InvalidateFactSession(m, r), q) /\ Holds(m, ClaimCursor(m, c, t), q)
<1>1. Holds(m, ReleaseConsumer(m, r, p), q) /\ Holds(m, CleanupBuildFiles(m, r), q)
  BY DEF Holds, ReleaseConsumer, CleanupBuildFiles
<1>2. Holds(m, InvalidateFactSession(m, r), q) /\ Holds(m, ClaimCursor(m, c, t), q)
  BY DEF Holds, InvalidateFactSession, ClaimCursor
<1> QED BY <1>1, <1>2

\* What a read under way rules out.
LEMMA ReadingAlone ==
    ASSUME BuildInvariant, StreamInvariant, NEW q \in Requests, mgr.stream[q].reading
    PROVE  LET e == CleanupExpired(mgr, now) IN
           /\ pc[q] = "done" /\ Holds(mgr, e, q)
           /\ \A c \in e.cursors : c[1] # q
<1>1. mgr.stream[q].kind = "live"
  BY DEF BuildInvariant, StreamsOK
<1>2. \A c \in mgr.cursors : c[1] # q
  BY DEF StreamInvariant, Tidy, CursorsOK
<1>3. Holds(mgr, CleanupExpired(mgr, now), q)
  BY <1>2, SweepHolds DEF HasCursor
<1>4. CleanupExpired(mgr, now).cursors \subseteq mgr.cursors
  <2>1. MgrOK(mgr) /\ now \in Nat
    BY Begin
  <2> QED BY <2>1, CleanupExpiredCleans DEF Cleans, Ends
<1> QED BY <1>1, <1>2, <1>3, <1>4 DEF StreamInvariant, FreshOK

\* A read under way moves by its own turns only.
LEMMA ReadHolds ==
    ASSUME BuildInvariant, StreamInvariant, NEW q \in Requests, mgr.stream[q].reading,
           [Next]_vars, ~LiveReadTurn(q), ~ReadThrows(q)
    PROVE  mgr'.stream[q] = mgr.stream[q]
<1> DEFINE e == CleanupExpired(mgr, now)
<1>1. pc[q] = "done" /\ Holds(mgr, e, q) /\ \A c \in e.cursors : c[1] # q
  BY ReadingAlone
<1>2. mgr \in Manager /\ "stream" \in DOMAIN mgr /\ q \in DOMAIN mgr.stream
  BY DEF BuildInvariant, TypeOK, Manager
<1> HIDE DEF e
<1>3. SUFFICES Holds(mgr, mgr', q)
  BY <1>2 DEF Holds
<1>4. ASSUME NEW n PROVE Holds(n, n, q)
  BY DEF Holds
<1>5. ASSUME NEW n, n.stream = mgr.stream, "stream" \in DOMAIN n PROVE Holds(mgr, n, q)
  BY <1>2, <1>5 DEF Holds
<1>6. ASSUME NEW m, NEW r, NEW p
      PROVE  Holds(m, ReleaseConsumer(m, r, p), q) /\ Holds(m, CleanupBuildFiles(m, r), q)
  BY DEF Holds, ReleaseConsumer, CleanupBuildFiles
<1>7. ASSUME NEW p \in Requests, NEW s \in Scopes, NEW mode, Acquire(p, s, mode)
      PROVE  Holds(mgr, mgr', q)
  <2> DEFINE f == Fingerprint(s)
             hit == Lookup(e, s, f)
  <2>1. PICK k \in Recs :
           mgr' = [(IF hit = {} THEN CreateRecord(e, k, s, f, now) ELSE e)
                         EXCEPT !.consumers[k] = @ \cup {p}]
    BY <1>7 DEF Acquire, e
  <2> HIDE DEF f, hit
  <2>2. Holds(e, CreateRecord(e, k, s, f, now), q)
    BY DEF Holds, CreateRecord
  <2>3. ASSUME NEW m PROVE Holds(m, [m EXCEPT !.consumers[k] = @ \cup {p}], q)
    BY DEF Holds
  <2>4. CASE hit = {}
    <3>1. mgr' = [CreateRecord(e, k, s, f, now) EXCEPT !.consumers[k] = @ \cup {p}]
      BY <2>1, <2>4
    <3> QED BY <1>1, <2>2, <2>3, <3>1, HoldsTwice
  <2>5. CASE hit # {}
    <3>1. mgr' = [e EXCEPT !.consumers[k] = @ \cup {p}]
      BY <2>1, <2>5
    <3> QED BY <1>1, <2>3, <3>1, HoldsTwice
  <2> QED BY <2>4, <2>5
<1>8. ASSUME NEW p \in Requests, AcquireRefused(p) \/ CleanupAcknowledged(p) \/ ProjectionThrows(p)
      PROVE  Holds(mgr, mgr', q)
  BY <1>4, <1>8 DEF AcquireRefused, CleanupAcknowledged, ProjectionThrows
<1>9. ASSUME NEW p \in Requests, BuildResolved(p) \/ BuildRejected(p) \/ AbortBuilding(p)
      PROVE  Holds(mgr, mgr', q)
  BY <1>6, <1>9 DEF BuildResolved, BuildRejected, AbortBuilding
<1>10. ASSUME NEW p \in Requests, AwaitFirstSnapshot(p) \/ AbortProgressive(p)
       PROVE  Holds(mgr, mgr', q)
  <2>1. ASSUME NEW r, NEW W PROVE Holds(mgr, [mgr EXCEPT !.waiters[r] = W], q)
    BY DEF Holds
  <2>2. CASE AwaitFirstSnapshot(p)
    BY <1>4, <1>6, <2>1, <2>2 DEF AwaitFirstSnapshot
  <2>3. CASE AbortProgressive(p)
    <3> DEFINE r == target[p]
               W == mgr.waiters[r] \ {p}
               m == [mgr EXCEPT !.waiters[r] = W]
    <3>1. mgr' = ReleaseConsumer(m, r, p)
      BY <2>3 DEF AbortProgressive
    <3>2. Holds(mgr, m, q)
      BY <2>1
    <3> HIDE DEF m
    <3> QED BY <1>6, <3>1, <3>2, HoldsTwice
  <2> QED BY <1>10, <2>2, <2>3
<1>11. ASSUME NEW p \in Requests, PublishStatic(p) PROVE Holds(mgr, mgr', q)
  <2> DEFINE r == target[p]
             D == e.resultDirs \cup {p}
             C == e.cursors \cup {<<p, 2>>}
             s(P) == OpenStream("static", r, e.log[r][Len(e.log[r])].items, P, 0, 2, now)
             n(P) == [e EXCEPT !.resultDirs = D, !.cursors = C, !.stream[p] = s(P)]
  <2>1. p # q
    BY <1>1, <1>11 DEF PublishStatic
  <2>2. \/ mgr' = mgr \/ mgr' = e \/ mgr' = CleanupBuildFiles(e, r)
        \/ \E P : mgr' = n(P)
    BY <1>11 DEF PublishStatic, e
  <2> HIDE DEF s, D, C
  <2>3. ASSUME NEW P PROVE Holds(e, n(P), q)
    BY <2>1 DEF Holds
  <2> HIDE DEF n
  <2>4. Holds(e, CleanupBuildFiles(e, r), q)
    BY <1>6
  <2>5. ASSUME NEW m, Holds(e, m, q) PROVE Holds(mgr, m, q)
    BY <1>1, <2>5, HoldsTwice
  <2> QED BY <1>1, <1>4, <2>2, <2>3, <2>4, <2>5
<1>12. ASSUME NEW p \in Requests, PublishLive(p) PROVE Holds(mgr, mgr', q)
  <2> DEFINE s == OpenStream("live", target[p], {}, {}, NextVersion(e, target[p], 0), 1, now)
             m1 == [e EXCEPT !.resultDirs = e.resultDirs \cup {p}, !.stream[p] = s]
  <2>1. p # q
    BY <1>1, <1>12 DEF PublishLive
  <2>2. \/ mgr' = mgr \/ mgr' = ReleaseConsumer(e, target[p], p) \/ mgr' = m1
        \/ \E P : mgr' = Serve(m1, p, P, now)
    BY <1>12 DEF PublishLive, e
  <2> HIDE DEF s
  <2>3. Holds(e, m1, q)
    BY <2>1 DEF Holds
  <2> HIDE DEF m1
  <2>4. ASSUME NEW P PROVE Holds(m1, Serve(m1, p, P, now), q)
    BY <2>1, ServeHolds
  <2> QED BY <1>1, <1>4, <1>6, <2>2, <2>3, <2>4, HoldsTwice
<1>12a. ASSUME NEW p \in Requests, StoreThrows(p) PROVE Holds(mgr, mgr', q)
  <2>1. mgr' = e \/ mgr' = [e EXCEPT !.resultDirs = e.resultDirs \cup {p}]
    BY <1>12a DEF StoreThrows, e
  <2>2. ASSUME NEW D PROVE Holds(e, [e EXCEPT !.resultDirs = D], q)
    BY DEF Holds
  <2> QED BY <1>1, <2>1, <2>2, HoldsTwice
<1>13. ASSUME NEW c, NEW root, ReadContinuation(c, root) \/ CancelContinuation(c, root)
       PROVE  Holds(mgr, mgr', q)
  <2>1. CASE mgr' = e
    BY <1>1, <2>1
  <2>2. CASE c \in e.cursors /\ mgr' # e
    <3>1. c[1] # q
      BY <1>1, <2>2
    <3>2. \/ mgr' = CleanupResults(e, {c[1]}, now)
          \/ \E r : mgr' = InvalidateFactSession(CleanupResults(e, {c[1]}, now), r)
          \/ mgr' = ClaimCursor(e, c, now)
          \/ \E P : mgr' = Serve(ClaimCursor(e, c, now), c[1], P, now)
      BY <1>13, <2>2 DEF ReadContinuation, CancelContinuation, e
    <3>3. Holds(e, CleanupResults(e, {c[1]}, now), q) /\ Holds(e, ClaimCursor(e, c, now), q)
      BY <3>1, CleanupHolds, OthersHold
    <3>4. ASSUME NEW m, NEW r PROVE Holds(m, InvalidateFactSession(m, r), q)
      BY DEF Holds, InvalidateFactSession
    <3>5. ASSUME NEW m, NEW P PROVE Holds(m, Serve(m, c[1], P, now), q)
      BY <3>1, ServeHolds
    <3> QED BY <1>1, <3>2, <3>3, <3>4, <3>5, HoldsTwice
  <2>3. c \in e.cursors \/ mgr' = e
    BY <1>13 DEF ReadContinuation, CancelContinuation, e
  <2> QED BY <2>1, <2>2, <2>3
<1>14. ASSUME NEW p \in Requests, LiveReadTurn(p) PROVE Holds(mgr, mgr', q)
  <2> DEFINE r == mgr.stream[p].rec
             v == NextVersion(mgr, r, mgr.stream[p].seen)
             m == [mgr EXCEPT !.stream[p].seen = v]
  <2>1. p # q
    BY <1>14
  <2>2. \/ mgr' = CleanupResults(mgr, {p}, now)
        \/ mgr' = [mgr EXCEPT !.waiters[r] = mgr.waiters[r] \cup {p}]
        \/ mgr' = m \/ \E P : mgr' = Serve(m, p, P, now)
    BY <1>14 DEF LiveReadTurn
  <2>3. ASSUME NEW W PROVE Holds(mgr, [mgr EXCEPT !.waiters[r] = W], q)
    BY DEF Holds
  <2> HIDE DEF v
  <2>4. Holds(mgr, m, q)
    BY <2>1 DEF Holds
  <2> HIDE DEF m
  <2>5. ASSUME NEW P PROVE Holds(m, Serve(m, p, P, now), q)
    BY <2>1, ServeHolds
  <2>6. Holds(mgr, CleanupResults(mgr, {p}, now), q)
    BY <2>1, CleanupHolds
  <2> QED BY <2>2, <2>3, <2>4, <2>5, <2>6, HoldsTwice
<1>14a. ASSUME NEW p \in Requests, ReadThrows(p) PROVE Holds(mgr, mgr', q)
  BY <1>14a, CleanupHolds DEF ReadThrows
<1>15. ASSUME NEW k \in Recs, WorkerPublish(k) \/ WorkerReturns(k) \/ WorkerThrows(k)
       PROVE  Holds(mgr, mgr', q)
  <2>1. mgr'.stream = mgr.stream
    BY <1>15, WorkerWorks DEF Works
  <2>2. "stream" \in DOMAIN mgr'
    <3>1. BuildInvariant'
      BY NextOK
    <3> QED BY <3>1 DEF BuildInvariant, TypeOK, Manager
  <2> QED BY <1>5, <2>1, <2>2
<1>16. CASE Dispose \/ DisposeDone
  BY <1>16 DEF Holds, Dispose, DisposeDone
<1>17. CASE mgr' = mgr
  BY <1>4, <1>17
<1>18. CASE NewRequest
  BY <1>7, <1>8, <1>9, <1>10, <1>11, <1>12, <1>18, <1>12a DEF NewRequest
<1>19. CASE CursorCall
  BY <1>13, <1>14, <1>14a, <1>19 DEF CursorCall
<1>20. CASE Worker
  BY <1>15, <1>20 DEF Worker
<1> QED BY <1>16, <1>17, <1>18, <1>19, <1>20
        DEF Next, Environment, ClockTick, EditSources, vars

\* A successful build ended with the event that says so.
Crowned ==
    \A r \in Recs : Outcome(r) = "success" =>
        mgr.log[r] # <<>> /\ mgr.log[r][Len(mgr.log[r])].outcome = "success"

LEMMA CrownedNext == BuildInvariant /\ Crowned /\ [Next]_vars => Crowned'
<1> SUFFICES ASSUME BuildInvariant, Crowned, [Next]_vars, NEW r \in Recs,
                    Outcome(r)' = "success"
             PROVE  mgr'.log[r] # <<>> /\ mgr'.log[r][Len(mgr'.log[r])].outcome = "success"
  BY DEF Crowned
<1>1. /\ mgr.terminal \in [Recs -> Terminals] /\ mgr.log \in [Recs -> Seq(Event)]
  BY DEF BuildInvariant, TypeOK, Manager
<1>2. CASE ~Worker
  <2>1. mgr'.log = mgr.log
    BY <1>2, OthersQuiet DEF QuietStep
  <2>2. Outcome(r) = "success"
    BY OutcomeStep, <1>2, OthersQuiet DEF QuietStep
  <2> QED BY <2>1, <2>2 DEF Crowned
<1>3. CASE Worker
  <2>1. PICK k \in Recs : Works(k)
    BY <1>3, WorkerWorks DEF Worker
  <2>2. CASE k # r
    <3>1. mgr'.log[r] = mgr.log[r] /\ Outcome(r) = "success"
      BY <1>1, <2>1, <2>2 DEF Works, Outcome
    <3> QED BY <3>1 DEF Crowned
  <2>3. CASE k = r
    <3>1. PICK e \in Event : e.outcome = "success" /\ mgr'.log = [mgr.log EXCEPT ![r] = Append(@, e)]
      BY <1>1, <2>1, <2>3 DEF Works, Outcome, Failures
    <3>2. mgr.log[r] \in Seq(Event) /\ mgr'.log[r] = Append(mgr.log[r], e)
      BY <1>1, <3>1
    <3>3. Len(mgr'.log[r]) = Len(mgr.log[r]) + 1 /\ mgr'.log[r][Len(mgr.log[r]) + 1] = e
      BY <3>2
    <3>4. mgr'.log[r] # <<>>
      BY <3>2, <3>3
    <3> QED BY <3>1, <3>3, <3>4
  <2> QED BY <2>2, <2>3
<1> QED BY <1>2, <1>3

LEMMA AlwaysCrowned == Spec => []Crowned
<1>1. Init => Crowned
  BY DEF Init, Crowned, Outcome
<1> QED BY <1>1, CrownedNext, Invariance, PTL DEF Spec

\* A turn of a read ends it, leads it to the next event, or parks it at a build that
\* still runs.
LEMMA ReadTurn ==
    ASSUME BuildInvariant, FeedOK(mgr), Crowned, NEW q \in Requests, LiveReadTurn(q)
    PROVE  \/ ~mgr'.stream[q].reading
           \/ /\ mgr'.stream[q].rec = mgr.stream[q].rec
              /\ mgr'.stream[q].seen = mgr.stream[q].seen + 1
           \/ mgr'.stream = mgr.stream /\ Outcome(mgr.stream[q].rec) \notin Finished
<1> DEFINE r == mgr.stream[q].rec
           x == mgr.stream[q].seen
           v == NextVersion(mgr, r, x)
           m == [mgr EXCEPT !.stream[q].seen = v]
<1>1. MgrOK(mgr) /\ mgr \in Manager /\ now \in Nat /\ mgr.stream[q].reading
  BY Begin DEF LiveReadTurn, MgrOK
<1>2. /\ mgr.stream[q] \in Stream /\ mgr.stream[q].kind = "live" /\ r \in Recs
      /\ mgr.log[r] \in Seq(Event) /\ x \in 1 .. Len(mgr.log[r])
  BY <1>1 DEF MgrOK, Manager, StreamsOK
<1>3. \/ mgr' = CleanupResults(mgr, {q}, now)
      \/ /\ Outcome(r) \notin Failures /\ v = 0
         /\ mgr' = [mgr EXCEPT !.waiters[r] = mgr.waiters[r] \cup {q}]
      \/ v # 0 /\ mgr' = m
      \/ v # 0 /\ \E P \in Page(Available(m, q)) : mgr' = Serve(m, q, P, now)
  <2>1. IF mgr.terminal[r] \in Failures
        THEN mgr' = CleanupResults(mgr, {q}, now)
        ELSE IF v = 0
        THEN mgr' = [mgr EXCEPT !.waiters[r] = mgr.waiters[r] \cup {q}]
        ELSE IF CanServe(m, q)
        THEN \E P \in Page(Available(m, q)) : mgr' = Serve(m, q, P, now)
        ELSE mgr' = m
    BY DEF LiveReadTurn
  <2> HIDE DEF m, v
  <2> QED BY <2>1 DEF Outcome
<1>4. CASE mgr' = CleanupResults(mgr, {q}, now)
  <2>1. Cleans(mgr, mgr', {q})
    BY <1>1, <1>4, CleanupResultsCleans
  <2> QED BY <2>1 DEF Cleans, Ends
<1>5. CASE /\ Outcome(r) \notin Failures /\ v = 0
           /\ mgr' = [mgr EXCEPT !.waiters[r] = mgr.waiters[r] \cup {q}]
  <2>1. Outcome(r) # "success"
    <3>1. Len(mgr.log[r]) # 0
      BY <1>2
    <3>2. mgr.terminal[r] = "success" => v = x + 1 \/ v = Len(mgr.log[r])
      BY DEF NextVersion
    <3>3. x + 1 # 0
      BY <1>2
    <3> HIDE DEF v
    <3> QED BY <1>5, <3>1, <3>2, <3>3 DEF Outcome
  <2>2. mgr'.stream = mgr.stream
    BY <1>1, <1>5 DEF Manager
  <2> QED BY <1>5, <2>1, <2>2 DEF Finished
<1>6. ASSUME v # 0 PROVE v = x + 1
  <2>1. mgr.log[r][x].outcome # "success"
    BY <1>1, <1>2 DEF FeedOK, Emptied
  <2>2. ~(Outcome(r) = "success" /\ x = Len(mgr.log[r]))
    BY <1>2, <2>1 DEF Crowned
  <2> DEFINE l == Len(mgr.log[r])
  <2>3. l \in Nat /\ x \in 1 .. l
    BY <1>2
  <2>4. v = IF l > x THEN x + 1 ELSE IF Outcome(r) = "success" THEN l ELSE 0
    BY DEF NextVersion, Outcome
  <2> HIDE DEF v, l, x
  <2> QED BY <1>6, <2>2, <2>3, <2>4 DEF l
<1> HIDE DEF v
<1>7. CASE v # 0 /\ mgr' = m
  <2>1. mgr.stream \in [Requests -> Stream]
    BY <1>1 DEF Manager
  <2>2. mgr'.stream[q] = [mgr.stream[q] EXCEPT !.seen = v]
    BY <1>1, <1>7 DEF Manager
  <2>3. mgr'.stream[q].rec = r /\ mgr'.stream[q].seen = v
    BY <1>2, <2>2 DEF Stream
  <2> QED BY <1>6, <1>7, <2>3
<1>8. ASSUME v # 0, NEW P \in Page(Available(m, q)), mgr' = Serve(m, q, P, now)
      PROVE  ~mgr'.stream[q].reading
  <2>1. Reads(mgr, m, q) /\ m.stream[q].kind = "live"
    BY <1>1, <1>8, TurnReads DEF v
  <2>2. LiveOK(m) /\ m \in Manager
    BY <1>1, <2>1, ReadLive DEF Reads
  <2> HIDE DEF m
  <2>3. Serves(m, Serve(m, q, P, now), q, P)
    BY <1>1, <2>1, <2>2, ServeShape
  <2> QED BY <1>8, <2>3 DEF Serves
<1> QED BY <1>3, <1>4, <1>5, <1>7, <1>8

\* Whoever is parked at a build waits for a first event of it, or has read all of them,
\* and the build still runs.
ParkedAt(q, r) ==
    /\ Outcome(r) = "pending"
    /\ \/ pc[q] = "progressive" /\ target[q] = r /\ mgr.log[r] = <<>>
       \/ /\ mgr.stream[q].reading /\ mgr.stream[q].rec = r
          /\ mgr.stream[q].seen = Len(mgr.log[r])

Parked == \A r \in Recs : \A q \in mgr.waiters[r] : ParkedAt(q, r)

\* A request that is parked stays where it is or is aborted.
LEMMA ParkedStays ==
    ASSUME BuildInvariant, [Next]_vars, NEW q \in Requests, pc[q] = "progressive",
           q \in mgr.waiters[target[q]], ~AbortProgressive(q)
    PROVE  pc'[q] = pc[q] /\ target'[q] = target[q]
<1>1. pc \in [Requests -> Places] /\ target \in [Requests -> Recs \cup {NoRec}]
  BY DEF BuildInvariant, TypeOK
<1>2. ASSUME NEW p \in Requests, NEW s, NEW mode, Acquire(p, s, mode) \/ AcquireRefused(p)
      PROVE  pc'[q] = pc[q] /\ target'[q] = target[q]
  BY <1>1, <1>2 DEF Acquire, AcquireRefused
<1>3. ASSUME NEW p \in Requests,
             \/ BuildResolved(p) \/ BuildRejected(p) \/ AbortBuilding(p)
             \/ CleanupAcknowledged(p) \/ AwaitFirstSnapshot(p) \/ AbortProgressive(p)
             \/ PublishStatic(p) \/ ProjectionThrows(p) \/ PublishLive(p) \/ StoreThrows(p)
      PROVE  pc'[q] = pc[q] /\ target'[q] = target[q]
  <2>1. target' = target /\ \E k \in Onward(pc[p]) \cup {pc[p]} : pc' = [pc EXCEPT ![p] = k]
    BY <1>3, CallMoves
  <2>2. p # q
    BY <1>3 DEF BuildResolved, BuildRejected, AbortBuilding, CleanupAcknowledged,
                AwaitFirstSnapshot, PublishStatic, ProjectionThrows, PublishLive, StoreThrows
  <2> QED BY <1>1, <2>1, <2>2
<1>4. CASE NewRequest
  BY <1>2, <1>3, <1>4 DEF NewRequest
<1>5. CASE UNCHANGED <<pc, target>>
  BY <1>5
<1> QED BY <1>4, <1>5 DEF Next, CursorCall, ReadContinuation, CancelContinuation, LiveReadTurn,
           ReadThrows,
           Worker, WorkerPublish, WorkerReturns, WorkerThrows,
           Environment, Dispose, DisposeDone, ClockTick, EditSources, vars

ParkingOK == BuildInvariant /\ StreamInvariant /\ Begun /\ Parked

\* Who parks has nothing to read, of a build that runs.
LEMMA NewlyParked ==
    ASSUME ParkingOK, QuietStep, NEW r \in Recs, NEW q \in mgr'.waiters[r], q \notin mgr.waiters[r]
    PROVE  ParkedAt(q, r)'
<1>1. /\ mgr \in Manager /\ mgr.waiters \in [Recs -> SUBSET Requests]
      /\ mgr.log[r] \in Seq(Event) /\ Outcome(r) \in Terminals
  BY DEF ParkingOK, BuildInvariant, TypeOK, Manager, Outcome
<1>2. CASE \E p \in Requests : /\ AwaitFirstSnapshot(p) /\ pc' = pc
                               /\ Parks(p, target[p], 0)
  <2>1. PICK p \in Requests : AwaitFirstSnapshot(p) /\ pc' = pc /\ Parks(p, target[p], 0)
    BY <1>2
  <2>2. p = q /\ target[p] = r
    BY <1>1, <2>1 DEF Parks
  <2>3. /\ pc[q] = "progressive" /\ target' = target
        /\ mgr'.terminal = mgr.terminal /\ mgr'.log = mgr.log
        /\ Outcome(r) \notin Failures /\ ~(NextVersion(mgr, r, 0) > 0)
    BY <2>1, <2>2 DEF Parks, AwaitFirstSnapshot, Outcome
  <2>4. Outcome(r) # "unused"
    BY <2>2, <2>3 DEF ParkingOK, Begun
  <2>5. mgr.log[r] = <<>>
    <3> SUFFICES ASSUME mgr.log[r] # <<>> PROVE FALSE
      OBVIOUS
    <3>1. Len(mgr.log[r]) \in Nat /\ Len(mgr.log[r]) > 0
      BY <1>1
    <3> QED BY <2>3, <3>1 DEF NextVersion
  <2>6. Outcome(r) # "success"
    BY <2>5 DEF ParkingOK, BuildInvariant, BuildsOK, Outcome
  <2>7. Outcome(r) = "pending"
    BY <1>1, <2>3, <2>4, <2>6 DEF Terminals
  <2> QED BY <2>1, <2>2, <2>3, <2>5, <2>7 DEF ParkedAt, Outcome
<1>3. CASE \E p \in Requests : /\ LiveReadTurn(p)
                               /\ Parks(p, mgr.stream[p].rec, mgr.stream[p].seen)
  <2>1. PICK p \in Requests : LiveReadTurn(p) /\ Parks(p, mgr.stream[p].rec, mgr.stream[p].seen)
    BY <1>3
  <2>2. p = q /\ mgr.stream[p].rec = r
    BY <1>1, <2>1 DEF Parks
  <2> DEFINE x == mgr.stream[q].seen
             l == Len(mgr.log[r])
  <2>3. /\ mgr.stream[q].reading
        /\ mgr'.terminal = mgr.terminal /\ mgr'.log = mgr.log /\ mgr'.stream = mgr.stream
        /\ Outcome(r) \notin Failures /\ ~(NextVersion(mgr, r, x) > 0)
    BY <2>1, <2>2 DEF Parks, LiveReadTurn, Outcome
  <2>4. x \in 1 .. l /\ l \in Nat
    BY <1>1, <2>2, <2>3 DEF ParkingOK, BuildInvariant, StreamsOK
  <2>5. x = l /\ Outcome(r) # "success"
    <3>1. NextVersion(mgr, r, x) = IF l > x THEN x + 1 ELSE IF Outcome(r) = "success" THEN l ELSE 0
      BY DEF NextVersion, Outcome
    <3> HIDE DEF x, l
    <3> QED BY <2>3, <2>4, <3>1
  <2>6. Outcome(r) # "unused"
    <3>1. mgr.log[r] # <<>>
      BY <2>4
    <3> QED BY <3>1 DEF ParkingOK, StreamInvariant, Tidy, ParkedOK, Outcome
  <2>7. Outcome(r) = "pending"
    BY <1>1, <2>3, <2>5, <2>6 DEF Terminals
  <2> QED BY <2>2, <2>3, <2>5, <2>7 DEF ParkedAt, Outcome
<1>4. CASE \E p \in Requests : /\ AbortProgressive(p)
                               /\ mgr'.waiters = [mgr.waiters EXCEPT ![target[p]] = @ \ {p}]
  BY <1>1, <1>4
<1>5. CASE mgr'.waiters = mgr.waiters
  BY <1>5
<1> QED BY <1>2, <1>3, <1>4, <1>5 DEF QuietStep, ParkingStep

LEMMA ParkedNext == ParkingOK /\ [Next]_vars => Parked'
<1> SUFFICES ASSUME ParkingOK, [Next]_vars, NEW r \in Recs, NEW q \in mgr'.waiters[r]
             PROVE  ParkedAt(q, r)'
  BY DEF Parked
<1>1. /\ mgr \in Manager /\ mgr.waiters \in [Recs -> SUBSET Requests]
      /\ mgr.terminal \in [Recs -> Terminals] /\ mgr.log \in [Recs -> Seq(Event)]
  BY DEF ParkingOK, BuildInvariant, TypeOK, Manager
<1>2. q \in mgr.waiters[r] \/ QuietStep
  <2>1. CASE ~Worker
    BY <2>1, OthersQuiet DEF ParkingOK
  <2>2. CASE Worker
    <3>1. PICK k \in Recs : Works(k)
      BY <2>2, WorkerWorks DEF Worker, ParkingOK
    <3> QED BY <1>1, <3>1 DEF Works
  <2> QED BY <2>1, <2>2
<1>3. CASE q \in mgr.waiters[r]
  <2>1. ParkedAt(q, r) /\ q \in Requests
    BY <1>1, <1>3 DEF ParkingOK, Parked
  <2>2. Outcome(r)' = Outcome(r) /\ mgr'.log[r] = mgr.log[r]
    <3>1. CASE ~Worker
      BY <2>1, <3>1, OthersQuiet DEF ParkingOK, QuietStep, ParkedAt
    <3>2. CASE Worker
      <4>1. PICK k \in Recs : Works(k)
        BY <3>2, WorkerWorks DEF Worker, ParkingOK
      <4>2. k # r
        BY <1>1, <4>1 DEF Works
      <4> QED BY <1>1, <4>1, <4>2 DEF Works, Outcome
    <3> QED BY <3>1, <3>2
  <2>3. CASE pc[q] = "progressive" /\ target[q] = r /\ mgr.log[r] = <<>>
    <3>1. ~AbortProgressive(q)
      <4> SUFFICES ASSUME AbortProgressive(q) PROVE FALSE
        OBVIOUS
      <4>1. mgr'.waiters = [mgr.waiters EXCEPT ![target[q]] = @ \ {q}]
        BY <1>1, <2>1, TurnsPark
      <4> QED BY <1>1, <2>3, <4>1
    <3>2. pc'[q] = pc[q] /\ target'[q] = target[q]
      BY <1>3, <2>1, <2>3, <3>1, ParkedStays DEF ParkingOK
    <3> QED BY <2>1, <2>2, <2>3, <3>2 DEF ParkedAt
  <2>4. CASE /\ mgr.stream[q].reading /\ mgr.stream[q].rec = r
             /\ mgr.stream[q].seen = Len(mgr.log[r])
    <3>1. ~LiveReadTurn(q) /\ ~ReadThrows(q)
      BY <1>3, <2>4 DEF LiveReadTurn, ReadThrows
    <3>2. mgr'.stream[q] = mgr.stream[q]
      BY <2>1, <2>4, <3>1, ReadHolds DEF ParkingOK
    <3> QED BY <2>1, <2>2, <2>4, <3>2 DEF ParkedAt
  <2> QED BY <2>1, <2>3, <2>4 DEF ParkedAt
<1>4. CASE q \notin mgr.waiters[r]
  BY <1>2, <1>4, NewlyParked
<1> QED BY <1>3, <1>4

\* No wake-up is lost: whoever is parked, a request for its first snapshot or a read, has
\* nothing to read yet and waits for a build that has yet to publish or to settle.
THEOREM NoLostWakeup == Spec => []Parked
<1>1. Init => Parked
  BY DEF Init, Parked
<1>2. ParkingOK /\ [Next]_vars => Parked'
  BY ParkedNext
<1> QED BY <1>1, <1>2, StreamsInvariance, AlwaysBegun, PTL DEF Spec, ParkingOK

Reading(q, r, n) ==
    mgr.stream[q].reading /\ mgr.stream[q].rec = r /\ mgr.stream[q].seen = n

\* A read is over, or has come to a later event.
ReadOn(q, n) == ~mgr.stream[q].reading \/ mgr.stream[q].seen > n

\* A read at an event stays there until a turn of its own leads on, and a turn after the
\* end of the build does.
LEMMA ReadingMoves ==
    ASSUME BuildInvariant, StreamInvariant, FeedOK(mgr), Crowned, [Next]_vars,
           NEW q \in Requests, NEW r \in Recs, NEW n \in Nat, Reading(q, r, n)
    PROVE  /\ Reading(q, r, n)' \/ ReadOn(q, n)'
           /\ Over(r) /\ LiveReadTurn(q) => ReadOn(q, n)'
<1>1. CASE ~LiveReadTurn(q) /\ ~ReadThrows(q)
  BY <1>1, ReadHolds DEF Reading
<1>2. CASE ReadThrows(q)
  <2>1. ~mgr'.stream[q].reading
    BY <1>2 DEF ReadThrows, CleanupResults, BuildInvariant, TypeOK, Manager, Stream
  <2> QED BY <2>1 DEF ReadOn
<1>3. CASE LiveReadTurn(q)
  <2>1. \/ ~mgr'.stream[q].reading
        \/ /\ mgr'.stream[q].rec = r /\ mgr'.stream[q].seen = n + 1
        \/ mgr'.stream = mgr.stream /\ Outcome(r) \notin Finished
    BY <1>3, ReadTurn DEF Reading
  <2>2. n + 1 > n
    OBVIOUS
  <2> QED BY <2>1, <2>2 DEF Reading, ReadOn, Over
<1> QED BY <1>1, <1>2, <1>3

\* A read waits for a build that runs or is over, and when it is over the read has its turn.
LEMMA ReadingReady ==
    ASSUME BuildInvariant, StreamInvariant, NEW q \in Requests, NEW r \in Recs, NEW n,
           Reading(q, r, n)
    PROVE  /\ Over(r) \/ r \in mgr.unsettled
           /\ Over(r) => mgr.stream[q].reading /\ q \notin mgr.waiters[mgr.stream[q].rec]
<1>1. Outcome(r) \in Terminals /\ mgr.log[r] \in Seq(Event)
  BY DEF BuildInvariant, TypeOK, Manager, Outcome
<1>2. mgr.stream[q].seen \in 1 .. Len(mgr.log[r])
  BY DEF Reading, BuildInvariant, StreamsOK
<1>3. Outcome(r) # "unused"
  <2>1. mgr.log[r] # <<>>
    BY <1>1, <1>2
  <2> QED BY <2>1 DEF StreamInvariant, Tidy, ParkedOK, Outcome
<1>4. Over(r) \/ r \in mgr.unsettled
  BY <1>1, <1>3
     DEF Over, Finished, Terminals, Failures, Outcome, BuildInvariant, BuildsOK, Pending
<1>5. Over(r) => mgr.waiters[r] = {}
  BY DEF Over, Finished, Failures, Outcome, StreamInvariant, Tidy, ParkedOK
<1> QED BY <1>4, <1>5 DEF Reading

GoesOnFrom(q, r, n) == [](Reading(q, r, n) => <>ReadOn(q, n))

LEMMA ReadGoesOn ==
    ASSUME NEW q \in Requests, NEW r \in Recs, NEW n \in Nat
    PROVE  Spec /\ LoopRuns(q) /\ WorkerSettles(r) => GoesOnFrom(q, r, n)
<1> DEFINE J == BuildInvariant /\ StreamInvariant /\ FeedOK(mgr) /\ Crowned
           R == Reading(q, r, n)
           A == ReadOn(q, n)
           O == Over(r)
           W == WorkerReturns(r) \/ WorkerThrows(r)
           T == mgr.stream[q].reading /\ q \notin mgr.waiters[mgr.stream[q].rec]
<1>1. Spec => []J
  BY StreamsInvariance, AlwaysCrowned, Invariance, FeedInvariance, PTL
<1>2. J /\ R => O \/ r \in mgr.unsettled
  BY ReadingReady
<1>3. J /\ R /\ O => T
  BY ReadingReady
<1>4. J /\ [Next]_vars /\ O => O'
  BY BuildEnds
<1>5. J /\ [Next]_vars /\ <<W>>_vars => O'
  BY BuildEnds
<1>6. J /\ [Next]_vars /\ R => (R' \/ A')
  BY ReadingMoves
<1>7. J /\ [Next]_vars /\ R /\ O /\ <<LiveReadTurn(q)>>_vars => A'
  BY ReadingMoves
<1>8. LoopRuns(q) => []<>~T \/ []<><<LiveReadTurn(q)>>_vars
  BY DEF LoopRuns, Taken
<1>9. WorkerSettles(r) => []<>~(r \in mgr.unsettled) \/ []<><<W>>_vars
  BY DEF WorkerSettles, Taken
<1> HIDE DEF J, R, A, O, W, T
<1>10. Spec /\ LoopRuns(q) /\ WorkerSettles(r) => [](R => <>A)
  BY <1>1, <1>2, <1>3, <1>4, <1>5, <1>6, <1>7, <1>8, <1>9, PTL DEF Spec
<1> QED BY <1>10 DEF GoesOnFrom, R, A

\* Every read gets on: while its build works or after it, it is answered or comes to a
\* later event, of the finitely many there are.
THEOREM ReadsGoOn ==
    ASSUME NEW q \in Requests, NEW n \in Nat
    PROVE  Spec /\ LoopRuns(q) /\ (\A r \in Recs : WorkerSettles(r))
           => (mgr.stream[q].reading /\ mgr.stream[q].seen = n ~> ReadOn(q, n))
<1> DEFINE Fair == LoopRuns(q) /\ (\A r \in Recs : WorkerSettles(r))
           B == mgr.stream[q].reading /\ mgr.stream[q].seen = n
<1>1. Spec /\ Fair => \A r \in Recs : GoesOnFrom(q, r, n)
  BY ReadGoesOn
<1>2. (\A r \in Recs : GoesOnFrom(q, r, n))
      => [](\A r \in Recs : Reading(q, r, n) => <>ReadOn(q, n))
  BY DEF GoesOnFrom
<1>3. BuildInvariant /\ B => \E r \in Recs : Reading(q, r, n)
  BY DEF BuildInvariant, StreamsOK, Reading
<1>4. (\A r \in Recs : Reading(q, r, n) => <>ReadOn(q, n)) /\ (B => \E r \in Recs : Reading(q, r, n))
      => (B => <>ReadOn(q, n))
  OBVIOUS
<1>5. BuildInvariant => (B => \E r \in Recs : Reading(q, r, n))
  BY <1>3
<1> HIDE DEF B
<1>6. Spec /\ Fair => (B ~> ReadOn(q, n))
  BY <1>1, <1>2, <1>4, <1>5, Invariance, PTL
<1> QED BY <1>6 DEF B

-----------------------------------------------------------------------------
(***************************************************************************)
(* A result is paged as PagedFeed promises.                                *)
(***************************************************************************)

\* What was given was offered, and what is there was opened.
Fit(f) ==
    /\ f \in Feeds!Feed /\ f.given \subseteq f.offered
    /\ f.place = "none" => f = Feeds!Closed

\* The result is given up, or nothing happens to it.
Leaves(f, g) == g = f \/ Feeds!Drops(f, g)

\* The next page is given.
Pays(f, g) == Feeds!Pages(f, g) \/ Feeds!Completes(f, g)

LEMMA MovesFit ==
    ASSUME NEW f, Fit(f), NEW g, Feeds!Moves(f, g)
    PROVE  Fit(g)
<1> USE DEF Fit
<1>1. CASE Feeds!Opens(f, g)
  BY <1>1 DEF Feeds!Opens, Feeds!Closed
<1>2. CASE Feeds!Grows(f, g)
  <2>1. /\ g = [f EXCEPT !.offered = g.offered] /\ f.place # "none"
        /\ f.offered \subseteq g.offered /\ g.offered \in SUBSET Items
    BY <1>2 DEF Feeds!Grows
  <2>2. g \in Feeds!Feed /\ g.given = f.given /\ g.place = f.place
    BY <2>1 DEF Feeds!Feed
  <2> QED BY <2>1, <2>2
<1>3. CASE Feeds!Claims(f, g) \/ Feeds!Drops(f, g)
  BY <1>3 DEF Feeds!Claims, Feeds!Drops, Feeds!Feed
<1>4. CASE Feeds!Pages(f, g)
  <2>1. PICK P \in SUBSET (f.offered \ f.given) :
           g = [f EXCEPT !.place = "ready", !.given = @ \cup P, !.page = @ + 1]
    BY <1>4 DEF Feeds!Pages
  <2> DEFINE d == f.given \cup P
             k == f.page + 1
  <2>2. d \in SUBSET Items /\ d \subseteq f.offered /\ k \in Nat
    BY DEF Feeds!Feed
  <2>3. g = [f EXCEPT !.place = "ready", !.given = d, !.page = k]
    BY <2>1
  <2> HIDE DEF d, k
  <2>4. g \in Feeds!Feed /\ g.given = d /\ g.offered = f.offered /\ g.place = "ready"
    BY <2>2, <2>3 DEF Feeds!Feed
  <2> QED BY <2>2, <2>4
<1>5. CASE Feeds!Completes(f, g)
  BY <1>5 DEF Feeds!Completes, Feeds!Feed
<1> QED BY <1>1, <1>2, <1>3, <1>4, <1>5 DEF Feeds!Moves

LEMMA LeavesMoves ==
    ASSUME NEW f, NEW g, Leaves(f, g) PROVE Feeds!Moves(f, g)
  BY DEF Leaves, Feeds!Moves

LEMMA LeavesTwice ==
    ASSUME NEW f, Fit(f), NEW g, Leaves(f, g), NEW h, Leaves(g, h)
    PROVE  Leaves(f, h)
<1>1. ASSUME Feeds!Drops(f, g) PROVE g.place = "dropped"
  BY <1>1 DEF Feeds!Drops, Fit, Feeds!Feed
<1> QED BY <1>1 DEF Leaves, Feeds!Drops, Feeds!Open

\* The fields of a feed.
Offered(L, r) == UNION {L[r][i].items : i \in 1 .. Len(L[r])}

LEMMA FeedFields ==
    ASSUME NEW m, NEW q
    PROVE  LET s == m.stream[q]
               f == FeedOf(m, q)
           IN /\ f = [place |-> f.place, offered |-> f.offered, given |-> f.given,
                      page |-> f.page]
              /\ f.place = IF s.kind = "none" THEN "none"
                           ELSE IF s.reading THEN "reading"
                           ELSE IF HasCursor(m, q) THEN "ready"
                           ELSE IF s.ended THEN "complete" ELSE "dropped"
              /\ f.offered = IF s.kind = "live" THEN Offered(m.log, s.rec) ELSE s.stored
              /\ f.given = s.delivered /\ f.page = s.page
  BY DEF FeedOf, Offered

LEMMA FeedTyped ==
    ASSUME NEW m, m \in Manager, LiveOK(m), NEW q \in Requests
    PROVE  FeedOf(m, q) \in Feeds!Feed
<1> DEFINE s == m.stream[q]
           f == FeedOf(m, q)
<1>1. s.stored \in SUBSET Items /\ s.delivered \in SUBSET Items /\ s.page \in Nat
  BY DEF Manager, Stream
<1>2. ASSUME s.kind = "live" PROVE Offered(m.log, s.rec) \in SUBSET Items
  <2>1. m.log[s.rec] \in Seq(Event)
    BY <1>2 DEF LiveOK, Manager
  <2>2. ASSUME NEW L \in Seq(Event) PROVE \A i \in 1 .. Len(L) : L[i].items \in SUBSET Items
    <3>1. \A e \in Event : e.items \in SUBSET Items
      BY DEF Event
    <3>2. \A i \in 1 .. Len(L) : L[i] \in Event
      OBVIOUS
    <3> QED BY <3>1, <3>2
  <2> HIDE DEF s
  <2> QED BY <2>1, <2>2 DEF Offered
<1>3. /\ f = [place |-> f.place, offered |-> f.offered, given |-> f.given, page |-> f.page]
      /\ f.place \in {"none", "ready", "reading", "complete", "dropped"}
      /\ f.offered \in SUBSET Items /\ f.given \in SUBSET Items /\ f.page \in Nat
  <2> HIDE DEF f, s
  <2> QED BY <1>1, <1>2, FeedFields DEF f, s
<1> HIDE DEF f
<1> QED BY <1>3 DEF Feeds!Feed, f

\* Of stream q nothing changes but that it may lose its cursor or its read.
Fades(m, n, q) ==
    /\ Rests(m, n, q)
    /\ n.stream[q].stored = m.stream[q].stored /\ n.stream[q].page = m.stream[q].page
    /\ m.stream[q].reading => n.stream[q].reading \/ ~HasCursor(n, q)

LEMMA FadesLeaves ==
    ASSUME NEW m, MgrOK(m), FeedOK(m), NEW n, n.log = m.log, NEW q \in Requests,
           Fades(m, n, q)
    PROVE  Leaves(FeedOf(m, q), FeedOf(n, q))
<1> DEFINE s == m.stream[q]
           f == FeedOf(m, q)
           g == FeedOf(n, q)
           same == /\ n.stream[q].reading <=> s.reading
                   /\ HasCursor(n, q) <=> HasCursor(m, q)
<1>1. CASE same
  <2>1. Alike(m, n, q)
    BY <1>1 DEF Fades, Rests, Alike
  <2> QED BY <2>1, FeedAlike DEF Leaves
<1>2. CASE n.stream[q].reading
  <2>1. s.kind # "none" /\ s.reading /\ n.stream[q].kind = s.kind
    BY <1>2 DEF Fades, Rests, MgrOK, StreamsOK
  <2>2. /\ f = [place |-> f.place, offered |-> f.offered, given |-> f.given, page |-> f.page]
        /\ g = [place |-> g.place, offered |-> g.offered, given |-> g.given, page |-> g.page]
        /\ f.place = "reading" /\ g.place = "reading"
        /\ g.offered = f.offered /\ g.given = f.given /\ g.page = f.page
    BY <1>2, <2>1, FeedFields DEF Fades, Rests
  <2> HIDE DEF f, g
  <2>3. g = f
    BY <2>2
  <2> QED BY <2>3 DEF Leaves, f, g
<1>3. CASE ~same /\ ~n.stream[q].reading
  <2>1. /\ s.reading \/ HasCursor(m, q)
        /\ ~HasCursor(n, q)
    BY <1>3 DEF Fades, Rests
  <2>2. s.kind # "none" /\ ~s.ended
    BY <2>1 DEF MgrOK, StreamsOK, FeedOK, Fed
  <2>3. /\ n.stream[q].kind = s.kind /\ n.stream[q].rec = s.rec
        /\ n.stream[q].stored = s.stored /\ n.stream[q].delivered = s.delivered
        /\ n.stream[q].page = s.page /\ n.stream[q].ended = s.ended
    BY DEF Fades, Rests
  <2> HIDE DEF s, same
  <2>4. /\ f = [place |-> f.place, offered |-> f.offered, given |-> f.given, page |-> f.page]
        /\ g = [place |-> g.place, offered |-> g.offered, given |-> g.given, page |-> g.page]
        /\ f.place \in {"ready", "reading"} /\ g.place = "dropped"
        /\ g.offered = f.offered /\ g.given = f.given /\ g.page = f.page
    BY <1>3, <2>1, <2>2, <2>3, FeedFields DEF s
  <2> HIDE DEF f, g
  <2>5. g = [f EXCEPT !.place = "dropped"]
    BY <2>4
  <2> QED BY <2>4, <2>5 DEF Leaves, Feeds!Drops, Feeds!Open, f, g
<1> QED BY <1>1, <1>2, <1>3

\* Clean-up gives the results of S up that are still paged.
LEMMA CleansLeaves ==
    ASSUME NEW m, MgrOK(m), FeedOK(m), NEW n, NEW S, Cleans(m, n, S), NEW q \in Requests
    PROVE  Leaves(FeedOf(m, q), FeedOf(n, q))
<1>1. n.log = m.log /\ Fades(m, n, q)
  BY DEF Cleans, Ends, HasCursor, Fades, Rests
<1> QED BY <1>1, FadesLeaves

\* A step that leaves the logs, the streams and the cursors alone.
SameView(m, n) == n.log = m.log /\ n.stream = m.stream /\ n.cursors = m.cursors

LEMMA ViewFeed ==
    ASSUME NEW m, NEW n, SameView(m, n), NEW q
    PROVE  FeedOf(n, q) = FeedOf(m, q)
<1>1. Alike(m, n, q)
  BY DEF SameView, Alike, HasCursor
<1> QED BY <1>1, FeedAlike DEF SameView

\* q is given a page, and nothing happens to the others.
Served(m, n, q) ==
    /\ Pays(FeedOf(m, q), FeedOf(n, q))
    /\ \A p \in Requests \ {q} : FeedOf(n, p) = FeedOf(m, p)

\* What a page is cut from was offered and not given, and what is left of it is new.
LEMMA PageOffered ==
    ASSUME NEW m, LiveOK(m), m \in Manager, NEW q \in Requests, NEW P \in Page(Available(m, q))
    PROVE  /\ P \subseteq FeedOf(m, q).offered \ FeedOf(m, q).given
           /\ P = {} => Available(m, q) = {}
<1> DEFINE s == m.stream[q]
           f == FeedOf(m, q)
           A == Available(m, q)
<1>1. A \subseteq f.offered \ f.given
  <2>1. CASE s.kind = "live"
    <3>1. A = m.log[s.rec][s.seen].items \ s.delivered
      BY <2>1 DEF Available
    <3>2. s.seen \in 1 .. Len(m.log[s.rec])
      BY <2>1 DEF LiveOK
    <3>3. f.offered = Offered(m.log, s.rec) /\ f.given = s.delivered
      BY <2>1, FeedFields
    <3> HIDE DEF f, A, s
    <3> QED BY <3>1, <3>2, <3>3 DEF Offered
  <2>2. CASE s.kind # "live"
    BY <2>2, FeedFields DEF Available
  <2> QED BY <2>1, <2>2
<1>2. P \subseteq A /\ (P = A \/ Cardinality(P) = PageSize)
  BY DEF Page
<1>3. Cardinality({}) = 0 /\ PageSize # 0
  BY FS_EmptySet, PageSizeAssumption
<1> HIDE DEF f, A
<1> QED BY <1>1, <1>2, <1>3 DEF f, A

\* After the last page all that was offered has been given.
LEMMA LastPage ==
    ASSUME NEW m, m \in Manager, LiveOK(m), LogOK(m), NEW q \in Requests, Delivers(m, q),
           FeedOf(m, q).given \subseteq FeedOf(m, q).offered,
           NEW P \in Page(Available(m, q)), ~More(m, q, P)
    PROVE  FeedOf(m, q).given \cup P = FeedOf(m, q).offered
<1> DEFINE s == m.stream[q]
           f == FeedOf(m, q)
           L == m.log[s.rec]
           v == s.seen
<1>1. P \subseteq f.offered /\ f.given \subseteq f.offered /\ P = Available(m, q)
  BY PageOffered DEF More
<1>2. f.offered \subseteq f.given \cup P
  <2>1. CASE s.kind = "live"
    <3>1. L[v].outcome = "success" /\ P = L[v].items \ s.delivered
      BY <1>1, <2>1 DEF More, Available
    <3>2. s.rec \in Recs /\ v \in 1 .. Len(L) /\ L \in Seq(Event)
      BY <2>1 DEF LiveOK, Manager
    <3>3. v = Len(L)
      BY <3>1, <3>2 DEF LogOK
    <3>4. \A i \in 1 .. v - 1 : L[i].items \subseteq s.delivered
      BY <2>1 DEF Delivers
    <3>5. f.offered = UNION {L[i].items : i \in 1 .. Len(L)} /\ f.given = s.delivered
      BY <2>1, FeedFields DEF Offered
    <3>6. Len(L) \in Nat
      BY <3>2
    <3> HIDE DEF L, s, f, v
    <3>7. \A i \in 1 .. Len(L) : i = v \/ i \in 1 .. v - 1
      BY <3>3, <3>6
    <3>8. \A i \in 1 .. Len(L) : L[i].items \subseteq f.given \cup P
      BY <3>1, <3>4, <3>5, <3>7
    <3> QED BY <3>5, <3>8
  <2>2. CASE s.kind # "live"
    BY <1>1, <2>2, FeedFields DEF Available
  <2> QED BY <2>1, <2>2
<1> HIDE DEF f
<1> QED BY <1>1, <1>2 DEF f

LEMMA ServePays ==
    ASSUME NEW m, m \in Manager, LiveOK(m), LogOK(m), NEW q \in Requests,
           m.stream[q].kind # "none", Delivers(m, q),
           FeedOf(m, q).given \subseteq FeedOf(m, q).offered, Feeds!Open(FeedOf(m, q)),
           m.stream[q].kind = "static" \/ CanServe(m, q),
           NEW P \in Page(Available(m, q)), NEW t \in Nat
    PROVE  Served(m, Serve(m, q, P, t), q)
<1> DEFINE n == Serve(m, q, P, t)
           s == m.stream[q]
           u == n.stream[q]
           f == FeedOf(m, q)
           g == FeedOf(n, q)
           more == More(m, q, P)
<1>1. Serves(m, n, q, P)
  BY ServeShape
<1> HIDE DEF n
<1>2. \A p \in Requests \ {q} : FeedOf(n, p) = FeedOf(m, p)
  BY <1>1, FeedAlike DEF Serves, Unmoved
<1>3. P \subseteq f.offered \ f.given /\ (P = {} => Available(m, q) = {})
  BY PageOffered
<1>4. more => P # {}
  BY <1>3 DEF More, CanServe
<1>5. ~more => f.given \cup P = f.offered
  BY LastPage
<1>6. /\ n.log = m.log
      /\ u.kind = s.kind /\ u.rec = s.rec /\ u.stored = s.stored
      /\ u.delivered = s.delivered \cup P /\ ~u.reading
      /\ more => u.ended = FALSE /\ HasCursor(n, q) /\ u.page = s.page + 1
      /\ ~more => u.ended = TRUE /\ ~HasCursor(n, q) /\ u.page = s.page
  BY <1>1 DEF Serves
<1> HIDE DEF more
<1>7. /\ f = [place |-> f.place, offered |-> f.offered, given |-> f.given, page |-> f.page]
      /\ g = [place |-> g.place, offered |-> g.offered, given |-> g.given, page |-> g.page]
      /\ g.offered = f.offered /\ g.given = f.given \cup P
      /\ more => g.place = "ready" /\ g.page = f.page + 1
      /\ ~more => g.place = "complete" /\ g.page = f.page
  <2> HIDE DEF s, u, f, g
  <2> QED BY <1>6, FeedFields DEF s, u, f, g
<1> HIDE DEF f, g
<1>8. CASE more
  <2>1. g = [f EXCEPT !.place = "ready", !.given = @ \cup P, !.page = @ + 1]
    BY <1>7, <1>8
  <2>2. P \in (SUBSET (f.offered \ f.given)) \ {{}}
    BY <1>3, <1>4, <1>8 DEF f
  <2>3. Feeds!Pages(f, g)
    BY <2>1, <2>2 DEF Feeds!Pages, f
  <2> QED BY <1>2, <2>3 DEF Served, Pays, f, g, n
<1>9. CASE ~more
  <2>1. g = [f EXCEPT !.place = "complete", !.given = f.offered]
    BY <1>5, <1>7, <1>9 DEF f
  <2>2. Feeds!Completes(f, g)
    BY <2>1 DEF Feeds!Completes, f
  <2> QED BY <1>2, <2>2 DEF Served, Pays, f, g, n
<1> QED BY <1>8, <1>9

\* The stream that is read goes on as one that is read.
LEMMA ReadServed ==
    ASSUME NEW m, MgrOK(m), FeedOK(m), NEW q \in Requests, NEW n, Reads(m, n, q),
           FeedOf(n, q).given \subseteq FeedOf(n, q).offered, Feeds!Open(FeedOf(n, q))
    PROVE  /\ \A p \in Requests \ {q} : FeedOf(n, p) = FeedOf(m, p)
           /\ n.stream[q].kind = "static" \/ CanServe(n, q) =>
                 \A P \in Page(Available(n, q)), t \in Nat : Served(n, Serve(n, q, P, t), q)
<1>1. LiveOK(n) /\ LogOK(n)
  BY ReadLive
<1>2. \A p \in Requests \ {q} : FeedOf(n, p) = FeedOf(m, p)
  <2>1. n.log = m.log /\ \A p \in Requests \ {q} : Alike(m, n, p)
    BY DEF Reads, Alike
  <2> QED BY <2>1, FeedAlike
<1> QED BY <1>1, <1>2, ServePays DEF Reads

-----------------------------------------------------------------------------
(* What the actions do to the feeds.                                       *)

PagingOK ==
    /\ BuildInvariant /\ StreamInvariant /\ FeedOK(mgr)
    /\ \A q \in Requests : Fit(FeedOf(mgr, q))

FeedStep(m, n) == \A q \in Requests : Feeds!Moves(FeedOf(m, q), FeedOf(n, q))

LEMMA SameFeedStep ==
    ASSUME NEW m, NEW n, SameView(m, n) PROVE FeedStep(m, n)
  BY ViewFeed DEF FeedStep, Feeds!Moves

\* The sweep every public operation begins with.
LEMMA BeginLeaves ==
    ASSUME PagingOK
    PROVE  LET m == CleanupExpired(mgr, now) IN
           /\ MgrOK(m) /\ m \in Manager /\ FeedOK(m) /\ now \in Nat
           /\ Tidy(m) /\ KindsKept(mgr, m) /\ m.log = mgr.log
           /\ \A q \in Requests : /\ Leaves(FeedOf(mgr, q), FeedOf(m, q))
                                  /\ Fit(FeedOf(m, q))
<1> DEFINE m == CleanupExpired(mgr, now)
<1>1. MgrOK(mgr) /\ now \in Nat /\ MgrOK(m) /\ FeedOK(m) /\ FeedOK(mgr) /\ m \in Manager
  BY Begin, BeginFeed DEF PagingOK
<1>2. Tidy(m) /\ KindsKept(mgr, m) /\ m.log = mgr.log
  BY BeginStreams DEF PagingOK
<1>3. PICK S \in SUBSET Requests : Cleans(mgr, m, S)
  BY <1>1, CleanupExpiredCleans
<1> HIDE DEF m
<1>4. \A q \in Requests : Leaves(FeedOf(mgr, q), FeedOf(m, q))
  BY <1>1, <1>3, CleansLeaves
<1>5. \A q \in Requests : Fit(FeedOf(m, q))
  BY <1>4, LeavesMoves, MovesFit DEF PagingOK
<1> QED BY <1>1, <1>2, <1>4, <1>5 DEF m

\* After the sweep nothing that a client sees changes, or results are given up.
LEMMA BegunStep ==
    ASSUME PagingOK, NEW n, SameView(CleanupExpired(mgr, now), n)
    PROVE  FeedStep(mgr, n)
<1> DEFINE m == CleanupExpired(mgr, now)
<1>1. \A q \in Requests : Leaves(FeedOf(mgr, q), FeedOf(m, q))
  BY BeginLeaves
<1> HIDE DEF m
<1>2. \A q \in Requests : FeedOf(n, q) = FeedOf(m, q)
  BY ViewFeed DEF m
<1> QED BY <1>1, <1>2, LeavesMoves DEF FeedStep

LEMMA BegunCleansStep ==
    ASSUME PagingOK, NEW n, NEW S, Cleans(CleanupExpired(mgr, now), n, S)
    PROVE  FeedStep(mgr, n)
<1> DEFINE m == CleanupExpired(mgr, now)
<1>1. MgrOK(m) /\ FeedOK(m) /\ \A q \in Requests : Leaves(FeedOf(mgr, q), FeedOf(m, q))
  BY BeginLeaves
<1> HIDE DEF m
<1>2. \A q \in Requests : Leaves(FeedOf(m, q), FeedOf(n, q))
  BY <1>1, CleansLeaves DEF m
<1>3. \A q \in Requests : Leaves(FeedOf(mgr, q), FeedOf(n, q))
  BY <1>1, <1>2, LeavesTwice DEF PagingOK
<1> QED BY <1>3, LeavesMoves DEF FeedStep

\* acquire and acquireProgressive: no result is touched but by the sweep.
LEMMA AcquirePages ==
    ASSUME PagingOK, NEW q \in Requests, NEW s \in Scopes,
           NEW mode \in {"building", "progressive"}, Acquire(q, s, mode)
    PROVE  FeedStep(mgr, mgr')
<1> DEFINE m == CleanupExpired(mgr, now)
           f == Fingerprint(s)
           hit == Lookup(m, s, f)
<1>1. m \in Manager
  BY BeginLeaves
<1>2. PICK r \in Recs :
         mgr' = [(IF hit = {} THEN CreateRecord(m, r, s, f, now) ELSE m)
                    EXCEPT !.consumers[r] = @ \cup {q}]
  BY DEF Acquire
<1> HIDE DEF m, f, hit
<1>3. SameView(m, mgr')
  <2>1. CASE hit = {}
    <3>1. mgr' = [CreateRecord(m, r, s, f, now) EXCEPT !.consumers[r] = @ \cup {q}]
      BY <1>2, <2>1
    <3> QED BY <1>1, <3>1 DEF CreateRecord, Manager, SameView
  <2>2. CASE hit # {}
    <3>1. mgr' = [m EXCEPT !.consumers[r] = @ \cup {q}]
      BY <1>2, <2>2
    <3> QED BY <1>1, <3>1 DEF Manager, SameView
  <2> QED BY <2>1, <2>2
<1> QED BY <1>3, BegunStep DEF m

LEMMA ReleaseView ==
    ASSUME NEW m, m \in Manager, NEW r, NEW q
    PROVE  SameView(m, ReleaseConsumer(m, r, q))
  BY DEF ReleaseConsumer, Manager, SameView

\* The answers of acquire and acquireProgressive.
LEMMA WaitingPages ==
    ASSUME PagingOK, NEW q \in Requests,
           \/ AcquireRefused(q) \/ BuildResolved(q) \/ BuildRejected(q)
           \/ AbortBuilding(q) \/ CleanupAcknowledged(q)
           \/ AwaitFirstSnapshot(q) \/ AbortProgressive(q) \/ ProjectionThrows(q)
    PROVE  FeedStep(mgr, mgr')
<1> DEFINE r == target[q]
<1>1. MgrOK(mgr) /\ mgr \in Manager /\ mgr.waiters \in [Recs -> SUBSET Requests]
  BY Begin DEF MgrOK, Manager, PagingOK
<1>2. SameView(mgr, mgr)
  BY DEF SameView
<1>3. CASE mgr' = mgr
  BY <1>2, <1>3, SameFeedStep
<1>4. CASE mgr' = ReleaseConsumer(mgr, r, q)
  BY <1>1, <1>4, ReleaseView, SameFeedStep
<1>5. ASSUME NEW X \in SUBSET Requests, r \in Recs,
             \/ mgr' = [mgr EXCEPT !.waiters[r] = X]
             \/ mgr' = ReleaseConsumer([mgr EXCEPT !.waiters[r] = X], r, q)
      PROVE  FeedStep(mgr, mgr')
  <2> DEFINE m == [mgr EXCEPT !.waiters[r] = X]
  <2>1. m \in Manager /\ SameView(mgr, m)
    BY <1>1, <1>5, WaitersOK DEF MgrOK, Manager, SameView
  <2> HIDE DEF m
  <2>2. SameView(m, ReleaseConsumer(m, r, q))
    BY <2>1, ReleaseView
  <2>3. SameView(mgr, mgr')
    BY <1>5, <2>1, <2>2 DEF SameView, m
  <2> QED BY <2>3, SameFeedStep
<1>6. ASSUME pc[q] \in {"building", "progressive"} PROVE r \in Recs
  BY <1>6, Begin DEF PagingOK
<1>7. CASE AcquireRefused(q) \/ CleanupAcknowledged(q) \/ ProjectionThrows(q)
  BY <1>3, <1>7 DEF AcquireRefused, CleanupAcknowledged, ProjectionThrows
<1>8. CASE BuildResolved(q) \/ BuildRejected(q) \/ AbortBuilding(q)
  BY <1>4, <1>8 DEF BuildResolved, BuildRejected, AbortBuilding
<1>9. CASE AwaitFirstSnapshot(q)
  <2> DEFINE X == mgr.waiters[r] \cup {q}
  <2>1. /\ pc[q] = "progressive"
        /\ \/ mgr' = ReleaseConsumer(mgr, r, q)
           \/ mgr' = mgr
           \/ mgr' = [mgr EXCEPT !.waiters[r] = X]
    BY <1>9 DEF AwaitFirstSnapshot
  <2>2. r \in Recs /\ X \in SUBSET Requests
    BY <1>1, <1>6, <2>1
  <2> HIDE DEF X
  <2> QED BY <1>3, <1>4, <1>5, <2>1, <2>2
<1>10. CASE AbortProgressive(q)
  <2> DEFINE X == mgr.waiters[r] \ {q}
  <2>1. r \in Recs /\ mgr' = ReleaseConsumer([mgr EXCEPT !.waiters[r] = X], r, q)
    BY <1>6, <1>10 DEF AbortProgressive
  <2>2. X \in SUBSET Requests
    BY <1>1, <2>1
  <2> HIDE DEF X
  <2> QED BY <1>5, <2>1, <2>2
<1> QED BY <1>7, <1>8, <1>9, <1>10

\* An exception before the page is answered gives the client nothing.
LEMMA StoreThrowsPages ==
    ASSUME PagingOK, NEW q \in Requests, StoreThrows(q)
    PROVE  FeedStep(mgr, mgr')
<1>1. SameView(CleanupExpired(mgr, now), mgr')
  BY StoreThrowsIs DEF PagingOK, Littered, SameView
<1> QED BY <1>1, BegunStep

\* dispose().
LEMMA ShutdownPages ==
    ASSUME PagingOK, Dispose \/ DisposeDone
    PROVE  FeedStep(mgr, mgr')
<1>1. MgrOK(mgr) /\ mgr \in Manager /\ FeedOK(mgr)
  BY Begin DEF MgrOK, PagingOK
<1>2. CASE Dispose
  <2>1. SameView(mgr, mgr')
    BY <1>1, <1>2 DEF Dispose, Manager, SameView
  <2> QED BY <2>1, SameFeedStep
<1>3. CASE DisposeDone
  <2>1. mgr'.log = mgr.log /\ mgr'.stream = mgr.stream /\ mgr'.cursors = {}
    BY <1>1, <1>3 DEF DisposeDone, Manager
  <2>2. \A q \in Requests : Fades(mgr, mgr', q)
    BY <2>1 DEF Fades, Rests, HasCursor
  <2> QED BY <1>1, <2>1, <2>2, FadesLeaves, LeavesMoves DEF FeedStep
<1> QED BY <1>2, <1>3

\* A request that publishes has no result yet.
LEMMA StillClosed ==
    ASSUME PagingOK, NEW q \in Requests, pc[q] # "done"
    PROVE  /\ FeedOf(mgr, q) = Feeds!Closed
           /\ ~HasCursor(CleanupExpired(mgr, now), q)
<1> DEFINE m == CleanupExpired(mgr, now)
<1>1. FreshOK /\ MgrOK(m) /\ KindsKept(mgr, m) /\ Fit(FeedOf(mgr, q))
  BY BeginLeaves DEF PagingOK, StreamInvariant
<1> HIDE DEF m
<1>2. ~HasCursor(m, q)
  BY <1>1, NoStreamYet
<1>3. FeedOf(mgr, q).place = "none"
  BY <1>1, FeedFields DEF FreshOK
<1> QED BY <1>1, <1>2, <1>3 DEF Fit, m

\* publishContinuation: a static result behind its first page.
LEMMA PublishStaticPages ==
    ASSUME PagingOK, BuildInvariant', NEW q \in Requests, PublishStatic(q)
    PROVE  FeedStep(mgr, mgr')
<1> DEFINE r == target[q]
           m == CleanupExpired(mgr, now)
           value == m.log[r][Len(m.log[r])].items
<1>1. /\ m \in Manager /\ pc[q] = "assembled"
      /\ \A p \in Requests : Leaves(FeedOf(mgr, p), FeedOf(m, p))
  BY BeginLeaves DEF PublishStatic
<1>2. \/ mgr' = mgr \/ mgr' = m \/ mgr' = CleanupBuildFiles(m, r)
      \/ \E P \in Page(value) : P # value /\
            mgr' = [m EXCEPT !.resultDirs = @ \cup {q}, !.cursors = @ \cup {<<q, 2>>},
                             !.stream[q] = OpenStream("static", r, value, P, 0, 2, now)]
  BY DEF PublishStatic
<1>3. FeedOf(mgr, q) = Feeds!Closed
  BY <1>1, StillClosed
<1>4. CASE mgr' = mgr
  <2>1. SameView(mgr, mgr')
    BY <1>4 DEF SameView
  <2> QED BY <2>1, SameFeedStep
<1>5. CASE mgr' = m \/ mgr' = CleanupBuildFiles(m, r)
  <2> HIDE DEF m
  <2>1. SameView(m, mgr')
    BY <1>1, <1>5 DEF CleanupBuildFiles, Manager, SameView
  <2> QED BY <2>1, BegunStep DEF m
<1> HIDE DEF m, value
<1>6. ASSUME NEW P \in Page(value), P # value,
             mgr' = [m EXCEPT !.resultDirs = @ \cup {q}, !.cursors = @ \cup {<<q, 2>>},
                              !.stream[q] = OpenStream("static", r, value, P, 0, 2, now)]
      PROVE  FeedStep(mgr, mgr')
  <2> DEFINE s == OpenStream("static", r, value, P, 0, 2, now)
             next == <<q, 2>>
             g == FeedOf(mgr', q)
  <2>1. /\ s.kind = "static" /\ s.reading = FALSE /\ s.stored = value
        /\ s.delivered = P /\ s.page = 2
    BY DEF OpenStream
  <2>2. next[1] = q
    OBVIOUS
  <2> HIDE DEF s, next
  <2>3. /\ mgr'.log = m.log /\ mgr'.cursors = m.cursors \cup {next} /\ mgr'.stream[q] = s
        /\ \A p \in Requests \ {q} : mgr'.stream[p] = m.stream[p]
    BY <1>1, <1>6 DEF Manager, s, next
  <2>4. HasCursor(mgr', q) /\ \A p \in Requests \ {q} : HasCursor(mgr', p) <=> HasCursor(m, p)
    BY <2>2, <2>3 DEF HasCursor
  <2>5. \A p \in Requests \ {q} : FeedOf(mgr', p) = FeedOf(m, p)
    <3>1. \A p \in Requests \ {q} : Alike(m, mgr', p)
      BY <2>3, <2>4 DEF Alike
    <3> QED BY <2>3, <3>1, FeedAlike
  <2>6. P \subseteq value /\ P # {}
    <3>1. P \subseteq value /\ Cardinality(P) = PageSize
      BY <1>6 DEF Page
    <3> QED BY <3>1, FS_EmptySet, PageSizeAssumption
  <2>7. /\ g.place = "ready" /\ g.offered = value /\ g.given = P /\ g.page = 2
    BY <2>1, <2>3, <2>4, FeedFields
  <2>8. g \in Feeds!Feed
    BY FeedTyped DEF BuildInvariant, TypeOK, StreamsOK, LiveOK
  <2> HIDE DEF g
  <2>9. Feeds!Opens(Feeds!Closed, g)
    BY <2>6, <2>7, <2>8 DEF Feeds!Opens
  <2>10. Feeds!Moves(FeedOf(mgr, q), FeedOf(mgr', q))
    BY <1>3, <2>9 DEF Feeds!Moves, g
  <2> QED BY <1>1, <2>5, <2>10, LeavesMoves DEF FeedStep
<1> QED BY <1>2, <1>4, <1>5, <1>6 DEF m

\* publishLiveContinuation: a live result, with its first page or a read that waits for it.
LEMMA PublishLivePages ==
    ASSUME PagingOK, BuildInvariant', NEW q \in Requests, PublishLive(q)
    PROVE  FeedStep(mgr, mgr')
<1> DEFINE r == target[q]
           m == CleanupExpired(mgr, now)
           m1 == Opening(m, q)
           f == FeedOf(m1, q)
           g == FeedOf(mgr', q)
<1>1. /\ MgrOK(m) /\ m \in Manager /\ FeedOK(m) /\ now \in Nat /\ pc[q] = "leased"
      /\ \A p \in Requests : Leaves(FeedOf(mgr, p), FeedOf(m, p))
  BY BeginLeaves DEF PublishLive
<1>2. \/ mgr' = mgr \/ mgr' = ReleaseConsumer(m, r, q)
      \/ ~CanServe(m1, q) /\ mgr' = m1
      \/ CanServe(m1, q) /\ \E P \in Page(Available(m1, q)) : mgr' = Serve(m1, q, P, now)
  BY DEF PublishLive, Opening
<1>3. /\ Reads(m, m1, q) /\ m1.stream[q].kind = "live" /\ m1.stream[q].delivered = {}
      /\ m1.stream[q].page = 1 /\ m1.stream[q].reading = TRUE
  BY <1>1, OpeningReads DEF PagingOK
<1>4. FeedOf(mgr, q) = Feeds!Closed
  BY <1>1, StillClosed
<1>5. CASE mgr' = mgr
  <2>1. SameView(mgr, mgr')
    BY <1>5 DEF SameView
  <2> QED BY <2>1, SameFeedStep
<1>6. CASE mgr' = ReleaseConsumer(m, r, q)
  <2> HIDE DEF m
  <2>1. SameView(m, mgr')
    BY <1>1, <1>6, ReleaseView
  <2> QED BY <2>1, BegunStep DEF m
<1> HIDE DEF m, r, m1
<1>7. f.place = "reading" /\ f.given = {} /\ f.page = 1
  BY <1>3, FeedFields
<1>8. /\ \A p \in Requests \ {q} : FeedOf(m1, p) = FeedOf(m, p)
      /\ CanServe(m1, q) =>
            \A P \in Page(Available(m1, q)), t \in Nat : Served(m1, Serve(m1, q, P, t), q)
  <2>1. FeedOf(m1, q).given \subseteq FeedOf(m1, q).offered /\ Feeds!Open(FeedOf(m1, q))
    BY <1>7 DEF Feeds!Open
  <2> HIDE DEF f
  <2> QED BY <1>1, <1>3, <2>1, ReadServed
<1>9. g \in Feeds!Feed
  BY FeedTyped DEF BuildInvariant, TypeOK, StreamsOK, LiveOK
<1>10. CASE mgr' = m1
  <2>1. g = f
    BY <1>10
  <2> HIDE DEF g, f
  <2>2. Feeds!Opens(Feeds!Closed, g)
    BY <1>7, <1>9, <2>1 DEF Feeds!Opens
  <2>3. Feeds!Moves(FeedOf(mgr, q), FeedOf(mgr', q))
    BY <1>4, <2>2 DEF Feeds!Moves, g
  <2> QED BY <1>1, <1>8, <1>10, <2>3, LeavesMoves DEF FeedStep
<1>11. ASSUME CanServe(m1, q), NEW P \in Page(Available(m1, q)), mgr' = Serve(m1, q, P, now)
       PROVE  FeedStep(mgr, mgr')
  <2>1. Pays(f, g) /\ \A p \in Requests \ {q} : FeedOf(mgr', p) = FeedOf(m1, p)
    BY <1>1, <1>8, <1>11 DEF Served
  <2>2. f = [place |-> f.place, offered |-> f.offered, given |-> f.given, page |-> f.page]
    BY FeedFields
  <2> HIDE DEF g, f
  <2>3. Feeds!Opens(Feeds!Closed, g)
    <3>1. CASE Feeds!Pages(f, g)
      <4>1. PICK P1 \in (SUBSET (f.offered \ f.given)) \ {{}} :
               g = [f EXCEPT !.place = "ready", !.given = @ \cup P1, !.page = @ + 1]
        BY <3>1 DEF Feeds!Pages
      <4>2. g.place = "ready" /\ g.given = P1 /\ g.offered = f.offered /\ g.page = 2
        BY <1>7, <2>2, <4>1
      <4> QED BY <1>9, <4>2 DEF Feeds!Opens
    <3>2. CASE Feeds!Completes(f, g)
      <4>1. g.place = "complete" /\ g.given = g.offered /\ g.page = 1
        BY <1>7, <2>2, <3>2 DEF Feeds!Completes
      <4> QED BY <1>9, <4>1 DEF Feeds!Opens
    <3> QED BY <2>1, <3>1, <3>2 DEF Pays
  <2>4. Feeds!Moves(FeedOf(mgr, q), FeedOf(mgr', q))
    BY <1>4, <2>3 DEF Feeds!Moves, g
  <2> QED BY <1>1, <1>8, <2>1, <2>4, LeavesMoves DEF FeedStep
<1> QED BY <1>2, <1>5, <1>6, <1>10, <1>11

\* One turn of a read.
LEMMA LiveReadTurnPages ==
    ASSUME PagingOK, NEW q \in Requests, LiveReadTurn(q)
    PROVE  FeedStep(mgr, mgr')
<1> DEFINE r == mgr.stream[q].rec
           v == NextVersion(mgr, r, mgr.stream[q].seen)
           m == [mgr EXCEPT !.stream[q].seen = v]
           f == FeedOf(mgr, q)
<1>1. /\ MgrOK(mgr) /\ mgr \in Manager /\ FeedOK(mgr) /\ now \in Nat /\ mgr.stream[q].reading
      /\ Fit(f)
  BY Begin DEF PagingOK, LiveReadTurn, MgrOK
<1>2. f.place = "reading"
  <2>1. mgr.stream[q].kind = "live"
    BY <1>1 DEF MgrOK, StreamsOK
  <2> QED BY <1>1, <2>1, FeedFields
<1>3. \/ mgr' = CleanupResults(mgr, {q}, now)
      \/ mgr' = [mgr EXCEPT !.waiters[r] = mgr.waiters[r] \cup {q}]
      \/ v # 0 /\ mgr' = m
      \/ /\ v # 0 /\ CanServe(m, q)
         /\ \E P \in Page(Available(m, q)) : mgr' = Serve(m, q, P, now)
  BY DEF LiveReadTurn
<1>4. CASE mgr' = CleanupResults(mgr, {q}, now)
  BY <1>1, <1>4, CleanupResultsCleans, CleansLeaves, LeavesMoves DEF FeedStep
<1>5. CASE mgr' = [mgr EXCEPT !.waiters[r] = mgr.waiters[r] \cup {q}]
  <2>1. SameView(mgr, mgr')
    BY <1>1, <1>5 DEF Manager, SameView
  <2> QED BY <2>1, SameFeedStep
<1>6. ASSUME v # 0
      PROVE  /\ \A p \in Requests : FeedOf(m, p) = FeedOf(mgr, p)
             /\ CanServe(m, q) => \A P \in Page(Available(m, q)) : Served(m, Serve(m, q, P, now), q)
  <2>1. Reads(mgr, m, q) /\ m.stream[q].kind = "live" /\ FeedOf(m, q) = f
    BY <1>1, <1>6, TurnReads DEF PagingOK
  <2> HIDE DEF m, f
  <2>2. FeedOf(m, q).given \subseteq FeedOf(m, q).offered /\ Feeds!Open(FeedOf(m, q))
    BY <1>1, <1>2, <2>1 DEF Fit, Feeds!Open
  <2>3. /\ \A p \in Requests \ {q} : FeedOf(m, p) = FeedOf(mgr, p)
        /\ CanServe(m, q) =>
              \A P \in Page(Available(m, q)), t \in Nat : Served(m, Serve(m, q, P, t), q)
    BY <1>1, <2>1, <2>2, ReadServed
  <2> QED BY <1>1, <2>1, <2>3 DEF f
<1> HIDE DEF m, v
<1>7. CASE v # 0 /\ mgr' = m
  BY <1>6, <1>7 DEF FeedStep, Feeds!Moves
<1>8. ASSUME v # 0, CanServe(m, q), NEW P \in Page(Available(m, q)), mgr' = Serve(m, q, P, now)
      PROVE  FeedStep(mgr, mgr')
  <2>1. Served(m, mgr', q)
    BY <1>6, <1>8
  <2> QED BY <1>6, <1>8, <2>1 DEF Served, Pays, FeedStep, Feeds!Moves
<1> QED BY <1>3, <1>4, <1>5, <1>7, <1>8

\* A read that throws gives its result up.
LEMMA ReadThrowsPages ==
    ASSUME PagingOK, NEW q \in Requests, ReadThrows(q)
    PROVE  FeedStep(mgr, mgr')
<1>1. /\ MgrOK(mgr) /\ mgr \in Manager /\ FeedOK(mgr) /\ now \in Nat
      /\ mgr' = CleanupResults(mgr, {q}, now)
  BY Begin DEF PagingOK, ReadThrows, MgrOK
<1> QED BY <1>1, CleanupResultsCleans, CleansLeaves, LeavesMoves DEF FeedStep

\* readContinuation: the cursor is claimed, and a page given when there is one; a result
\* whose sources changed is given up.
LEMMA ReadContinuationPages ==
    ASSUME PagingOK, NEW c \in Cursor, NEW root, ReadContinuation(c, root)
    PROVE  FeedStep(mgr, mgr')
<1> DEFINE q == c[1]
           m == CleanupExpired(mgr, now)
           r == m.stream[q].rec
           m1 == ClaimCursor(m, c, now)
           f == FeedOf(mgr, q)
<1>1. /\ MgrOK(m) /\ m \in Manager /\ FeedOK(m) /\ now \in Nat /\ q \in Requests
      /\ Tidy(m) /\ \A p \in Requests : Leaves(FeedOf(mgr, p), FeedOf(m, p))
      /\ Fit(f)
  BY BeginLeaves DEF Cursor, PagingOK
<1>2. \/ mgr' = m
      \/ c \in m.cursors /\ mgr' = InvalidateFactSession(CleanupResults(m, {q}, now), r)
      \/ c \in m.cursors /\ mgr' = m1
      \/ /\ c \in m.cursors /\ (m.stream[q].kind = "static" \/ CanServe(m1, q))
         /\ \E P \in Page(Available(m1, q)) : mgr' = Serve(m1, q, P, now)
  BY DEF ReadContinuation
<1>3. CASE mgr' = m
  BY <1>1, <1>3, LeavesMoves DEF FeedStep
<1>4. CASE c \in m.cursors /\ mgr' = InvalidateFactSession(CleanupResults(m, {q}, now), r)
  <2> DEFINE m2 == CleanupResults(m, {q}, now)
  <2> HIDE DEF m
  <2>1. MgrOK(m2) /\ Cleans(m, m2, {q})
    BY <1>1, CleanupResultsOK, CleanupResultsCleans
  <2>2. r \in Recs
    BY <1>1, <1>4 DEF MgrOK, StreamsOK, HasCursor
  <2>3. mgr' = InvalidateFactSession(m2, r)
    BY <1>4
  <2> HIDE DEF m2, r
  <2>4. Cleans(m, mgr', {q} \cup {})
    BY <2>1, <2>2, <2>3, InvalidateCleans, CleansTwice
  <2> QED BY <2>4, BegunCleansStep DEF m
<1> HIDE DEF m
\* The result was not swept: its cursor is there.
<1>5. ASSUME c \in m.cursors
      PROVE  f.place = "ready" /\ FeedOf(m, q) = f
  <2>1. HasCursor(m, q) /\ ~m.stream[q].reading /\ m.stream[q].kind # "none"
    BY <1>1, <1>5 DEF HasCursor, Tidy, CursorsOK, MgrOK, StreamsOK
  <2> HIDE DEF q
  <2>2. FeedOf(m, q).place = "ready"
    BY <2>1, FeedFields
  <2>3. ASSUME Feeds!Drops(f, FeedOf(m, q)) PROVE FALSE
    <3>1. FeedOf(m, q).place = "dropped"
      BY <1>1, <2>3 DEF Feeds!Drops, Fit, Feeds!Feed
    <3> QED BY <2>2, <3>1
  <2> QED BY <1>1, <2>2, <2>3 DEF Leaves
<1>6. ASSUME c \in m.cursors
      PROVE  /\ \A p \in Requests \ {q} : FeedOf(m1, p) = FeedOf(m, p)
             /\ m1.stream[q].kind = m.stream[q].kind
             /\ FeedOf(m1, q) = [f EXCEPT !.place = "reading"]
             /\ m.stream[q].kind = "static" \/ CanServe(m1, q) =>
                   \A P \in Page(Available(m1, q)) : Served(m1, Serve(m1, q, P, now), q)
  <2>1. Claimed(m, m1, q)
    BY <1>1, <1>6, ClaimReads
  <2> HIDE DEF m1
  <2>2. /\ Reads(m, m1, q) /\ m1.stream[q].kind = m.stream[q].kind
        /\ FeedOf(m1, q) = [f EXCEPT !.place = "reading"]
    BY <1>5, <1>6, <2>1 DEF Claimed
  <2>3. FeedOf(m1, q).given \subseteq FeedOf(m1, q).offered /\ Feeds!Open(FeedOf(m1, q))
    <3> HIDE DEF f, q
    <3> QED BY <1>1, <2>2 DEF Fit, Feeds!Open, Feeds!Feed
  <2> HIDE DEF q, f
  <2>4. /\ \A p \in Requests \ {q} : FeedOf(m1, p) = FeedOf(m, p)
        /\ m1.stream[q].kind = "static" \/ CanServe(m1, q) =>
              \A P \in Page(Available(m1, q)), t \in Nat : Served(m1, Serve(m1, q, P, t), q)
    BY <1>1, <2>2, <2>3, ReadServed
  <2> QED BY <1>1, <2>2, <2>4
<1> HIDE DEF m1
<1>7. CASE c \in m.cursors /\ mgr' = m1
  <2>1. Feeds!Claims(f, FeedOf(m1, q))
    BY <1>5, <1>6, <1>7 DEF Feeds!Claims
  <2>2. Feeds!Moves(FeedOf(mgr, q), FeedOf(mgr', q))
    BY <1>7, <2>1 DEF Feeds!Moves
  <2> HIDE DEF q
  <2> QED BY <1>1, <1>6, <1>7, <2>2, LeavesMoves DEF FeedStep
<1>8. ASSUME c \in m.cursors, m.stream[q].kind = "static" \/ CanServe(m1, q),
             NEW P \in Page(Available(m1, q)), mgr' = Serve(m1, q, P, now)
      PROVE  FeedStep(mgr, mgr')
  <2> DEFINE g == FeedOf(mgr', q)
             f1 == [f EXCEPT !.place = "reading"]
  <2>1. Served(m1, mgr', q) /\ FeedOf(m1, q) = f1
    BY <1>6, <1>8
  <2>2. Pays(f1, g) /\ \A p \in Requests \ {q} : FeedOf(mgr', p) = FeedOf(m, p)
    BY <1>6, <1>8, <2>1 DEF Served
  <2>3. f.place = "ready"
    BY <1>5, <1>8
  <2> HIDE DEF f, g
  <2>4. Pays(f, g)
    <3>1. f1.offered = f.offered /\ f1.given = f.given /\ f1.page = f.page
      BY <1>1 DEF Fit, Feeds!Feed
    <3>2. CASE Feeds!Pages(f1, g)
      <4>1. PICK P1 \in (SUBSET (f.offered \ f.given)) \ {{}} :
               g = [f1 EXCEPT !.place = "ready", !.given = @ \cup P1, !.page = @ + 1]
        BY <3>1, <3>2 DEF Feeds!Pages
      <4>2. g = [f EXCEPT !.place = "ready", !.given = @ \cup P1, !.page = @ + 1]
        BY <1>1, <4>1 DEF Fit, Feeds!Feed
      <4> QED BY <2>3, <4>2 DEF Pays, Feeds!Pages, Feeds!Open
    <3>3. CASE Feeds!Completes(f1, g)
      <4>1. g = [f EXCEPT !.place = "complete", !.given = f.offered]
        BY <1>1, <3>1, <3>3 DEF Fit, Feeds!Feed, Feeds!Completes
      <4> QED BY <2>3, <4>1 DEF Pays, Feeds!Completes, Feeds!Open
    <3> QED BY <2>2, <3>2, <3>3 DEF Pays
  <2>5. Feeds!Moves(FeedOf(mgr, q), FeedOf(mgr', q))
    BY <2>4 DEF Pays, Feeds!Moves, f, g
  <2> HIDE DEF q
  <2> QED BY <1>1, <2>2, <2>5, LeavesMoves DEF FeedStep
<1> QED BY <1>2, <1>3, <1>4, <1>7, <1>8

LEMMA CancelContinuationPages ==
    ASSUME PagingOK, NEW c \in Cursor, NEW root, CancelContinuation(c, root)
    PROVE  FeedStep(mgr, mgr')
<1> DEFINE m == CleanupExpired(mgr, now)
<1>1. /\ MgrOK(m) /\ m \in Manager /\ FeedOK(m) /\ now \in Nat /\ c[1] \in Requests
      /\ \A p \in Requests : Leaves(FeedOf(mgr, p), FeedOf(m, p))
  BY BeginLeaves DEF Cursor
<1>2. mgr' = m \/ mgr' = CleanupResults(m, {c[1]}, now)
  BY DEF CancelContinuation
<1>3. CASE mgr' = m
  BY <1>1, <1>3, LeavesMoves DEF FeedStep
<1> HIDE DEF m
<1>4. CASE mgr' = CleanupResults(m, {c[1]}, now)
  <2>1. Cleans(m, mgr', {c[1]})
    BY <1>1, <1>4, CleanupResultsCleans
  <2> QED BY <2>1, BegunCleansStep DEF m
<1> QED BY <1>2, <1>3, <1>4

\* An event offers its items to the live results of its build, and to no other.
LEMMA AppendPages ==
    ASSUME NEW m, MgrOK(m), FeedOK(m), NEW r \in m.unsettled, NEW o, NEW I, NEW n, MgrOK(n),
           Appends(m, n, r, o, I)
    PROVE  FeedStep(m, n)
<1> DEFINE e == [outcome |-> o, items |-> I]
<1>1. /\ r \in Recs /\ m \in Manager /\ n \in Manager /\ m.terminal[r] = "pending"
      /\ m.log \in [Recs -> Seq(Event)]
  BY DEF MgrOK, Manager, BuildsOK, Pending
<1>2. /\ n.log = [m.log EXCEPT ![r] = Append(@, e)] /\ n.stream = m.stream
      /\ n.cursors = m.cursors
  BY DEF Appends
<1> HIDE DEF e
<1> SUFFICES ASSUME NEW q \in Requests PROVE Feeds!Moves(FeedOf(m, q), FeedOf(n, q))
  BY DEF FeedStep
<1> DEFINE s == m.stream[q]
           f == FeedOf(m, q)
           g == FeedOf(n, q)
<1>3. /\ f = [place |-> f.place, offered |-> f.offered, given |-> f.given, page |-> f.page]
      /\ g = [place |-> g.place, offered |-> g.offered, given |-> g.given, page |-> g.page]
      /\ g.place = f.place /\ g.given = f.given /\ g.page = f.page
      /\ g.offered = IF s.kind = "live" THEN Offered(n.log, s.rec) ELSE f.offered
      /\ f.offered = IF s.kind = "live" THEN Offered(m.log, s.rec) ELSE f.offered
      /\ f.place = "none" => s.kind = "none"
      /\ f.place = "complete" => s.ended
  <2>1. n.stream[q] = s /\ (HasCursor(n, q) <=> HasCursor(m, q))
    BY <1>2 DEF HasCursor
  <2> HIDE DEF f, g, s
  <2> QED BY <2>1, FeedFields DEF f, g, s
<1>4. CASE s.kind = "live" /\ s.rec = r
  <2> DEFINE L == m.log[r]
             l == Len(L)
  <2>1. L \in Seq(Event) /\ n.log[r] = Append(L, e)
    BY <1>1, <1>2
  <2>2. l \in Nat /\ Len(n.log[r]) = l + 1 /\ \A i \in 1 .. l : n.log[r][i] = L[i]
    BY <2>1
  <2>3. f.offered \subseteq g.offered
    <3>1. \A i \in 1 .. l : i \in 1 .. l + 1
      <4> HIDE DEF l
      <4> QED BY <2>2
    <3>2. Offered(m.log, r) \subseteq Offered(n.log, r)
      BY <2>2, <3>1 DEF Offered
    <3> HIDE DEF f, g
    <3> QED BY <1>3, <1>4, <3>2
  <2>4. ~s.ended
    <3>1. LogOK(m) /\ Fed(m, q) /\ s.seen \in 1 .. l
      BY <1>4 DEF FeedOK, MgrOK, StreamsOK
    <3>2. s.ended => L[s.seen].outcome = "success"
      BY <1>4, <3>1 DEF Fed
    <3> QED BY <1>1, <3>1, <3>2 DEF LogOK
  <2>5. g \in Feeds!Feed
    BY <1>1, FeedTyped DEF MgrOK, StreamsOK, LiveOK
  <2>6. f.place \notin {"none", "complete"}
    BY <1>3, <1>4, <2>4
  <2> HIDE DEF f, g
  <2>7. g = [f EXCEPT !.offered = g.offered]
    BY <1>3
  <2>8. g.offered \subseteq Items
    BY <2>5 DEF Feeds!Feed
  <2> QED BY <2>3, <2>6, <2>7, <2>8 DEF Feeds!Grows, Feeds!Moves, f, g
<1>5. CASE ~(s.kind = "live" /\ s.rec = r)
  <2>1. s.kind = "live" => n.log[s.rec] = m.log[s.rec]
    BY <1>1, <1>2, <1>5 DEF MgrOK, StreamsOK
  <2>2. s.kind = "live" => Offered(n.log, s.rec) = Offered(m.log, s.rec)
    BY <2>1 DEF Offered
  <2> HIDE DEF f, g, s
  <2>3. g.offered = f.offered
    BY <1>3, <2>2
  <2>4. g = f
    BY <1>3, <2>3
  <2> QED BY <2>4 DEF Feeds!Moves, f, g
<1> QED BY <1>4, <1>5

\* The build worker: an event is offered, or a failed build gives its results up.
LEMMA WorkerPages ==
    ASSUME PagingOK, BuildInvariant', NEW r \in Recs,
           WorkerPublish(r) \/ WorkerReturns(r) \/ WorkerThrows(r)
    PROVE  FeedStep(mgr, mgr')
<1>1. MgrOK(mgr) /\ mgr \in Manager /\ r \in mgr.unsettled /\ FeedOK(mgr)
  BY Begin DEF WorkerPublish, WorkerReturns, WorkerThrows, MgrOK, PagingOK
<1>2. MgrOK(mgr')
  BY DEF BuildInvariant, TypeOK, MgrOK
<1>3. \/ \E o, I : Appends(mgr, mgr', r, o, I)
      \/ \E k \in Failures : mgr' = SettleFailed(mgr, r, k, now)
  BY WorkerAppends DEF PagingOK
<1>4. ASSUME NEW k \in Failures, mgr' = SettleFailed(mgr, r, k, now)
      PROVE  FeedStep(mgr, mgr')
  <2> DEFINE L == {q \in LeasedBy(mgr, Requests, r) : HasCursor(mgr, q)}
  <2>1. mgr' = [Settle(FailCursors(mgr, L, now), r, k) EXCEPT
                   !.consumers[r] = @ \ L, !.waiters[r] = {},
                   !.cached = @ \ {r}, !.buildDirs = @ \ {r}]
    BY <1>4 DEF SettleFailed
  <2> HIDE DEF L
  <2>2. /\ mgr'.log = mgr.log /\ mgr'.stream = mgr.stream
        /\ mgr'.cursors = {c \in mgr.cursors : c[1] \notin L}
    BY <1>1, <2>1 DEF Settle, FailCursors, Manager
  <2>3. \A q \in Requests : Fades(mgr, mgr', q)
    BY <2>2 DEF Fades, Rests, HasCursor
  <2> QED BY <1>1, <2>2, <2>3, FadesLeaves, LeavesMoves DEF FeedStep
<1> QED BY <1>1, <1>2, <1>3, <1>4, AppendPages

LEMMA NextPages == PagingOK /\ [Next]_vars => FeedStep(mgr, mgr')
<1> SUFFICES ASSUME PagingOK, [Next]_vars PROVE FeedStep(mgr, mgr')
  OBVIOUS
<1>1. BuildInvariant'
  BY NextOK DEF PagingOK
<1>2. CASE mgr' = mgr
  <2>1. SameView(mgr, mgr')
    BY <1>2 DEF SameView
  <2> QED BY <2>1, SameFeedStep
<1>3. CASE NewRequest
  BY <1>1, <1>3, AcquirePages, WaitingPages, PublishStaticPages, PublishLivePages,
     StoreThrowsPages DEF NewRequest
<1>4. CASE CursorCall
  <2>1. Issued \subseteq Cursor
    <3>1. Cardinality(Items) \in Nat
      BY ItemsAssumption, FS_CardinalityType
    <3> QED BY <3>1 DEF Issued, Cursor
  <2> QED BY <1>4, <2>1, ReadContinuationPages, CancelContinuationPages, LiveReadTurnPages,
          ReadThrowsPages
          DEF CursorCall
<1>5. CASE Worker
  BY <1>1, <1>5, WorkerPages DEF Worker
<1>6. CASE Dispose \/ DisposeDone
  BY <1>6, ShutdownPages
<1> QED BY <1>2, <1>3, <1>4, <1>5, <1>6
        DEF Next, Environment, ClockTick, EditSources, vars

LEMMA InitPages == Init => \A q \in Requests : FeedOf(mgr, q) = Feeds!Closed
<1> SUFFICES ASSUME Init, NEW q \in Requests PROVE FeedOf(mgr, q) = Feeds!Closed
  OBVIOUS
<1>1. mgr.stream[q] = NoStream
  BY DEF Init
<1> QED BY <1>1 DEF FeedOf, NoStream, Feeds!Closed

LEMMA PagingStarts == Init => PagingOK
<1> SUFFICES ASSUME Init PROVE PagingOK
  OBVIOUS
<1>1. \A q \in Requests : Fit(FeedOf(mgr, q))
  BY InitPages DEF Fit, Feeds!Feed, Feeds!Closed
<1> QED BY <1>1, InitOK, InitStreams, InitFeed DEF PagingOK

LEMMA PagingNext == PagingOK /\ [Next]_vars => PagingOK'
<1> SUFFICES ASSUME PagingOK, [Next]_vars PROVE PagingOK'
  OBVIOUS
<1>1. \A q \in Requests : Fit(FeedOf(mgr', q))
  BY NextPages, MovesFit DEF PagingOK, FeedStep
<1>2. BuildInvariant' /\ StreamInvariant' /\ FeedOK(mgr')
  BY NextOK, NextStreams, NextFeed DEF PagingOK
<1> QED BY <1>1, <1>2 DEF PagingOK

LEMMA PagingInvariance == Spec => []PagingOK
  BY PagingStarts, PagingNext, PTL DEF Spec

\* The result of every request, static or live, is paged as PagedFeed promises, whatever
\* joins, fails, expires, is cancelled, invalidated or shut down around it: nothing is
\* given twice, or that was not published; every page but the last brings something new;
\* a result is declared complete only when all of it was given; one given up stays so.
THEOREM PagingImplementsFeed == Spec => FeedsPaged
<1> DEFINE F == [q \in Requests |-> FeedOf(mgr, q)]
<1>1. Init => Feeds!Init
  BY InitPages DEF Feeds!Init
<1>2. PagingOK /\ [Next]_vars => [Feeds!Next]_F
  BY NextPages DEF FeedStep, Feeds!Next
<1> QED BY <1>1, <1>2, PagingInvariance, PTL DEF Spec, FeedsPaged, Feeds!Spec

\* A page costs an item: the number of the next page is at most one more than the items
\* that were given.
Pace(f) ==
    /\ f.page <= Cardinality(f.given) + 1
    /\ f.place = "ready" => f.page >= 2
    /\ f.place = "reading" => f.page >= 1

LEMMA MovesPace ==
    ASSUME NEW f, Fit(f), Pace(f), NEW g, Feeds!Moves(f, g)
    PROVE  Pace(g)
<1> USE DEF Pace
<1>1. f \in Feeds!Feed /\ f.page \in Nat /\ IsFiniteSet(f.given)
  BY ItemsAssumption, FS_Subset DEF Fit, Feeds!Feed
<1>2. Cardinality(f.given) \in Nat
  BY <1>1, FS_CardinalityType
<1>3. Cardinality({}) = 0
  BY FS_EmptySet
<1>4. ASSUME NEW S \in SUBSET Items, f.given \subseteq S
      PROVE  /\ Cardinality(S) \in Nat /\ Cardinality(f.given) <= Cardinality(S)
             /\ f.given # S => Cardinality(f.given) + 1 <= Cardinality(S)
  <2>1. IsFiniteSet(S)
    BY ItemsAssumption, FS_Subset
  <2>2. Cardinality(S) \in Nat
    BY <2>1, FS_CardinalityType
  <2>3. /\ Cardinality(f.given) <= Cardinality(S)
        /\ Cardinality(f.given) = Cardinality(S) => f.given = S
    BY <1>4, <2>1, FS_Subset
  <2> QED BY <1>2, <2>2, <2>3
<1>5. CASE Feeds!Opens(f, g)
  <2>1. g.given \in SUBSET Items /\ f.given = {}
    BY <1>5 DEF Feeds!Opens, Feeds!Feed, Feeds!Closed
  <2>2. Cardinality(g.given) \in Nat /\ (g.given # {} => Cardinality(g.given) >= 1)
    BY <1>3, <1>4, <2>1
  <2> QED BY <1>5, <2>2 DEF Feeds!Opens
<1>6. CASE Feeds!Grows(f, g) \/ Feeds!Claims(f, g) \/ Feeds!Drops(f, g)
  <2>1. /\ g.given = f.given /\ g.page = f.page
        /\ g.place = "ready" => f.place = "ready"
        /\ g.place = "reading" => f.place \in {"ready", "reading"}
    BY <1>1, <1>6 DEF Feeds!Grows, Feeds!Claims, Feeds!Drops, Feeds!Feed
  <2> QED BY <1>1, <2>1
<1>7. CASE Feeds!Pages(f, g)
  <2>1. PICK P \in (SUBSET (f.offered \ f.given)) \ {{}} :
           g = [f EXCEPT !.place = "ready", !.given = @ \cup P, !.page = @ + 1]
    BY <1>7 DEF Feeds!Pages
  <2> DEFINE d == f.given \cup P
  <2>2. g.given = d /\ g.page = f.page + 1 /\ d \in SUBSET Items /\ f.given # d
    BY <1>1, <2>1 DEF Feeds!Feed
  <2>3. Cardinality(d) \in Nat /\ Cardinality(f.given) + 1 <= Cardinality(d)
    BY <1>4, <2>2
  <2>4. f.page >= 1
    BY <1>1, <1>7 DEF Feeds!Pages, Feeds!Open
  <2> HIDE DEF d
  <2> QED BY <1>1, <1>2, <2>2, <2>3, <2>4
<1>8. CASE Feeds!Completes(f, g)
  <2>1. g.given = f.offered /\ g.page = f.page /\ g.place = "complete"
        /\ f.offered \in SUBSET Items /\ f.given \subseteq f.offered
    BY <1>1, <1>8 DEF Feeds!Completes, Feeds!Feed, Fit
  <2>2. Cardinality(f.offered) \in Nat /\ Cardinality(f.given) <= Cardinality(f.offered)
    BY <1>4, <2>1
  <2> QED BY <1>1, <1>2, <2>1, <2>2
<1> QED BY <1>5, <1>6, <1>7, <1>8 DEF Feeds!Moves

\* A client never holds a cursor beyond one page more than there are items: the cursors
\* the actions of a client range over are all there can be.
THEOREM CursorsAreIssued == Spec => [](mgr.cursors \subseteq Issued)
<1> DEFINE J == PagingOK /\ \A q \in Requests : Pace(FeedOf(mgr, q))
<1>1. J => mgr.cursors \subseteq Issued
  <2> SUFFICES ASSUME J, NEW c \in mgr.cursors PROVE c \in Issued
    OBVIOUS
  <2> DEFINE q == c[1]
             f == FeedOf(mgr, q)
  <2>1. MgrOK(mgr) /\ mgr \in Manager /\ CursorsOK(mgr)
    BY Begin DEF PagingOK, StreamInvariant, Tidy, MgrOK
  <2>2. c \in Cursor
    BY <2>1 DEF Manager
  <2>3. q \in Requests /\ c = <<q, c[2]>>
    BY <2>2 DEF Cursor
  <2>4. /\ c[2] = mgr.stream[q].page /\ ~mgr.stream[q].reading /\ HasCursor(mgr, q)
        /\ mgr.stream[q].kind # "none"
    BY <2>1, <2>3 DEF CursorsOK, HasCursor, MgrOK, StreamsOK
  <2> HIDE DEF q
  <2>5. f.place = "ready" /\ f.page = c[2]
    BY <2>4, FeedFields
  <2>6. f \in Feeds!Feed /\ Pace(f)
    BY <2>3 DEF PagingOK, Fit
  <2> HIDE DEF f
  <2>7. f.given \in SUBSET Items /\ c[2] \in Nat
    BY <2>5, <2>6 DEF Feeds!Feed
  <2>8. /\ Cardinality(f.given) \in Nat /\ Cardinality(Items) \in Nat
        /\ Cardinality(f.given) <= Cardinality(Items)
    BY <2>7, ItemsAssumption, FS_Subset, FS_CardinalityType
  <2>9. c[2] \in 2 .. Cardinality(Items) + 1
    BY <2>5, <2>6, <2>7, <2>8 DEF Pace
  <2> QED BY <2>3, <2>9 DEF Issued
<1>2. Init => J
  <2> SUFFICES ASSUME Init, NEW q \in Requests PROVE Pace(FeedOf(mgr, q))
    BY PagingStarts
  <2>1. Cardinality({}) = 0
    BY FS_EmptySet
  <2> QED BY <2>1, InitPages DEF Pace, Feeds!Closed
<1>3. J /\ [Next]_vars => J'
  <2> SUFFICES ASSUME J, [Next]_vars PROVE J'
    OBVIOUS
  <2>1. PagingOK'
    BY PagingNext
  <2>2. \A q \in Requests : Pace(FeedOf(mgr', q))
    BY NextPages, MovesPace DEF PagingOK, FeedStep
  <2> QED BY <2>1, <2>2
<1> HIDE DEF J
<1> QED BY <1>1, <1>2, <1>3, PTL DEF Spec
=============================================================================
