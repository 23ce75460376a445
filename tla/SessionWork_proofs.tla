------------------------- MODULE SessionWork_proofs --------------------------
(* Theorems about SessionWork, for any number of requests, submissions,      *)
(* completions, dimensions and rescan ids.                                   *)
EXTENDS SessionWork, TLAPS

----------------------------------------------------------------------------
(* The leases.                                                              *)

LEMMA KeyTyped ==
    ASSUME TypeOK, NEW q \in Requests
    PROVE  KeyOf(q) \in Keys
  <1>1. req[q] \in Request
    BY DEF TypeOK
  <1> QED
    BY <1>1 DEF Request, Keys, KeyOf

LEMMA EnterTyped ==
    ASSUME TypeOK, NEW q \in Requests, NEW phase \in Phases, Enter(q, phase)
    PROVE  req' \in [Requests -> Request]
  <1>1. [req[q] EXCEPT !.phase = phase] \in Request
    BY DEF TypeOK, Request
  <1> QED
    BY <1>1 DEF TypeOK, Enter

LEMMA LeaveTyped ==
    ASSUME TypeOK, NEW q \in Requests, Leave(q)
    PROVE  req' \in [Requests -> Request]
  <1>1. [Uncalled EXCEPT !.phase = "done"] \in Request
    BY GenerateAssumption DEF Uncalled, Request, Phases, Kinds
  <1> QED
    BY <1>1 DEF TypeOK, Leave

LEMMA FinishLease ==
    ASSUME TypeOK, LeaseWhileWorking, NEW q \in Requests, Finish(q)
    PROVE  /\ LeaseWhileWorking'
           /\ lease' \in [Keys -> Requests \cup {None}]
           /\ req' \in [Requests -> Request]
  <1>1. req' = [req EXCEPT ![q] = [Uncalled EXCEPT !.phase = "done"]]
    BY DEF Finish, Leave
  <1>2. \A p \in Requests : p # q => req'[p] = req[p]
    BY <1>1 DEF TypeOK
  <1>3. req'[q].phase = "done"
    BY <1>1 DEF TypeOK, Uncalled
  <1>4. \A k \in Keys : lease'[k] = IF lease[k] = q THEN None ELSE lease[k]
    BY DEF Finish, Released
  <1>5. lease' \in [Keys -> Requests \cup {None}]
    BY DEF Finish, Released, TypeOK
  <1>6. LeaseWhileWorking'
    BY <1>2, <1>3, <1>4, GenerateAssumption DEF LeaseWhileWorking, Mutates, KeyOf
  <1> QED
    BY <1>5, <1>6, LeaveTyped DEF Finish

LEMMA LeaveLease ==
    ASSUME TypeOK, LeaseWhileWorking, NEW q \in Requests, Leave(q), ~Mutates(q),
           UNCHANGED lease
    PROVE  /\ LeaseWhileWorking'
           /\ lease' \in [Keys -> Requests \cup {None}]
           /\ req' \in [Requests -> Request]
  <1>1. req' = [req EXCEPT ![q] = [Uncalled EXCEPT !.phase = "done"]]
    BY DEF Leave
  <1>2. \A p \in Requests : p # q => req'[p] = req[p]
    BY <1>1 DEF TypeOK
  <1>3. req'[q].phase = "done"
    BY <1>1 DEF TypeOK, Uncalled
  <1>4. LeaseWhileWorking'
    BY <1>2, <1>3 DEF LeaseWhileWorking, Mutates, KeyOf
  <1> QED
    BY <1>4, LeaveTyped DEF TypeOK

\* What Enter does to the call: its phase only.
LEMMA Entered ==
    ASSUME TypeOK, NEW q \in Requests, NEW phase \in Phases, Enter(q, phase)
    PROVE  /\ \A p \in Requests : p # q => req'[p] = req[p]
           /\ req'[q].phase = phase
           /\ req'[q].kind = req[q].kind
           /\ req'[q].id = req[q].id
           /\ KeyOf(q)' = KeyOf(q)
  BY DEF TypeOK, Enter, Request, KeyOf

LEMMA EnterLease ==
    ASSUME TypeOK, LeaseWhileWorking, NEW q \in Requests, NEW phase \in Phases,
           Enter(q, phase), Mutates(q)' <=> Mutates(q), UNCHANGED lease
    PROVE  /\ LeaseWhileWorking'
           /\ lease' \in [Keys -> Requests \cup {None}]
           /\ req' \in [Requests -> Request]
  <1>1. \A p \in Requests : p # q => (Mutates(p)' <=> Mutates(p)) /\ KeyOf(p)' = KeyOf(p)
    BY Entered DEF Mutates, KeyOf
  <1>2. KeyOf(q)' = KeyOf(q)
    BY Entered
  <1>3. LeaseWhileWorking'
    BY <1>1, <1>2 DEF LeaseWhileWorking
  <1> QED
    BY <1>3, EnterTyped DEF TypeOK

LEMMA AdmitLease ==
    ASSUME TypeOK, LeaseWhileWorking, NEW q \in Requests, Enter(q, "analyse"),
           req[q].phase = "gate", req[q].kind # "plan", lease[KeyOf(q)] = None,
           lease' = [lease EXCEPT ![KeyOf(q)] = q]
    PROVE  /\ LeaseWhileWorking'
           /\ lease' \in [Keys -> Requests \cup {None}]
           /\ req' \in [Requests -> Request]
  <1>1. "analyse" \in Phases
    BY DEF Phases
  <1>2. KeyOf(q) \in Keys
    BY KeyTyped
  <1>3. ~Mutates(q) /\ Mutates(q)'
    BY <1>1, Entered DEF Mutates
  <1>4. /\ lease'[KeyOf(q)] = q
        /\ \A k \in Keys : k # KeyOf(q) => lease'[k] = lease[k]
    BY <1>2 DEF TypeOK
  <1>5. \A p \in Requests : p # q => (Mutates(p)' <=> Mutates(p)) /\ KeyOf(p)' = KeyOf(p)
    BY <1>1, Entered DEF Mutates, KeyOf
  <1>6. LeaseWhileWorking'
    <2> SUFFICES ASSUME NEW k \in Keys, NEW p \in Requests
                 PROVE  lease'[k] = p <=> Mutates(p)' /\ k = KeyOf(p)'
      BY DEF LeaseWhileWorking
    <2>1. CASE p = q
      BY <2>1, <1>1, <1>3, <1>4, Entered DEF LeaseWhileWorking
    <2>2. CASE p # q /\ k = KeyOf(q)
      BY <2>2, <1>2, <1>4, <1>5, GenerateAssumption DEF LeaseWhileWorking
    <2>3. CASE p # q /\ k # KeyOf(q)
      BY <2>3, <1>4, <1>5 DEF LeaseWhileWorking
    <2> QED
      BY <2>1, <2>2, <2>3
  <1> QED
    BY <1>1, <1>6, EnterTyped DEF TypeOK

\* RescanPrepared: the lease goes before the call does.
LEMMA EarlyRelease ==
    ASSUME TypeOK, LeaseWhileWorking, NEW q \in Requests, Enter(q, "plan"),
           lease' = Released(q)
    PROVE  /\ LeaseWhileWorking'
           /\ lease' \in [Keys -> Requests \cup {None}]
           /\ req' \in [Requests -> Request]
  <1>1. "plan" \in Phases
    BY DEF Phases
  <1>2. \A k \in Keys : lease'[k] = IF lease[k] = q THEN None ELSE lease[k]
    BY DEF Released
  <1>3. ~Mutates(q)'
    BY <1>1, Entered DEF Mutates
  <1>4. \A p \in Requests : p # q => (Mutates(p)' <=> Mutates(p)) /\ KeyOf(p)' = KeyOf(p)
    BY <1>1, Entered DEF Mutates, KeyOf
  <1>5. LeaseWhileWorking'
    BY <1>2, <1>3, <1>4, GenerateAssumption DEF LeaseWhileWorking
  <1>6. lease' \in [Keys -> Requests \cup {None}]
    BY DEF Released, TypeOK
  <1> QED
    BY <1>1, <1>5, <1>6, EnterTyped

----------------------------------------------------------------------------
(* What a generation request may do to the sessions.                        *)

\* Let go of a live session, as empty only if it is; or create one.
Dropped(s) ==
    \E e \in {"empty", "over"} :
        /\ sess[s].end = "live"
        /\ sess'[s] = [sess[s] EXCEPT !.end = e]
        /\ e = "empty" => IsEmpty(s) /\ ~sess[s].cert
Born(s) ==
    \E e \in {"live", "empty"}, cert \in BOOLEAN :
        /\ sess[s] = Unborn
        /\ sess'[s] = [Unborn EXCEPT !.end = e, !.cert = cert]
        /\ e = "empty" => ~cert
SessionsStep == \A s \in Requests : sess'[s] = sess[s] \/ Dropped(s) \/ Born(s)

SessionsTyped == slot' \in Requests \cup {None} /\ sess' \in [Requests -> Session]

\* Nobody but q gets a session.
OnlyBorn(q) == \A p \in Requests \ {q} : sess'[p].end = "unborn" <=> sess[p].end = "unborn"

LEMMA SessionsKept ==
    ASSUME TypeOK, OneLive, Newborn, UNCHANGED <<slot, sess>>, NEW q \in Requests
    PROVE  SessionsStep /\ SessionsTyped /\ OneLive' /\ OnlyBorn(q)
           /\ (sess'[q].end = "unborn" <=> sess[q].end = "unborn")
           /\ \A s \in Requests : sess'[s].end = "unborn" => sess'[s] = Unborn
  BY DEF TypeOK, OneLive, Newborn, SessionsStep, SessionsTyped, OnlyBorn

LEMMA SessionDropped ==
    ASSUME TypeOK, OneLive, Newborn, NEW q \in Requests, slot # None, slot' = None,
           NEW e \in {"empty", "over"}, sess' = [sess EXCEPT ![slot].end = e],
           e = "empty" => Releasable(slot)
    PROVE  SessionsStep /\ SessionsTyped /\ OneLive' /\ OnlyBorn(q)
           /\ (sess'[q].end = "unborn" <=> sess[q].end = "unborn")
           /\ \A s \in Requests : sess'[s].end = "unborn" => sess'[s] = Unborn
  <1>1. slot \in Requests /\ sess[slot].end = "live" /\ sess[slot] \in Session
    BY DEF TypeOK, OneLive
  <1>2. [sess[slot] EXCEPT !.end = e] \in Session
    BY <1>1 DEF Session, Ends
  <1>3. /\ sess'[slot] = [sess[slot] EXCEPT !.end = e]
        /\ sess'[slot].end = e
        /\ \A s \in Requests : s # slot => sess'[s] = sess[s]
    BY <1>1 DEF TypeOK, Session
  <1>4. SessionsTyped
    BY <1>1, <1>2 DEF TypeOK, SessionsTyped
  <1>5. Dropped(slot)
    BY <1>1, <1>3 DEF Dropped, Releasable
  <1>6. SessionsStep
    BY <1>3, <1>5 DEF SessionsStep
  <1>7. OneLive'
    BY <1>1, <1>3, GenerateAssumption DEF OneLive
  <1> QED
    BY <1>1, <1>3, <1>4, <1>6, <1>7 DEF OnlyBorn, Newborn

LEMMA EmptyReleased ==
    ASSUME TypeOK, OneLive, Newborn, NEW q \in Requests, ReleaseEmpty
    PROVE  SessionsStep /\ SessionsTyped /\ OneLive' /\ OnlyBorn(q)
           /\ (sess'[q].end = "unborn" <=> sess[q].end = "unborn")
           /\ \A s \in Requests : sess'[s].end = "unborn" => sess'[s] = Unborn
  <1>1. CASE Releasable(slot)
    BY <1>1, SessionDropped DEF ReleaseEmpty, Releasable
  <1>2. CASE ~Releasable(slot)
    BY <1>2, SessionsKept DEF ReleaseEmpty
  <1> QED
    BY <1>1, <1>2

LEMMA SessionCreated ==
    ASSUME TypeOK, OneLive, Newborn, NEW q \in Requests,
           req[q].phase \notin {"brief", "done"},
           NEW cert \in BOOLEAN, NEW own \in {"live", "empty"}, own = "empty" => ~cert,
           NEW old \in Displaced, sess' = Created(q, cert, own, old),
           slot' = IF own = "live" THEN q ELSE None
    PROVE  SessionsStep /\ SessionsTyped /\ OneLive' /\ OnlyBorn(q)
           /\ sess'[q].end # "unborn"
           /\ \A s \in Requests : sess'[s].end = "unborn" => sess'[s] = Unborn
  <1>1. sess[q] = Unborn /\ sess[q].end = "unborn" /\ q # slot
    BY DEF Newborn, OneLive
  <1>2. sess'[q] = [Unborn EXCEPT !.end = own, !.cert = cert] /\ sess'[q].end = own
    BY DEF Created, Unborn
  <1>3. sess'[q] \in Session
    BY <1>2 DEF Session, Unborn, Ends
  <1>4. \A s \in Requests : s # q /\ s # slot => sess'[s] = sess[s]
    BY DEF Created
  <1>5. slot # None =>
          /\ slot \in Requests /\ sess[slot].end = "live" /\ sess[slot] \in Session
          /\ old \in {"empty", "over"}
          /\ old = "empty" => Releasable(slot)
    BY DEF TypeOK, OneLive, Displaced
  <1>6. slot # None =>
          /\ sess'[slot] = [sess[slot] EXCEPT !.end = old]
          /\ sess'[slot].end = old
          /\ sess'[slot] \in Session
    BY <1>1, <1>5 DEF Created, Session, Ends
  <1>7. SessionsTyped
    <2>1. \A s \in Requests : sess'[s] \in Session
      BY <1>3, <1>4, <1>6, GenerateAssumption DEF TypeOK
    <2>2. sess' = [s \in Requests |-> sess'[s]]
      BY DEF Created
    <2> QED
      BY <2>1, <2>2 DEF SessionsTyped
  <1>8. Born(q)
    BY <1>1, <1>2 DEF Born
  <1>9. slot # None => Dropped(slot)
    BY <1>5, <1>6 DEF Dropped, Releasable
  <1>10. SessionsStep
    BY <1>4, <1>5, <1>8, <1>9, GenerateAssumption DEF SessionsStep
  <1>11. OneLive'
    <2> SUFFICES ASSUME NEW s \in Requests
                 PROVE  sess'[s].end = "live" <=> slot' = s
      BY DEF OneLive
    <2>1. CASE s = q
      BY <2>1, <1>2, GenerateAssumption
    <2>2. CASE s # q /\ s = slot
      BY <2>2, <1>5, <1>6, GenerateAssumption
    <2>3. CASE s # q /\ s # slot
      BY <2>3, <1>4, GenerateAssumption DEF OneLive
    <2> QED
      BY <2>1, <2>2, <2>3
  <1>12. OnlyBorn(q)
    BY <1>4, <1>5, <1>6, GenerateAssumption DEF OnlyBorn
  <1>13. ASSUME NEW s \in Requests, sess'[s].end = "unborn" PROVE sess'[s] = Unborn
    <2>1. s # q
      BY <1>2, <1>13
    <2>2. s # slot
      BY <1>5, <1>6, <1>13, GenerateAssumption
    <2> QED
      BY <2>1, <2>2, <1>4, <1>13 DEF Newborn
  <1> QED
    BY <1>2, <1>7, <1>10, <1>11, <1>12, <1>13

\* The session of a request that has work, its own or the certified one.
LEMMA SessionTaken ==
    ASSUME TypeOK, OneLive, Newborn, NEW q \in Requests,
           req[q].phase \notin {"brief", "done"}, TakeSession(q)
    PROVE  SessionsStep /\ SessionsTyped /\ OneLive' /\ OnlyBorn(q)
           /\ \A s \in Requests : sess'[s].end = "unborn" => sess'[s] = Unborn
  <1>1. CASE UNCHANGED <<slot, sess>>
    BY <1>1, SessionsKept
  <1>2. CASE slot' = q /\ \E old \in Displaced : sess' = Created(q, FALSE, "live", old)
    BY <1>2, SessionCreated
  <1> QED
    BY <1>1, <1>2 DEF TakeSession

----------------------------------------------------------------------------
(* The rounds.                                                              *)

LEMMA RoundsTyped ==
    ASSUME TypeOK
    PROVE  /\ \A id \in Ids \cup {NoId} : OpenRound(id) => rounds' \in Seq(Round)
           /\ CloseRounds => rounds' \in Seq(Round)
           /\ CloseLatestRound => rounds' \in Seq(Round)
           /\ FeedRound => rounds' \in Seq(Round)
  <1> USE DEF TypeOK
  <1>1. \A i \in DOMAIN rounds : rounds[i] \in Round
    OBVIOUS
  <1>2. ASSUME NEW o, \A i \in DOMAIN rounds : o[i] \in BOOLEAN,
               rounds' = [i \in DOMAIN rounds |-> [rounds[i] EXCEPT !.open = o[i]]]
        PROVE  rounds' \in Seq(Round)
    <2>1. \A i \in DOMAIN rounds : [rounds[i] EXCEPT !.open = o[i]] \in Round
      BY <1>1, <1>2 DEF Round
    <2>2. DOMAIN rounds = 1..Len(rounds) /\ Len(rounds) \in Nat
      OBVIOUS
    <2> QED
      BY <1>2, <2>1, <2>2
  <1>3. ASSUME NEW id \in Ids \cup {NoId}, OpenRound(id) PROVE rounds' \in Seq(Round)
    <2>1. CASE rounds' = Append(rounds, [id |-> id, open |-> TRUE])
      <3>1. [id |-> id, open |-> TRUE] \in Round
        BY DEF Round
      <3> QED
        BY <2>1, <3>1
    <2>2. CASE rounds' = [i \in DOMAIN rounds |->
                             [rounds[i] EXCEPT !.open = @ \/ i \in RoundOf(id)]]
      <3> DEFINE o == [i \in DOMAIN rounds |-> rounds[i].open \/ i \in RoundOf(id)]
      <3>1. \A i \in DOMAIN rounds : o[i] \in BOOLEAN
        BY <1>1 DEF Round
      <3>2. rounds' = [i \in DOMAIN rounds |-> [rounds[i] EXCEPT !.open = o[i]]]
        BY <2>2, <1>1 DEF Round
      <3> HIDE DEF o
      <3> QED
        BY <1>2, <3>1, <3>2
    <2> QED
      BY <1>3, <2>1, <2>2 DEF OpenRound
  <1>4. ASSUME CloseRounds PROVE rounds' \in Seq(Round)
    <2>1. PICK failed \in SUBSET DOMAIN rounds :
             rounds' = [i \in DOMAIN rounds |-> [rounds[i] EXCEPT !.open = @ /\ i \in failed]]
      BY <1>4 DEF CloseRounds
    <2> DEFINE o == [i \in DOMAIN rounds |-> rounds[i].open /\ i \in failed]
    <2>2. \A i \in DOMAIN rounds : o[i] \in BOOLEAN
      BY <1>1 DEF Round
    <2>3. rounds' = [i \in DOMAIN rounds |-> [rounds[i] EXCEPT !.open = o[i]]]
      BY <2>1, <1>1 DEF Round
    <2> HIDE DEF o
    <2> QED
      BY <1>2, <2>2, <2>3
  <1>5. ASSUME NEW i \in DOMAIN rounds, rounds' = [rounds EXCEPT ![i].open = FALSE]
        PROVE  rounds' \in Seq(Round)
    <2>1. [rounds[i] EXCEPT !.open = FALSE] \in Round
      BY <1>1 DEF Round
    <2> QED
      BY <1>5, <2>1
  <1>6. CloseLatestRound => rounds' \in Seq(Round)
    BY <1>5 DEF CloseLatestRound, OpenRounds
  <1>7. FeedRound => rounds' \in Seq(Round)
    <2>1. rounds # <<>> => Len(rounds) \in DOMAIN rounds
      OBVIOUS
    <2> QED
      BY <1>5, <2>1 DEF FeedRound
  <1> QED
    BY <1>3, <1>4, <1>6, <1>7

----------------------------------------------------------------------------
(* Every step of a generation request.                                      *)

\* A call moves on, and only from the brief or the end of a call may it have got
\* its session.
Progress(q) ==
    /\ \A p \in Requests : p # q => req'[p] = req[p]
    /\ req'[q].phase \notin {"brief", "done"} => req[q].phase \notin {"brief", "done"}
    /\ req'[q].phase = "plan" => req'[q].kind \in Rescans

RequestKept ==
    /\ req' \in [Requests -> Request]
    /\ lease' \in [Keys -> Requests \cup {None}]
    /\ rounds' \in Seq(Round)
    /\ SessionsTyped
    /\ LeaseWhileWorking'
    /\ OneLive'
    /\ Newborn'
    /\ SessionsStep

LEMMA FinishProgress ==
    ASSUME TypeOK, NEW q \in Requests, Leave(q)
    PROVE  Progress(q) /\ req'[q].phase = "done"
  BY DEF TypeOK, Leave, Progress, Uncalled

LEMMA NewbornKept ==
    ASSUME Newborn, NEW q \in Requests, Progress(q), OnlyBorn(q),
           (sess'[q].end = "unborn" <=> sess[q].end = "unborn")
           \/ req'[q].phase \in {"brief", "done"},
           \A s \in Requests : sess'[s].end = "unborn" => sess'[s] = Unborn
    PROVE  Newborn'
  BY DEF Newborn, Progress, OnlyBorn

\* A call that ends.
LEMMA FinishKept ==
    ASSUME TypeOK, LeaseWhileWorking, OneLive, Newborn, NEW q \in Requests, Finish(q),
           UNCHANGED <<slot, sess>>, rounds' \in Seq(Round)
    PROVE  RequestKept
  BY FinishLease, FinishProgress, SessionsKept, NewbornKept DEF Finish, RequestKept

LEMMA LeaveKept ==
    ASSUME TypeOK, LeaseWhileWorking, OneLive, Newborn, NEW q \in Requests, Leave(q),
           ~Mutates(q), UNCHANGED <<lease, slot, sess, rounds>>
    PROVE  RequestKept
  <1>1. rounds' \in Seq(Round)
    BY DEF TypeOK
  <1> QED
    BY <1>1, LeaveLease, FinishProgress, SessionsKept, NewbornKept DEF RequestKept

\* A call that enters its next phase with the session as it was.
LEMMA EnterKept ==
    ASSUME TypeOK, LeaseWhileWorking, OneLive, Newborn, NEW q \in Requests,
           NEW phase \in Phases, Enter(q, phase),
           req[q].phase \in {"gate", "analyse", "restore"}, phase # "plan",
           Mutates(q)' <=> Mutates(q), UNCHANGED <<lease, slot, sess>>,
           rounds' \in Seq(Round)
    PROVE  RequestKept
  <1>1. Progress(q)
    BY Entered DEF Progress
  <1> QED
    BY <1>1, EnterLease, SessionsKept, NewbornKept DEF RequestKept

LEMMA RequestStepKept ==
    ASSUME TypeOK, LeaseWhileWorking, OneLive, Newborn, NEW q \in Requests,
           Call(q) \/ RequestStep(q)
    PROVE  RequestKept
  <1>0. /\ {"gate", "analyse", "restore", "plan", "brief"} \subseteq Phases
        /\ req[q] \in Request
        /\ rounds \in Seq(Round)
    BY DEF Phases, TypeOK
  <1>1. CASE Call(q)
    <2>0. PICK kind \in Kinds, id \in Ids \cup {NoId}, sel \in Selections,
               strict \in BOOLEAN, reset \in BOOLEAN :
             /\ kind = "plan" => strict /\ id = NoId
             /\ kind = "plan" \/ id # NoId => sel = Whole
             /\ reset => kind = "coldStart"
             /\ req' = [req EXCEPT ![q] = [phase |-> "gate", kind |-> kind, id |-> id,
                                           sel |-> sel, strict |-> strict, reset |-> reset]]
      BY <1>1 DEF Call
    <2> DEFINE called == [phase |-> "gate", kind |-> kind, id |-> id, sel |-> sel,
                          strict |-> strict, reset |-> reset]
    <2>a. called \in Request /\ called.phase = "gate"
      BY <1>0 DEF Request
    <2>b. req' = [req EXCEPT ![q] = called]
      BY <2>0
    <2> HIDE DEF called
    <2>1. /\ Progress(q) /\ req[q].phase = "idle" /\ req'[q].phase = "gate"
          /\ UNCHANGED <<lease, slot, sess, rounds>>
      BY <1>1, <2>a, <2>b DEF Call, Progress, TypeOK
    <2>2. req' \in [Requests -> Request]
      BY <2>a, <2>b DEF TypeOK
    <2>3. LeaseWhileWorking'
      BY <2>1 DEF LeaseWhileWorking, Mutates, KeyOf, Progress
    <2> QED
      BY <1>0, <2>1, <2>2, <2>3, SessionsKept, NewbornKept DEF RequestKept, TypeOK
  <1>2. CASE GateRefuses(q)
    BY <1>2, LeaveKept DEF GateRefuses, Mutates
  <1>3. CASE AdmitRescan(q)
    <2>1. /\ ReleaseEmpty /\ rounds' = rounds /\ ~Mutates(q)
          /\ req[q].phase = "gate" /\ req[q].kind # "plan"
      BY <1>3 DEF AdmitRescan, Mutates, Rescans
    <2>2. Progress(q)
      BY <1>0, <1>3, Entered, FinishProgress DEF AdmitRescan, Progress
    <2>3. /\ LeaseWhileWorking'
          /\ lease' \in [Keys -> Requests \cup {None}]
          /\ req' \in [Requests -> Request]
      BY <1>3, <2>1, AdmitLease, LeaveLease DEF AdmitRescan
    <2> QED
      BY <1>0, <2>1, <2>2, <2>3, EmptyReleased, NewbornKept DEF RequestKept
  <1>4. CASE AdmitColdStart(q)
    <2>1. /\ UNCHANGED <<slot, sess, rounds>> /\ ~Mutates(q)
          /\ req[q].phase = "gate" /\ req[q].kind # "plan"
      BY <1>4 DEF AdmitColdStart, Mutates, sharedVars
    <2>2. CASE Leave(q) /\ UNCHANGED lease
      BY <2>1, <2>2, LeaveKept
    <2>3. CASE /\ lease[KeyOf(q)] = None
               /\ Enter(q, "analyse")
               /\ lease' = [lease EXCEPT ![KeyOf(q)] = q]
      <3>1. Progress(q)
        BY <1>0, <2>1, <2>3, Entered DEF Progress
      <3> QED
        BY <1>0, <2>1, <2>3, <3>1, AdmitLease, SessionsKept, NewbornKept DEF RequestKept
    <2> QED
      BY <1>4, <2>2, <2>3 DEF AdmitColdStart
  <1>5. CASE DraftPlan(q)
    <2>1. /\ UNCHANGED <<lease, slot, sess, rounds>> /\ ~Mutates(q)
          /\ req[q].phase = "gate" /\ req[q].kind = "plan"
      BY <1>5 DEF DraftPlan, Mutates
    <2>2. CASE Leave(q)
      BY <2>1, <2>2, LeaveKept
    <2>3. ASSUME NEW phase \in {"brief", "analyse"}, Enter(q, phase) PROVE RequestKept
      <3>1. ~Mutates(q)'
        BY <1>0, <2>1, <2>3, Entered DEF Mutates
      <3> QED
        BY <1>0, <2>1, <2>3, <3>1, EnterKept
    <2> QED
      BY <1>5, <2>2, <2>3 DEF DraftPlan
  <1>6. CASE DraftCaptured(q)
    <2>1. /\ UNCHANGED <<lease, rounds>> /\ ~Mutates(q)
          /\ req[q].phase = "analyse" /\ req[q].kind = "plan"
      BY <1>6 DEF DraftCaptured, Mutates
    <2>2. CASE Leave(q) /\ UNCHANGED <<slot, sess>>
      BY <2>1, <2>2, LeaveKept
    <2>3. CASE /\ Enter(q, "brief") /\ slot' = q
               /\ \E old \in Displaced \ {"empty"} : sess' = Created(q, TRUE, "live", old)
      <3>1. ~Mutates(q)' /\ Progress(q) /\ req'[q].phase = "brief"
        BY <1>0, <2>1, <2>3, Entered DEF Mutates, Progress
      <3>2. PICK old \in Displaced : sess' = Created(q, TRUE, "live", old)
        BY <2>3
      <3>3. /\ SessionsStep /\ SessionsTyped /\ OneLive' /\ OnlyBorn(q)
            /\ \A s \in Requests : sess'[s].end = "unborn" => sess'[s] = Unborn
        BY <2>1, <2>3, <3>2, SessionCreated
      <3> QED
        BY <1>0, <2>1, <2>3, <3>1, <3>3, EnterLease, NewbornKept DEF RequestKept
    <2> QED
      BY <1>6, <2>2, <2>3 DEF DraftCaptured
  <1>7. CASE Analysed(q)
    <2>1. UNCHANGED <<slot, sess>> /\ req[q].phase = "analyse" /\ req[q].kind # "plan"
      BY <1>7 DEF Analysed
    <2>2. rounds' \in Seq(Round)
      <3>1. rounds' = rounds \/ rounds' = <<>>
        BY <1>7 DEF Analysed
      <3> QED
        BY <1>0, <3>1, <<>> \in Seq(Round)
    <2>3. Enter(q, "restore") /\ UNCHANGED lease
      BY <1>7 DEF Analysed
    <2>4. Mutates(q)' /\ Mutates(q)
      BY <1>0, <2>1, <2>3, Entered DEF Mutates
    <2> QED
      BY <1>0, <2>1, <2>2, <2>3, <2>4, EnterKept
  <1>8. CASE EmptyProject(q)
    BY <1>0, <1>8, FinishKept DEF EmptyProject, sharedVars
  <1>9. CASE RescanPrepared(q)
    <2>1. /\ UNCHANGED <<slot, sess, rounds>>
          /\ req[q].phase = "restore" /\ req[q].kind \in Rescans
          /\ Enter(q, "plan") /\ lease' = Released(q)
      BY <1>9 DEF RescanPrepared, sharedVars
    <2>2. Progress(q)
      BY <1>0, <2>1, Entered DEF Progress
    <2> QED
      BY <1>0, <2>1, <2>2, EarlyRelease, SessionsKept, NewbornKept DEF RequestKept
  <1>10. CASE RescanNoWork(q) \/ RescanWork(q) \/ ColdStartBuild(q)
    <2>1. /\ Enter(q, "brief") /\ UNCHANGED lease
          /\ req[q].phase = "plan" \/ (req[q].phase = "restore" /\ req[q].kind = "coldStart")
      <3>1. CASE RescanNoWork(q)
        BY <3>1 DEF RescanNoWork
      <3>2. CASE RescanWork(q)
        BY <3>2 DEF RescanWork
      <3>3. CASE ColdStartBuild(q)
        BY <3>3 DEF ColdStartBuild
      <3> QED
        BY <1>10, <3>1, <3>2, <3>3
    <2>2. Progress(q) /\ req'[q].phase = "brief" /\ req'[q].kind = req[q].kind
      BY <1>0, <2>1, Entered DEF Progress
    <2>3. rounds' \in Seq(Round)
      BY <1>0, <1>10, RoundsTyped DEF RescanNoWork, RescanWork, ColdStartBuild, Request
    <2>4. /\ SessionsStep /\ SessionsTyped /\ OneLive' /\ OnlyBorn(q)
          /\ \A s \in Requests : sess'[s].end = "unborn" => sess'[s] = Unborn
      <3>1. CASE UNCHANGED <<slot, sess>>
        BY <3>1, SessionsKept
      <3>2. CASE /\ slot' = None
                 /\ \E old \in Displaced : sess' = Created(q, FALSE, "empty", old)
        BY <2>1, <3>2, SessionCreated
      <3>3. CASE TakeSession(q)
        BY <2>1, <3>3, SessionTaken
      <3> QED
        BY <1>10, <3>1, <3>2, <3>3 DEF RescanNoWork, RescanWork, ColdStartBuild
    <2>5. Mutates(q)' <=> Mutates(q)
      BY <2>1, <2>2 DEF Newborn, Mutates, Rescans
    <2> QED
      BY <1>0, <2>1, <2>2, <2>3, <2>4, <2>5, EnterLease, NewbornKept DEF RequestKept
  <1>11. CASE SessionRefused(q) \/ Answer(q) \/ Throws(q)
    BY <1>0, <1>11, FinishKept DEF SessionRefused, Answer, Throws, sharedVars
  <1> QED
    BY <1>1, <1>2, <1>3, <1>4, <1>5, <1>6, <1>7, <1>8, <1>9, <1>10, <1>11 DEF RequestStep

LEMMA ExpireKept ==
    ASSUME TypeOK, LeaseWhileWorking, OneLive, Newborn, Expire
    PROVE  RequestKept
  <1>1. slot \in Requests
    BY DEF TypeOK, Expire
  <1>2. Progress(slot)
    BY <1>1 DEF Expire, Progress, Newborn
  <1>3. LeaseWhileWorking'
    BY DEF Expire, LeaseWhileWorking, Mutates, KeyOf
  <1> QED
    BY <1>1, <1>2, <1>3, SessionDropped, NewbornKept DEF RequestKept, Expire, TypeOK

----------------------------------------------------------------------------
(* The invariant over the steps of requests and submissions.                *)

LEMMA RequestsKeep ==
    ASSUME SessionInvariant, RequestKept, UNCHANGED workVars
    PROVE  SessionInvariant'
  <1> USE DEF SessionInvariant, RequestKept, workVars
  <1>1. TypeOK'
    BY DEF TypeOK, SessionsTyped
  <1>2. \A s \in Requests : sess[s].end # "unborn" =>
            \/ sess'[s] = sess[s]
            \/ /\ sess'[s].evid = sess[s].evid /\ sess'[s].done = sess[s].done
               /\ sess'[s].rejected = sess[s].rejected /\ sess'[s].cert = sess[s].cert
               /\ sess'[s].end # "empty" \/ (IsEmpty(s) /\ ~sess[s].cert)
    <2> SUFFICES ASSUME NEW s \in Requests, sess[s].end # "unborn", Dropped(s)
                 PROVE  /\ sess'[s].evid = sess[s].evid /\ sess'[s].done = sess[s].done
                        /\ sess'[s].rejected = sess[s].rejected
                        /\ sess'[s].cert = sess[s].cert
                        /\ sess'[s].end # "empty" \/ (IsEmpty(s) /\ ~sess[s].cert)
      <3>1. \A s \in Requests : Born(s) => sess[s].end = "unborn"
        BY DEF Born, Unborn
      <3> QED
        BY <3>1 DEF SessionsStep
    <2>1. sess[s] \in Session
      BY DEF TypeOK
    <2> QED
      BY <2>1 DEF Dropped, Session
  <1>3. \A s \in Requests : sess[s].end = "unborn" =>
            /\ sess[s].evid = {} /\ sess[s].done = {}
            /\ sess'[s].evid = {} /\ sess'[s].done = {} /\ ~sess'[s].rejected
            /\ sess'[s].end = "empty" => ~sess'[s].cert
    <2> SUFFICES ASSUME NEW s \in Requests, sess[s].end = "unborn"
                 PROVE  /\ sess[s].evid = {} /\ sess[s].done = {}
                        /\ sess'[s].evid = {} /\ sess'[s].done = {} /\ ~sess'[s].rejected
                        /\ sess'[s].end = "empty" => ~sess'[s].cert
      OBVIOUS
    <2>1. sess[s] = Unborn
      BY DEF Newborn
    <2>2. CASE sess'[s] = sess[s]
      BY <2>1, <2>2 DEF Unborn
    <2>3. CASE Born(s)
      BY <2>1, <2>3 DEF Born, Unborn
    <2> QED
      BY <2>2, <2>3 DEF SessionsStep, Dropped
  <1>4. \A s \in Requests : sess'[s].evid = sess[s].evid /\ sess'[s].done = sess[s].done
    BY <1>2, <1>3
  <1>5. MarkedWithEvidence'
    BY <1>4 DEF MarkedWithEvidence
  <1>6. \A c \in Completions : comp[c].sess \in Requests \cup {None}
    BY DEF TypeOK, Completion
  <1>7. Bound'
    BY <1>4, <1>6 DEF Bound, Looked, WorkPhases
  <1>8. ReleasedEmpty'
    <2> SUFFICES ASSUME NEW s \in Requests, sess'[s].end = "empty"
                 PROVE  /\ IsEmpty(s)' /\ ~sess'[s].cert
                        /\ \A c \in Completions : comp[c].sess # s
      BY DEF ReleasedEmpty
    <2>1. IsEmpty(s)' /\ ~sess'[s].cert
      BY <1>2, <1>3 DEF ReleasedEmpty, IsEmpty
    <2>2. sess[s].evid = {}
      BY <2>1, <1>4 DEF IsEmpty
    <2> QED
      BY <2>1, <2>2, GenerateAssumption DEF Bound
  <1>9. FinalSyncs' /\ Ledgered' /\ SyncedOnce'
    BY DEF FinalSyncs, Looked, Ledgered, HasSynced, SyncedOnce
  <1> QED
    BY <1>1, <1>5, <1>7, <1>8, <1>9

LEMMA SubmitsKeep ==
    ASSUME SessionInvariant, NEW u \in Submits, SubmitRecipes(u) \/ SubmitStored(u)
    PROVE  SessionInvariant'
  <1> USE DEF SessionInvariant
  <1>1. CASE SubmitRecipes(u)
    <2>1. UNCHANGED <<req, lease, slot, sess, rounds, comp, ledger, synced, syncFailed>>
      BY <1>1 DEF SubmitRecipes, generateVars
    <2>2. sub' \in [Submits -> Submit]
      <3>1. CASE sub' = [sub EXCEPT ![u].phase = "done"]
        <4>1. [sub[u] EXCEPT !.phase = "done"] \in Submit
          BY DEF TypeOK, Submit
        <4> QED
          BY <3>1, <4>1 DEF TypeOK
      <3>2. ASSUME NEW D \in SUBSET Dims,
                   sub' = [sub EXCEPT ![u].phase = "create", ![u].dims = D]
            PROVE  sub' \in [Submits -> Submit]
        <4>1. [sub[u] EXCEPT !.phase = "create", !.dims = D] \in Submit
          BY DEF TypeOK, Submit
        <4>2. sub' = [sub EXCEPT ![u] = [sub[u] EXCEPT !.phase = "create", !.dims = D]]
          BY <3>2
        <4> QED
          BY <4>1, <4>2 DEF TypeOK
      <3>3. CASE sub' = [sub EXCEPT ![u].phase = "create", ![u].dims = {}]
        <4>1. {} \in SUBSET Dims
          OBVIOUS
        <4> QED
          BY <3>2, <3>3, <4>1
      <3>4. CASE \E D \in SUBSET Dims \ {{}} :
                    sub' = [sub EXCEPT ![u].phase = "create", ![u].dims = D]
        BY <3>2, <3>4
      <3> QED
        BY <1>1, <3>1, <3>3, <3>4 DEF SubmitRecipes
    <2> QED
      BY <2>1, <2>2 DEF TypeOK, LeaseWhileWorking, Mutates, KeyOf, OneLive, Newborn,
         ReleasedEmpty, IsEmpty, MarkedWithEvidence, Bound, Looked, FinalSyncs, Ledgered,
         HasSynced, SyncedOnce
  <1>2. CASE SubmitStored(u)
    <2>1. UNCHANGED <<req, lease, slot, rounds, comp, ledger, synced, syncFailed>>
      BY <1>2 DEF SubmitStored
    <2>2. sub' \in [Submits -> Submit]
      <3>1. [phase |-> "done", dims |-> {}] \in Submit
        BY DEF Submit
      <3> QED
        BY <1>2, <3>1 DEF SubmitStored, TypeOK
    <2>a. Trackable(u) \subseteq SUBSET Dims
      BY DEF Trackable, TypeOK, Submit
    <2>3. PICK created \in SUBSET Dims, rejected \in BOOLEAN :
             sess' = IF slot = None THEN sess
                     ELSE [sess EXCEPT ![slot].evid = @ \cup created,
                                       ![slot].rejected = @ \/ rejected]
      <3>1. CASE slot = None
        BY <1>2, <3>1 DEF SubmitStored
      <3>2. CASE slot # None
        BY <1>2, <2>a, <3>2 DEF SubmitStored
      <3> QED
        BY <3>1, <3>2
    <2>4. created \in SUBSET Dims
      OBVIOUS
    <2> DEFINE told == [sess[slot] EXCEPT !.evid = @ \cup created,
                                          !.rejected = @ \/ rejected]
    <2>5. slot # None =>
            /\ slot \in Requests /\ sess[slot] \in Session /\ sess[slot].end = "live"
            /\ sess' = [sess EXCEPT ![slot] = told]
      BY <2>3 DEF TypeOK, OneLive
    <2>6. slot # None =>
            /\ told \in Session /\ told.end = "live"
            /\ told.done = sess[slot].done /\ sess[slot].evid \subseteq told.evid
      BY <2>4, <2>5 DEF Session
    <2> HIDE DEF told
    <2>7. sess' \in [Requests -> Session]
      BY <2>3, <2>5, <2>6 DEF TypeOK
    <2>8. /\ \A s \in Requests : s # slot => sess'[s] = sess[s]
          /\ slot # None => sess'[slot] = told
      BY <2>3, <2>5 DEF TypeOK
    <2>9. \A s \in Requests : /\ sess'[s].end = sess[s].end /\ sess'[s].done = sess[s].done
                              /\ sess[s].evid \subseteq sess'[s].evid
                              /\ sess[s].end # "live" => sess'[s] = sess[s]
      <3> SUFFICES ASSUME NEW s \in Requests
                   PROVE  /\ sess'[s].end = sess[s].end /\ sess'[s].done = sess[s].done
                          /\ sess[s].evid \subseteq sess'[s].evid
                          /\ sess[s].end # "live" => sess'[s] = sess[s]
        OBVIOUS
      <3>1. CASE s = slot
        BY <3>1, <2>5, <2>6, <2>8, GenerateAssumption
      <3>2. CASE s # slot
        BY <3>2, <2>8
      <3> QED
        BY <3>1, <3>2
    <2>10. TypeOK' /\ LeaseWhileWorking'
      BY <2>1, <2>2, <2>7 DEF TypeOK, LeaseWhileWorking, Mutates, KeyOf
    <2>11. OneLive' /\ Newborn'
      BY <2>1, <2>9 DEF OneLive, Newborn
    <2>12. ReleasedEmpty' /\ MarkedWithEvidence'
      BY <2>1, <2>9 DEF ReleasedEmpty, IsEmpty, MarkedWithEvidence
    <2>13. \A c \in Completions : comp[c].sess \in Requests \cup {None}
      BY DEF TypeOK, Completion
    <2>14. Bound'
      BY <2>1, <2>9, <2>13 DEF Bound, Looked, WorkPhases
    <2>15. FinalSyncs' /\ Ledgered' /\ SyncedOnce'
      BY <2>1 DEF FinalSyncs, Looked, Ledgered, HasSynced, SyncedOnce
    <2> QED
      BY <2>10, <2>11, <2>12, <2>14, <2>15
  <1> QED
    BY <1>1, <1>2

----------------------------------------------------------------------------
(* The invariant over the steps of completions.                             *)

Others(c) ==
    /\ comp' \in [Completions -> Completion]
    /\ \A e \in Completions : e # c => comp'[e] = comp[e]

LEMMA GoStep ==
    ASSUME TypeOK, NEW c \in Completions,
           NEW phase \in WorkPhases \cup {"idle", "resolve", "done"}, Go(c, phase)
    PROVE  /\ Others(c)
           /\ comp'[c].phase = phase /\ comp'[c].out = comp[c].out
           /\ comp'[c].dim = comp[c].dim /\ comp'[c].sess = comp[c].sess
  <1>1. [comp[c] EXCEPT !.phase = phase] \in Completion
    BY DEF TypeOK, Completion
  <1>2. comp' = [comp EXCEPT ![c] = [comp[c] EXCEPT !.phase = phase]]
    BY DEF Go
  <1>3. comp[c] \in Completion
    BY DEF TypeOK
  <1> QED
    BY <1>1, <1>2, <1>3 DEF TypeOK, Others, Completion

LEMMA EndStep ==
    ASSUME TypeOK, NEW c \in Completions, NEW out \in CompletionOutcomes, End(c, out)
    PROVE  /\ Others(c)
           /\ comp'[c].phase = "done" /\ comp'[c].out = out
           /\ comp'[c].dim = comp[c].dim /\ comp'[c].sess = comp[c].sess
  <1>1. [comp[c] EXCEPT !.phase = "done", !.out = out] \in Completion
    BY DEF TypeOK, Completion
  <1>2. comp' = [comp EXCEPT ![c] = [comp[c] EXCEPT !.phase = "done", !.out = out]]
    BY DEF End
  <1>3. comp[c] \in Completion
    BY DEF TypeOK
  <1> QED
    BY <1>1, <1>2, <1>3 DEF TypeOK, Others, Completion

\* The refresh stays due to whom it was due.
LEMMA SyncsKept ==
    ASSUME FinalSyncs, NEW c \in Completions, Others(c),
           Looked(c)' => Looked(c) /\ comp'[c].sess = comp[c].sess
                                   /\ comp'[c].dim = comp[c].dim,
           comp[c].phase = "finalize"
               => comp'[c].phase = "finalize" /\ comp'[c].sess = comp[c].sess,
           UNCHANGED <<synced, syncFailed>>
    PROVE  FinalSyncs'
  <1> SUFFICES ASSUME NEW s \in Requests,
                      \A d \in Dims : \E e \in Completions :
                          comp'[e].sess = s /\ comp'[e].dim = d /\ Looked(e)'
               PROVE  \/ synced[s] > 0
                      \/ s \in syncFailed
                      \/ \E e \in Completions : comp'[e].sess = s /\ comp'[e].phase = "finalize"
    BY DEF FinalSyncs
  <1>1. \A e \in Completions : Looked(e)' =>
            Looked(e) /\ comp'[e].sess = comp[e].sess /\ comp'[e].dim = comp[e].dim
    BY DEF Others, Looked
  <1>2. \A d \in Dims : \E e \in Completions :
            comp[e].sess = s /\ comp[e].dim = d /\ Looked(e)
    BY <1>1
  <1> QED
    BY <1>2 DEF FinalSyncs, Others

\* A step that changes its own completion only, and not its session.
LEMMA OwnStep ==
    ASSUME SessionInvariant, NEW c \in Completions, Others(c),
           UNCHANGED <<req, lease, slot, sess, sub>>,
           rounds' \in Seq(Round),
           comp'[c].sess = comp[c].sess \/ (comp[c].sess = None /\ comp'[c].sess = slot),
           comp'[c].sess # None => comp'[c].dim \in sess[comp'[c].sess].evid,
           comp'[c].phase \in {"idle", "resolve"}
               => comp'[c].sess = None /\ comp'[c].out = "open",
           comp'[c].phase \in WorkPhases \/ Looked(c)' => comp'[c].sess # None,
           comp'[c].phase = "persist" \/ Looked(c)'
               => comp'[c].dim \in sess[comp'[c].sess].done,
           FinalSyncs', Ledgered', SyncedOnce',
           ledger' \in Seq(Requests), synced' \in [Requests -> Nat],
           syncFailed' \in SUBSET Requests
    PROVE  SessionInvariant'
  <1> USE DEF SessionInvariant
  <1>1. TypeOK' /\ LeaseWhileWorking' /\ OneLive' /\ Newborn' /\ MarkedWithEvidence'
    BY DEF TypeOK, Others, LeaseWhileWorking, Mutates, KeyOf, OneLive, Newborn,
       MarkedWithEvidence
  <1>2. ReleasedEmpty'
    <2> SUFFICES ASSUME NEW s \in Requests, sess[s].end = "empty"
                 PROVE  /\ IsEmpty(s)' /\ ~sess[s].cert
                        /\ \A e \in Completions : comp'[e].sess # s
      BY DEF ReleasedEmpty
    <2>1. IsEmpty(s)' /\ ~sess[s].cert
      BY DEF ReleasedEmpty, IsEmpty
    <2>2. sess[s].evid = {}
      BY DEF ReleasedEmpty, IsEmpty
    <2>3. \A e \in Completions : comp[e].sess # s
      BY DEF ReleasedEmpty
    <2> QED
      BY <2>1, <2>2, <2>3, GenerateAssumption DEF Others
  <1>3. Bound'
    <2> SUFFICES ASSUME NEW e \in Completions
                 PROVE  /\ comp'[e].phase \in {"idle", "resolve"}
                              => comp'[e].sess = None /\ comp'[e].out = "open"
                        /\ comp'[e].phase \in WorkPhases \/ Looked(e)' => comp'[e].sess # None
                        /\ comp'[e].sess # None => comp'[e].dim \in sess[comp'[e].sess].evid
                        /\ comp'[e].phase = "persist" \/ Looked(e)'
                              => comp'[e].dim \in sess[comp'[e].sess].done
      BY DEF Bound
    <2>1. CASE e = c
      BY <2>1
    <2>2. CASE e # c
      BY <2>2 DEF Others, Bound, Looked
    <2> QED
      BY <2>1, <2>2
  <1> QED
    BY <1>1, <1>2, <1>3

\* Ledger and counts, as long as nobody touches them.
LEMMA LedgerKept ==
    ASSUME TypeOK, Ledgered, SyncedOnce, UNCHANGED <<ledger, synced, syncFailed>>
    PROVE  /\ Ledgered' /\ SyncedOnce'
           /\ ledger' \in Seq(Requests) /\ synced' \in [Requests -> Nat]
           /\ syncFailed' \in SUBSET Requests
  BY DEF TypeOK, Ledgered, SyncedOnce, HasSynced

\* The ledger after a session was recorded.
LEMMA Recorded ==
    ASSUME ledger \in Seq(Requests), Len(ledger) <= LedgerLimit, NEW s \in Requests,
           RecordSync(s)
    PROVE  /\ ledger' \in Seq(Requests) /\ Len(ledger') <= LedgerLimit
           /\ HasSynced(s)'
           /\ \A t \in Requests : HasSynced(t)' => HasSynced(t) \/ t = s
           /\ \/ Len(ledger') = LedgerLimit
              \/ \A t \in Requests : HasSynced(t) => HasSynced(t)'
           /\ Len(ledger) = LedgerLimit => Len(ledger') = LedgerLimit
  <1> DEFINE longer == Append(ledger, s)
  <1>0. LedgerLimit \in Nat \ {0} /\ Len(ledger) \in Nat
    BY WorkAssumption
  <1>1. /\ longer \in Seq(Requests) /\ Len(longer) = Len(ledger) + 1
        /\ \A i \in 1..Len(ledger) : longer[i] = ledger[i]
        /\ longer[Len(ledger) + 1] = s
    OBVIOUS
  <1>2. ledger' = IF Len(longer) > LedgerLimit THEN Tail(longer) ELSE longer
    BY DEF RecordSync
  <1> HIDE DEF longer
  <1>3. CASE Len(longer) > LedgerLimit
    <2>1. /\ ledger' \in Seq(Requests) /\ Len(ledger') = Len(ledger)
          /\ \A i \in 1..Len(ledger) : ledger'[i] = longer[i + 1]
      BY <1>0, <1>1, <1>2, <1>3
    <2>2. Len(ledger) = LedgerLimit
      BY <1>0, <1>1, <1>3
    <2>3. ledger'[Len(ledger)] = s
      BY <1>0, <1>1, <2>1, <2>2
    <2>4. DOMAIN ledger' = 1..Len(ledger) /\ DOMAIN ledger = 1..Len(ledger)
      BY <2>1
    <2>5. HasSynced(s)'
      BY <1>0, <2>2, <2>3, <2>4 DEF HasSynced
    <2>6. ASSUME NEW t \in Requests, HasSynced(t)', t # s PROVE HasSynced(t)
      <3>1. PICK i \in 1..Len(ledger) : ledger'[i] = t
        BY <2>4, <2>6 DEF HasSynced
      <3>2. i # Len(ledger)
        BY <2>3, <2>6, <3>1
      <3>3. i + 1 \in 1..Len(ledger) /\ ledger[i + 1] = t
        BY <1>0, <1>1, <2>1, <3>1, <3>2
      <3> QED
        BY <2>4, <3>3 DEF HasSynced
    <2> QED
      BY <2>1, <2>2, <2>5, <2>6
  <1>4. CASE ~(Len(longer) > LedgerLimit)
    <2>1. /\ ledger' = longer
          /\ DOMAIN longer = 1..(Len(ledger) + 1) /\ DOMAIN ledger = 1..Len(ledger)
      BY <1>1, <1>2, <1>4
    <2>2. Len(longer) <= LedgerLimit /\ Len(ledger) # LedgerLimit
      BY <1>0, <1>1, <1>4
    <2>3. HasSynced(s)'
      BY <1>0, <1>1, <2>1 DEF HasSynced
    <2>4. ASSUME NEW t \in Requests, HasSynced(t) PROVE HasSynced(t)'
      BY <1>0, <1>1, <2>1, <2>4 DEF HasSynced
    <2>5. ASSUME NEW t \in Requests, HasSynced(t)', t # s PROVE HasSynced(t)
      <3>1. PICK i \in 1..(Len(ledger) + 1) : longer[i] = t
        BY <2>1, <2>5 DEF HasSynced
      <3>2. i \in 1..Len(ledger)
        BY <1>0, <1>1, <2>5, <3>1
      <3> QED
        BY <1>1, <2>1, <3>1, <3>2 DEF HasSynced
    <2> QED
      BY <1>1, <2>1, <2>2, <2>3, <2>4, <2>5
  <1> QED
    BY <1>3, <1>4

LEMMA CompletionsKeep ==
    ASSUME SessionInvariant, NEW c \in Completions, CompleteDimension(c) \/ CompletionStep(c)
    PROVE  SessionInvariant'
  <1> USE DEF SessionInvariant
  <1>0. /\ comp[c] \in Completion /\ rounds \in Seq(Round)
        /\ slot \in Requests \cup {None}
        /\ WorkPhases \subseteq WorkPhases \cup {"idle", "resolve", "done"}
    BY DEF TypeOK
  <1>1. CASE CompleteDimension(c)
    <2>1. UNCHANGED <<req, lease, slot, sess, rounds, sub, ledger, synced, syncFailed>>
      BY <1>1 DEF CompleteDimension, generateVars
    <2>2. PICK d \in Dims : comp' = [comp EXCEPT ![c].phase = "resolve", ![c].dim = d]
      BY <1>1 DEF CompleteDimension
    <2> DEFINE called == [comp[c] EXCEPT !.phase = "resolve", !.dim = d]
    <2>3. /\ called \in Completion /\ called.phase = "resolve"
          /\ called.sess = comp[c].sess /\ called.out = comp[c].out
      BY <1>0 DEF Completion
    <2>4. comp' = [comp EXCEPT ![c] = called]
      BY <2>2
    <2> HIDE DEF called
    <2>5. Others(c) /\ comp'[c] = called
      BY <2>3, <2>4 DEF Others, TypeOK
    <2>6. comp[c].phase = "idle" /\ comp[c].sess = None /\ comp[c].out = "open"
      BY <1>1 DEF CompleteDimension, Bound
    <2>7. ~Looked(c)'
      BY <2>3, <2>5, <2>6 DEF Looked
    <2>8. FinalSyncs'
      BY <2>1, <2>5, <2>6, <2>7, SyncsKept
    <2> QED
      BY <1>0, <2>1, <2>3, <2>5, <2>6, <2>7, <2>8, LedgerKept, OwnStep DEF WorkPhases
  <1>2. CASE CompletionRefused(c)
    <2>1. /\ UNCHANGED <<req, lease, slot, sess, rounds, sub, ledger, synced, syncFailed>>
          /\ comp[c].phase = "resolve"
      BY <1>2 DEF CompletionRefused, generateVars
    <2>2. PICK out \in {"noSession", "refused"} : End(c, out)
      BY <1>2 DEF CompletionRefused
    <2>3. /\ Others(c) /\ comp'[c].phase = "done" /\ comp'[c].out = out
          /\ comp'[c].sess = comp[c].sess
      BY <2>2, EndStep DEF CompletionOutcomes
    <2>4. ~Looked(c)' /\ comp[c].sess = None
      BY <2>1, <2>3 DEF Looked, Bound
    <2>5. FinalSyncs'
      BY <2>1, <2>3, <2>4, SyncsKept
    <2> QED
      BY <1>0, <2>1, <2>3, <2>4, <2>5, LedgerKept, OwnStep DEF WorkPhases
  <1>3. CASE CompletionAccepted(c)
    <2>1. /\ UNCHANGED <<req, lease, slot, sess, rounds, sub, ledger, synced, syncFailed>>
          /\ comp[c].phase = "resolve" /\ slot # None /\ comp[c].dim \in sess[slot].evid
      BY <1>3 DEF CompletionAccepted, generateVars
    <2>2. PICK phase \in {"certify", "bind"} :
             comp' = [comp EXCEPT ![c].sess = slot, ![c].phase = phase]
      BY <1>3 DEF CompletionAccepted
    <2> DEFINE accepted == [comp[c] EXCEPT !.sess = slot, !.phase = phase]
    <2>3. /\ accepted \in Completion /\ accepted.phase = phase
          /\ accepted.sess = slot /\ accepted.out = comp[c].out /\ accepted.dim = comp[c].dim
      BY <1>0 DEF Completion, WorkPhases
    <2>4. comp' = [comp EXCEPT ![c] = accepted]
      BY <2>2
    <2> HIDE DEF accepted
    <2>5. Others(c) /\ comp'[c] = accepted
      BY <2>3, <2>4 DEF Others, TypeOK
    <2>6. comp[c].sess = None /\ comp[c].out = "open"
      BY <2>1 DEF Bound
    <2>7. ~Looked(c)'
      BY <2>3, <2>5, <2>6 DEF Looked
    <2>8. FinalSyncs'
      BY <2>1, <2>5, <2>7, SyncsKept
    <2> QED
      BY <1>0, <2>1, <2>3, <2>5, <2>6, <2>7, <2>8, LedgerKept, OwnStep
  <1>4. CASE CompletionCertified(c)
    <2>1. /\ UNCHANGED <<req, lease, slot, sess, rounds, sub, ledger, synced, syncFailed>>
          /\ comp[c].phase = "certify"
      BY <1>4 DEF CompletionCertified, generateVars
    <2>2. /\ Others(c) /\ comp'[c].sess = comp[c].sess /\ comp'[c].dim = comp[c].dim
          /\ \/ comp'[c].phase = "bind" /\ comp'[c].out = comp[c].out
             \/ comp'[c].phase = "done" /\ comp'[c].out = "blocked"
      BY <1>0, <1>4, GoStep, EndStep DEF CompletionCertified, CompletionOutcomes, WorkPhases
    <2>3. Looked(c)' => Looked(c)
      BY <2>2 DEF Looked
    <2>4. FinalSyncs'
      BY <2>1, <2>2, <2>3, SyncsKept
    <2> QED
      BY <1>0, <2>1, <2>2, <2>3, <2>4, LedgerKept, OwnStep DEF WorkPhases, Bound
  <1>5. CASE ReportProgress(c)
    <2>1. /\ UNCHANGED <<req, lease, slot, sess, rounds, sub, ledger, synced, syncFailed>>
          /\ comp[c].phase = "persist"
      BY <1>5 DEF ReportProgress, generateVars
    <2>2. /\ Others(c) /\ comp'[c].sess = comp[c].sess /\ comp'[c].dim = comp[c].dim
          /\ comp'[c].phase = IF IsComplete(comp[c].sess) THEN "finalize" ELSE "cover"
      BY <1>0, <1>5, GoStep DEF ReportProgress, WorkPhases
    <2>3. comp[c].sess # None /\ comp[c].dim \in sess[comp[c].sess].done
      BY <2>1 DEF Bound, WorkPhases
    <2>4. FinalSyncs'
      <3> SUFFICES ASSUME NEW s \in Requests,
                          \A d \in Dims : \E e \in Completions :
                              comp'[e].sess = s /\ comp'[e].dim = d /\ Looked(e)'
                   PROVE  \/ synced[s] > 0
                          \/ s \in syncFailed
                          \/ \E e \in Completions :
                                comp'[e].sess = s /\ comp'[e].phase = "finalize"
        BY <2>1 DEF FinalSyncs
      <3>1. \A e \in Completions \ {c} : Looked(e)' <=> Looked(e)
        BY <2>2 DEF Others, Looked
      <3>2. CASE comp[c].sess = s
        <4>1. \A d \in Dims : d \in sess[s].done
          BY <2>2, <2>3, <3>1, <3>2 DEF Bound, Others
        <4>2. sess[s].done = Dims
          BY <4>1 DEF TypeOK, Session
        <4> QED
          BY <2>2, <3>2, <4>2 DEF IsComplete
      <3>3. CASE comp[c].sess # s
        <4>1. \A d \in Dims : \E e \in Completions :
                 comp[e].sess = s /\ comp[e].dim = d /\ Looked(e)
          BY <2>2, <3>1, <3>3 DEF Others
        <4> QED
          BY <2>2, <3>3, <4>1 DEF FinalSyncs, Others
      <3> QED
        BY <3>2, <3>3
    <2> QED
      BY <1>0, <2>1, <2>2, <2>3, <2>4, LedgerKept, OwnStep DEF Bound
  <1>6. CASE RefreshSkills(c)
    <2>1. /\ UNCHANGED <<req, lease, slot, sess, rounds, sub>>
          /\ comp[c].phase = "finalize"
      BY <1>6 DEF RefreshSkills, generateVars
    <2>2. /\ Others(c) /\ comp'[c].sess = comp[c].sess /\ comp'[c].dim = comp[c].dim
          /\ comp'[c].phase = "cover"
      BY <1>0, <1>6, GoStep DEF RefreshSkills, WorkPhases
    <2>s. PICK s \in Requests : s = comp[c].sess
      BY <1>0, <2>1 DEF Bound, Completion, WorkPhases
    <2>3. comp[c].dim \in sess[s].done /\ comp[c].dim \in sess[s].evid
      BY <2>1, <2>s, GenerateAssumption DEF Bound, Looked
    <2>4. /\ ledger' \in Seq(Requests) /\ synced' \in [Requests -> Nat]
          /\ syncFailed' \in SUBSET Requests /\ Ledgered' /\ SyncedOnce'
          /\ \A t \in Requests : synced[t] > 0 => synced'[t] > 0
          /\ syncFailed \subseteq syncFailed'
          /\ synced'[s] > 0 \/ s \in syncFailed'
      <3>1. CASE HasSynced(s) /\ UNCHANGED <<ledger, synced, syncFailed>>
        BY <2>3, <3>1, LedgerKept DEF Ledgered
      <3>2. CASE /\ ~HasSynced(s) /\ RecordSync(s)
                 /\ synced' = [synced EXCEPT ![s] = @ + 1]
                 /\ UNCHANGED syncFailed
        <4>1. /\ ledger' \in Seq(Requests) /\ Len(ledger') <= LedgerLimit
              /\ HasSynced(s)'
              /\ \A t \in Requests : HasSynced(t)' => HasSynced(t) \/ t = s
              /\ \/ Len(ledger') = LedgerLimit
                 \/ \A t \in Requests : HasSynced(t) => HasSynced(t)'
              /\ Len(ledger) = LedgerLimit => Len(ledger') = LedgerLimit
          BY <2>3, <3>2, Recorded DEF TypeOK, Ledgered
        <4>2. /\ synced' \in [Requests -> Nat] /\ synced'[s] = synced[s] + 1
              /\ synced[s] \in Nat
              /\ \A t \in Requests : t # s => synced'[t] = synced[t]
          BY <2>3, <3>2 DEF TypeOK
        <4>3. Ledgered'
          <5>1. ASSUME NEW t \in Requests, HasSynced(t)' PROVE synced'[t] > 0
            <6>1. CASE t = s
              BY <6>1, <4>2
            <6>2. CASE t # s
              <7>1. HasSynced(t)
                BY <6>2, <4>1, <5>1
              <7> QED
                BY <6>2, <7>1, <4>2 DEF Ledgered
            <6> QED
              BY <6>1, <6>2
          <5>2. ASSUME NEW t \in Requests, synced'[t] > 0
                PROVE  HasSynced(t)' \/ Len(ledger') = LedgerLimit
            <6>1. CASE t = s
              BY <6>1, <4>1
            <6>2. CASE t # s
              BY <6>2, <4>1, <4>2, <5>2 DEF Ledgered
            <6> QED
              BY <6>1, <6>2
          <5> QED
            BY <4>1, <5>1, <5>2 DEF Ledgered
        <4>4. SyncedOnce'
          <5> SUFFICES ASSUME NEW t \in Requests, synced'[t] > 1
                       PROVE  Len(ledger') = LedgerLimit
            BY DEF SyncedOnce
          <5>1. CASE t = s
            BY <5>1, <3>2, <4>1, <4>2 DEF Ledgered
          <5>2. CASE t # s
            BY <5>2, <4>1, <4>2 DEF SyncedOnce
          <5> QED
            BY <5>1, <5>2
        <4> QED
          BY <3>2, <4>1, <4>2, <4>3, <4>4 DEF TypeOK
      <3>3. CASE syncFailed' = syncFailed \cup {s} /\ UNCHANGED <<ledger, synced>>
        BY <2>3, <3>3 DEF TypeOK, Ledgered, SyncedOnce, HasSynced
      <3> QED
        BY <1>6, <2>s, <3>1, <3>2, <3>3 DEF RefreshSkills
    <2>5. FinalSyncs'
      <3> SUFFICES ASSUME NEW t \in Requests,
                          \A d \in Dims : \E e \in Completions :
                              comp'[e].sess = t /\ comp'[e].dim = d /\ Looked(e)'
                   PROVE  \/ synced'[t] > 0
                          \/ t \in syncFailed'
                          \/ \E e \in Completions :
                                comp'[e].sess = t /\ comp'[e].phase = "finalize"
        BY DEF FinalSyncs
      <3>1. \A d \in Dims : \E e \in Completions :
               comp[e].sess = t /\ comp[e].dim = d /\ Looked(e)
        BY <2>1, <2>2 DEF Others, Looked
      <3>2. CASE t = s
        BY <2>4, <3>2
      <3>3. CASE t # s
        <4>1. \/ synced[t] > 0 \/ t \in syncFailed
              \/ \E e \in Completions : comp[e].sess = t /\ comp[e].phase = "finalize"
          BY <3>1 DEF FinalSyncs
        <4>2. \A e \in Completions : comp[e].sess = t => comp'[e] = comp[e]
          BY <2>2, <2>s, <3>3 DEF Others
        <4> QED
          BY <2>4, <4>1, <4>2
      <3> QED
        BY <3>2, <3>3
    <2> QED
      BY <1>0, <2>1, <2>2, <2>3, <2>4, <2>5, <2>s, GenerateAssumption, OwnStep
  <1>7. CASE WriteCoverage(c)
    <2>1. /\ UNCHANGED <<req, lease, slot, sess, sub, ledger, synced, syncFailed>>
          /\ comp[c].phase = "cover"
      BY <1>7 DEF WriteCoverage
    <2>2. rounds' \in Seq(Round)
      BY <1>0, <1>7, RoundsTyped DEF WriteCoverage
    <2>3. PICK out \in {"ok", "failed"} : End(c, out)
      BY <1>7 DEF WriteCoverage
    <2>4. /\ Others(c) /\ comp'[c].phase = "done" /\ comp'[c].dim = comp[c].dim
          /\ comp'[c].sess = comp[c].sess
      BY <2>3, EndStep DEF CompletionOutcomes
    <2>5. Looked(c)
      BY <2>1 DEF Looked
    <2>6. FinalSyncs'
      BY <2>1, <2>4, <2>5, SyncsKept
    <2> QED
      BY <1>0, <2>1, <2>2, <2>4, <2>5, <2>6, LedgerKept, OwnStep DEF Bound, WorkPhases
  <1>8. CASE MarkDimension(c)
    <2>1. /\ UNCHANGED <<req, lease, slot, rounds, sub, ledger, synced, syncFailed>>
          /\ comp[c].phase = "bind"
          /\ sess' = [sess EXCEPT ![comp[c].sess].done = @ \cup {comp[c].dim}]
      BY <1>8 DEF MarkDimension
    <2> DEFINE s == comp[c].sess
               marked == [sess[s] EXCEPT !.done = @ \cup {comp[c].dim}]
    <2>2. /\ s \in Requests /\ comp[c].dim \in sess[s].evid /\ sess[s] \in Session
          /\ comp[c].dim \in Dims
      <3>1. s \in Requests /\ comp[c].dim \in sess[s].evid
        BY <1>0, <2>1 DEF Bound, Completion, WorkPhases
      <3> QED
        BY <3>1 DEF TypeOK, Session
    <2>3. /\ marked \in Session /\ marked.done = sess[s].done \cup {comp[c].dim}
          /\ marked.evid = sess[s].evid /\ marked.end = sess[s].end
          /\ marked.cert = sess[s].cert /\ marked.rejected = sess[s].rejected
      BY <2>2 DEF Session
    <2>4. /\ sess' \in [Requests -> Session] /\ sess'[s] = marked
          /\ \A t \in Requests : t # s => sess'[t] = sess[t]
      <3>1. sess' = [sess EXCEPT ![s] = marked]
        BY <2>1
      <3> HIDE DEF marked
      <3> QED
        BY <2>2, <2>3, <3>1 DEF TypeOK
    <2> HIDE DEF s, marked
    <2>5. /\ Others(c) /\ comp'[c].sess = comp[c].sess /\ comp'[c].dim = comp[c].dim
          /\ \/ comp'[c].phase = "persist" /\ comp'[c].out = comp[c].out
             \/ comp'[c].phase = "done" /\ comp'[c].out = "quality"
      BY <1>0, <1>8, GoStep, EndStep DEF MarkDimension, CompletionOutcomes, WorkPhases
    <2>6. \A t \in Requests : /\ sess'[t].end = sess[t].end /\ sess'[t].evid = sess[t].evid
                              /\ sess[t].done \subseteq sess'[t].done
      BY <2>3, <2>4
    <2>7. TypeOK' /\ LeaseWhileWorking' /\ OneLive'
      BY <2>1, <2>4, <2>5, <2>6 DEF TypeOK, Others, LeaseWhileWorking, Mutates, KeyOf, OneLive
    <2>8. sess[s].end # "unborn" /\ sess[s].end # "empty"
      BY <2>2 DEF Newborn, Unborn, ReleasedEmpty, IsEmpty
    <2>9. Newborn'
      BY <2>1, <2>4, <2>6, <2>8 DEF Newborn
    <2>10. ReleasedEmpty'
      <3> SUFFICES ASSUME NEW t \in Requests, sess'[t].end = "empty"
                   PROVE  /\ IsEmpty(t)' /\ ~sess'[t].cert
                          /\ \A e \in Completions : comp'[e].sess # t
        BY DEF ReleasedEmpty
      <3>1. t # s /\ sess'[t] = sess[t]
        BY <2>4, <2>6, <2>8
      <3> QED
        BY <2>5, <3>1 DEF ReleasedEmpty, IsEmpty, Others
    <2>11. MarkedWithEvidence'
      BY <2>2, <2>3, <2>4 DEF MarkedWithEvidence
    <2>12. Bound'
      <3> SUFFICES ASSUME NEW e \in Completions
                   PROVE  /\ comp'[e].phase \in {"idle", "resolve"}
                                => comp'[e].sess = None /\ comp'[e].out = "open"
                          /\ comp'[e].phase \in WorkPhases \/ Looked(e)' => comp'[e].sess # None
                          /\ comp'[e].sess # None => comp'[e].dim \in sess'[comp'[e].sess].evid
                          /\ comp'[e].phase = "persist" \/ Looked(e)'
                                => comp'[e].dim \in sess'[comp'[e].sess].done
        BY DEF Bound
      <3>1. CASE e = c
        BY <2>2, <2>3, <2>4, <2>5, <3>1, GenerateAssumption DEF s
      <3>2. CASE e # c
        <4>1. comp'[e] = comp[e] /\ comp[e].sess \in Requests \cup {None}
          BY <2>5, <3>2 DEF Others, TypeOK, Completion
        <4> QED
          BY <2>6, <4>1 DEF Bound, Looked, WorkPhases
      <3> QED
        BY <3>1, <3>2
    <2>13. Looked(c)' => Looked(c)
      BY <2>5 DEF Looked
    <2>14. FinalSyncs'
      BY <2>1, <2>5, <2>13, SyncsKept
    <2> QED
      BY <2>1, <2>7, <2>9, <2>10, <2>11, <2>12, <2>14, LedgerKept
  <1>9. CASE CompletionTerminal(c)
    <2>1. /\ UNCHANGED <<req, lease, sub, ledger, synced, syncFailed>>
          /\ comp[c].phase = "resolve" /\ slot # None /\ slot' = None
          /\ sess' = [sess EXCEPT ![slot].end = "over"]
          /\ End(c, "terminal") /\ CloseLatestRound
      BY <1>9 DEF CompletionTerminal
    <2>2. slot \in Requests
      BY <1>0, <2>1
    <2>3. SessionsStep /\ SessionsTyped /\ OneLive' /\ OnlyBorn(slot)
          /\ (sess'[slot].end = "unborn" <=> sess[slot].end = "unborn")
          /\ \A s \in Requests : sess'[s].end = "unborn" => sess'[s] = Unborn
      BY <2>1, <2>2, SessionDropped
    <2>4. /\ Others(c) /\ comp'[c].phase = "done" /\ comp'[c].out = "terminal"
          /\ comp'[c].sess = comp[c].sess /\ comp'[c].dim = comp[c].dim
          /\ comp[c].sess = None
      BY <2>1, EndStep DEF CompletionOutcomes, Bound
    <2>5. sess[slot] \in Session /\ sess[slot].end = "live"
      BY <2>2 DEF TypeOK, OneLive
    <2>6. \A s \in Requests : /\ sess'[s].evid = sess[s].evid /\ sess'[s].done = sess[s].done
                              /\ sess'[s] = sess[s] \/ sess'[s].end = "over"
      BY <2>1, <2>5 DEF TypeOK, Session
    <2>7. TypeOK'
      BY <1>0, <2>1, <2>3, <2>4, RoundsTyped DEF TypeOK, SessionsTyped, Others
    <2>8. LeaseWhileWorking' /\ Newborn'
      <3>1. \A s \in Requests : sess'[s].end = "unborn" <=> sess[s].end = "unborn"
        BY <2>2, <2>3 DEF OnlyBorn
      <3> QED
        BY <2>1, <2>3, <3>1 DEF LeaseWhileWorking, Mutates, KeyOf, Newborn
    <2>9. ReleasedEmpty'
      <3> SUFFICES ASSUME NEW t \in Requests, sess'[t].end = "empty"
                   PROVE  /\ IsEmpty(t)' /\ ~sess'[t].cert
                          /\ \A e \in Completions : comp'[e].sess # t
        BY DEF ReleasedEmpty
      <3>1. sess'[t] = sess[t]
        BY <2>6
      <3> QED
        BY <2>4, <3>1, GenerateAssumption DEF ReleasedEmpty, IsEmpty, Others
    <2>10. MarkedWithEvidence'
      BY <2>6 DEF MarkedWithEvidence
    <2>11. ~Looked(c)'
      BY <2>4 DEF Looked
    <2>12. Bound'
      <3> SUFFICES ASSUME NEW e \in Completions
                   PROVE  /\ comp'[e].phase \in {"idle", "resolve"}
                                => comp'[e].sess = None /\ comp'[e].out = "open"
                          /\ comp'[e].phase \in WorkPhases \/ Looked(e)' => comp'[e].sess # None
                          /\ comp'[e].sess # None => comp'[e].dim \in sess'[comp'[e].sess].evid
                          /\ comp'[e].phase = "persist" \/ Looked(e)'
                                => comp'[e].dim \in sess'[comp'[e].sess].done
        BY DEF Bound
      <3>1. CASE e = c
        BY <2>4, <2>11, <3>1 DEF WorkPhases
      <3>2. CASE e # c
        <4>1. comp'[e] = comp[e] /\ comp[e].sess \in Requests \cup {None}
          BY <2>4, <3>2 DEF Others, TypeOK, Completion
        <4> QED
          BY <2>6, <4>1 DEF Bound, Looked, WorkPhases
      <3> QED
        BY <3>1, <3>2
    <2>13. FinalSyncs'
      BY <2>1, <2>4, <2>11, SyncsKept
    <2> QED
      BY <2>1, <2>3, <2>7, <2>8, <2>9, <2>10, <2>12, <2>13, LedgerKept
  <1> QED
    BY <1>1, <1>2, <1>3, <1>4, <1>5, <1>6, <1>7, <1>8, <1>9 DEF CompletionStep

----------------------------------------------------------------------------
(* Theorems.                                                                *)

\* SessionInvariant holds in every state: one live session, sessions created once
\* and empty, completions that stay with the session they resolved.
THEOREM Invariance == Spec => []SessionInvariant
  <1>1. WorkInit => SessionInvariant
    <2> SUFFICES ASSUME WorkInit PROVE SessionInvariant
      OBVIOUS
    <2> USE DEF WorkInit, Init
    <2>1. Uncalled \in Request /\ Unborn \in Session
      BY GenerateAssumption DEF Uncalled, Unborn, Request, Session, Phases, Kinds, Ends
    <2>2. TypeOK
      <3>1. [phase |-> "idle", dims |-> {}] \in Submit
        BY DEF Submit
      <3>2. [phase |-> "idle", out |-> "open", dim |-> None, sess |-> None] \in Completion
        BY DEF Completion, CompletionOutcomes
      <3> QED
        BY <2>1, <3>1, <3>2 DEF TypeOK
    <2>3. LeaseWhileWorking
      BY GenerateAssumption DEF LeaseWhileWorking, Mutates, Uncalled
    <2>4. OneLive /\ Newborn /\ ReleasedEmpty /\ MarkedWithEvidence
      BY GenerateAssumption DEF OneLive, Newborn, ReleasedEmpty, MarkedWithEvidence,
         Uncalled, Unborn
    <2>5. Bound
      BY DEF Bound, Looked, WorkPhases
    <2>6. FinalSyncs
      <3>1. \A c \in Completions : ~Looked(c)
        BY DEF Looked
      <3> QED
        BY <3>1, GenerateAssumption DEF FinalSyncs
    <2>7. Ledgered /\ SyncedOnce
      BY WorkAssumption DEF Ledgered, SyncedOnce, HasSynced
    <2> QED
      BY <2>2, <2>3, <2>4, <2>5, <2>6, <2>7 DEF SessionInvariant
  <1>2. SessionInvariant /\ [Next]_vars => SessionInvariant'
    <2> SUFFICES ASSUME SessionInvariant, [Next]_vars PROVE SessionInvariant'
      OBVIOUS
    <2>1. CASE RequestNext
      <3>1. TypeOK /\ LeaseWhileWorking /\ OneLive /\ Newborn
        BY DEF SessionInvariant
      <3> QED
        BY <2>1, <3>1, RequestStepKept, ExpireKept, RequestsKeep DEF RequestNext
    <2>2. CASE SubmitNext
      BY <2>2, SubmitsKeep DEF SubmitNext
    <2>3. CASE CompletionNext
      BY <2>3, CompletionsKeep DEF CompletionNext
    <2>4. CASE UNCHANGED vars
      BY <2>4 DEF vars, SessionInvariant, TypeOK, LeaseWhileWorking, Mutates, KeyOf, OneLive,
         Newborn, ReleasedEmpty, IsEmpty, MarkedWithEvidence, Bound, Looked, FinalSyncs,
         Ledgered, HasSynced, SyncedOnce
    <2> QED
      BY <2>1, <2>2, <2>3, <2>4 DEF Next
  <1> QED
    BY <1>1, <1>2, PTL DEF Spec

\* A session released as an empty lease held no certified facts, no submission and
\* no completed dimension, and no completion ever works on it: releasing empty
\* sessions, however fresh, loses nobody's work.
THEOREM ReleasesLoseNothing == Spec => []ReleasedEmpty
  <1>1. SessionInvariant => ReleasedEmpty
    BY DEF SessionInvariant
  <1> QED
    BY <1>1, Invariance, PTL

\* The plan generation leases are held exactly by the calls that work on the
\* knowledge.
THEOREM LeasesExact == Spec => []LeaseWhileWorking
  <1>1. SessionInvariant => LeaseWhileWorking
    BY DEF SessionInvariant
  <1> QED
    BY <1>1, Invariance, PTL

\* Two generation calls with one lease key never work on the knowledge at once.
THEOREM KeysExclude == Spec => []OneOverKnowledge
  <1>1. SessionInvariant => OneOverKnowledge
    <2> SUFFICES ASSUME SessionInvariant, NEW p \in Requests, NEW q \in Requests,
                        Mutates(p), Mutates(q), KeyOf(p) = KeyOf(q)
                 PROVE  p = q
      BY DEF OneOverKnowledge
    <2>1. KeyOf(p) \in Keys
      BY KeyTyped DEF SessionInvariant
    <2> QED
      BY <2>1 DEF SessionInvariant, LeaseWhileWorking
  <1> QED
    BY <1>1, Invariance, PTL

\* A dimension is complete only in a session that tracked recipes of it.
THEOREM CompleteWithEvidence == Spec => []MarkedWithEvidence
  <1>1. SessionInvariant => MarkedWithEvidence
    BY DEF SessionInvariant
  <1> QED
    BY <1>1, Invariance, PTL

\* Once all dimensions of a session are through, the knowledge skills have been
\* refreshed, the refresh has failed, or a completion is about to refresh them.
THEOREM SomebodySyncs == Spec => []FinalSyncs
  <1>1. SessionInvariant => FinalSyncs
    BY DEF SessionInvariant
  <1> QED
    BY <1>1, Invariance, PTL

\* A session is synchronized twice only after the ledger has been full.
THEOREM SyncsOnce == Spec => []SyncedOnce
  <1>1. SessionInvariant => SyncedOnce
    BY DEF SessionInvariant
  <1> QED
    BY <1>1, Invariance, PTL
=============================================================================
