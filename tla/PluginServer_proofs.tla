----------------------- MODULE PluginServer_proofs -----------------------
(***************************************************************************)
(* Proofs about PluginServer, for any number of calls and projects, any    *)
(* overlap, any deadline and any failure; SerialInvariant and what follows *)
(* from it, for a host that sends one call at a time.                      *)
(***************************************************************************)
EXTENDS PluginServer, TLAPS

USE PluginServerAssumption

---------------------------------------------------------------------------
(* The inductive invariant. *)

\* A call that opened a server passed the gate; so did every project that
\* PathGuard, a workspace resolver or a connection names.
Gated ==
    /\ guardRoot \in known \cup {None}
    /\ \A c \in Calls :
          /\ call[c].phase \in Opening => call[c].project \in known
          /\ call[c].phase = "settings" => guardRoot \in known
          /\ call[c].phase = "connecting" => call[c].resolver \in known
          /\ call[c].phase = "handling" => call[c].server # None
          /\ conn[c].open => conn[c].project \in known

\* The shared server's call is past Share and its connection is open; a server
\* being closed is past Share too, and is no longer the shared one.
Sharing ==
    /\ shared # None =>
          /\ call[shared].phase \in {"handling", "ended"}
          /\ conn[shared].open
          /\ sharedKey = call[shared].project
    /\ \A c \in Calls :
          /\ call[c].phase \in {"migrating", "wiring", "filling"} => conn[c].open
          /\ call[c].phase = "closing" /\ call[c].old # None =>
                /\ call[c].old # shared
                /\ call[call[c].old].phase \in {"handling", "ended"}
                /\ call[call[c].old].project # call[c].project

ServerInvariant == TypeOK /\ Gated /\ Sharing

---------------------------------------------------------------------------
(* The helpers keep the types. *)

LEMMA MoveType ==
    ASSUME TypeOK, NEW c \in Calls, NEW p \in Phase, Move(c, p)
    PROVE  call' \in [Calls -> Call]
BY DEF TypeOK, Move, Call

\* Two fields of one call set at once.
LEMMA TwoFields ==
    ASSUME NEW x \in Call, NEW p \in Phase
    PROVE  /\ \A q \in Projects \cup {None} :
                 /\ [x EXCEPT !.phase = p, !.project = q] \in Call
                 /\ [x EXCEPT !.phase = p, !.resolver = q] \in Call
           /\ \A s \in Calls \cup {None} :
                 /\ [x EXCEPT !.phase = p, !.server = s] \in Call
                 /\ [x EXCEPT !.phase = p, !.old = s] \in Call
           /\ \A d \in Projects \cup {Home} :
                 [x EXCEPT !.phase = p, !.previousCwd = d] \in Call
BY DEF Call

LEMMA WorkFields ==
    ASSUME NEW x \in Call, NEW t \in SUBSET Projects, NEW b \in BOOLEAN
    PROVE  [x EXCEPT !.touched = t, !.broken = b] \in Call
BY DEF Call

LEMMA ReportType ==
    ASSUME TypeOK, NEW c \in Calls, NEW o \in {"result", "failed"}, Report(c, o)
    PROVE  answer' \in [Calls -> Answer]
BY DEF TypeOK, Report, Answer

LEMMA DropType ==
    ASSUME TypeOK, DropContainer
    PROVE  box' \in [Calls -> Box] /\ current' \in Calls \cup {None}
BY DEF TypeOK, DropContainer, Box, EmptyBox

LEMMA CloseType ==
    ASSUME TypeOK, NEW s \in Calls \cup {None}, CloseDatabase(s)
    PROVE  conn' \in [Calls -> Connection]
BY DEF TypeOK, CloseDatabase, Connection

LEMMA ContainerType ==
    ASSUME TypeOK, NEW c \in Calls
    PROVE  ContainerFor(c) \in Calls
BY DEF TypeOK, ContainerFor

---------------------------------------------------------------------------
(* Every step keeps the types. *)

LEMMA TypeInit == Init => TypeOK
BY DEF Init, TypeOK, Call, Phase, Answer, Box, Connection, EmptyBox, NoConnection

LEMMA TypeStep == TypeOK /\ Gated /\ [Next]_vars => TypeOK'
<1> SUFFICES ASSUME TypeOK, Gated, [Next]_vars
             PROVE  TypeOK'
    OBVIOUS
<1>1. ASSUME NEW p \in Projects, InitializeWorkspace(p)
      PROVE  TypeOK'
    BY <1>1 DEF InitializeWorkspace, TypeOK, globals
<1>2. ASSUME NEW c \in Calls, NEW p \in Projects, CallTool(c, p)
      PROVE  TypeOK'
    <2>1. call' \in [Calls -> Call]
        BY <1>2, TwoFields DEF CallTool, TypeOK, Phase
    <2> QED
        BY <1>2, <2>1 DEF CallTool, TypeOK, globals
<1>3. ASSUME NEW c \in Calls, Deadline(c) \/ CleanupAckElapsed(c)
      PROVE  TypeOK'
    BY <1>3 DEF Deadline, CleanupAckElapsed, TypeOK, Answer, globals
<1>4. ASSUME NEW c \in Calls, Refuse(c) \/ FinishHandler(c)
      PROVE  TypeOK'
    <2>1. call' \in [Calls -> Call]
        BY <1>4, MoveType DEF Refuse, FinishHandler, Phase
    <2>2. answer' \in [Calls -> Answer]
        BY <1>4, ReportType DEF Refuse, FinishHandler
    <2> QED
        BY <1>4, <2>1, <2>2 DEF Refuse, FinishHandler, TypeOK, globals
<1>5. ASSUME NEW c \in Calls, Reuse(c) \/ ResolveWorkspace(c)
      PROVE  TypeOK'
    <2>1. CASE Reuse(c)
        <3>1. shared \in Calls
            BY <2>1 DEF Reuse, TypeOK
        <3>2. call' \in [Calls -> Call]
            BY <2>1, <3>1, TwoFields DEF Reuse, TypeOK, Phase
        <3> QED
            BY <2>1, <3>2 DEF Reuse, TypeOK, globals
    <2>2. CASE ResolveWorkspace(c)
        <3>1. call' \in [Calls -> Call]
            BY <2>2, TwoFields DEF ResolveWorkspace, TypeOK, Phase, Opening
        <3> QED
            BY <2>2, <3>1 DEF ResolveWorkspace, TypeOK, globals
    <2> QED
        BY <1>5, <2>1, <2>2
<1>6. ASSUME NEW c \in Calls, Detach(c)
      PROVE  TypeOK'
    <2>1. call' \in [Calls -> Call]
        BY <1>6, TwoFields DEF Detach, TypeOK, Phase, Opening
    <2> QED
        BY <1>6, <2>1 DEF Detach, TypeOK
<1>7. ASSUME NEW c \in Calls, CloseOld(c)
      PROVE  TypeOK'
    <2>1. call[c].old \in Calls \cup {None}
        BY DEF TypeOK, Call
    <2>2. conn' \in [Calls -> Connection]
        BY <1>7, <2>1, CloseType DEF CloseOld
    <2>3. call' \in [Calls -> Call]
        BY <1>7, MoveType DEF CloseOld, Phase, Opening
    <2> QED
        BY <1>7, <2>2, <2>3 DEF CloseOld, TypeOK, globals
<1>8. ASSUME NEW c \in Calls, CloseOldFails(c)
      PROVE  TypeOK'
    <2>1. call' \in [Calls -> Call]
        BY <1>8, MoveType DEF CloseOldFails, Phase
    <2>2. answer' \in [Calls -> Answer]
        BY <1>8, ReportType DEF CloseOldFails
    <2> QED
        BY <1>8, <2>1, <2>2, DropType DEF CloseOldFails, TypeOK
<1>9. ASSUME NEW c \in Calls, ResetContainer(c)
      PROVE  TypeOK'
    <2>1. call' \in [Calls -> Call]
        BY <1>9, TwoFields DEF ResetContainer, TypeOK, Phase, Opening
    <2> QED
        BY <1>9, <2>1, DropType DEF ResetContainer, TypeOK
<1>10. ASSUME NEW c \in Calls, Configure(c)
       PROVE  TypeOK'
    <2>1. call' \in [Calls -> Call]
        BY <1>10, MoveType DEF Configure, Phase, Opening
    <2>2. call[c].project \in Projects
        BY <1>10 DEF Configure, InPhase, Gated, Opening, TypeOK
    <2> QED
        BY <1>10, <2>1, <2>2 DEF Configure, TypeOK
<1>11. ASSUME NEW c \in Calls, Connect(c) \/ Migrate(c)
       PROVE  TypeOK'
    <2>1. call' \in [Calls -> Call]
        BY <1>11, MoveType DEF Connect, Migrate, Phase, Opening
    <2>2. conn' \in [Calls -> Connection]
        <3>1. call[c].resolver \in Projects \cup {None}
            BY DEF TypeOK, Call
        <3>2. CASE Connect(c)
            <4>1. [project |-> call[c].resolver, open |-> TRUE, held |-> FALSE]
                     \in Connection
                BY <3>1 DEF Connection
            <4> QED
                BY <3>2, <4>1 DEF Connect, TypeOK
        <3>3. CASE Migrate(c)
            BY <3>3 DEF Migrate, TypeOK, Connection
        <3> QED
            BY <1>11, <3>2, <3>3
    <2> QED
        BY <1>11, <2>1, <2>2 DEF Connect, Migrate, TypeOK, globals
<1>12. ASSUME NEW c \in Calls, FillContainer(c)
       PROVE  TypeOK'
    <2>1. call' \in [Calls -> Call]
        BY <1>12, MoveType DEF FillContainer, Phase, Opening
    <2>2. ContainerFor(c) \in Calls
        BY ContainerType
    <2>3. box' \in [Calls -> Box]
        BY <1>12, <2>2 DEF FillContainer, TypeOK, Box, Call
    <2> QED
        BY <1>12, <2>1, <2>2, <2>3 DEF FillContainer, TypeOK
<1>13. ASSUME NEW c \in Calls, RefuseContainer(c)
       PROVE  TypeOK'
    <2>1. call' \in [Calls -> Call]
        BY <1>13, MoveType DEF RefuseContainer, Phase, Opening
    <2> QED
        BY <1>13, <2>1, ContainerType DEF RefuseContainer, TypeOK, globals
<1>14. ASSUME NEW c \in Calls, Share(c)
       PROVE  TypeOK'
    <2>1. call' \in [Calls -> Call]
        BY <1>14, TwoFields DEF Share, TypeOK, Phase
    <2> QED
        BY <1>14, <2>1 DEF Share, TypeOK, Call
<1>15. ASSUME NEW c \in Calls, InitializeFails(c)
       PROVE  TypeOK'
    <2>1. call' \in [Calls -> Call]
        BY <1>15, MoveType DEF InitializeFails, Phase, Opening
    <2> QED
        BY <1>15, <2>1 DEF InitializeFails, TypeOK, globals
<1>16. ASSUME NEW c \in Calls, CleanUp(c)
       PROVE  TypeOK'
    <2>1. call' \in [Calls -> Call]
        BY <1>16, MoveType DEF CleanUp, Phase
    <2>2. answer' \in [Calls -> Answer]
        BY <1>16, ReportType DEF CleanUp
    <2>3. conn' \in [Calls -> Connection]
        <3>1. CloseDatabase(c) \/ conn' = conn
            BY <1>16 DEF CleanUp
        <3> QED
            BY <3>1, CloseType DEF TypeOK
    <2>4. cwd' \in Projects \cup {Home}
        BY <1>16 DEF CleanUp, TypeOK, Call
    <2> QED
        BY <1>16, <2>1, <2>2, <2>3, <2>4, DropType DEF CleanUp, TypeOK
<1>17. ASSUME NEW c \in Calls, UseDatabase(c)
       PROVE  TypeOK'
    <2>1. ASSUME Usable(c)
          PROVE  conn[Database(c)].project \in Projects
        <3>1. call[c].server \in Calls
            BY <1>17 DEF UseDatabase, InPhase, TypeOK, Call, Gated
        <3>2. serverBox[call[c].server] \in Calls \cup {None}
            BY <3>1 DEF TypeOK
        <3>3. Database(c) \in Calls \cup {None}
            BY <3>2 DEF Database, TypeOK, Box
        <3> QED
            BY <2>1, <3>3 DEF Usable, TypeOK, Gated
    <2> DEFINE b == ~Usable(c)
               t == IF Usable(c) THEN call[c].touched \cup {conn[Database(c)].project}
                                 ELSE call[c].touched
    <2>2. t \in SUBSET Projects
        BY <2>1 DEF TypeOK, Call
    <2>3. b \in BOOLEAN
        OBVIOUS
    <2>4. call' = [call EXCEPT ![c] = [call[c] EXCEPT !.touched = t, !.broken = b]]
        BY <1>17 DEF UseDatabase, TypeOK, Call
    <2> HIDE DEF t, b
    <2>5. call' \in [Calls -> Call]
        BY <2>2, <2>3, <2>4, WorkFields DEF TypeOK
    <2> QED
        BY <1>17, <2>5 DEF UseDatabase, TypeOK, globals
<1>18. CASE UNCHANGED vars
    BY <1>18 DEF TypeOK, vars, globals
<1> QED
    BY <1>1, <1>2, <1>3, <1>4, <1>5, <1>6, <1>7, <1>8, <1>9, <1>10, <1>11,
       <1>12, <1>13, <1>14, <1>15, <1>16, <1>17, <1>18
    DEF Next, CallStep

---------------------------------------------------------------------------
(* Every step keeps Gated. *)

LEMMA GatedInit == Init => Gated
BY DEF Init, Gated, Opening, NoConnection

LEMMA GatedStep == TypeOK /\ Gated /\ Sharing /\ [Next]_vars => Gated'
<1> SUFFICES ASSUME TypeOK, Gated, Sharing, [Next]_vars
             PROVE  Gated'
    OBVIOUS
<1> USE DEF InPhase
<1>1. ASSUME NEW p \in Projects, InitializeWorkspace(p)
      PROVE  Gated'
    BY <1>1 DEF InitializeWorkspace, Gated, globals
<1>2. ASSUME NEW c \in Calls, NEW p \in Projects, CallTool(c, p)
      PROVE  Gated'
    BY <1>2 DEF CallTool, Gated, TypeOK, Call, Opening, globals
<1>3. ASSUME NEW c \in Calls, Deadline(c)
      PROVE  Gated'
    BY <1>3 DEF Deadline, Gated, TypeOK, Call, Connection, Opening, globals
<1>4. ASSUME NEW c \in Calls, CleanupAckElapsed(c)
      PROVE  Gated'
    BY <1>4 DEF CleanupAckElapsed, Gated, TypeOK, Call, Connection, Opening, globals
<1>5. ASSUME NEW c \in Calls, Refuse(c)
      PROVE  Gated'
    BY <1>5 DEF Refuse, Move, Gated, TypeOK, Call, Connection, Opening, globals
<1>6. ASSUME NEW c \in Calls, Reuse(c)
      PROVE  Gated'
    BY <1>6 DEF Reuse, Gated, TypeOK, Call, Connection, Opening, globals
<1>7. ASSUME NEW c \in Calls, Detach(c)
      PROVE  Gated'
    BY <1>7 DEF Detach, Gated, TypeOK, Call, Connection, Opening, globals
<1>8. ASSUME NEW c \in Calls, CloseOld(c)
      PROVE  Gated'
    BY <1>8 DEF CloseOld, CloseDatabase, Move, Gated, TypeOK, Call, Connection, Opening, globals
<1>9. ASSUME NEW c \in Calls, CloseOldFails(c)
      PROVE  Gated'
    BY <1>9 DEF CloseOldFails, Move, Gated, TypeOK, Call, Connection, Opening, globals
<1>10. ASSUME NEW c \in Calls, ResetContainer(c)
      PROVE  Gated'
    BY <1>10 DEF ResetContainer, Gated, TypeOK, Call, Connection, Opening, globals
<1>11. ASSUME NEW c \in Calls, Configure(c)
      PROVE  Gated'
    BY <1>11 DEF Configure, Move, Gated, TypeOK, Call, Connection, Opening, globals
<1>12. ASSUME NEW c \in Calls, ResolveWorkspace(c)
      PROVE  Gated'
    BY <1>12 DEF ResolveWorkspace, Gated, TypeOK, Call, Connection, Opening, globals
<1>13. ASSUME NEW c \in Calls, Connect(c)
      PROVE  Gated'
    BY <1>13 DEF Connect, Move, Gated, TypeOK, Call, Connection, Opening, globals
<1>14. ASSUME NEW c \in Calls, Migrate(c)
      PROVE  Gated'
    BY <1>14 DEF Migrate, Move, Gated, TypeOK, Call, Connection, Opening, globals
<1>15. ASSUME NEW c \in Calls, FillContainer(c)
      PROVE  Gated'
    BY <1>15 DEF FillContainer, Move, Gated, TypeOK, Call, Connection, Opening, globals
<1>16. ASSUME NEW c \in Calls, RefuseContainer(c)
      PROVE  Gated'
    BY <1>16 DEF RefuseContainer, Move, Gated, TypeOK, Call, Connection, Opening, globals
<1>17. ASSUME NEW c \in Calls, Share(c)
      PROVE  Gated'
    BY <1>17 DEF Share, Gated, TypeOK, Call, Connection, Opening, globals
<1>18. ASSUME NEW c \in Calls, InitializeFails(c)
      PROVE  Gated'
    BY <1>18 DEF InitializeFails, Move, Gated, TypeOK, Call, Connection, Opening, globals
<1>19. ASSUME NEW c \in Calls, CleanUp(c)
      PROVE  Gated'
    BY <1>19 DEF CleanUp, CloseDatabase, Move, Gated, TypeOK, Call, Connection, Opening, globals
<1>20. ASSUME NEW c \in Calls, UseDatabase(c)
      PROVE  Gated'
    BY <1>20 DEF UseDatabase, Gated, TypeOK, Call, Connection, Opening, globals
<1>21. ASSUME NEW c \in Calls, FinishHandler(c)
      PROVE  Gated'
    BY <1>21 DEF FinishHandler, Move, Gated, TypeOK, Call, Connection, Opening, globals
<1>22. CASE UNCHANGED vars
    BY <1>22 DEF Gated, vars, globals
<1> QED
    BY <1>1, <1>2, <1>3, <1>4, <1>5, <1>6, <1>7, <1>8, <1>9, <1>10, <1>11, <1>12, <1>13, <1>14, <1>15, <1>16, <1>17, <1>18, <1>19, <1>20, <1>21, <1>22
    DEF Next, CallStep


---------------------------------------------------------------------------
(* Every step keeps Sharing. *)

LEMMA SharingInit == Init => Sharing
BY DEF Init, Sharing, Opening, NoConnection

\* A call that is opening a server moves on: only its own connection may change.
LEMMA SharingMove ==
    ASSUME TypeOK, Sharing, NEW c \in Calls, NEW p \in Phase,
           call[c].phase \in Opening, p # "closing",
           \A d \in Calls : /\ call'[d].phase = IF d = c THEN p ELSE call[d].phase
                            /\ call'[d].old = call[d].old
                            /\ call'[d].project = call[d].project,
           shared' = shared, sharedKey' = sharedKey,
           \A d \in Calls : d # c => conn'[d] = conn[d],
           p \in {"migrating", "wiring", "filling"} => conn'[c].open
    PROVE  Sharing'
<1>1. \A d \in Calls : call[d].old \in Calls \cup {None}
    BY DEF TypeOK, Call
<1>2. shared # None => shared \in Calls /\ shared # c
    BY DEF Sharing, TypeOK, Opening
<1>3. call[c].phase \notin {"handling", "ended"}
    BY DEF Opening
<1> QED
    BY <1>1, <1>2, <1>3 DEF Sharing

LEMMA SharingStep == TypeOK /\ Gated /\ Sharing /\ [Next]_vars => Sharing'
<1> SUFFICES ASSUME TypeOK, Gated, Sharing, [Next]_vars
             PROVE  Sharing'
    OBVIOUS
<1> USE DEF InPhase
<1>1. ASSUME NEW p \in Projects, InitializeWorkspace(p)
      PROVE  Sharing'
    BY <1>1 DEF InitializeWorkspace, Sharing, globals
<1>2. ASSUME NEW c \in Calls, NEW p \in Projects, CallTool(c, p)
      PROVE  Sharing'
    BY <1>2 DEF CallTool, Sharing, TypeOK, Call, Opening, globals
<1>3. ASSUME NEW c \in Calls, Deadline(c)
      PROVE  Sharing'
    BY <1>3 DEF Deadline, Sharing, TypeOK, Call, Connection, Opening, globals
<1>4. ASSUME NEW c \in Calls, CleanupAckElapsed(c)
      PROVE  Sharing'
    BY <1>4 DEF CleanupAckElapsed, Sharing, TypeOK, Call, Connection, Opening, globals
<1>5. ASSUME NEW c \in Calls, Refuse(c)
      PROVE  Sharing'
    BY <1>5 DEF Refuse, Move, Sharing, TypeOK, Call, Connection, Opening, globals
<1>6. ASSUME NEW c \in Calls, Reuse(c)
      PROVE  Sharing'
    BY <1>6 DEF Reuse, Sharing, TypeOK, Call, Connection, Opening, globals
<1>7. ASSUME NEW c \in Calls, Detach(c)
      PROVE  Sharing'
    <2>1. \A d \in Calls : /\ call'[d].phase = IF d = c THEN "closing" ELSE call[d].phase
                           /\ call'[d].old = IF d = c THEN shared ELSE call[d].old
                           /\ call'[d].project = call[d].project
        BY <1>7 DEF Detach, TypeOK, Call
    <2>2. /\ call[c].phase = "entering" /\ conn' = conn
          /\ shared' = None
          /\ shared # None => sharedKey # call[c].project
        BY <1>7 DEF Detach
    <2>3. \A d \in Calls : call[d].old \in Calls \cup {None}
        BY DEF TypeOK, Call
    <2>4. shared \in Calls \cup {None}
        BY DEF TypeOK
    <2>5. ASSUME NEW d \in Calls, call'[d].phase = "closing", call'[d].old # None
          PROVE  /\ call'[d].old # shared'
                 /\ call'[call'[d].old].phase \in {"handling", "ended"}
                 /\ call'[call'[d].old].project # call'[d].project
        <3>1. CASE d = c
            BY <2>1, <2>2, <2>4, <2>5, <3>1 DEF Sharing
        <3>2. CASE d # c
            <4>1. call[d].phase = "closing" /\ call[d].old # None /\ call[d].old \in Calls
                BY <2>1, <2>3, <2>5, <3>2
            <4>2. /\ call[call[d].old].phase \in {"handling", "ended"}
                  /\ call[call[d].old].project # call[d].project
                BY <4>1 DEF Sharing
            <4>3. call[d].old # c
                BY <2>2, <4>2
            <4> QED
                BY <2>1, <2>2, <2>5, <3>2, <4>1, <4>2, <4>3
        <3> QED
            BY <3>1, <3>2
    <2> QED
        BY <2>1, <2>2, <2>5 DEF Sharing, Opening
<1>8. ASSUME NEW c \in Calls, CloseOld(c)
      PROVE  Sharing'
    BY <1>8 DEF CloseOld, CloseDatabase, Move, Sharing, TypeOK, Call, Connection, Opening, globals
<1>9. ASSUME NEW c \in Calls, CloseOldFails(c)
      PROVE  Sharing'
    <2>1. /\ call[c].phase \in Opening /\ "ended" \in Phase
          /\ \A d \in Calls : /\ call'[d].phase = IF d = c THEN "ended" ELSE call[d].phase
                              /\ call'[d].old = call[d].old
                              /\ call'[d].project = call[d].project
        BY <1>9 DEF CloseOldFails, Move, Opening, Phase, TypeOK, Call
    <2>2. shared' = shared /\ sharedKey' = sharedKey
        BY <1>9 DEF CloseOldFails, globals
    <2>3. \A d \in Calls : d # c => conn'[d] = conn[d]
        BY <1>9 DEF CloseOldFails, CloseDatabase, TypeOK
    <2> QED
        BY <2>1, <2>2, <2>3, SharingMove
<1>10. ASSUME NEW c \in Calls, ResetContainer(c)
      PROVE  Sharing'
    <2>1. /\ call[c].phase \in Opening /\ "loading" \in Phase
          /\ \A d \in Calls : /\ call'[d].phase = IF d = c THEN "loading" ELSE call[d].phase
                              /\ call'[d].old = call[d].old
                              /\ call'[d].project = call[d].project
        BY <1>10 DEF ResetContainer, Move, Opening, Phase, TypeOK, Call
    <2>2. shared' = shared /\ sharedKey' = sharedKey
        BY <1>10 DEF ResetContainer, globals
    <2>3. \A d \in Calls : d # c => conn'[d] = conn[d]
        BY <1>10 DEF ResetContainer, CloseDatabase, TypeOK
    <2> QED
        BY <2>1, <2>2, <2>3, SharingMove
<1>11. ASSUME NEW c \in Calls, Configure(c)
      PROVE  Sharing'
    <2>1. /\ call[c].phase \in Opening /\ "settings" \in Phase
          /\ \A d \in Calls : /\ call'[d].phase = IF d = c THEN "settings" ELSE call[d].phase
                              /\ call'[d].old = call[d].old
                              /\ call'[d].project = call[d].project
        BY <1>11 DEF Configure, Move, Opening, Phase, TypeOK, Call
    <2>2. shared' = shared /\ sharedKey' = sharedKey
        BY <1>11 DEF Configure, globals
    <2>3. \A d \in Calls : d # c => conn'[d] = conn[d]
        BY <1>11 DEF Configure, CloseDatabase, TypeOK
    <2> QED
        BY <2>1, <2>2, <2>3, SharingMove
<1>12. ASSUME NEW c \in Calls, ResolveWorkspace(c)
      PROVE  Sharing'
    <2>1. /\ call[c].phase \in Opening /\ "connecting" \in Phase
          /\ \A d \in Calls : /\ call'[d].phase = IF d = c THEN "connecting" ELSE call[d].phase
                              /\ call'[d].old = call[d].old
                              /\ call'[d].project = call[d].project
        BY <1>12 DEF ResolveWorkspace, Move, Opening, Phase, TypeOK, Call
    <2>2. shared' = shared /\ sharedKey' = sharedKey
        BY <1>12 DEF ResolveWorkspace, globals
    <2>3. \A d \in Calls : d # c => conn'[d] = conn[d]
        BY <1>12 DEF ResolveWorkspace, CloseDatabase, TypeOK
    <2> QED
        BY <2>1, <2>2, <2>3, SharingMove
<1>13. ASSUME NEW c \in Calls, Connect(c)
      PROVE  Sharing'
    <2>1. /\ call[c].phase \in Opening /\ "migrating" \in Phase
          /\ \A d \in Calls : /\ call'[d].phase = IF d = c THEN "migrating" ELSE call[d].phase
                              /\ call'[d].old = call[d].old
                              /\ call'[d].project = call[d].project
        BY <1>13 DEF Connect, Move, Opening, Phase, TypeOK, Call
    <2>2. shared' = shared /\ sharedKey' = sharedKey
        BY <1>13 DEF Connect, globals
    <2>3. \A d \in Calls : d # c => conn'[d] = conn[d]
        BY <1>13 DEF Connect, CloseDatabase, TypeOK
    <2>4. conn'[c].open
        BY <1>13 DEF Connect, Sharing, TypeOK, Connection
    <2> QED
        BY <2>1, <2>2, <2>3, <2>4, SharingMove
<1>14. ASSUME NEW c \in Calls, Migrate(c)
      PROVE  Sharing'
    <2>1. /\ call[c].phase \in Opening /\ "wiring" \in Phase
          /\ \A d \in Calls : /\ call'[d].phase = IF d = c THEN "wiring" ELSE call[d].phase
                              /\ call'[d].old = call[d].old
                              /\ call'[d].project = call[d].project
        BY <1>14 DEF Migrate, Move, Opening, Phase, TypeOK, Call
    <2>2. shared' = shared /\ sharedKey' = sharedKey
        BY <1>14 DEF Migrate, globals
    <2>3. \A d \in Calls : d # c => conn'[d] = conn[d]
        BY <1>14 DEF Migrate, CloseDatabase, TypeOK
    <2>4. conn'[c].open
        BY <1>14 DEF Migrate, Sharing, TypeOK, Connection
    <2> QED
        BY <2>1, <2>2, <2>3, <2>4, SharingMove
<1>15. ASSUME NEW c \in Calls, FillContainer(c)
      PROVE  Sharing'
    <2>1. /\ call[c].phase \in Opening /\ "filling" \in Phase
          /\ \A d \in Calls : /\ call'[d].phase = IF d = c THEN "filling" ELSE call[d].phase
                              /\ call'[d].old = call[d].old
                              /\ call'[d].project = call[d].project
        BY <1>15 DEF FillContainer, Move, Opening, Phase, TypeOK, Call
    <2>2. shared' = shared /\ sharedKey' = sharedKey
        BY <1>15 DEF FillContainer, globals
    <2>3. \A d \in Calls : d # c => conn'[d] = conn[d]
        BY <1>15 DEF FillContainer, CloseDatabase, TypeOK
    <2>4. conn'[c].open
        BY <1>15 DEF FillContainer, Sharing, TypeOK, Connection
    <2> QED
        BY <2>1, <2>2, <2>3, <2>4, SharingMove
<1>16. ASSUME NEW c \in Calls, RefuseContainer(c)
      PROVE  Sharing'
    <2>1. /\ call[c].phase \in Opening /\ "failing" \in Phase
          /\ \A d \in Calls : /\ call'[d].phase = IF d = c THEN "failing" ELSE call[d].phase
                              /\ call'[d].old = call[d].old
                              /\ call'[d].project = call[d].project
        BY <1>16 DEF RefuseContainer, Move, Opening, Phase, TypeOK, Call
    <2>2. shared' = shared /\ sharedKey' = sharedKey
        BY <1>16 DEF RefuseContainer, globals
    <2>3. \A d \in Calls : d # c => conn'[d] = conn[d]
        BY <1>16 DEF RefuseContainer, CloseDatabase, TypeOK
    <2> QED
        BY <2>1, <2>2, <2>3, SharingMove
<1>17. ASSUME NEW c \in Calls, Share(c)
      PROVE  Sharing'
    BY <1>17 DEF Share, Sharing, TypeOK, Call, Connection, Opening, globals
<1>18. ASSUME NEW c \in Calls, InitializeFails(c)
      PROVE  Sharing'
    <2>1. /\ call[c].phase \in Opening /\ "failing" \in Phase
          /\ \A d \in Calls : /\ call'[d].phase = IF d = c THEN "failing" ELSE call[d].phase
                              /\ call'[d].old = call[d].old
                              /\ call'[d].project = call[d].project
        BY <1>18 DEF InitializeFails, Move, Opening, Phase, TypeOK, Call
    <2>2. shared' = shared /\ sharedKey' = sharedKey
        BY <1>18 DEF InitializeFails, globals
    <2>3. \A d \in Calls : d # c => conn'[d] = conn[d]
        BY <1>18 DEF InitializeFails, CloseDatabase, TypeOK
    <2> QED
        BY <2>1, <2>2, <2>3, SharingMove
<1>19. ASSUME NEW c \in Calls, CleanUp(c)
      PROVE  Sharing'
    <2>1. /\ call[c].phase \in Opening /\ "ended" \in Phase
          /\ \A d \in Calls : /\ call'[d].phase = IF d = c THEN "ended" ELSE call[d].phase
                              /\ call'[d].old = call[d].old
                              /\ call'[d].project = call[d].project
        BY <1>19 DEF CleanUp, Move, Opening, Phase, TypeOK, Call
    <2>2. shared' = shared /\ sharedKey' = sharedKey
        BY <1>19 DEF CleanUp, globals
    <2>3. \A d \in Calls : d # c => conn'[d] = conn[d]
        BY <1>19 DEF CleanUp, CloseDatabase, TypeOK
    <2> QED
        BY <2>1, <2>2, <2>3, SharingMove
<1>20. ASSUME NEW c \in Calls, UseDatabase(c)
      PROVE  Sharing'
    BY <1>20 DEF UseDatabase, Sharing, TypeOK, Call, Connection, Opening, globals
<1>21. ASSUME NEW c \in Calls, FinishHandler(c)
      PROVE  Sharing'
    BY <1>21 DEF FinishHandler, Move, Sharing, TypeOK, Call, Connection, Opening, globals
<1>22. CASE UNCHANGED vars
    BY <1>22 DEF Sharing, vars, globals
<1> QED
    BY <1>1, <1>2, <1>3, <1>4, <1>5, <1>6, <1>7, <1>8, <1>9, <1>10, <1>11, <1>12, <1>13, <1>14, <1>15, <1>16, <1>17, <1>18, <1>19, <1>20, <1>21, <1>22
    DEF Next, CallStep


---------------------------------------------------------------------------
(* The theorems. *)

LEMMA InvariantStep == ServerInvariant /\ [Next]_vars => ServerInvariant'
BY TypeStep, GatedStep, SharingStep DEF ServerInvariant

\* Every call, whatever overlaps, times out or fails, preserves the gate and the
\* ownership of the shared server.
THEOREM ServerInvariance == Spec => []ServerInvariant
<1>1. Init => ServerInvariant
    BY TypeInit, GatedInit, SharingInit DEF ServerInvariant
<1> QED
    BY <1>1, InvariantStep, PTL DEF Spec

\* Type correctness.
THEOREM TypeCorrect == Spec => []TypeOK
<1>1. ServerInvariant => TypeOK
    BY DEF ServerInvariant
<1> QED
    BY <1>1, ServerInvariance, PTL

\* #getPluginOwnedMcpServer never hands out a server whose own connection was
\* closed, and the key is the project of the call that opened it.
THEOREM SharedStaysOpen == Spec => []SharedOpen
<1>1. ServerInvariant => SharedOpen
    BY DEF ServerInvariant, Sharing, SharedOpen
<1> QED
    BY <1>1, ServerInvariance, PTL

\* A step closes the database of server s only if s is half made, or is being
\* replaced by a call for another project.
LEMMA CloseStep ==
    ASSUME ServerInvariant, [Next]_vars, NEW s \in Calls,
           call[s].phase \in {"handling", "ended"}, conn[s].open, ~conn'[s].open
    PROVE  \E d \in Calls : /\ InPhase(d, "closing")
                            /\ call[d].old = s
                            /\ call[d].project # call[s].project
<1>1. ASSUME NEW d \in Calls, CloseOld(d)
      PROVE  /\ InPhase(d, "closing")
             /\ call[d].old = s
             /\ call[d].project # call[s].project
    <2>1. InPhase(d, "closing") /\ call[d].old = s
        BY <1>1 DEF CloseOld, CloseDatabase
    <2>2. s # None
        BY PluginServerAssumption
    <2> QED
        BY <2>1, <2>2 DEF InPhase, ServerInvariant, Sharing
<1>2. ASSUME NEW d \in Calls, CleanUp(d)
      PROVE  FALSE
    <2>1. call[d].phase = "failing"
        BY <1>2 DEF CleanUp, InPhase
    <2>2. d # s
        BY <2>1
    <2> QED
        BY <1>2, <2>2 DEF CleanUp, CloseDatabase
<1>3. ASSUME NEW d \in Calls, Connect(d) \/ Migrate(d)
      PROVE  FALSE
    BY <1>3 DEF Connect, Migrate, ServerInvariant, TypeOK, Connection
<1>4. CASE UNCHANGED conn
    BY <1>4
<1>5. \A d \in Calls : \/ Refuse(d) \/ Reuse(d) \/ Detach(d) \/ CloseOldFails(d)
                      \/ ResetContainer(d) \/ Configure(d) \/ ResolveWorkspace(d)
                      \/ FillContainer(d) \/ RefuseContainer(d) \/ Share(d)
                      \/ InitializeFails(d) \/ UseDatabase(d) \/ FinishHandler(d)
                      \/ Deadline(d) \/ CleanupAckElapsed(d)
         => UNCHANGED conn
    BY DEF Refuse, Reuse, Detach, CloseOldFails, ResetContainer, Configure,
           ResolveWorkspace, FillContainer, RefuseContainer, Share,
           InitializeFails, UseDatabase, FinishHandler, Deadline, CleanupAckElapsed
<1>6. (\E p \in Projects : InitializeWorkspace(p)) => UNCHANGED conn
    BY DEF InitializeWorkspace
<1>7. (\E d \in Calls, p \in Projects : CallTool(d, p)) => UNCHANGED conn
    BY DEF CallTool
<1>8. UNCHANGED vars => UNCHANGED conn
    BY DEF vars
<1> QED
    BY <1>1, <1>2, <1>3, <1>4, <1>5, <1>6, <1>7, <1>8 DEF Next, CallStep

\* A server that was handed out loses its database only to a call for another
\* project that replaces it, never to a call for its own project and never to
\* the clean-up of an initialization that failed beside it.
THEOREM HandlersKeepDatabase == Spec => ClosedByReplacement
<1>1. ServerInvariant /\ [Next]_vars => [\A s \in Calls :
          call[s].phase \in {"handling", "ended"} /\ conn[s].open /\ ~conn'[s].open =>
             \E d \in Calls : /\ InPhase(d, "closing")
                              /\ call[d].old = s
                              /\ call[d].project # call[s].project]_vars
    BY CloseStep
<1> QED
    BY <1>1, ServerInvariance, PTL DEF Spec, ClosedByReplacement

\* No database is opened in a project that has none, however calls interleave:
\* a mixed-up workspace is always that of another gated call.
THEOREM NoProjectTouched == Spec => []NoFootprint
<1>1. ServerInvariant => NoFootprint
    BY DEF ServerInvariant, Gated, NoFootprint
<1> QED
    BY <1>1, ServerInvariance, PTL

---------------------------------------------------------------------------
(* A host that sends one call at a time, to a process in which none outlives *)
(* its deadline.                                                             *)

Active(c) == call[c].phase \notin {"idle", "ended"}

\* The host waits: two calls are never under way together.
OneAtATime ==
    /\ \A c \in Calls : /\ answer[c] # "expired"
                        /\ Active(c) \/ call[c].phase = "idle" => answer[c] = "none"
    /\ \A c, d \in Calls : Active(c) /\ Active(d) => c = d

\* What the process looks like at each await of the one call under way.
Stage(c) ==
    LET at == call[c].phase
        p == call[c].project
    IN  /\ at \in Opening => shared = None
        /\ at \in {"closing", "resetting", "loading"} => cwd = Home
        /\ at \in Opening \ {"closing", "resetting"} => call[c].previousCwd = Home
        /\ at \in {"loading", "settings", "connecting", "migrating", "wiring"} => current = None
        /\ at \in Opening \ {"filling", "failing"} => box[c] = EmptyBox
        /\ at \in {"idle", "entering"} => box[c] = EmptyBox
        /\ at = "settings" => guardRoot = p
        /\ at = "connecting" => call[c].resolver = p
        /\ at = "migrating" => conn[c] = [project |-> p, open |-> TRUE, held |-> FALSE]
        /\ at = "wiring" => conn[c] = [project |-> p, open |-> TRUE, held |-> TRUE]
        /\ at = "filling" => Serves(c, p)
        /\ at = "handling" => shared # None /\ call[c].server = shared /\ sharedKey = p
        /\ call[c].touched \subseteq {p}
        /\ ~call[c].broken

SerialInvariant ==
    /\ OneAtATime
    /\ \A c \in Calls : Stage(c)
    /\ SharedUsable
    /\ CwdRestored
LEMMA SerialInit == Init => SerialInvariant
BY DEF Init, SerialInvariant, OneAtATime, Active, Stage, Opening, SharedUsable, CwdRestored, EmptyBox

LEMMA SerialStep ==
    ASSUME Overlap = FALSE, Deadlines = FALSE, TypeOK, SerialInvariant, [Next]_vars
    PROVE  SerialInvariant'
<1> USE DEF InPhase
<1>1. ASSUME NEW p \in Projects, InitializeWorkspace(p)
      PROVE  SerialInvariant'
    BY <1>1 DEF InitializeWorkspace, SerialInvariant, OneAtATime, Active, Stage, Opening,
                SharedUsable, Serves, CwdRestored, globals
<1>2. ASSUME NEW c \in Calls, Deadline(c)
      PROVE  SerialInvariant'
    BY <1>2 DEF Deadline
<1>3. ASSUME NEW c \in Calls, CleanupAckElapsed(c)
      PROVE  SerialInvariant'
    BY <1>3 DEF CleanupAckElapsed, SerialInvariant, OneAtATime
<1>4. ASSUME NEW c \in Calls, NEW p \in Projects, CallTool(c, p)
      PROVE  SerialInvariant'
    <2>1. OneAtATime'
        BY <1>4 DEF CallTool, Settled, SerialInvariant, OneAtATime, Active, TypeOK, Call, globals
    <2>2. \A d \in Calls : Stage(d)'
        BY <1>4 DEF CallTool, SerialInvariant, Stage, Opening, Serves, TypeOK, Call, globals
    <2>3. SharedUsable' /\ CwdRestored'
        BY <1>4 DEF CallTool, SerialInvariant, SharedUsable, Serves, CwdRestored, Opening, TypeOK, Call, globals
    <2> QED
        BY <2>1, <2>2, <2>3 DEF SerialInvariant
<1>5. ASSUME NEW c \in Calls, Refuse(c)
      PROVE  SerialInvariant'
    <2>1. OneAtATime'
        BY <1>5 DEF Refuse, Move, Report, SerialInvariant, OneAtATime, Active, Opening, TypeOK, Call, globals
    <2>2. Stage(c)'
        <3>1. /\ call'[c].phase = "ended"
              /\ call'[c].project = call[c].project
              /\ call'[c].previousCwd = call[c].previousCwd
              /\ call'[c].resolver = call[c].resolver
              /\ call'[c].server = call[c].server
              /\ call'[c].touched = call[c].touched
              /\ call'[c].broken = call[c].broken
            BY <1>5 DEF Refuse, Move, Report, TypeOK, Call
        <3>2. Stage(c) /\ SharedUsable /\ CwdRestored
            BY DEF SerialInvariant
        <3> QED
            BY <1>5, <3>1, <3>2 DEF Refuse, Move, Report, Stage, Opening, SharedUsable, Serves, EmptyBox, TypeOK, Box, Connection, globals
    <2>3. ASSUME NEW d \in Calls, d # c
          PROVE  Stage(d)'
        <3>1. d # c /\ call'[d] = call[d] /\ call[d].phase \in {"idle", "ended"} /\ Stage(d)
            BY <1>5, <2>3 DEF Refuse, Move, Report, SerialInvariant, OneAtATime, Active, Opening, TypeOK, Call
        <3>2. box'[d] \in {box[d], EmptyBox}
            BY <1>5, <2>3 DEF Refuse, Move, Report, SerialInvariant, OneAtATime, Active, Stage, Opening, TypeOK, Call, globals
        <3> QED
            BY <3>1, <3>2 DEF Stage, Opening
    <2>4. SharedUsable'
        BY <1>5 DEF Refuse, Move, Report, SerialInvariant, OneAtATime, Active, Stage, Opening, SharedUsable, Serves, TypeOK, Call, Box, Connection, globals
    <2>5. CwdRestored'
        BY <1>5 DEF Refuse, Move, Report, SerialInvariant, OneAtATime, Active, Stage, Opening, CwdRestored, TypeOK, Call, globals
    <2> QED
        BY <2>1, <2>2, <2>3, <2>4, <2>5 DEF SerialInvariant
<1>6. ASSUME NEW c \in Calls, Reuse(c)
      PROVE  SerialInvariant'
    <2>1. OneAtATime'
        BY <1>6 DEF Reuse, SerialInvariant, OneAtATime, Active, Opening, TypeOK, Call, globals
    <2>2. Stage(c)'
        <3>1. /\ call'[c].phase = "handling"
              /\ call'[c].project = call[c].project
              /\ call'[c].previousCwd = call[c].previousCwd
              /\ call'[c].resolver = call[c].resolver
              /\ call'[c].server = shared
              /\ call'[c].touched = call[c].touched
              /\ call'[c].broken = call[c].broken
            BY <1>6 DEF Reuse, TypeOK, Call
        <3>2. Stage(c) /\ SharedUsable /\ CwdRestored
            BY DEF SerialInvariant
        <3> QED
            BY <1>6, <3>1, <3>2 DEF Reuse, Stage, Opening, SharedUsable, Serves, EmptyBox, TypeOK, Box, Connection, globals
    <2>3. ASSUME NEW d \in Calls, d # c
          PROVE  Stage(d)'
        <3>1. d # c /\ call'[d] = call[d] /\ call[d].phase \in {"idle", "ended"} /\ Stage(d)
            BY <1>6, <2>3 DEF Reuse, SerialInvariant, OneAtATime, Active, Opening, TypeOK, Call
        <3>2. box'[d] \in {box[d], EmptyBox}
            BY <1>6, <2>3 DEF Reuse, SerialInvariant, OneAtATime, Active, Stage, Opening, TypeOK, Call, globals
        <3> QED
            BY <3>1, <3>2 DEF Stage, Opening
    <2>4. SharedUsable'
        BY <1>6 DEF Reuse, SerialInvariant, OneAtATime, Active, Stage, Opening, SharedUsable, Serves, TypeOK, Call, Box, Connection, globals
    <2>5. CwdRestored'
        BY <1>6 DEF Reuse, SerialInvariant, OneAtATime, Active, Stage, Opening, CwdRestored, TypeOK, Call, globals
    <2> QED
        BY <2>1, <2>2, <2>3, <2>4, <2>5 DEF SerialInvariant
<1>7. ASSUME NEW c \in Calls, Detach(c)
      PROVE  SerialInvariant'
    <2>1. OneAtATime'
        BY <1>7 DEF Detach, SerialInvariant, OneAtATime, Active, Opening, TypeOK, Call, globals
    <2>2. Stage(c)'
        <3>1. /\ call'[c].phase = "closing"
              /\ call'[c].project = call[c].project
              /\ call'[c].previousCwd = call[c].previousCwd
              /\ call'[c].resolver = call[c].resolver
              /\ call'[c].server = call[c].server
              /\ call'[c].touched = call[c].touched
              /\ call'[c].broken = call[c].broken
            BY <1>7 DEF Detach, TypeOK, Call
        <3>2. Stage(c) /\ SharedUsable /\ CwdRestored
            BY DEF SerialInvariant
        <3>3. cwd = Home
            BY <1>7 DEF Detach, SerialInvariant, OneAtATime, Active, Opening, CwdRestored
        <3> QED
            BY <1>7, <3>1, <3>2, <3>3 DEF Detach, Stage, Opening, SharedUsable, Serves, EmptyBox, TypeOK, Box, Connection, globals
    <2>3. ASSUME NEW d \in Calls, d # c
          PROVE  Stage(d)'
        <3>1. d # c /\ call'[d] = call[d] /\ call[d].phase \in {"idle", "ended"} /\ Stage(d)
            BY <1>7, <2>3 DEF Detach, SerialInvariant, OneAtATime, Active, Opening, TypeOK, Call
        <3>2. box'[d] \in {box[d], EmptyBox}
            BY <1>7, <2>3 DEF Detach, SerialInvariant, OneAtATime, Active, Stage, Opening, TypeOK, Call, globals
        <3> QED
            BY <3>1, <3>2 DEF Stage, Opening
    <2>4. SharedUsable'
        BY <1>7 DEF Detach, SerialInvariant, OneAtATime, Active, Stage, Opening, SharedUsable, Serves, TypeOK, Call, Box, Connection, globals
    <2>5. CwdRestored'
        BY <1>7 DEF Detach, SerialInvariant, OneAtATime, Active, Stage, Opening, CwdRestored, TypeOK, Call, globals
    <2> QED
        BY <2>1, <2>2, <2>3, <2>4, <2>5 DEF SerialInvariant
<1>8. ASSUME NEW c \in Calls, CloseOld(c)
      PROVE  SerialInvariant'
    <2>1. OneAtATime'
        BY <1>8 DEF CloseOld, CloseDatabase, Move, SerialInvariant, OneAtATime, Active, Opening, TypeOK, Call, globals
    <2>2. Stage(c)'
        <3>1. /\ call'[c].phase = "resetting"
              /\ call'[c].project = call[c].project
              /\ call'[c].previousCwd = call[c].previousCwd
              /\ call'[c].resolver = call[c].resolver
              /\ call'[c].server = call[c].server
              /\ call'[c].touched = call[c].touched
              /\ call'[c].broken = call[c].broken
            BY <1>8 DEF CloseOld, CloseDatabase, Move, TypeOK, Call
        <3>2. Stage(c) /\ SharedUsable /\ CwdRestored
            BY DEF SerialInvariant
        <3> QED
            BY <1>8, <3>1, <3>2 DEF CloseOld, CloseDatabase, Move, Stage, Opening, SharedUsable, Serves, EmptyBox, TypeOK, Box, Connection, globals
    <2>3. ASSUME NEW d \in Calls, d # c
          PROVE  Stage(d)'
        <3>1. d # c /\ call'[d] = call[d] /\ call[d].phase \in {"idle", "ended"} /\ Stage(d)
            BY <1>8, <2>3 DEF CloseOld, CloseDatabase, Move, SerialInvariant, OneAtATime, Active, Opening, TypeOK, Call
        <3>2. box'[d] \in {box[d], EmptyBox}
            BY <1>8, <2>3 DEF CloseOld, CloseDatabase, Move, SerialInvariant, OneAtATime, Active, Stage, Opening, TypeOK, Call, globals
        <3> QED
            BY <3>1, <3>2 DEF Stage, Opening
    <2>4. SharedUsable'
        BY <1>8 DEF CloseOld, CloseDatabase, Move, SerialInvariant, OneAtATime, Active, Stage, Opening, SharedUsable, Serves, TypeOK, Call, Box, Connection, globals
    <2>5. CwdRestored'
        BY <1>8 DEF CloseOld, CloseDatabase, Move, SerialInvariant, OneAtATime, Active, Stage, Opening, CwdRestored, TypeOK, Call, globals
    <2> QED
        BY <2>1, <2>2, <2>3, <2>4, <2>5 DEF SerialInvariant
<1>9. ASSUME NEW c \in Calls, CloseOldFails(c)
      PROVE  SerialInvariant'
    <2>1. OneAtATime'
        BY <1>9 DEF CloseOldFails, DropContainer, Move, Report, SerialInvariant, OneAtATime, Active, Opening, TypeOK, Call, globals
    <2>2. Stage(c)'
        <3>1. /\ call'[c].phase = "ended"
              /\ call'[c].project = call[c].project
              /\ call'[c].previousCwd = call[c].previousCwd
              /\ call'[c].resolver = call[c].resolver
              /\ call'[c].server = call[c].server
              /\ call'[c].touched = call[c].touched
              /\ call'[c].broken = call[c].broken
            BY <1>9 DEF CloseOldFails, DropContainer, Move, Report, TypeOK, Call
        <3>2. Stage(c) /\ SharedUsable /\ CwdRestored
            BY DEF SerialInvariant
        <3> QED
            BY <1>9, <3>1, <3>2 DEF CloseOldFails, DropContainer, Move, Report, Stage, Opening, SharedUsable, Serves, EmptyBox, TypeOK, Box, Connection, globals
    <2>3. ASSUME NEW d \in Calls, d # c
          PROVE  Stage(d)'
        <3>1. d # c /\ call'[d] = call[d] /\ call[d].phase \in {"idle", "ended"} /\ Stage(d)
            BY <1>9, <2>3 DEF CloseOldFails, DropContainer, Move, Report, SerialInvariant, OneAtATime, Active, Opening, TypeOK, Call
        <3>2. box'[d] \in {box[d], EmptyBox}
            BY <1>9, <2>3 DEF CloseOldFails, DropContainer, Move, Report, SerialInvariant, OneAtATime, Active, Stage, Opening, TypeOK, Call, globals
        <3> QED
            BY <3>1, <3>2 DEF Stage, Opening
    <2>4. SharedUsable'
        BY <1>9 DEF CloseOldFails, DropContainer, Move, Report, SerialInvariant, OneAtATime, Active, Stage, Opening, SharedUsable, Serves, TypeOK, Call, Box, Connection, globals
    <2>5. CwdRestored'
        BY <1>9 DEF CloseOldFails, DropContainer, Move, Report, SerialInvariant, OneAtATime, Active, Stage, Opening, CwdRestored, TypeOK, Call, globals
    <2> QED
        BY <2>1, <2>2, <2>3, <2>4, <2>5 DEF SerialInvariant
<1>10. ASSUME NEW c \in Calls, ResetContainer(c)
      PROVE  SerialInvariant'
    <2>1. OneAtATime'
        BY <1>10 DEF ResetContainer, DropContainer, SerialInvariant, OneAtATime, Active, Opening, TypeOK, Call, globals
    <2>2. Stage(c)'
        <3>1. /\ call'[c].phase = "loading"
              /\ call'[c].project = call[c].project
              /\ call'[c].previousCwd = cwd
              /\ call'[c].resolver = call[c].resolver
              /\ call'[c].server = call[c].server
              /\ call'[c].touched = call[c].touched
              /\ call'[c].broken = call[c].broken
            BY <1>10 DEF ResetContainer, DropContainer, TypeOK, Call
        <3>2. Stage(c) /\ SharedUsable /\ CwdRestored
            BY DEF SerialInvariant
        <3> QED
            BY <1>10, <3>1, <3>2 DEF ResetContainer, DropContainer, Stage, Opening, SharedUsable, Serves, EmptyBox, TypeOK, Box, Connection, globals
    <2>3. ASSUME NEW d \in Calls, d # c
          PROVE  Stage(d)'
        <3>1. d # c /\ call'[d] = call[d] /\ call[d].phase \in {"idle", "ended"} /\ Stage(d)
            BY <1>10, <2>3 DEF ResetContainer, DropContainer, SerialInvariant, OneAtATime, Active, Opening, TypeOK, Call
        <3>2. box'[d] \in {box[d], EmptyBox}
            BY <1>10, <2>3 DEF ResetContainer, DropContainer, SerialInvariant, OneAtATime, Active, Stage, Opening, TypeOK, Call, globals
        <3> QED
            BY <3>1, <3>2 DEF Stage, Opening
    <2>4. SharedUsable'
        BY <1>10 DEF ResetContainer, DropContainer, SerialInvariant, OneAtATime, Active, Stage, Opening, SharedUsable, Serves, TypeOK, Call, Box, Connection, globals
    <2>5. CwdRestored'
        BY <1>10 DEF ResetContainer, DropContainer, SerialInvariant, OneAtATime, Active, Stage, Opening, CwdRestored, TypeOK, Call, globals
    <2> QED
        BY <2>1, <2>2, <2>3, <2>4, <2>5 DEF SerialInvariant
<1>11. ASSUME NEW c \in Calls, Configure(c)
      PROVE  SerialInvariant'
    <2>1. OneAtATime'
        BY <1>11 DEF Configure, Move, SerialInvariant, OneAtATime, Active, Opening, TypeOK, Call, globals
    <2>2. Stage(c)'
        <3>1. /\ call'[c].phase = "settings"
              /\ call'[c].project = call[c].project
              /\ call'[c].previousCwd = call[c].previousCwd
              /\ call'[c].resolver = call[c].resolver
              /\ call'[c].server = call[c].server
              /\ call'[c].touched = call[c].touched
              /\ call'[c].broken = call[c].broken
            BY <1>11 DEF Configure, Move, TypeOK, Call
        <3>2. Stage(c) /\ SharedUsable /\ CwdRestored
            BY DEF SerialInvariant
        <3> QED
            BY <1>11, <3>1, <3>2 DEF Configure, Move, Stage, Opening, SharedUsable, Serves, EmptyBox, TypeOK, Box, Connection, globals
    <2>3. ASSUME NEW d \in Calls, d # c
          PROVE  Stage(d)'
        <3>1. d # c /\ call'[d] = call[d] /\ call[d].phase \in {"idle", "ended"} /\ Stage(d)
            BY <1>11, <2>3 DEF Configure, Move, SerialInvariant, OneAtATime, Active, Opening, TypeOK, Call
        <3>2. box'[d] \in {box[d], EmptyBox}
            BY <1>11, <2>3 DEF Configure, Move, SerialInvariant, OneAtATime, Active, Stage, Opening, TypeOK, Call, globals
        <3> QED
            BY <3>1, <3>2 DEF Stage, Opening
    <2>4. SharedUsable'
        BY <1>11 DEF Configure, Move, SerialInvariant, OneAtATime, Active, Stage, Opening, SharedUsable, Serves, TypeOK, Call, Box, Connection, globals
    <2>5. CwdRestored'
        BY <1>11 DEF Configure, Move, SerialInvariant, OneAtATime, Active, Stage, Opening, CwdRestored, TypeOK, Call, globals
    <2> QED
        BY <2>1, <2>2, <2>3, <2>4, <2>5 DEF SerialInvariant
<1>12. ASSUME NEW c \in Calls, ResolveWorkspace(c)
      PROVE  SerialInvariant'
    <2>1. OneAtATime'
        BY <1>12 DEF ResolveWorkspace, SerialInvariant, OneAtATime, Active, Opening, TypeOK, Call, globals
    <2>2. Stage(c)'
        <3>1. /\ call'[c].phase = "connecting"
              /\ call'[c].project = call[c].project
              /\ call'[c].previousCwd = call[c].previousCwd
              /\ call'[c].resolver = guardRoot
              /\ call'[c].server = call[c].server
              /\ call'[c].touched = call[c].touched
              /\ call'[c].broken = call[c].broken
            BY <1>12 DEF ResolveWorkspace, TypeOK, Call
        <3>2. Stage(c) /\ SharedUsable /\ CwdRestored
            BY DEF SerialInvariant
        <3> QED
            BY <1>12, <3>1, <3>2 DEF ResolveWorkspace, Stage, Opening, SharedUsable, Serves, EmptyBox, TypeOK, Box, Connection, globals
    <2>3. ASSUME NEW d \in Calls, d # c
          PROVE  Stage(d)'
        <3>1. d # c /\ call'[d] = call[d] /\ call[d].phase \in {"idle", "ended"} /\ Stage(d)
            BY <1>12, <2>3 DEF ResolveWorkspace, SerialInvariant, OneAtATime, Active, Opening, TypeOK, Call
        <3>2. box'[d] \in {box[d], EmptyBox}
            BY <1>12, <2>3 DEF ResolveWorkspace, SerialInvariant, OneAtATime, Active, Stage, Opening, TypeOK, Call, globals
        <3> QED
            BY <3>1, <3>2 DEF Stage, Opening
    <2>4. SharedUsable'
        BY <1>12 DEF ResolveWorkspace, SerialInvariant, OneAtATime, Active, Stage, Opening, SharedUsable, Serves, TypeOK, Call, Box, Connection, globals
    <2>5. CwdRestored'
        BY <1>12 DEF ResolveWorkspace, SerialInvariant, OneAtATime, Active, Stage, Opening, CwdRestored, TypeOK, Call, globals
    <2> QED
        BY <2>1, <2>2, <2>3, <2>4, <2>5 DEF SerialInvariant
<1>13. ASSUME NEW c \in Calls, Connect(c)
      PROVE  SerialInvariant'
    <2>1. OneAtATime'
        BY <1>13 DEF Connect, Move, SerialInvariant, OneAtATime, Active, Opening, TypeOK, Call, globals
    <2>2. Stage(c)'
        <3>1. /\ call'[c].phase = "migrating"
              /\ call'[c].project = call[c].project
              /\ call'[c].previousCwd = call[c].previousCwd
              /\ call'[c].resolver = call[c].resolver
              /\ call'[c].server = call[c].server
              /\ call'[c].touched = call[c].touched
              /\ call'[c].broken = call[c].broken
            BY <1>13 DEF Connect, Move, TypeOK, Call
        <3>2. Stage(c) /\ SharedUsable /\ CwdRestored
            BY DEF SerialInvariant
        <3> QED
            BY <1>13, <3>1, <3>2 DEF Connect, Move, Stage, Opening, SharedUsable, Serves, EmptyBox, TypeOK, Box, Connection, globals
    <2>3. ASSUME NEW d \in Calls, d # c
          PROVE  Stage(d)'
        <3>1. d # c /\ call'[d] = call[d] /\ call[d].phase \in {"idle", "ended"} /\ Stage(d)
            BY <1>13, <2>3 DEF Connect, Move, SerialInvariant, OneAtATime, Active, Opening, TypeOK, Call
        <3>2. box'[d] \in {box[d], EmptyBox}
            BY <1>13, <2>3 DEF Connect, Move, SerialInvariant, OneAtATime, Active, Stage, Opening, TypeOK, Call, globals
        <3> QED
            BY <3>1, <3>2 DEF Stage, Opening
    <2>4. SharedUsable'
        BY <1>13 DEF Connect, Move, SerialInvariant, OneAtATime, Active, Stage, Opening, SharedUsable, Serves, TypeOK, Call, Box, Connection, globals
    <2>5. CwdRestored'
        BY <1>13 DEF Connect, Move, SerialInvariant, OneAtATime, Active, Stage, Opening, CwdRestored, TypeOK, Call, globals
    <2> QED
        BY <2>1, <2>2, <2>3, <2>4, <2>5 DEF SerialInvariant
<1>14. ASSUME NEW c \in Calls, Migrate(c)
      PROVE  SerialInvariant'
    <2>1. OneAtATime'
        BY <1>14 DEF Migrate, Move, SerialInvariant, OneAtATime, Active, Opening, TypeOK, Call, globals
    <2>2. Stage(c)'
        <3>1. /\ call'[c].phase = "wiring"
              /\ call'[c].project = call[c].project
              /\ call'[c].previousCwd = call[c].previousCwd
              /\ call'[c].resolver = call[c].resolver
              /\ call'[c].server = call[c].server
              /\ call'[c].touched = call[c].touched
              /\ call'[c].broken = call[c].broken
            BY <1>14 DEF Migrate, Move, TypeOK, Call
        <3>2. Stage(c) /\ SharedUsable /\ CwdRestored
            BY DEF SerialInvariant
        <3>3. conn[c] = [project |-> call[c].project, open |-> TRUE, held |-> FALSE]
            BY <1>14, <3>2 DEF Migrate, Stage
        <3>4. conn'[c] = [project |-> call[c].project, open |-> TRUE, held |-> TRUE]
            <4>1. conn'[c] = [conn[c] EXCEPT !.held = TRUE]
                BY <1>14 DEF Migrate, TypeOK
            <4>2. conn[c] \in Connection /\ conn'[c] \in Connection
                BY <4>1 DEF TypeOK, Connection
            <4>3. /\ conn'[c].project = call[c].project
                  /\ conn'[c].open = TRUE /\ conn'[c].held = TRUE
                BY <3>3, <4>1, <4>2 DEF Connection
            <4> QED
                BY <4>2, <4>3 DEF Connection
        <3>5. UNCHANGED <<globals, box, serverBox>>
            BY <1>14 DEF Migrate
        <3>6. call[c].phase = "migrating"
            BY <1>14 DEF Migrate
        <3> QED
            BY <3>1, <3>2, <3>4, <3>5, <3>6 DEF Migrate, Move, Stage, Opening, SharedUsable, Serves, EmptyBox, TypeOK, Box, Connection, globals
    <2>3. ASSUME NEW d \in Calls, d # c
          PROVE  Stage(d)'
        <3>1. d # c /\ call'[d] = call[d] /\ call[d].phase \in {"idle", "ended"} /\ Stage(d)
            BY <1>14, <2>3 DEF Migrate, Move, SerialInvariant, OneAtATime, Active, Opening, TypeOK, Call
        <3>2. box'[d] \in {box[d], EmptyBox}
            BY <1>14, <2>3 DEF Migrate, Move, SerialInvariant, OneAtATime, Active, Stage, Opening, TypeOK, Call, globals
        <3> QED
            BY <3>1, <3>2 DEF Stage, Opening
    <2>4. SharedUsable'
        BY <1>14 DEF Migrate, Move, SerialInvariant, OneAtATime, Active, Stage, Opening, SharedUsable, Serves, TypeOK, Call, Box, Connection, globals
    <2>5. CwdRestored'
        BY <1>14 DEF Migrate, Move, SerialInvariant, OneAtATime, Active, Stage, Opening, CwdRestored, TypeOK, Call, globals
    <2> QED
        BY <2>1, <2>2, <2>3, <2>4, <2>5 DEF SerialInvariant
<1>15. ASSUME NEW c \in Calls, FillContainer(c)
      PROVE  SerialInvariant'
    <2>1. OneAtATime'
        BY <1>15 DEF FillContainer, ContainerFor, Move, SerialInvariant, OneAtATime, Active, Opening, TypeOK, Call, globals
    <2>2. Stage(c)'
        <3>1. /\ call'[c].phase = "filling"
              /\ call'[c].project = call[c].project
              /\ call'[c].previousCwd = call[c].previousCwd
              /\ call'[c].resolver = call[c].resolver
              /\ call'[c].server = call[c].server
              /\ call'[c].touched = call[c].touched
              /\ call'[c].broken = call[c].broken
            BY <1>15 DEF FillContainer, ContainerFor, Move, TypeOK, Call
        <3>2. Stage(c) /\ SharedUsable /\ CwdRestored
            BY DEF SerialInvariant
        <3> QED
            BY <1>15, <3>1, <3>2 DEF FillContainer, ContainerFor, Move, Stage, Opening, SharedUsable, Serves, EmptyBox, TypeOK, Box, Connection, globals
    <2>3. ASSUME NEW d \in Calls, d # c
          PROVE  Stage(d)'
        <3>1. d # c /\ call'[d] = call[d] /\ call[d].phase \in {"idle", "ended"} /\ Stage(d)
            BY <1>15, <2>3 DEF FillContainer, ContainerFor, Move, SerialInvariant, OneAtATime, Active, Opening, TypeOK, Call
        <3>2. box'[d] \in {box[d], EmptyBox}
            BY <1>15, <2>3 DEF FillContainer, ContainerFor, Move, SerialInvariant, OneAtATime, Active, Stage, Opening, TypeOK, Call, globals
        <3> QED
            BY <3>1, <3>2 DEF Stage, Opening
    <2>4. SharedUsable'
        BY <1>15 DEF FillContainer, ContainerFor, Move, SerialInvariant, OneAtATime, Active, Stage, Opening, SharedUsable, Serves, TypeOK, Call, Box, Connection, globals
    <2>5. CwdRestored'
        BY <1>15 DEF FillContainer, ContainerFor, Move, SerialInvariant, OneAtATime, Active, Stage, Opening, CwdRestored, TypeOK, Call, globals
    <2> QED
        BY <2>1, <2>2, <2>3, <2>4, <2>5 DEF SerialInvariant
<1>16. ASSUME NEW c \in Calls, RefuseContainer(c)
      PROVE  SerialInvariant'
    <2>1. OneAtATime'
        BY <1>16 DEF RefuseContainer, ContainerFor, Move, SerialInvariant, OneAtATime, Active, Opening, TypeOK, Call, globals
    <2>2. Stage(c)'
        <3>1. /\ call'[c].phase = "failing"
              /\ call'[c].project = call[c].project
              /\ call'[c].previousCwd = call[c].previousCwd
              /\ call'[c].resolver = call[c].resolver
              /\ call'[c].server = call[c].server
              /\ call'[c].touched = call[c].touched
              /\ call'[c].broken = call[c].broken
            BY <1>16 DEF RefuseContainer, ContainerFor, Move, TypeOK, Call
        <3>2. Stage(c) /\ SharedUsable /\ CwdRestored
            BY DEF SerialInvariant
        <3> QED
            BY <1>16, <3>1, <3>2 DEF RefuseContainer, ContainerFor, Move, Stage, Opening, SharedUsable, Serves, EmptyBox, TypeOK, Box, Connection, globals
    <2>3. ASSUME NEW d \in Calls, d # c
          PROVE  Stage(d)'
        <3>1. d # c /\ call'[d] = call[d] /\ call[d].phase \in {"idle", "ended"} /\ Stage(d)
            BY <1>16, <2>3 DEF RefuseContainer, ContainerFor, Move, SerialInvariant, OneAtATime, Active, Opening, TypeOK, Call
        <3>2. box'[d] \in {box[d], EmptyBox}
            BY <1>16, <2>3 DEF RefuseContainer, ContainerFor, Move, SerialInvariant, OneAtATime, Active, Stage, Opening, TypeOK, Call, globals
        <3> QED
            BY <3>1, <3>2 DEF Stage, Opening
    <2>4. SharedUsable'
        BY <1>16 DEF RefuseContainer, ContainerFor, Move, SerialInvariant, OneAtATime, Active, Stage, Opening, SharedUsable, Serves, TypeOK, Call, Box, Connection, globals
    <2>5. CwdRestored'
        BY <1>16 DEF RefuseContainer, ContainerFor, Move, SerialInvariant, OneAtATime, Active, Stage, Opening, CwdRestored, TypeOK, Call, globals
    <2> QED
        BY <2>1, <2>2, <2>3, <2>4, <2>5 DEF SerialInvariant
<1>17. ASSUME NEW c \in Calls, Share(c)
      PROVE  SerialInvariant'
    <2>1. OneAtATime'
        BY <1>17 DEF Share, SerialInvariant, OneAtATime, Active, Opening, TypeOK, Call, globals
    <2>2. Stage(c)'
        <3>1. /\ call'[c].phase = "handling"
              /\ call'[c].project = call[c].project
              /\ call'[c].previousCwd = call[c].previousCwd
              /\ call'[c].resolver = call[c].resolver
              /\ call'[c].server = c
              /\ call'[c].touched = call[c].touched
              /\ call'[c].broken = call[c].broken
            BY <1>17 DEF Share, TypeOK, Call
        <3>2. Stage(c) /\ SharedUsable /\ CwdRestored
            BY DEF SerialInvariant
        <3> QED
            BY <1>17, <3>1, <3>2 DEF Share, Stage, Opening, SharedUsable, Serves, EmptyBox, TypeOK, Box, Connection, globals
    <2>3. ASSUME NEW d \in Calls, d # c
          PROVE  Stage(d)'
        <3>1. d # c /\ call'[d] = call[d] /\ call[d].phase \in {"idle", "ended"} /\ Stage(d)
            BY <1>17, <2>3 DEF Share, SerialInvariant, OneAtATime, Active, Opening, TypeOK, Call
        <3>2. box'[d] \in {box[d], EmptyBox}
            BY <1>17, <2>3 DEF Share, SerialInvariant, OneAtATime, Active, Stage, Opening, TypeOK, Call, globals
        <3> QED
            BY <3>1, <3>2 DEF Stage, Opening
    <2>4. SharedUsable'
        BY <1>17 DEF Share, SerialInvariant, OneAtATime, Active, Stage, Opening, SharedUsable, Serves, TypeOK, Call, Box, Connection, globals
    <2>5. CwdRestored'
        BY <1>17 DEF Share, SerialInvariant, OneAtATime, Active, Stage, Opening, CwdRestored, TypeOK, Call, globals
    <2> QED
        BY <2>1, <2>2, <2>3, <2>4, <2>5 DEF SerialInvariant
<1>18. ASSUME NEW c \in Calls, InitializeFails(c)
      PROVE  SerialInvariant'
    <2>1. OneAtATime'
        BY <1>18 DEF InitializeFails, Move, SerialInvariant, OneAtATime, Active, Opening, TypeOK, Call, globals
    <2>2. Stage(c)'
        <3>1. /\ call'[c].phase = "failing"
              /\ call'[c].project = call[c].project
              /\ call'[c].previousCwd = call[c].previousCwd
              /\ call'[c].resolver = call[c].resolver
              /\ call'[c].server = call[c].server
              /\ call'[c].touched = call[c].touched
              /\ call'[c].broken = call[c].broken
            BY <1>18 DEF InitializeFails, Move, TypeOK, Call
        <3>2. Stage(c) /\ SharedUsable /\ CwdRestored
            BY DEF SerialInvariant
        <3> QED
            BY <1>18, <3>1, <3>2 DEF InitializeFails, Move, Stage, Opening, SharedUsable, Serves, EmptyBox, TypeOK, Box, Connection, globals
    <2>3. ASSUME NEW d \in Calls, d # c
          PROVE  Stage(d)'
        <3>1. d # c /\ call'[d] = call[d] /\ call[d].phase \in {"idle", "ended"} /\ Stage(d)
            BY <1>18, <2>3 DEF InitializeFails, Move, SerialInvariant, OneAtATime, Active, Opening, TypeOK, Call
        <3>2. box'[d] \in {box[d], EmptyBox}
            BY <1>18, <2>3 DEF InitializeFails, Move, SerialInvariant, OneAtATime, Active, Stage, Opening, TypeOK, Call, globals
        <3> QED
            BY <3>1, <3>2 DEF Stage, Opening
    <2>4. SharedUsable'
        BY <1>18 DEF InitializeFails, Move, SerialInvariant, OneAtATime, Active, Stage, Opening, SharedUsable, Serves, TypeOK, Call, Box, Connection, globals
    <2>5. CwdRestored'
        BY <1>18 DEF InitializeFails, Move, SerialInvariant, OneAtATime, Active, Stage, Opening, CwdRestored, TypeOK, Call, globals
    <2> QED
        BY <2>1, <2>2, <2>3, <2>4, <2>5 DEF SerialInvariant
<1>19. ASSUME NEW c \in Calls, CleanUp(c)
      PROVE  SerialInvariant'
    <2>1. OneAtATime'
        BY <1>19 DEF CleanUp, CloseDatabase, DropContainer, Move, Report, SerialInvariant, OneAtATime, Active, Opening, TypeOK, Call, globals
    <2>2. Stage(c)'
        <3>1. /\ call'[c].phase = "ended"
              /\ call'[c].project = call[c].project
              /\ call'[c].previousCwd = call[c].previousCwd
              /\ call'[c].resolver = call[c].resolver
              /\ call'[c].server = call[c].server
              /\ call'[c].touched = call[c].touched
              /\ call'[c].broken = call[c].broken
            BY <1>19 DEF CleanUp, CloseDatabase, DropContainer, Move, Report, TypeOK, Call
        <3>2. Stage(c) /\ SharedUsable /\ CwdRestored
            BY DEF SerialInvariant
        <3> QED
            BY <1>19, <3>1, <3>2 DEF CleanUp, CloseDatabase, DropContainer, Move, Report, Stage, Opening, SharedUsable, Serves, EmptyBox, TypeOK, Box, Connection, globals
    <2>3. ASSUME NEW d \in Calls, d # c
          PROVE  Stage(d)'
        <3>1. d # c /\ call'[d] = call[d] /\ call[d].phase \in {"idle", "ended"} /\ Stage(d)
            BY <1>19, <2>3 DEF CleanUp, CloseDatabase, DropContainer, Move, Report, SerialInvariant, OneAtATime, Active, Opening, TypeOK, Call
        <3>2. box'[d] \in {box[d], EmptyBox}
            BY <1>19, <2>3 DEF CleanUp, CloseDatabase, DropContainer, Move, Report, SerialInvariant, OneAtATime, Active, Stage, Opening, TypeOK, Call, globals
        <3> QED
            BY <3>1, <3>2 DEF Stage, Opening
    <2>4. SharedUsable'
        BY <1>19 DEF CleanUp, CloseDatabase, DropContainer, Move, Report, SerialInvariant, OneAtATime, Active, Stage, Opening, SharedUsable, Serves, TypeOK, Call, Box, Connection, globals
    <2>5. CwdRestored'
        BY <1>19 DEF CleanUp, CloseDatabase, DropContainer, Move, Report, SerialInvariant, OneAtATime, Active, Stage, Opening, CwdRestored, TypeOK, Call, globals
    <2> QED
        BY <2>1, <2>2, <2>3, <2>4, <2>5 DEF SerialInvariant
<1>20. ASSUME NEW c \in Calls, UseDatabase(c)
      PROVE  SerialInvariant'
    <2>1. OneAtATime'
        BY <1>20 DEF UseDatabase, Usable, Database, SerialInvariant, OneAtATime, Active, Opening, TypeOK, Call, globals
    <2>2. Stage(c)'
        <3>1. call[c].phase = "handling" /\ Stage(c)
            BY <1>20 DEF UseDatabase, SerialInvariant
        <3>2. /\ shared \in Calls /\ call[c].server = shared
              /\ sharedKey = call[c].project /\ Serves(shared, sharedKey)
            BY <3>1 DEF Stage, SerialInvariant, SharedUsable, TypeOK
        <3>3. Database(c) = shared
            BY <3>2 DEF Database, Serves
        <3>4. Usable(c) /\ conn[Database(c)].project = call[c].project
            BY <3>2, <3>3 DEF Usable, Serves, TypeOK
        <3>5. call' = [call EXCEPT ![c].touched = @ \cup {call[c].project},
                                   ![c].broken = FALSE]
            BY <1>20, <3>4 DEF UseDatabase
        <3> DEFINE x == call[c]
                   y == [x EXCEPT !.touched = x.touched \cup {x.project}, !.broken = FALSE]
        <3>6. x \in Call
            BY DEF TypeOK
        <3>7. call'[c] = y
            BY <3>5, <3>6 DEF TypeOK
        <3>8. /\ y.phase = x.phase /\ y.project = x.project /\ y.server = x.server
              /\ y.touched = x.touched \cup {x.project} /\ y.broken = FALSE
            BY <3>6 DEF Call
        <3>9. UNCHANGED <<globals, box, conn, serverBox>>
            BY <1>20 DEF UseDatabase
        <3> HIDE DEF y
        <3> QED
            BY <3>1, <3>2, <3>7, <3>8, <3>9 DEF Stage, Opening, globals
    <2>3. ASSUME NEW d \in Calls, d # c
          PROVE  Stage(d)'
        <3>1. d # c /\ call'[d] = call[d] /\ call[d].phase \in {"idle", "ended"} /\ Stage(d)
            BY <1>20, <2>3 DEF UseDatabase, Usable, Database, SerialInvariant, OneAtATime, Active, Opening, TypeOK, Call
        <3>2. box'[d] \in {box[d], EmptyBox}
            BY <1>20, <2>3 DEF UseDatabase, Usable, Database, SerialInvariant, OneAtATime, Active, Stage, Opening, TypeOK, Call, globals
        <3> QED
            BY <3>1, <3>2 DEF Stage, Opening
    <2>4. SharedUsable'
        BY <1>20 DEF UseDatabase, Usable, Database, SerialInvariant, OneAtATime, Active, Stage, Opening, SharedUsable, Serves, TypeOK, Call, Box, Connection, globals
    <2>5. CwdRestored'
        BY <1>20 DEF UseDatabase, Usable, Database, SerialInvariant, OneAtATime, Active, Stage, Opening, CwdRestored, TypeOK, Call, globals
    <2> QED
        BY <2>1, <2>2, <2>3, <2>4, <2>5 DEF SerialInvariant
<1>21. ASSUME NEW c \in Calls, FinishHandler(c)
      PROVE  SerialInvariant'
    <2>1. OneAtATime'
        BY <1>21 DEF FinishHandler, Move, Report, SerialInvariant, OneAtATime, Active, Opening, TypeOK, Call, globals
    <2>2. Stage(c)'
        <3>1. /\ call'[c].phase = "ended"
              /\ call'[c].project = call[c].project
              /\ call'[c].previousCwd = call[c].previousCwd
              /\ call'[c].resolver = call[c].resolver
              /\ call'[c].server = call[c].server
              /\ call'[c].touched = call[c].touched
              /\ call'[c].broken = call[c].broken
            BY <1>21 DEF FinishHandler, Move, Report, TypeOK, Call
        <3>2. Stage(c) /\ SharedUsable /\ CwdRestored
            BY DEF SerialInvariant
        <3> QED
            BY <1>21, <3>1, <3>2 DEF FinishHandler, Move, Report, Stage, Opening, SharedUsable, Serves, EmptyBox, TypeOK, Box, Connection, globals
    <2>3. ASSUME NEW d \in Calls, d # c
          PROVE  Stage(d)'
        <3>1. d # c /\ call'[d] = call[d] /\ call[d].phase \in {"idle", "ended"} /\ Stage(d)
            BY <1>21, <2>3 DEF FinishHandler, Move, Report, SerialInvariant, OneAtATime, Active, Opening, TypeOK, Call
        <3>2. box'[d] \in {box[d], EmptyBox}
            BY <1>21, <2>3 DEF FinishHandler, Move, Report, SerialInvariant, OneAtATime, Active, Stage, Opening, TypeOK, Call, globals
        <3> QED
            BY <3>1, <3>2 DEF Stage, Opening
    <2>4. SharedUsable'
        BY <1>21 DEF FinishHandler, Move, Report, SerialInvariant, OneAtATime, Active, Stage, Opening, SharedUsable, Serves, TypeOK, Call, Box, Connection, globals
    <2>5. CwdRestored'
        BY <1>21 DEF FinishHandler, Move, Report, SerialInvariant, OneAtATime, Active, Stage, Opening, CwdRestored, TypeOK, Call, globals
    <2> QED
        BY <2>1, <2>2, <2>3, <2>4, <2>5 DEF SerialInvariant
<1>22. CASE UNCHANGED vars
    BY <1>22 DEF SerialInvariant, OneAtATime, Active, Stage, Opening, SharedUsable, Serves, CwdRestored, vars, globals
<1> QED
    BY <1>1, <1>2, <1>3, <1>4, <1>5, <1>6, <1>7, <1>8, <1>9, <1>10, <1>11, <1>12, <1>13, <1>14, <1>15, <1>16, <1>17, <1>18, <1>19, <1>20, <1>21, <1>22
    DEF Next, CallStep

LEMMA SerialInvariance ==
    ASSUME Overlap = FALSE, Deadlines = FALSE
    PROVE  Spec => [](TypeOK /\ SerialInvariant)
<1>1. Init => SerialInvariant
    BY SerialInit
<1>2. ServerInvariant /\ SerialInvariant /\ [Next]_vars => SerialInvariant'
    BY SerialStep DEF ServerInvariant
<1> QED
    BY <1>1, <1>2, ServerInvariance, TypeCorrect, PTL DEF Spec

\* When the host sends one call at a time and none outlives its deadline, every
\* handler works on the database of its own project, for any number of calls
\* and projects and any failure of the initializations and shutdowns.
THEOREM SerialOwnDatabase ==
    ASSUME Overlap = FALSE, Deadlines = FALSE
    PROVE  Spec => []OwnDatabase
<1>1. SerialInvariant => OwnDatabase
    BY DEF SerialInvariant, Stage, OwnDatabase
<1> QED
    BY <1>1, SerialInvariance, PTL

\* Under the same host the shared server can serve the project of its key.
THEOREM SerialSharedUsable ==
    ASSUME Overlap = FALSE, Deadlines = FALSE
    PROVE  Spec => []SharedUsable
<1>1. SerialInvariant => SharedUsable
    BY DEF SerialInvariant
<1> QED
    BY <1>1, SerialInvariance, PTL

\* Under the same host the process is back in its directory between two
\* initializations, whichever of them failed.
THEOREM SerialCwdRestored ==
    ASSUME Overlap = FALSE, Deadlines = FALSE
    PROVE  Spec => []CwdRestored
<1>1. SerialInvariant => CwdRestored
    BY DEF SerialInvariant
<1> QED
    BY <1>1, SerialInvariance, PTL

\* The step of a call other than those that open, close or hand over a
\* connection leaks none.
LEMMA LeakKept ==
    ASSUME NoLeak, NEW c \in Calls,
           conn' = conn, shared' = shared,
           call[c].phase \notin {"closing"},
           call'[c].phase \in Opening \/ call[c].phase \notin Opening,
           \A d \in Calls : d # c => call'[d] = call[d]
    PROVE  NoLeak'
BY DEF NoLeak, InPhase, Opening

LEMMA LeakStep ==
    ASSUME Overlap = FALSE, Deadlines = FALSE, "close" \notin Faults,
           TypeOK, SerialInvariant, NoLeak, [Next]_vars
    PROVE  NoLeak'
<1> USE DEF InPhase
<1>1. ASSUME NEW p \in Projects, InitializeWorkspace(p)
      PROVE  NoLeak'
    BY <1>1 DEF InitializeWorkspace, NoLeak, globals
<1>2. ASSUME NEW c \in Calls, CleanupAckElapsed(c)
      PROVE  NoLeak'
    BY <1>2 DEF CleanupAckElapsed, NoLeak, globals
<1>3. ASSUME NEW c \in Calls, NEW p \in Projects, CallTool(c, p)
      PROVE  NoLeak'
    BY <1>3, LeakKept DEF CallTool, Opening, TypeOK, Call, globals
<1>4. ASSUME NEW c \in Calls, Refuse(c) \/ Reuse(c) \/ UseDatabase(c) \/ FinishHandler(c)
      PROVE  NoLeak'
    <2>1. /\ conn' = conn /\ shared' = shared
          /\ call[c].phase \in {"entering", "handling"}
          /\ \A d \in Calls : d # c => call'[d] = call[d]
        BY <1>4 DEF Refuse, Reuse, UseDatabase, FinishHandler, Move, TypeOK, globals
    <2> QED
        BY <2>1, LeakKept DEF Opening
<1>5. ASSUME NEW c \in Calls, Detach(c)
      PROVE  NoLeak'
    <2>1. /\ conn' = conn
          /\ call[c].phase = "entering"
          /\ call'[c].phase = "closing" /\ call'[c].old = shared
          /\ \A d \in Calls : d # c => call'[d] = call[d]
        BY <1>5 DEF Detach, TypeOK, Call
    <2> QED
        BY <2>1 DEF NoLeak, Opening
<1>6. ASSUME NEW c \in Calls, CloseOld(c)
      PROVE  NoLeak'
    <2>1. /\ call[c].phase = "closing" /\ call'[c].phase = "resetting" /\ shared' = shared
          /\ \A d \in Calls : d # c => call'[d] = call[d]
          /\ \A t \in Calls : \/ t = call[c].old /\ ~(conn'[t].open /\ conn'[t].held)
                              \/ t # call[c].old /\ conn'[t] = conn[t]
        BY <1>6 DEF CloseOld, CloseDatabase, Move, TypeOK, Call, Connection, globals
    <2>2. \A d \in Calls : call[d].phase = "closing" => d = c
        BY <2>1 DEF SerialInvariant, OneAtATime, Active
    <2> QED
        BY <2>1, <2>2 DEF NoLeak, Opening
<1>7. ASSUME NEW c \in Calls,
             \/ ResetContainer(c) \/ Configure(c) \/ ResolveWorkspace(c)
             \/ FillContainer(c) \/ RefuseContainer(c) \/ InitializeFails(c)
      PROVE  NoLeak'
    <2>1. /\ conn' = conn /\ shared' = shared
          /\ call[c].phase # "closing" /\ call'[c].phase \in Opening
          /\ \A d \in Calls : d # c => call'[d] = call[d]
        BY <1>7 DEF ResetContainer, Configure, ResolveWorkspace, FillContainer,
                    RefuseContainer, InitializeFails, Move, Opening, TypeOK, Call, globals
    <2> QED
        BY <2>1, LeakKept
<1>8. ASSUME NEW c \in Calls, Connect(c) \/ Migrate(c)
      PROVE  NoLeak'
    <2>1. /\ shared' = shared
          /\ call[c].phase \in {"connecting", "migrating"} /\ call'[c].phase \in Opening
          /\ \A d \in Calls : d # c => call'[d] = call[d] /\ conn'[d] = conn[d]
        BY <1>8 DEF Connect, Migrate, Move, Opening, TypeOK, Call, globals
    <2> QED
        BY <2>1 DEF NoLeak, Opening
<1>9. ASSUME NEW c \in Calls, Share(c)
      PROVE  NoLeak'
    <2>1. /\ conn' = conn /\ shared' = c
          /\ call[c].phase = "filling"
          /\ \A d \in Calls : d # c => call'[d] = call[d]
        BY <1>9 DEF Share, TypeOK
    <2>2. shared = None
        BY <2>1 DEF SerialInvariant, Stage, Opening
    <2> QED
        BY <2>1, <2>2 DEF NoLeak, Opening
<1>10. ASSUME NEW c \in Calls, CleanUp(c)
      PROVE  NoLeak'
    <2>1. /\ shared' = shared
          /\ call[c].phase = "failing"
          /\ ~(conn'[c].open /\ conn'[c].held)
          /\ \A d \in Calls : d # c => call'[d] = call[d] /\ conn'[d] = conn[d]
        BY <1>10 DEF CleanUp, CloseDatabase, Move, TypeOK, Connection
    <2> QED
        BY <2>1 DEF NoLeak, Opening
<1>11. CASE UNCHANGED vars
    BY <1>11 DEF NoLeak, vars, globals
<1> QED
    BY <1>1, <1>2, <1>3, <1>4, <1>5, <1>6, <1>7, <1>8, <1>9, <1>10, <1>11
    DEF Next, CallStep, Deadline, CloseOldFails

\* Replacing servers one call at a time leaks no connection, whichever of their
\* initializations fail, as long as no shutdown does.
THEOREM SerialNoLeak ==
    ASSUME Overlap = FALSE, Deadlines = FALSE, "close" \notin Faults
    PROVE  Spec => []NoLeak
<1>1. Init => NoLeak
    BY DEF Init, NoLeak, NoConnection
<1>2. TypeOK /\ SerialInvariant /\ NoLeak /\ [Next]_vars => NoLeak'
    BY LeakStep
<1> QED
    BY <1>1, <1>2, SerialInvariance, PTL DEF Spec

\* Is the answer of c final in this step?
Final(c) ==
    /\ answer[c] \in {"timeout", "result", "failed"} => answer'[c] = answer[c]
    /\ answer[c] = "expired" => answer'[c] \in {"expired", "timeout"}

\* A step overwrites no answer.
LEMMA FinalStep ==
    ASSUME TypeOK, [Next]_vars, NEW c \in Calls
    PROVE  Final(c)
<1> USE DEF Final
<1>1. ASSUME NEW d \in Calls, NEW o \in {"result", "failed"},
             Report(d, o)
      PROVE  Final(c)
    BY <1>1 DEF Report, TypeOK
<1>2. ASSUME NEW d \in Calls,
             Deadline(d) \/ CleanupAckElapsed(d)
      PROVE  Final(c)
    BY <1>2 DEF Deadline, CleanupAckElapsed, TypeOK
<1>3. CASE UNCHANGED answer
    BY <1>3
<1>4. CASE \E d \in Calls, o \in {"result", "failed"} : Report(d, o)
    BY <1>1, <1>4
<1>5. CASE \E d \in Calls : Deadline(d) \/ CleanupAckElapsed(d)
    BY <1>2, <1>5
<1>6. \A d \in Calls : Refuse(d) \/ CloseOldFails(d) \/ CleanUp(d) \/ FinishHandler(d)
         => \E o \in {"result", "failed"} : Report(d, o)
    BY DEF Refuse, CloseOldFails, CleanUp, FinishHandler
<1>7. \A d \in Calls : \/ Reuse(d) \/ Detach(d) \/ CloseOld(d) \/ ResetContainer(d)
                      \/ Configure(d) \/ ResolveWorkspace(d) \/ Connect(d)
                      \/ Migrate(d) \/ FillContainer(d) \/ RefuseContainer(d)
                      \/ Share(d) \/ InitializeFails(d) \/ UseDatabase(d)
         => UNCHANGED answer
    BY DEF Reuse, Detach, CloseOld, ResetContainer, Configure, ResolveWorkspace,
           Connect, Migrate, FillContainer, RefuseContainer, Share,
           InitializeFails, UseDatabase
<1>8. (\E p \in Projects : InitializeWorkspace(p)) => UNCHANGED answer
    BY DEF InitializeWorkspace
<1>9. (\E d \in Calls, p \in Projects : CallTool(d, p)) => UNCHANGED answer
    BY DEF CallTool
<1>10. UNCHANGED vars => UNCHANGED answer
    BY DEF vars
<1> QED
    BY <1>3, <1>4, <1>5, <1>6, <1>7, <1>8, <1>9, <1>10 DEF Next, CallStep

\* A host is told once how a call ended, and of an expired call only that it
\* timed out.
THEOREM AnswersFinal == Spec => AnswerFinal
<1>1. TypeOK /\ [Next]_vars => [\A c \in Calls :
          /\ answer[c] \in {"timeout", "result", "failed"} => answer'[c] = answer[c]
          /\ answer[c] = "expired" => answer'[c] \in {"expired", "timeout"}]_vars
    BY FinalStep DEF Final
<1> QED
    BY <1>1, TypeCorrect, PTL DEF Spec, AnswerFinal

---------------------------------------------------------------------------
(* Liveness. *)

\* Weak fairness of the two timers is TimersFire, as each is enabled when its guard
\* holds (which ENABLED cannot be shown to say here, hence the hypotheses).
LEMMA FairTimersFire ==
    ASSUME NEW c \in Calls
    PROVE  /\ WF_vars(Deadline(c)) /\ WF_vars(CleanupAckElapsed(c))
           /\ [](Undecided(c) => ENABLED <<Deadline(c)>>_vars)
           /\ [](answer[c] = "expired" => ENABLED <<CleanupAckElapsed(c)>>_vars)
           => TimersFire(c)
BY PTL DEF TimersFire

\* A call goes on being under way, or it ends with a report.
LEMMA CallGoesOn ==
    ASSUME TypeOK, [Next]_vars, NEW c \in Calls, ~InPhase(c, "idle")
    PROVE  /\ ~InPhase(c, "idle")'
           /\ ~InPhase(c, "ended") /\ InPhase(c, "ended")' => answer'[c] # "none"
           /\ answer[c] # "none" => answer'[c] # "none"
<1> DEFINE Goes ==
        /\ ~InPhase(c, "idle")'
        /\ ~InPhase(c, "ended") /\ InPhase(c, "ended")' => answer'[c] # "none"
        /\ answer[c] # "none" => answer'[c] # "none"
<1> SUFFICES Goes
    OBVIOUS
<1>1. ASSUME UNCHANGED <<call, answer>>
      PROVE  Goes
    BY <1>1 DEF InPhase
<1>2. ASSUME NEW d \in Calls, NEW p \in Phase \ {"idle", "ended"}, Move(d, p), UNCHANGED answer
      PROVE  Goes
    BY <1>2 DEF Move, InPhase, TypeOK, Call
<1>3. ASSUME NEW d \in Calls, NEW o \in {"result", "failed"}, Move(d, "ended"), Report(d, o)
      PROVE  Goes
    BY <1>3 DEF Move, Report, InPhase, TypeOK, Call
<1>4. ASSUME NEW d \in Calls, Deadline(d) \/ CleanupAckElapsed(d)
      PROVE  Goes
    BY <1>4 DEF Deadline, CleanupAckElapsed, InPhase, TypeOK
<1>5. ASSUME NEW d \in Calls, NEW p \in Projects, CallTool(d, p)
      PROVE  Goes
    BY <1>5 DEF CallTool, InPhase, TypeOK, Call
<1>6. ASSUME NEW d \in Calls, Reuse(d) \/ Detach(d) \/ ResetContainer(d)
                                \/ ResolveWorkspace(d) \/ Share(d) \/ UseDatabase(d)
      PROVE  Goes
    <2>1. CASE Reuse(d)
        BY <2>1 DEF Reuse, InPhase, TypeOK, Call
    <2>2. CASE Detach(d)
        BY <2>2 DEF Detach, InPhase, TypeOK, Call
    <2>3. CASE ResetContainer(d)
        BY <2>3 DEF ResetContainer, InPhase, TypeOK, Call
    <2>4. CASE ResolveWorkspace(d)
        BY <2>4 DEF ResolveWorkspace, InPhase, TypeOK, Call
    <2>5. CASE Share(d)
        BY <2>5 DEF Share, InPhase, TypeOK, Call
    <2>6. CASE UseDatabase(d)
        BY <2>6 DEF UseDatabase, InPhase, TypeOK, Call
    <2> QED
        BY <1>6, <2>1, <2>2, <2>3, <2>4, <2>5, <2>6
<1>7. ASSUME NEW d \in Calls, CloseOld(d) \/ Configure(d) \/ Connect(d) \/ Migrate(d)
                                \/ FillContainer(d) \/ RefuseContainer(d) \/ InitializeFails(d)
      PROVE  Goes
    <2>1. UNCHANGED answer
        BY <1>7 DEF CloseOld, Configure, Connect, Migrate, FillContainer, RefuseContainer,
           InitializeFails
    <2>2. \E p \in Phase \ {"idle", "ended"} : Move(d, p)
        BY <1>7 DEF CloseOld, Configure, Connect, Migrate, FillContainer, RefuseContainer,
           InitializeFails, Phase, Opening
    <2> QED
        BY <1>2, <2>1, <2>2
<1>8. ASSUME NEW d \in Calls, Refuse(d) \/ CloseOldFails(d) \/ CleanUp(d) \/ FinishHandler(d)
      PROVE  Goes
    BY <1>3, <1>8 DEF Refuse, CloseOldFails, CleanUp, FinishHandler
<1> QED
    BY <1>1, <1>4, <1>5, <1>6, <1>7, <1>8 DEF Next, CallStep, InitializeWorkspace, vars

\* Whatever hangs, fails or overlaps, a call whose deadline and clean-up timers fire
\* is answered (raceToolCallDeadline).
THEOREM CallsAnswered ==
    ASSUME Deadlines = TRUE
    PROVE  Spec /\ (\A c \in Calls : TimersFire(c)) => EveryCallAnswered
<1> SUFFICES ASSUME NEW c \in Calls
             PROVE  Spec /\ TimersFire(c) => (InPhase(c, "entering") ~> Settled(c))
    BY DEF EveryCallAnswered
<1> DEFINE Known == ~InPhase(c, "idle") /\ answer[c] # "none"
<1>1. TypeOK /\ InPhase(c, "entering") => Undecided(c) \/ Known
    BY DEF InPhase, Undecided, TypeOK
<1>2. TypeOK /\ Undecided(c) /\ [Next]_vars => Undecided(c)' \/ Known'
    BY CallGoesOn DEF Undecided, InPhase
<1>3. TypeOK /\ <<Deadline(c)>>_vars => Known'
    BY DEF Deadline, InPhase, TypeOK
<1>4. TypeOK /\ Known => Settled(c) \/ answer[c] = "expired"
    BY DEF Settled, TypeOK, Answer
<1>5. TypeOK /\ answer[c] = "expired" /\ [Next]_vars
          => (answer[c] = "expired")' \/ Settled(c)'
    <2> SUFFICES ASSUME TypeOK, answer[c] = "expired", [Next]_vars
                 PROVE  answer'[c] \in {"expired", "timeout"}
        BY DEF Settled
    <2> QED
        BY FinalStep DEF Final
<1>6. TypeOK /\ <<CleanupAckElapsed(c)>>_vars => Settled(c)'
    BY DEF CleanupAckElapsed, Settled, TypeOK
<1> QED
    BY <1>1, <1>2, <1>3, <1>4, <1>5, <1>6, TypeCorrect, PTL DEF Spec, TimersFire
===========================================================================
