--------------------------- MODULE PluginServer ---------------------------
(***************************************************************************)
(* The plugin-owned embedded MCP server of the host process, and the tool  *)
(* calls that open, share, replace and use it.                             *)
(*                                                                         *)
(* One process serves every project.  A call that needs the knowledge      *)
(* database asks EmbeddedToolExecutor for the embedded server of its       *)
(* project: the shared one when its key matches, otherwise the shared one  *)
(* is shut down and a new one initialized.  Initialization goes through    *)
(* four singletons of the process: the working directory, PathGuard's      *)
(* project root, the service container, and the shared server itself.      *)
(* Every await is a step boundary, so calls interleave exactly there.      *)
(*                                                                         *)
(* A server is named by the call that created it; a service container by   *)
(* the call whose initialization created it.                               *)
(***************************************************************************)
EXTENDS FiniteSets

CONSTANTS
    Calls,       \* the tool calls of one run of the process
    Projects,    \* the project roots the calls name
    Home,        \* the working directory the host started the process in
    None,        \* null
    Overlap,     \* does the host send a call before the last one is answered?
    Deadlines,   \* may a call outlive its soft deadline?
    Faults       \* which of "init", "migrate" and "close" may fail

ASSUME PluginServerAssumption ==
    /\ Home \notin Projects
    /\ None \notin Projects \cup Calls \cup {Home}
    /\ Overlap \in BOOLEAN
    /\ Deadlines \in BOOLEAN
    /\ Faults \subseteq {"init", "migrate", "close"}

VARIABLES
    known,      \* the projects that have a knowledge database
    call,       \* where each call stands in EmbeddedToolExecutor.execute
    answer,     \* what the host has been told of each call
    shared,     \* sharedPluginOwnedMcpServer
    sharedKey,  \* sharedPluginOwnedMcpServerKey
    cwd,        \* process.cwd()
    guardRoot,  \* pathGuard.projectRoot
    current,    \* containerInstance of ServiceContainer.ts
    box,        \* the singletons of each service container
    conn,       \* the database connection of each server's Bootstrap
    serverBox   \* McpServer.container of each server

vars == <<known, call, answer, shared, sharedKey, cwd, guardRoot, current,
          box, conn, serverBox>>
globals == <<shared, sharedKey, cwd, guardRoot, current>>

---------------------------------------------------------------------------
(* Types. *)

\* The awaits of execute, #getPluginOwnedMcpServer and initialize, in order.
Opening == {"closing", "resetting", "loading", "settings", "connecting",
            "migrating", "wiring", "filling", "failing"}
Phase == {"idle", "entering", "handling", "ended"} \cup Opening

Answer == {"none", "expired", "timeout", "result", "failed"}

Call == [phase : Phase,
         project : Projects \cup {None},       \* executionContext.projectRoot
         old : Calls \cup {None},              \* the server being replaced
         previousCwd : Projects \cup {Home},
         resolver : Projects \cup {None},      \* project of the WorkspaceResolver
         server : Calls \cup {None},           \* localMcp
         touched : SUBSET Projects,            \* databases the handler has used
         broken : BOOLEAN]                     \* a service failed under the handler

Box == [root : Projects \cup {None}, db : Calls \cup {None}]
Connection == [project : Projects \cup {None}, open : BOOLEAN, held : BOOLEAN]

EmptyBox == [root |-> None, db |-> None]
NoConnection == [project |-> None, open |-> FALSE, held |-> FALSE]

TypeOK ==
    /\ known \subseteq Projects
    /\ call \in [Calls -> Call]
    /\ answer \in [Calls -> Answer]
    /\ shared \in Calls \cup {None}
    /\ sharedKey \in Projects \cup {None}
    /\ cwd \in Projects \cup {Home}
    /\ guardRoot \in Projects \cup {None}
    /\ current \in Calls \cup {None}
    /\ box \in [Calls -> Box]
    /\ conn \in [Calls -> Connection]
    /\ serverBox \in [Calls -> Calls \cup {None}]

Init ==
    /\ known \in SUBSET Projects
    /\ call = [c \in Calls |->
                 [phase |-> "idle", project |-> None, old |-> None,
                  previousCwd |-> Home, resolver |-> None, server |-> None,
                  touched |-> {}, broken |-> FALSE]]
    /\ answer = [c \in Calls |-> "none"]
    /\ shared = None
    /\ sharedKey = None
    /\ cwd = Home
    /\ guardRoot = None
    /\ current = None
    /\ box = [c \in Calls |-> EmptyBox]
    /\ conn = [c \in Calls |-> NoConnection]
    /\ serverBox = [c \in Calls |-> None]

---------------------------------------------------------------------------
(* Helpers. *)

\* The host has its answer to call c (or never sent it).
Settled(c) == call[c].phase = "idle" \/ answer[c] \in {"timeout", "result", "failed"}

InPhase(c, p) == call[c].phase = p

Move(c, p) == call' = [call EXCEPT ![c].phase = p]

\* Faulty: a late outcome replaces the expired deadline.
Report_Overwrites(c, o) ==
    answer' = [answer EXCEPT ![c] = IF @ \in {"none", "expired"} THEN o ELSE @]

\* What the host is told when the work of c settles with outcome o: once the
\* deadline has expired only the TOOL_TIMEOUT is reported, and only once.
Report(c, o) ==
    answer' = [answer EXCEPT ![c] = CASE @ = "none" -> o
                                      [] @ = "expired" -> "timeout"
                                      [] OTHER -> @]

\* resetServiceContainer(): the current container loses its singletons.
DropContainer ==
    /\ box' = [b \in Calls |-> IF b = current THEN EmptyBox ELSE box[b]]
    /\ current' = None

\* bootstrap.shutdown() of server s: closes the database it holds.
CloseDatabase(s) ==
    conn' = [t \in Calls |-> IF t = s /\ conn[t].held
                             THEN [conn[t] EXCEPT !.open = FALSE] ELSE conn[t]]

---------------------------------------------------------------------------
(* The host. *)

\* alembic_init creates the knowledge database of a project.
InitializeWorkspace(p) ==
    /\ p \notin known
    /\ known' = known \cup {p}
    /\ UNCHANGED <<call, answer, globals, box, conn, serverBox>>

\* Faulty: the project of the call is taken from the working directory.
CallTool_FromCwd(c, p) ==
    /\ InPhase(c, "idle")
    /\ Overlap \/ \A d \in Calls : Settled(d)
    /\ call' = [call EXCEPT ![c].phase = "entering", ![c].project = cwd]
    /\ UNCHANGED <<known, answer, globals, box, conn, serverBox>>

\* A CallTool request for a write tool on project p.
CallTool(c, p) ==
    /\ InPhase(c, "idle")
    /\ Overlap \/ \A d \in Calls : Settled(d)
    /\ call' = [call EXCEPT ![c].phase = "entering", ![c].project = p]
    /\ UNCHANGED <<known, answer, globals, box, conn, serverBox>>

\* The soft deadline of raceToolCallDeadline: the work is told to abort, and
\* the answer waits for it to settle or for the clean-up window to pass.
Deadline(c) ==
    /\ Deadlines
    /\ call[c].phase \notin {"idle", "ended"}
    /\ answer[c] = "none"
    /\ answer' = [answer EXCEPT ![c] = "expired"]
    /\ UNCHANGED <<known, call, globals, box, conn, serverBox>>

\* Faulty: the answer waits for the work to settle, however long it takes.
CleanupAckElapsed_Unbounded(c) ==
    /\ answer[c] = "expired"
    /\ InPhase(c, "ended")
    /\ answer' = [answer EXCEPT ![c] = "timeout"]
    /\ UNCHANGED <<known, call, globals, box, conn, serverBox>>

\* cleanupAckMs passes: TOOL_TIMEOUT is sent, the work may still be running.
CleanupAckElapsed(c) ==
    /\ answer[c] = "expired"
    /\ answer' = [answer EXCEPT ![c] = "timeout"]
    /\ UNCHANGED <<known, call, globals, box, conn, serverBox>>

---------------------------------------------------------------------------
(* execute and #getPluginOwnedMcpServer. *)

\* The gate for projects without a database: refused before Bootstrap.
Refuse(c) ==
    /\ InPhase(c, "entering")
    /\ call[c].project \notin known
    /\ Move(c, "ended")
    /\ Report(c, "failed")
    /\ UNCHANGED <<known, globals, box, conn, serverBox>>

\* Faulty: any shared server is used, whatever its key.
Reuse_AnyProject(c) ==
    /\ InPhase(c, "entering")
    /\ call[c].project \in known
    /\ shared # None
    /\ call' = [call EXCEPT ![c].phase = "handling", ![c].server = shared]
    /\ UNCHANGED <<known, answer, globals, box, conn, serverBox>>

\* The shared server is this project's: use it.
Reuse(c) ==
    /\ InPhase(c, "entering")
    /\ call[c].project \in known
    /\ shared # None /\ sharedKey = call[c].project
    /\ call' = [call EXCEPT ![c].phase = "handling", ![c].server = shared]
    /\ UNCHANGED <<known, answer, globals, box, conn, serverBox>>

\* Faulty: the shared reference survives until a new server replaces it.
Detach_KeepsReference(c) ==
    /\ InPhase(c, "entering")
    /\ call[c].project \in known
    /\ ~(shared # None /\ sharedKey = call[c].project)
    /\ call' = [call EXCEPT ![c].phase = "closing", ![c].old = shared]
    /\ UNCHANGED <<known, answer, globals, box, conn, serverBox>>

\* resetPluginOwnedMcpServer forgets the shared server before it awaits its
\* shutdown (also when there is none: the await still yields).
Detach(c) ==
    /\ InPhase(c, "entering")
    /\ call[c].project \in known
    /\ ~(shared # None /\ sharedKey = call[c].project)
    /\ call' = [call EXCEPT ![c].phase = "closing", ![c].old = shared]
    /\ shared' = None
    /\ sharedKey' = None
    /\ UNCHANGED <<known, answer, cwd, guardRoot, current, box, conn, serverBox>>

\* McpServer.shutdown of the old server: vector storage drained, then SQLite
\* closed.
CloseOld(c) ==
    /\ InPhase(c, "closing")
    /\ CloseDatabase(call[c].old)
    /\ Move(c, "resetting")
    /\ UNCHANGED <<known, answer, globals, box, serverBox>>

\* The vector storage fails to close: SQLite is never closed, the container is
\* reset all the same and the call fails.
CloseOldFails(c) ==
    /\ "close" \in Faults
    /\ InPhase(c, "closing")
    /\ call[c].old # None
    /\ DropContainer
    /\ Move(c, "ended")
    /\ Report(c, "failed")
    /\ UNCHANGED <<known, shared, sharedKey, cwd, guardRoot, conn, serverBox>>

\* The finally of resetPluginOwnedMcpServer, then initialize() up to its first
\* await: the directory to return to is read here.
ResetContainer(c) ==
    /\ InPhase(c, "resetting")
    /\ DropContainer
    /\ call' = [call EXCEPT ![c].phase = "loading", ![c].previousCwd = cwd]
    /\ UNCHANGED <<known, answer, shared, sharedKey, cwd, guardRoot, conn, serverBox>>

---------------------------------------------------------------------------
(* McpServer.initialize and Bootstrap.initialize. *)

\* Faulty: PathGuard is configured once per process.
Configure_Once(c) ==
    /\ InPhase(c, "loading")
    /\ cwd' = call[c].project
    /\ guardRoot' = IF guardRoot = None THEN call[c].project ELSE guardRoot
    /\ Move(c, "settings")
    /\ UNCHANGED <<known, answer, shared, sharedKey, current, box, conn, serverBox>>

\* chdir, PathGuard, and the first await of Bootstrap.initialize.
Configure(c) ==
    /\ InPhase(c, "loading")
    /\ cwd' = call[c].project
    /\ guardRoot' = call[c].project
    /\ Move(c, "settings")
    /\ UNCHANGED <<known, answer, shared, sharedKey, current, box, conn, serverBox>>

\* initializeWorkspaceResolver reads the project from PathGuard.
ResolveWorkspace(c) ==
    /\ InPhase(c, "settings")
    /\ call' = [call EXCEPT ![c].phase = "connecting", ![c].resolver = guardRoot]
    /\ UNCHANGED <<known, answer, globals, box, conn, serverBox>>

\* db.connect() opens the database of the resolved workspace.
Connect(c) ==
    /\ InPhase(c, "connecting")
    /\ conn' = [conn EXCEPT ![c] = [project |-> call[c].resolver, open |-> TRUE,
                                    held |-> FALSE]]
    /\ Move(c, "migrating")
    /\ UNCHANGED <<known, answer, globals, box, serverBox>>

\* runMigrations() succeeded: only now does Bootstrap hold the connection.
Migrate(c) ==
    /\ InPhase(c, "migrating")
    /\ conn' = [conn EXCEPT ![c].held = TRUE]
    /\ Move(c, "wiring")
    /\ UNCHANGED <<known, answer, globals, box, serverBox>>

\* The container getServiceContainer() returns to server c.
ContainerFor(c) == IF current = None THEN c ELSE current

\* ServiceContainer.initialize refuses to switch the project of a container.
Conflicts(c) ==
    LET root == box[ContainerFor(c)].root
    IN  root # None /\ root # call[c].project

\* getServiceContainer() and the synchronous part of its initialize: the
\* database and the project root become singletons of the container.
FillContainer(c) ==
    /\ InPhase(c, "wiring")
    /\ ~Conflicts(c)
    /\ current' = ContainerFor(c)
    /\ serverBox' = [serverBox EXCEPT ![c] = ContainerFor(c)]
    /\ box' = [box EXCEPT ![ContainerFor(c)] = [root |-> call[c].project, db |-> c]]
    /\ Move(c, "filling")
    /\ UNCHANGED <<known, answer, shared, sharedKey, cwd, guardRoot, conn>>

RefuseContainer(c) ==
    /\ InPhase(c, "wiring")
    /\ Conflicts(c)
    /\ serverBox' = [serverBox EXCEPT ![c] = ContainerFor(c)]
    /\ Move(c, "failing")
    /\ UNCHANGED <<known, answer, globals, box, conn>>

\* The registries and the vector service are ready (a container emptied in the
\* meantime is not noticed: those failures are caught): the server is shared
\* and the directory restored.
Share(c) ==
    /\ InPhase(c, "filling")
    /\ shared' = c
    /\ sharedKey' = call[c].project
    /\ cwd' = call[c].previousCwd
    /\ call' = [call EXCEPT ![c].phase = "handling", ![c].server = c]
    /\ UNCHANGED <<known, answer, guardRoot, current, box, conn, serverBox>>

\* Any step of the initialization may throw.
InitializeFails(c) ==
    /\ \/ "init" \in Faults /\ call[c].phase \in {"loading", "connecting", "wiring", "filling"}
       \/ "migrate" \in Faults /\ InPhase(c, "migrating")
    /\ Move(c, "failing")
    /\ UNCHANGED <<known, answer, globals, box, conn, serverBox>>

\* Faulty: the directory is restored after a success only.
CleanUp_NoChdir(c) ==
    /\ InPhase(c, "failing")
    /\ CloseDatabase(c)
    /\ DropContainer
    /\ Move(c, "ended")
    /\ Report(c, "failed")
    /\ UNCHANGED <<known, shared, sharedKey, cwd, guardRoot, serverBox>>

\* Faulty: the half-made server is not shut down.
CleanUp_NoShutdown(c) ==
    /\ InPhase(c, "failing")
    /\ DropContainer
    /\ cwd' = call[c].previousCwd
    /\ Move(c, "ended")
    /\ Report(c, "failed")
    /\ UNCHANGED <<known, shared, sharedKey, guardRoot, conn, serverBox>>

\* Faulty: the shared server is reset instead of the half-made one.
CleanUp_ResetsShared(c) ==
    /\ InPhase(c, "failing")
    /\ CloseDatabase(shared)
    /\ shared' = None
    /\ sharedKey' = None
    /\ DropContainer
    /\ cwd' = call[c].previousCwd
    /\ Move(c, "ended")
    /\ Report(c, "failed")
    /\ UNCHANGED <<known, guardRoot, serverBox>>

\* The catch and finally of #getPluginOwnedMcpServer: the half-made server is
\* shut down, the container of the process reset, the directory restored.  A
\* container that fails to shut down (ignored here) leaves SQLite open.
CleanUp(c) ==
    /\ InPhase(c, "failing")
    /\ \/ CloseDatabase(c)
       \/ "close" \in Faults /\ serverBox[c] # None /\ conn' = conn
    /\ DropContainer
    /\ cwd' = call[c].previousCwd
    /\ Move(c, "ended")
    /\ Report(c, "failed")
    /\ UNCHANGED <<known, shared, sharedKey, guardRoot, serverBox>>

---------------------------------------------------------------------------
(* The handler, on whatever its server's container holds by then. *)

Database(c) == LET b == serverBox[call[c].server]
               IN  IF b = None THEN None ELSE box[b].db

Usable(c) == Database(c) # None /\ conn[Database(c)].open

\* The handler reads or writes through its container, between two awaits.
UseDatabase(c) ==
    /\ InPhase(c, "handling")
    /\ ~call[c].broken
    /\ call' = [call EXCEPT
                  ![c].touched = IF Usable(c) THEN @ \cup {conn[Database(c)].project} ELSE @,
                  ![c].broken = ~Usable(c)]
    /\ UNCHANGED <<known, answer, globals, box, conn, serverBox>>

FinishHandler(c) ==
    /\ InPhase(c, "handling")
    /\ Move(c, "ended")
    /\ Report(c, IF call[c].broken THEN "failed" ELSE "result")
    /\ UNCHANGED <<known, globals, box, conn, serverBox>>

---------------------------------------------------------------------------

CallStep(c) ==
    \/ Refuse(c) \/ Reuse(c) \/ Detach(c)
    \/ CloseOld(c) \/ CloseOldFails(c) \/ ResetContainer(c)
    \/ Configure(c) \/ ResolveWorkspace(c) \/ Connect(c) \/ Migrate(c)
    \/ FillContainer(c) \/ RefuseContainer(c) \/ Share(c)
    \/ InitializeFails(c) \/ CleanUp(c)
    \/ UseDatabase(c) \/ FinishHandler(c)

Next ==
    \/ \E p \in Projects : InitializeWorkspace(p)
    \/ \E c \in Calls, p \in Projects : CallTool(c, p)
    \/ \E c \in Calls : Deadline(c) \/ CleanupAckElapsed(c) \/ CallStep(c)

Spec == Init /\ [][Next]_vars

\* Only the two timers of the process are sure to fire: the work of a call may
\* hang at any await.
TimerSpec == Spec /\ \A c \in Calls : WF_vars(Deadline(c)) /\ WF_vars(CleanupAckElapsed(c))

\* A call that is under way and of which the host knows nothing yet.
Undecided(c) == call[c].phase \notin {"idle", "ended"} /\ answer[c] = "none"

\* The fairness of TimerSpec with the guards of the actions written out.
TimersFire(c) ==
    /\ []<>~Undecided(c) \/ []<><<Deadline(c)>>_vars
    /\ []<>~(answer[c] = "expired") \/ []<><<CleanupAckElapsed(c)>>_vars

---------------------------------------------------------------------------
(* What the component promises. *)

\* Server s can serve project p: its database is open, is p's, and is the one
\* its container hands out.
Serves(s, p) ==
    /\ conn[s] = [project |-> p, open |-> TRUE, held |-> TRUE]
    /\ serverBox[s] # None
    /\ box[serverBox[s]] = [root |-> p, db |-> s]

\* A handler only ever works on the database of the project its call names,
\* whatever was opened, replaced or failed before it
\* (the request-scoped project of #getPluginOwnedMcpServer).
OwnDatabase == \A c \in Calls : call[c].touched \subseteq {call[c].project}

\* The shared server can serve the project its key names: Reuse hands out no
\* server that was closed, half opened, or left with an emptied container.
SharedUsable == shared # None => Serves(shared, sharedKey)

\* Whatever overlaps or fails, the shared server's own connection is open: the
\* reference is dropped before the shutdown is awaited, never after.
SharedOpen == shared # None => conn[shared].open /\ sharedKey = call[shared].project

\* The database of a server that was handed out is closed only by a call for
\* another project that replaces it: no call for the same project, and no
\* failed initialization that overlaps, closes it under a running handler.
\* (Its container has no such owner: every initialization empties the one the
\* process has at that moment.)
ClosedByReplacement ==
    [][\A s \in Calls :
          call[s].phase \in {"handling", "ended"} /\ conn[s].open /\ ~conn'[s].open =>
             \E d \in Calls : /\ InPhase(d, "closing")
                              /\ call[d].old = s
                              /\ call[d].project # call[s].project]_vars

\* When no initialization is under way the process is back in the directory it
\* was started in, after successes and failures alike.
CwdRestored ==
    (\A c \in Calls : call[c].phase \notin Opening) => cwd = Home

\* An open connection that a Bootstrap holds belongs to the shared server, to a
\* server being opened or to one being closed: replacing servers leaks none.
\* (A connection whose migrations failed is not held, and is lost.)
NoLeak ==
    \A s \in Calls : conn[s].open /\ conn[s].held =>
        \/ s = shared
        \/ call[s].phase \in Opening
        \/ \E c \in Calls : InPhase(c, "closing") /\ call[c].old = s

\* Bootstrap never opens (and so never creates) a database in a project that
\* has none: the gate comes first, and PathGuard only ever names gated projects.
NoFootprint == \A s \in Calls : conn[s].open => conn[s].project \in known

\* An answer is final, and a call whose deadline expired is only ever answered
\* TOOL_TIMEOUT, however its work ends afterwards.
AnswerFinal ==
    [][\A c \in Calls :
          /\ answer[c] \in {"timeout", "result", "failed"} => answer'[c] = answer[c]
          /\ answer[c] = "expired" => answer'[c] \in {"expired", "timeout"}]_vars

\* Every call is answered in the end, even if its work hangs at an await for
\* ever: only the timers of the deadline are assumed to fire.
EveryCallAnswered == \A c \in Calls : InPhase(c, "entering") ~> Settled(c)
===========================================================================
