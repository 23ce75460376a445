# A TLA+ model of AlembicPlugin

AlembicPlugin is the MCP server that gives a coding agent access to the Alembic
knowledge base of a project: structural views of the code, the recipes (knowledge
entries) mined from it, and the maintenance that keeps recipes in step with the code.
It is one Node.js process per host. It has no scheduler and no background loop: all
work, maintenance included, happens inside or behind a tool call, and state that must
outlive a process is in SQLite (through `@alembic/core`) or in files.

The hard part of such a program is what happens between two `await`s. This directory
models the parts that share state across awaits, checks them with TLC on small
instances, and proves the most important properties with TLAPS for every instance.

    tlc -workers 2 -config BuildSessionPages.cfg MCBuildSession.tla
    tlapm BuildSession_proofs.tla

## 1. Inventory

The parts of the system, the state each keeps and what makes it correct. Paths are
below `src/lib/`.

| Part | State | Operations | Interacts with | Hard behaviours | Correct when |
|---|---|---|---|---|---|
| **ProjectContext build sessions** `service/project-knowledge-context/session/` | maps of builds, cursors, expired cursors, failures; chunk directories on disk | acquire, acquireProgressive, publish a continuation, read, cancel, invalidate, dispose | graph provider, MCP handlers `structure.ts` and `recipe-map.ts` | requests, reads, worker rounds, aborts, expiry, source edits and shutdown interleave at awaits | one build per key that may go on, exact reference counts, no orphaned worker, no lost or repeated item, one live cursor, nothing left on disk, everyone answered |
| **Project graph provider** `.../project/ProjectGraphProvider.ts` | fact-session registry | queries | build sessions, certified facts | leases around projections | leases returned |
| **Embedded plugin server** `host-runtime/mcp/host/embedded-executor.ts`, `bootstrap.ts`, `host-runtime/mcp/tool-call-deadline.ts` | shared server and key, `process.cwd()`, `PathGuard`, the container singleton, the connections | execute, open / reuse / replace the server, deadline | every tool handler | calls for several projects in one process; failure at each await; a call answered by timeout that goes on working | a handler sees only its project's database, a server in use is closed only to be replaced, no connection leaks, no footprint in a foreign project, one answer per call |
| **Staging access sweep** `host-runtime/mcp/host/staging-access-sweep.ts` | per project: in-flight flag, start of the last sweep, last vector reconcile | maybe sweep, four drivers, vector reconcile | write tools, Core's life-cycle services | the sweep outlives its call; drivers throw or hang | one sweep per project, throttled, tools not kept waiting, all work done in the end |
| **Git diff checkpoint** `recipe-pipeline/sustain/git-diff-checkpoint/` | a checkpoint row per folder | rescan: baseline, scan, route, record | git, file change handler, rescans | git is asked five questions while HEAD and files move; any command may fail | the checkpoint passes no unrouted commit, and does reach HEAD |
| **File change handler** `recipe-pipeline/sustain/HostAgentFileChangeHandler.ts` | source references and proposals in Core | one event batch | git checkpoint | a batch that fails half way | repairs are complete or retried |
| **Generation workflows** `recipe-pipeline/generate/cold-start.ts`, `knowledge-rescan.ts`, `project-context-analysis.ts` | the project's host-agent session (kept by Core), coverage rounds | draft, cold start, deep and module rescan: take, reuse, release a session | plan gate, submissions, completions | requests that create, replace and release the session interleave at awaits | a session is released as empty only if nothing was and nothing will be in it |
| **Plan gate** `recipe-pipeline/plan/` | lease per rescan id or tool | propose, confirm, gate | generation | a call that throws, or is answered before its work is over | a lease is held exactly while its call works, and given back once |
| **Submissions** `host-runtime/mcp/handlers/tool-router.ts` | what the session tracked | gate, store, track | sessions | the session is replaced while the gateway stores | evidence lands in a session that is there |
| **Dimension completion** `recipe-pipeline/generate/dimension-completion.ts`, `completion/`, `skill-delivery/` | the session's completed dimensions, the ledger of refreshed skills | complete a dimension, finalize, refresh, write coverage | sessions, rounds, skills | two completions of the last dimensions overlap; the session is released under one | no dimension without evidence; the skills are refreshed when the last one is in, and once |
| **Recipe vector generations** `recipe-pipeline/vector/` | lock directory, route file, one store per generation | activate, upsert, remove, shadow, remove a generation, clear | rescans, sweep | two processes, a death between any two file operations, a switch during a removal | an activation is a compare-and-swap; a removal leaves no vector it does not report |
| **Plugin job store** `host-runtime/jobs/` | one file per job | create, update, list | job tools | read-modify-write, a crash | updates not lost |
| **Project skills, cleanup, modules** `service/skills`, `service/cleanup`, `service/module` | files and rows | deliver, clean up | generation | crash points | no half-written skill |
| **Certified facts** `project-facts/` | certified artifacts | certify, project | graph provider | staleness | fixed fingerprints |
| **Host server, catalogues, routing, handlers, read-only executors, contexts, retrieval, status, CLI, audit, scripts** | none across calls, or constants | | | | |

`PROJECT.json` lists all of them with the reason for what is left out, and the hazards
of the code, each at its line with the property that covers it or the reason none does.

## 2. How the code is modelled

*Steps.* JavaScript runs the code between two awaits without interruption. An action
is one such stretch with everything it calls; a call that awaits is a sequence of
actions with a program counter (`pc`, `call[c].phase`, `sweep[c].stage`,
`scan[r].stage`). Every interleaving of these stretches is explored.

*Data.* Payloads, messages and paths are members of small sets; the state of
the sources of a scope is one of a few versions, in any order and as often as it likes (a
file that is added and deleted brings the former one back), and a fingerprint is that
version; a clock is a counter or the time elapsed since; a working
tree is a function from paths to contents.

*Faulty variants.* A definition with an underscore in its name, such as
`ReleaseConsumer_Never`, is a faulty form of the definition after it that one of the
properties is there to exclude. No specification uses one; putting it in the place of
the original breaks the property named in `PROJECT.json` under "mutants".

## 3. Modules

| Module | Models | Runs | Proofs |
|---|---|---|---|
| `PagedFeed` | abstract specification: what a client that pages through a result may rely on | | |
| `BuildSession` | build sessions and the requests, readers and workers around them, with the refinement mapping | `build_*` | `BuildSession_proofs`, `BuildStreams_proofs`, `BuildFeed_proofs` |
| `PluginServer` | the embedded server, its singletons, deadlines | `server_*` | `PluginServer_proofs` |
| `StagingSweep` | the access sweep | `sweep` | `StagingSweep_proofs` |
| `GitDiffCheckpoint` | rescans and the checkpoint, with the repository | `git_*` | `GitDiffCheckpoint_proofs` |
| `GenerateSession` | generation requests, their leases, the session and the rounds | | |
| `SessionWork` | composes `GenerateSession` with submissions and completions | `generation` | `SessionWork_proofs` |
| `RouteRegister` | abstract specification: an activation is a compare-and-swap | | |
| `VectorRoute` | activations as file operations, with the refinement mapping | | |
| `VectorStores` | composes `VectorRoute` with the stores and the calls on them | `vector` | `VectorStores_proofs` |

`MCBuildSession`, `MCPluginServer`, `MCStagingSweep`, `MCSessionWork` and
`MCVectorStores` hold the constants, the symmetry sets and the bounds of the instances.

### BuildSession

The private maps of the manager are one record `mgr`; each private method is an
operator from a manager to the next (`CleanupExpired`, `ReleaseConsumer`,
`CleanupResults`, `InvalidateFactSession`, `PublishEvent`, `Settle`, ...), so that an
action that calls several is their composition, in the order of the code. `pc[q]`
is the place of request `q` in its tool call, `target[q]` the record it joined,
`facts` the version of the sources of each scope, `now` the clock.

| Code | Definition |
|---|---|
| `acquire`, `acquireProgressive` up to the first await | `Acquire`, `AcquireRefused` |
| their continuations: result, failure, abort, cleanup acknowledgement | `BuildResolved`, `BuildRejected`, `AbortBuilding`, `CleanupAcknowledged`, `AwaitFirstSnapshot`, `AbortProgressive` |
| `publishContinuation`, `publishLiveContinuation` | `PublishStatic`, `PublishLive`, `ProjectionThrows`, `StoreThrows` |
| `readContinuation`, the loop of `#readLiveContinuation` | `ReadContinuation`, `LiveReadTurn`, `ReadThrows` |
| `cancelContinuation`, `dispose` | `CancelContinuation`, `Dispose`, `DisposeDone` |
| the worker of a record | `WorkerPublish`, `WorkerReturns`, `WorkerThrows` |
| the world | `EditSources`, `ClockTick` |

`dispose` waits for the workers in a promise continuation, which runs right after the
last of them settled. A read of a client is an event of its own and runs as far as it
can before another event, so shutdown completes only when no read could go on
(`GoesOn`); a read whose build failed is still there, and is then rejected.

Expiry has no timer in the code: entries go when a later call sweeps them, and so in
the model. A write into a directory that was removed fails with `"enoent"`, which is
kept apart from a worker's own failure; a publication or a result without chunks writes
nothing and is not disturbed.

A live request has its lease before its stream exists. Between the two the provider
projects the first snapshot (`ProjectGraphProvider.ts:387`) and the manager makes a
directory and writes a file (443-448), outside any `try`: an exception there answers the
request and leaves its lease with nobody (`pc[q] = "leaked"`). The model has these steps
(`ProjectionThrows`, `StoreThrows`), and `ConsumersOwned` says that the consumers of a
build are its owners and *exactly* those leases: the leak is the code's, and the only one.
A later exception, in a read, goes through the `catch` that cleans the result up
(`ReadThrows`). No text of the repository promises otherwise, so it is no finding.

Two builds of one key can run side by side: the first was stopped because its sources
changed, they changed back before it settled, and a new request starts a second. The
identity check at the end of a build (line 698) is for the first one, which must not
forget the second. `SingleFlight` says that one of the two has been told to stop,
`NoOrphanWorker` that the other is still cached and wanted.

`PagedFeed` is what a client sees of all this: per request a set of items `offered`,
the set `given` to it, a page number, and whether its result is ready, being read,
complete or dropped. `FeedOf` maps the manager to it: what is offered are the items of
the build's events, or of a stored value, what is given the items `delivered`. The
mapping leaves out the builds, the leases, the clock, the directories and the waiters:
whatever they do, a step of the manager is one of the few steps of `PagedFeed` for each
request at once (`Feeds`, `FeedsPaged`).

### PluginServer

A server is named by the call that created it. `call[c].phase` follows the awaits of
`execute`, `#getPluginOwnedMcpServer` and `initialize`: gate, close the old server,
reset the container, load, configure (chdir and PathGuard), resolve the workspace,
connect, migrate, fill the container, share, clean up. `shared`, `sharedKey`, `cwd`,
`guardRoot` and `current` are the singletons of the process, `box`, `conn` and
`serverBox` the containers, connections and what each server holds. `answer[c]` is
what the host was told; `Deadline` and `CleanupAckElapsed` are the two timers.
`Overlap`, `Deadlines` and `Faults` say what the host and the machine may do.
`CleanUp`, after a failed initialization, swallows the exception of its own `shutdown`,
which may leave the connection open.

What a handler may rely on depends on the host. With overlap the code lets a call for
another project close the server under it (hazard at line 52), and any initialization
empties the one container of the process under it, of the same project too. So
`OwnDatabase`, `SharedUsable`, `CwdRestored` and `NoLeak` are promises to a host that
sends one call at a time, without deadlines that let work go on behind an answer; they
are checked and proved for it only, and overlap breaks them (`server_mixed` shows the
first). What holds under overlap too is that nobody *else* closes a server in use:
`ClosedByReplacement` says that a server that was handed out is closed only by a call
for another project that replaces it, never by the clean-up of a half-made one, by a
call of the same project or by a deadline.

### StagingSweep

`StartSweep`, `SkipSweep` and `PassBy` are the entry before a handler;
`EnvelopeElapsed` is the timer of `withTimeout`, which there is when `Envelope` says that
its length is positive (with 0 the code awaits the sweep); `RunDriver`, `DriverThrows`,
`StartReconcile`, `EndReconcile` and `EndWithoutReconcile` are `runSweep`. A driver
takes at most `Cap` items of `due`, and new items become due at any time
(`BecomeDue`). Start times are kept as ages, cut off at the largest interval, where
no comparison of the code can change any more; `lastSweep` and `lastVector` measure
the same from the events themselves.

### GitDiffCheckpoint

A rescan is `Start` (the row is read or created), `ReadHead`, `Snapshot`, `MergeBase`,
`CatFile` or `RangeDiff`, and `Record` (the batch is routed and the outcome written).
Each is one await of `scanOnce`; the five commands `#collectSnapshot` runs together
are one step. `Faults` names the git commands that may fail: a failed command answers
the empty string (`execGit`), except that the snapshot, whose commands fail one by
one, answers any part of its files. `Repository` is the environment: edits, partial
commits, merges with any resolution per path, a second root, HEAD moving with or
without the files, garbage collection. Renames are a deletion and a creation; the file
change handler appears as its outcome, since `recordRouteOutcome` depends on no more.
`covered` is a history variable: the commits whose net changes were in a completed
route, or that a baseline took as known. The table of Core is one row; what Core's
`recordRouteOutcome` does with it (advance on the three completed statuses, and on a
reset) is modelled from the arguments the plugin passes.

### GenerateSession and SessionWork

A request of `alembic_plan`, `alembic_bootstrap` or `alembic_rescan` goes through the
phases `gate`, `analyse`, `restore`, `plan` and `brief`, the awaits of its handler;
where two handlers differ in what they hold across an await, so do the actions: a cold
start keeps its lease until the answer (`return await`), a rescan's `finally` gives it
back as soon as the response waits for its planning (`return buildRescanResponse(...)`
without `await`: `RescanPrepared`). The key of a lease is the idempotency key of the call,
or its tool with its stage and what it selects (`KeyOf`, `Selections`), so that two calls
of one tool exclude each other only for one selection. A strict call without the plan's
carrier throws in the stretch that takes its lease (`Carried`). A session is named by the request that created it;
`sess[s]` is what it holds, `slot` the one the manager has. What Core decides (whether
an empty session is old enough to be replaced, whether a finished one is given up) is
left open in `Displaced`.

`SessionWork` adds the calls that work on a session. A submission resolves the session
at the gate, or passes it without one when it names neither session nor dimension, and
tracks its recipes on the session that is there after the gateway (`SubmitStored`).
A completion keeps the session it resolved: `CompletionAccepted`,
`CompletionCertified`, `MarkDimension`, `ReportProgress`, `RefreshSkills`,
`WriteCoverage`, with `CompletionRefused` and `CompletionTerminal` as its early ends.
The refresh of the skills is synchronous in the code, so that the look at the ledger,
the refresh and the record are one action. `synced` and `syncFailed` are history.

### RouteRegister, VectorRoute and VectorStores

`RouteRegister` says what a caller of `activate` may rely on: at one instant between
the call and the answer the route is compared and replaced, TRUE and FALSE tell which
happened, an error tells nothing. `VectorRoute` is the code: the lock directory, the
read, the temporary file, the rename, the two removals in `finally` clauses, each an
await that may fail and between any two of which the process may die. A lock that a
dead process left stays for ever, and every later activation is rejected: the code
fails closed, and so does the model. `Phase` maps a step to the register's phase; the
step that swaps is the rename.

`VectorStores` adds the base store and a store per generation: upserts of one document or
of a batch through the route that was read (`ReadRoute`, `Put`, which may fail with some
of the batch stored), removals (`LookForReplacement`, `CleanBase`,
`ListGenerations`, `VisitGeneration`, `FinishRemoval`), the removal by identity, the
shadow of a rebuild, removal of a generation, and `clear`. A removal cleans store by
store, and other calls put documents behind it; `since` remembers, for each removal,
what was put where it does not look again, so that `RemovalReaches` can tell what the
removal itself owes.

## 4. Runs

| Run | Instance | Question and answer |
|---|---|---|
| `build_pages` | 2 requests, 2 builds, 1 scope with two states of its sources, 2 items, pages of 1, 1 extra round | Paging while builds publish, sources change and change back, projections and writes throw and the manager shuts down: `OneCursor`, `EveryDelta`, `NoTempLeak`, `DisposeClean`, and the inductive invariant `BuildInvariant` of the proofs |
| `build_sharing` | 2 requests, 2 builds, an ordinary scope with two states and a certified one, a clock with `Ttl` 1 | Sharing, aborting, expiry: `SingleFlight`, `NoOrphanWorker`, `ConsumersOwned`, `AbortJustified`, `CursorRemembered` |
| `build_liveness` | 2 requests, 1 build, a right and a wrong root, 2 items, no symmetry | `RequestsAnswered`, `ReadsAnswered`, `DisposeFinishes`, and the refinement `FeedsPaged` (`PagedFeed`) |
| `server_serial` | 4 calls one after the other, 2 projects, `init` and `migrate` failures | What the code guarantees when the host sends one call at a time: `OwnDatabase`, `SharedUsable`, `CwdRestored`, `NoLeak` |
| `server_overlap` | 2 overlapping calls, 2 projects, deadlines, all failures, work that may hang | What holds whatever the host does: `TypeOK`, `SharedOpen`, `ClosedByReplacement`, `AnswerFinal`, `EveryCallAnswered` |
| `sweep` | 3 calls, 1 project, two items for one driver and one for another, `Cap` 1, intervals 2 and 3, a positive envelope | `FlagTrue`, `SweepsSpaced`, `ReconcilesSpaced`, `ToolContinues`, `Drained` |
| `git_catchup` | 1 rescan at a time, 1 path with 3 contents, 3 commits, event limit 1, failures of all commands but `cat-file` and the range diff | `CheckpointCovered`, `ResetOnlyForeign`, `CatchesUp` |
| `generation` | 2 requests of any kind with or without a rescan id, of everything or of a part, 1 submission, 2 completions, 2 dimensions, a ledger of 2 | Sessions taken, reused, replaced and released while others work on them: the inductive `SessionInvariant`, and `ReleasedEmpty`, `LeaseWhileWorking`, `MarkedWithEvidence`, `FinalSyncs`, `SyncedOnce` |
| `vector` | 2 activations, 2 calls on the stores, 2 generations, 2 versions of one Recipe, every store stocked with both, any route, `MaxLoad` 3 | `LockExcludes`, the refinement `ActivationsAreAtomic` (`RouteRegister`), `RemovalReaches` |

Three runs find a disagreement between the code and what the repository says of it;
each checks one property, and `PROJECT.json` quotes the line under "findings".

| Run | What happens |
|---|---|
| `build_siblings` (`SiblingsUnharmed`) | Cancelling, or letting expire, one client's cursor removes the chunk directory of a build that others wait for; its next write fails and the build is rejected for all of them |
| `server_mixed` (`OwnDatabase`) | Two overlapping calls for different projects: `PathGuard` is reconfigured between the steps of the first call's initialization, whose handler then works on the other project's database |
| `git_range` (`CheckpointCovered`) | The diff of a range fails or times out; its empty output reads as a range without changes, and the checkpoint moves past commits nobody looked at |

### Bounds, and why they are enough

* *BuildSession.* Everything that goes wrong with a shared build involves one build
  and two consumers, or two builds of one key (an old one still running and a new
  one; both are reached): hence 2 and 2. Two items with pages of one give a full page, a
  rest, and a delta that arrives between them, so that a page can still be outstanding
  when shutdown begins. A call with a wrong root reads nothing; it is left
  to `build_liveness`, whose instance is small. Two states of the sources make a
  build stale and let its fingerprint return, one extra round makes a stream live. With
  two requests a stale build runs beside its successor once its last consumer has left it;
  that others still wait for it meanwhile takes a third request, which the theorems cover.
  `MaxTime` 1 with `Ttl` 1 lets a cursor expire and be remembered; a second tick only repeats the first. `MaxTime`, `MaxVersion` and `MaxEvents` bound the
  environment, not the code.
* *PluginServer.* Two projects and four calls reach: open, reuse, replace, fail,
  replace a failed one, reuse after a failure. With overlap two calls are enough for
  every pair of phases. A call is used once.
* *StagingSweep.* Three calls: one whose sweep runs behind it, one that waits, one that
  arrives. A call that was answered is used again, so runs are unbounded. Two items
  with `Cap` 1 leave work behind. The intervals are small and different.
* *GitDiffCheckpoint.* Three commits reach an ancestor, a fork, two roots, a merge and
  a collected checkpoint. One path already has all three kinds of change and, with an
  event limit of 1, both truncated and routed batches, as the working tree and the
  range can each contribute an event. Two rescans at once make the state space
  several times as large; the theorems cover any number of them.
* *SessionWork.* Two requests suffice for one to create and another to reuse, replace
  or release; with two dimensions a session is empty, half done or complete, and two
  completions are the two that may leave the refresh to each other. The ledger's limit
  of 2 (256 in the code) can be reached by two sessions. Two selections make two
  requests of one kind share a lease key or not.
* *VectorStores.* `MaxLoad` bounds the calls of one behaviour: three, a removal counting
  twice, so that it meets any one other call (an upsert, a rebuild, an activation), and
  the two activations meet each other and an upsert. A third caller adds interleavings but no new
  pair. `StockedInit` puts both versions into every store: there is something to remove
  everywhere, and a generation that is removed and rebuilt starts empty.

Deadlock is not checked where the system may rightly stop: no more requests, calls,
or commits within the bounds. `StagingSweep` never stops and is checked.

### Fairness

* `BuildSession!FairSpec`: a promise continuation that is ready runs, and a worker,
  told to stop or not, returns or throws in the end. The first is the event loop; the
  second holds as a worker is a finite analysis of finite files. Requests, reads,
  aborts, edits and the clock are not fair: the client owes nothing.
* `PluginServer!TimerSpec`: only the two timers of the deadline. No await of a call's
  work is fair; it may hang for ever.
* `StagingSweep!TimerSpec`: only the envelope's timer. `Drained` names what else it
  needs in its antecedent `Driven`: the host keeps calling write tools of the project,
  time passes, drivers return, and from some time on none throws. A driver that throws
  for ever does starve the ones after it.
* `GitDiffCheckpoint!FairSpec`: a rescan that has begun takes its next step, an answer
  of git or a failure (`Proceeds`): `execGit` has a timeout. `CatchesUp` has the
  antecedent `Settles`: rescans keep being started, and from some time on the
  repository is unchanged, its history is related to the checkpoint (or the checkpoint
  is lost), nothing fails and no batch is too large. A checkpoint with an existing but
  unrelated history is never resolved by the code, and a range above the event limit
  stays open: both are assumed away by name.

The prover knows no `ENABLED`. The theorems about liveness therefore assume fairness
with the guard of each step written out: "what has its guard from some time on is
taken" (`Taken`, `LoopRuns` and `WorkerSettles` of `BuildSession`, `TimerFires` of
`StagingSweep`, `TimersFire` of `PluginServer`, `GoesOn` of `GitDiffCheckpoint`). Each
guard is the enabling condition of its action, so these say what the `WF_` conjuncts
beside them say. The lemmas `FairTimersFire`, `FairTimerFires` and the like derive one
from the other with "the guard enables the action" as a hypothesis; that hypothesis is
the reader's to see, and TLC finds the written-out form implied by the `WF_` form on the
instances of `build_liveness` and `git_catchup`.

## 5. Proofs

For every value of the constants, from the named assumptions beside them only.

| Theorem | Statement |
|---|---|
| `BuildSession_proofs!Invariance`, `TypeCorrect` | `Spec => []BuildInvariant`, `Spec => []TypeOK` |
| `BuildSession_proofs!NoOrphans` | `Spec => []NoOrphanWorker` |
| `BuildSession_proofs!OneBuildPerKey` | `Spec => []SingleFlight` |
| `PluginServer_proofs!ServerInvariance`, `TypeCorrect` | the server's invariant, `Spec => []TypeOK` |
| `BuildStreams_proofs!CursorsUsedOnce`, `NothingLeaks`, `ShutdownIsClean`, `CountsAreExact` | `Spec => []OneCursor`, `[]NoTempLeak`, `[]DisposeClean`, `[]ConsumersOwned` |
| `BuildFeed_proofs!NoDeltaSkipped`, `AbortsAreJustified`, `CursorsAreRemembered` | `Spec => []EveryDelta`, `Spec => AbortJustified`, `Spec => CursorRemembered` |
| `BuildFeed_proofs!PagingImplementsFeed` | `Spec => FeedsPaged`, the refinement of `PagedFeed` |
| `BuildFeed_proofs!CursorsAreIssued` | `Spec => [](mgr.cursors \subseteq Issued)` |
| `BuildFeed_proofs!RequestsAreAnswered` | `RequestsAnswered`, if ready continuations run and workers settle |
| `BuildFeed_proofs!NoLostWakeup` | `Spec => []Parked`: whoever is parked has nothing to read and a build that still runs |
| `BuildFeed_proofs!ReadsGoOn` | every read is answered or comes to a later event, on the same condition as `RequestsAnswered` |
| `PluginServer_proofs!SharedStaysOpen`, `HandlersKeepDatabase`, `NoProjectTouched`, `AnswersFinal` | `SharedOpen`, `ClosedByReplacement`, `NoFootprint`, `AnswerFinal`, under any overlap, deadline and failure |
| `PluginServer_proofs!SerialOwnDatabase`, `SerialSharedUsable`, `SerialCwdRestored` | without overlap and deadlines: `OwnDatabase`, `SharedUsable`, `CwdRestored` |
| `PluginServer_proofs!SerialNoLeak` | if besides no shutdown of a server fails: `NoLeak` |
| `PluginServer_proofs!CallsAnswered` | with deadlines: `EveryCallAnswered`, if the two timers fire |
| `StagingSweep_proofs!TypeCorrect`, `FlagStaysTrue`, `OneSweepPerProject`, `SweepsAreSpaced`, `ReconcilesAreSpaced` | the safety of the sweep |
| `StagingSweep_proofs!ToolsContinue` | `ToolContinues`, if the envelope is positive and its timers fire |
| `GitDiffCheckpoint_proofs!TypeCorrect` | `Spec => []TypeOK` |
| `GitDiffCheckpoint_proofs!Covered` | `"range" \notin Faults` gives `Spec => []CheckpointCovered` |
| `GitDiffCheckpoint_proofs!ResetsForeign` | `"catFile" \notin Faults` gives `Spec => ResetOnlyForeign` |
| `GitDiffCheckpoint_proofs!RescansEnd` | a rescan that goes on whenever it can ends |
| `GitDiffCheckpoint_proofs!CheckpointCatchesUp` | for two rescans that go on, overlapping in any way: `CatchesUp` |
| `SessionWork_proofs!Invariance`, `ReleasesLoseNothing`, `LeasesExact`, `CompleteWithEvidence`, `SomebodySyncs`, `SyncsOnce` | `SessionInvariant` and its parts `ReleasedEmpty`, `LeaseWhileWorking`, `MarkedWithEvidence`, `FinalSyncs`, `SyncedOnce` |
| `SessionWork_proofs!KeysExclude` | two calls with one lease key never work on the knowledge together (`OneOverKnowledge`) |
| `VectorStores_proofs!LockIsExclusive`, `TypeCorrect`, `RemovalsReach` | `LockExcludes`, `TypeOK`, `RemovalReaches` |
| `VectorStores_proofs!ActivationsImplementRegister` | `Spec => ActivationsAreAtomic`, the refinement of `RouteRegister` |

*BuildSession.* `BuildInvariant` adds to the types: open streams name a record and an
event of its log; a record is unsettled exactly while pending; cached records are
pending or successful and unique for their key; a running build that was not told to
stop is cached and wanted; and a request past its admission has what its place
promises. `SingleFlight` is not inductive alone: it follows from "wanted builds are
cached" and "cached builds are unique", and the first of these needs the identity check
of line 698 once a build of a returning fingerprint runs beside its predecessor. One lemma per private method shows that it
keeps the manager's part (`MgrOK`) and never takes back a success or an event
(`Extends`); each action is then a composition of lemmas.

`StreamInvariant`, in `BuildStreams_proofs`, adds what concerns the streams. `Tidy` says
of one manager that a live cursor names the current page of its stream and one out of
use a page that was current, that the result directories are those of streams with a
cursor or a read, that nobody is parked at a settled build, and that a manager that was
disposed holds nothing but reads whose build failed. `Owned` says that the consumers of
a record are the requests that wait for it, the open streams on it and the leases an exception leaked;
who waits is a
parameter, because a private method runs between the moment a request leaves its place
and the moment its stream opens. `FreshOK` says that a request without a stream has
left no trace of one. `NoTempLeak` is not inductive alone: a result directory goes with
the last cursor, which needs that there is only one. `DisposeClean` rests on `GoesOn`.

`FeedOK`, in `BuildFeed_proofs`, is the invariant of delivery. `EveryDelta` is not
inductive alone: a read may leave an event only when it has delivered all of it
(`Emptied`), and "the last event" is the last one for good only because an event of
success is the last of its log and of its build (`LogOK`). The two action properties
need no invariant of their own: every private method but the invalidation, the failure
of a build and shutdown only *prunes* (`Prunes`): consumers leave, a build that is told
to stop has none left, and a cursor that goes is remembered. Pruning composes, which
gives both properties for the sweep, the reads and the requests at once. Joining a
build after the sweep has stopped it is the delicate case: the sweep has emptied its
consumers, and the request that joins was not one of them before (`StreamInvariant`).

`PagingImplementsFeed` follows each private method through the mapping. Most steps are
covered by one lemma: pruning and the failure of a build leave a feed alone or drop it,
publishing only adds to what is offered, and a step that does neither leaves the fields
the mapping reads. The rest is the page itself (`ServeShape`, `PageOffered`,
`LastPage`): a page that is not the last gives items that were not given, because
`NextVersion` names an event with something to deliver, and a last page has everything,
because of `Fed` and `Emptied`. `PagingOK` adds what the mapping
needs and delivery did not: each feed has the type of one and has been given no more
than it was offered. That the page number is at most one more than the number of items
given (`Pace`) then follows from `PagedFeed` alone, since every page but the last brings
something new. `CursorsAreIssued` comes with it: `Issued`, the finite set of cursors the
clients' actions range over, leaves out no cursor the manager ever has.

`RequestsAreAnswered` follows a request through its waits. A request waits for a build
that is pending, or has ended; a pending build is unsettled, and stays so until its
worker settles; and a build that ended stays ended until the continuation of the
request runs (`BuildInvariant` says what each place promises). A request that waits for
the first snapshot is no longer among the waiters once there is an event, or the build
ended, since every publication and every end clears them.

`NoLostWakeup` is about the same waiters. `Parked` says of each of them that its build is
pending and that it has read every event there is: it waits for its first snapshot of a
build without events, or its read is at the last one. It is preserved because nobody but
the owner moves a read (`ReadHolds`), nobody but the owner parks (`ParkingStep`), and an
event or an outcome is never recorded without waking everybody (`Works`). `ReadsGoOn` is
the step of `ReadsAnswered`: once its build is over a read is no longer parked, and its
next turn ends it or leads to the next event, since a turn that stayed at its event would
be at the last event of a successful build, which ends the read (`Emptied`, `Crowned`).

*PluginServer.* `ServerInvariant` says that everything a project name passes through
was gated first (`Gated`), that a shared server's connection can be closed by nobody
but the call that took it out of the shared reference first, and that this call is for
another project than the server's (`Sharing`).
`SerialInvariant` describes, for the one active call, the process state at each phase
(`Stage`). The overlapping case is where `OwnDatabase` fails, as `server_mixed` shows.

`CallsAnswered` needs no invariant but the types: a call without an answer keeps its
deadline until that fires or the work ends first, and after it the acknowledgement of
its clean-up is awaited no longer than a timer.

*StagingSweep.* `FlagTrue` is inductive with the types. The two throttles need that
the ages of the code are the true ones, and that the age a sweep took along when it
started is never more than the true one.

*GitDiffCheckpoint.* `Typed` adds to the types what a scan's stage says of its fields.
`CoveredInvariant` says that histories are closed under ancestors and only grow, that
the checkpoint a scan was given is still covered, that its merge base is an ancestor
of that checkpoint, and that the range it routes is the whole range. Then a completed
route covers its range and the merge base covers the rest. Nothing in it speaks of
HEAD or the files at the time of recording, which is why neither the developer nor
another rescan can break it. `ForeignLost` says that a checkpoint found foreign is
collected, and stays so.

`CheckpointCatchesUp` is an argument about what a rescan remembers. A scan is `Current`
when the HEAD it read is the HEAD that is there. In a quiet repository every scan is,
once it has come to an end (`RescansEnd`), and stays so. From then on a record moves the
checkpoint to HEAD or leaves it, so HEAD is not left again once it is reached; and a
rescan that starts behind HEAD is `Catching`: whatever the relation of the checkpoint to
HEAD, and whatever the other rescan records meanwhile, its scan ends in a batch that is
routed or skipped over an answered range, or in a checkpoint found lost, and either
moves the checkpoint to HEAD. With more rescans the same argument needs an induction
over their number, which the prover cannot do.

*SessionWork.* `SessionInvariant` is inductive. `ReleasedEmpty` needs that a session is
the manager's exactly while it is live (`OneLive`), that a completion resolved a
session with evidence (`Bound`), and that evidence only grows. `FinalSyncs` is an
argument about the last completion to look at the progress: `Bound` says that every
other one had marked its dimension before it looked, so the last one sees all of them.

*VectorStores.* `LockExcludes` is inductive with the types: only the holder moves
between taking the lock and leaving it, and nobody else writes the route. Under it the
steps before the rename map to stutters of the register, the rename to its swap. For
`RemovalReaches` the invariant follows a removal through its list: a store that was
cleaned, or that is not on the list, holds nothing of the scope that is not in `since`.

*Only model-checked.* `ReadsAnswered`, `DisposeFinishes` and `Drained`: a read may wait
for one event after another (`ReadsGoOn` is one such step), shutdown for one worker after
another, and the work due is done item by item, so each is an induction, over the log,
the builds and the items,
with a temporal formula as its step, which the prover's rule for propositional temporal
logic cannot do. `CatchesUp` for more than two rescans, for the same reason. Which
guards enable which actions, as said under *Fairness*.

## 6. What is not modelled

* Analysis, ranking, budgeting, projection and formatting: pure functions of data.
* The inside of `@alembic/core`: the drivers of the sweep, the checkpoint table, plans,
  sessions and repositories appear through the calls this repository makes.
* The five commands of `#collectSnapshot` see one moment; a file saved between two of
  them would only appear in one more or one fewer event of a dirty file.
* `cat-file` failing together with `merge-base`: the code then re-baselines an existing
  checkpoint. The action models it; the runs and `ResetsForeign` exclude it by `Faults`.
* The fact-session registry of the graph provider.
* The contents of a plan, a briefing, a coverage ledger and a skill; the awaits inside a
  completion that touch none of the shared state. Whether Core gives up a session is
  left open, not modelled.
* The inside of Core's vector adapter: a store is taken to read and write its one
  content, and opening one and the operation on it are one step: an operation on a
  generation removed since the route was read is rejected, while in the code an adapter
  opened in time may go on; what it then writes is Core's. Two adapters opened at once on
  one generation are a hazard of their own.
* The certified carrier of a session while a completion adds its receipts to a copy
  of it: a hazard, and the first item of the plan.
* The parts listed `not_modelled` in `PROJECT.json`, with the reason for each.

## 7. Plan

Done, in order of importance: `BuildSession`, `PluginServer`, `StagingSweep`,
`GitDiffCheckpoint`, `SessionWork` over `GenerateSession`, `VectorStores` over
`VectorRoute` with its abstract `RouteRegister`; the abstract `PagedFeed` of the build
sessions; their proofs.

Next:

1. `CertifiedFacts`: a consumer clones the certified carrier of the session, adds its
   receipt across awaits, and replaces the session's carrier as a whole
   (`persistPluginCertifiedCarrier`). To check: a receipt that a consumer reported is
   in the carrier a later consumer reads, when two consumers overlap.
2. `FileChangeHandler`, composed with `GitDiffCheckpoint`: the repair of source
   references and the proposals of a batch, with a failure between two events and a
   retry of the same range; and the diff each event is assessed with (a path both
   committed and dirty is assessed by its dirty change only).
3. Plugin jobs (read-modify-write of a job file by two processes), skill delivery, and
   the crash points of `CleanupService`.
