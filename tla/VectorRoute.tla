-------------------------- MODULE VectorRoute --------------------------
(***************************************************************************)
(* The active route of the Recipe vector generations:                      *)
(* FileGenerationRouter.activate over GenerationPersistence                *)
(* (recipe-vector-generation-runtime.ts).  The route is the file           *)
(* active.json of a data root that several runtimes, of one process or of  *)
(* several, share.  An activation takes the lock directory beside it,      *)
(* reads the file, compares, writes a temporary file and renames it over   *)
(* the route, then removes the temporary file and the lock, each of these  *)
(* an await of its own; any of them may fail, and the process may die      *)
(* between any two.  RouteRegister states what this has to amount to.      *)
(*                                                                         *)
(* The manifest hash beside the generation identifier in the route is left *)
(* out: the comparison does not look at it.                                *)
(***************************************************************************)

CONSTANTS Activations,  \* the calls of activate, of all runtimes
          Generations,  \* identifiers of generations
          None          \* no active.json; nobody holds the lock

ASSUME RouteAssumption ==
    /\ None \notin Generations
    /\ None \notin Activations

VARIABLES route,        \* active.json: its generationId, or None
          lock,         \* the lock directory: None, or the call that made it
          act           \* each activation

routeVars == <<route, lock, act>>

(* Where an activation stands: it waits for the lock, reads and compares,  *)
(* writes the temporary file, renames it, removes it, removes the lock.    *)
Holding == {"compare", "write", "rename", "discard", "unlock"}
Running == Holding \cup {"lock"}

Activation == [step : Running \cup {"idle", "done", "dead"},
               next : Generations \cup {None},
               expected : Generations \cup {None},
               answer : {"none", "true", "false", "error"}]

(* The runtimes start on the route an earlier session left, whose lock is  *)
(* gone.                                                                   *)
RouteInit ==
    /\ route \in Generations \cup {None}
    /\ lock = None
    /\ act = [a \in Activations |->
                [step |-> "idle", next |-> None, expected |-> None, answer |-> "none"]]

(* An activation moves on, with an answer or as yet without a new one.     *)
Move(a, step, answer) ==
    act' = [act EXCEPT ![a] = [@ EXCEPT !.step = step, !.answer = answer]]

Proceed(a, step) == Move(a, step, act[a].answer)

Activate(a) ==
    /\ act[a].step = "idle"
    /\ \E next \in Generations, expected \in Generations \cup {None} :
          act' = [act EXCEPT ![a] = [step |-> "lock", next |-> next,
                                     expected |-> expected, answer |-> "none"]]
    /\ UNCHANGED <<route, lock>>

(* Mutant: a lock that has been there for too long is taken over.          *)
AcquireLock_TakeOver(a) ==
    /\ act[a].step = "lock"
    /\ lock' = a
    /\ Proceed(a, "compare")
    /\ UNCHANGED route

(* mkdir without `recursive`: it succeeds for one caller only.             *)
AcquireLock(a) ==
    /\ act[a].step = "lock"
    /\ lock = None
    /\ lock' = a
    /\ Proceed(a, "compare")
    /\ UNCHANGED route

(* Another error of mkdir, or EEXIST with the deadline behind: the call is *)
(* rejected and the lock of the other is left where it is.  The 5 ms       *)
(* between two attempts are time only.                                     *)
LockFails(a) ==
    /\ act[a].step = "lock"
    /\ Move(a, "done", "error")
    /\ UNCHANGED <<route, lock>>

(* Mutant: a missing route agrees with every expectation.                  *)
Compare_Missing(a) ==
    /\ act[a].step = "compare"
    /\ IF route \in {None, act[a].expected}
          THEN Proceed(a, "write")
          ELSE Move(a, "unlock", "false")
    /\ UNCHANGED <<route, lock>>

(* The route is read and compared under the lock.                          *)
Compare(a) ==
    /\ act[a].step = "compare"
    /\ IF route = act[a].expected
          THEN Proceed(a, "write")
          ELSE Move(a, "unlock", "false")
    /\ UNCHANGED <<route, lock>>

(* readActive throws: an unreadable or corrupt route is not "no route".    *)
CompareFails(a) ==
    /\ act[a].step = "compare"
    /\ Move(a, "unlock", "error")
    /\ UNCHANGED <<route, lock>>

WriteTemporary(a) ==
    /\ act[a].step = "write"
    /\ Proceed(a, "rename")
    /\ UNCHANGED <<route, lock>>

RenameTemporary(a) ==
    /\ act[a].step = "rename"
    /\ route' = act[a].next
    /\ Move(a, "discard", "true")
    /\ UNCHANGED lock

(* Writing or renaming fails: the finally clauses run, then it is thrown.  *)
ReplaceFails(a) ==
    /\ act[a].step \in {"write", "rename"}
    /\ Move(a, "discard", "error")
    /\ UNCHANGED <<route, lock>>

(* rm of the temporary file; when it throws, that is the call's outcome.   *)
DiscardTemporary(a) ==
    /\ act[a].step = "discard"
    /\ \E answer \in {act[a].answer, "error"} : Move(a, "unlock", answer)
    /\ UNCHANGED <<route, lock>>

ReleaseLock(a) ==
    /\ act[a].step = "unlock"
    /\ lock' = None
    /\ Proceed(a, "done")
    /\ UNCHANGED route

(* rm of the lock throws: the call is rejected whatever it had decided,    *)
(* and the directory stays.                                                *)
ReleaseFails(a) ==
    /\ act[a].step = "unlock"
    /\ Move(a, "done", "error")
    /\ UNCHANGED <<route, lock>>

(* The process dies: no finally clause runs and the lock stays.            *)
Die(a) ==
    /\ act[a].step \in Running
    /\ Proceed(a, "dead")
    /\ UNCHANGED <<route, lock>>

RouteStep(a) ==
    \/ AcquireLock(a) \/ LockFails(a)
    \/ Compare(a) \/ CompareFails(a)
    \/ WriteTemporary(a) \/ RenameTemporary(a) \/ ReplaceFails(a)
    \/ DiscardTemporary(a)
    \/ ReleaseLock(a) \/ ReleaseFails(a)

RouteNext == \E a \in Activations : Activate(a) \/ RouteStep(a) \/ Die(a)

-----------------------------------------------------------------------------
RouteTypeOK ==
    /\ route \in Generations \cup {None}
    /\ lock \in Activations \cup {None}
    /\ act \in [Activations -> Activation]

(* The lock excludes: whoever works under it made the directory, and what  *)
(* it compared with is still the route when it comes to the rename, though *)
(* the holder may be paused, fail or die anywhere in between               *)
(* (withExclusiveDirectoryLock, activate).                                 *)
LockExcludes ==
    /\ \A a \in Activations : act[a].step \in Holding => lock = a
    /\ \A a \in Activations :
          act[a].step \in {"write", "rename"} => route = act[a].expected

-----------------------------------------------------------------------------
(* The part an activation plays in the register: it is pending until the   *)
(* rename, the refusal or the failure that decides it.                     *)
Phase(step) ==
    CASE step = "idle" -> "idle"
      [] step \in {"lock", "compare", "write", "rename"} -> "pending"
      [] step \in {"discard", "unlock"} -> "decided"
      [] step = "done" -> "answered"
      [] OTHER -> "dead"

CallOf(a) == [phase |-> Phase(act[a].step), next |-> act[a].next,
              expected |-> act[a].expected, answer |-> act[a].answer]

Register == INSTANCE RouteRegister WITH call <- [a \in Activations |-> CallOf(a)]
=============================================================================
