------------------------ MODULE VectorStores_proofs ------------------------
(***************************************************************************)
(* Proofs about the route and the stores behind it, for any number of      *)
(* activations, generations, documents and calls.                          *)
(*                                                                         *)
(* The route: RouteTypeOK and LockExcludes are inductive together, since   *)
(* only the holder of the lock renames.  With them every step of an        *)
(* activation is a step of RouteRegister or leaves it alone.               *)
(*                                                                         *)
(* The removals: what a removal has cleaned holds only what was put since, *)
(* and it has still to visit, or has failed at, every generation it has    *)
(* not cleaned and that existed when it listed them (Cleaned).             *)
(***************************************************************************)
EXTENDS VectorStores, TLAPS

-----------------------------------------------------------------------------
(* The route                                                               *)

LEMMA MoveTyped ==
    ASSUME RouteTypeOK, NEW a \in Activations, NEW step \in Running \cup {"idle", "done", "dead"},
           NEW answer \in {"none", "true", "false", "error"}, Move(a, step, answer)
    PROVE  /\ act' \in [Activations -> Activation]
           /\ act'[a].step = step
           /\ act'[a].next = act[a].next
           /\ act'[a].expected = act[a].expected
           /\ act'[a].answer = answer
           /\ \A b \in Activations \ {a} : act'[b] = act[b]
<1> DEFINE new == [act[a] EXCEPT !.step = step, !.answer = answer]
<1>1. act[a] \in Activation
    BY DEF RouteTypeOK
<1>2. /\ new \in Activation
      /\ new.step = step
      /\ new.next = act[a].next
      /\ new.expected = act[a].expected
      /\ new.answer = answer
    BY <1>1 DEF Activation
<1>3. act' = [act EXCEPT ![a] = new]
    BY DEF Move
<1> HIDE DEF new
<1>4. /\ act' \in [Activations -> Activation]
      /\ act'[a] = new
      /\ \A b \in Activations \ {a} : act'[b] = act[b]
    BY <1>2, <1>3 DEF RouteTypeOK
<1> QED BY <1>2, <1>4

LEMMA ActivateTyped ==
    ASSUME RouteTypeOK, NEW a \in Activations, Activate(a)
    PROVE  /\ act' \in [Activations -> Activation]
           /\ act'[a].step = "lock"
           /\ act'[a].answer = "none"
           /\ \A b \in Activations \ {a} : act'[b] = act[b]
<1>1. PICK next \in Generations, expected \in Generations \cup {None} :
        act' = [act EXCEPT ![a] = [step |-> "lock", next |-> next,
                                   expected |-> expected, answer |-> "none"]]
    BY DEF Activate
<1> DEFINE new == [step |-> "lock", next |-> next,
                   expected |-> expected, answer |-> "none"]
<1>2. new \in Activation /\ new.step = "lock" /\ new.answer = "none"
    BY DEF Activation, Running
<1>3. act' = [act EXCEPT ![a] = new]
    BY <1>1
<1> HIDE DEF new
<1>4. /\ act' \in [Activations -> Activation]
      /\ act'[a] = new
      /\ \A b \in Activations \ {a} : act'[b] = act[b]
    BY <1>2, <1>3 DEF RouteTypeOK
<1> QED BY <1>2, <1>4

RouteInv == RouteTypeOK /\ LockExcludes

LEMMA RouteInitial == RouteInit => RouteInv
BY RouteAssumption
   DEF RouteInit, RouteInv, RouteTypeOK, LockExcludes, Activation, Holding, Running

(* A move of one activation keeps the lock exclusive when the mover has    *)
(* the lock it needs and takes nothing from the others.                    *)
LEMMA MoveKeeps ==
    ASSUME RouteInv, NEW a \in Activations, NEW step \in Running \cup {"idle", "done", "dead"},
           NEW answer \in {"none", "true", "false", "error"}, Move(a, step, answer),
           route' \in Generations \cup {None},
           lock' \in Activations \cup {None},
           step \in Holding => lock' = a,
           step \in {"write", "rename"} => route' = act[a].expected,
           \A b \in Activations \ {a} : act[b].step \in Holding => lock' = lock,
           \A b \in Activations \ {a} : act[b].step \in {"write", "rename"} => route' = route
    PROVE  RouteInv'
<1>1. /\ act' \in [Activations -> Activation]
      /\ act'[a].step = step
      /\ act'[a].expected = act[a].expected
      /\ \A b \in Activations \ {a} : act'[b] = act[b]
    BY MoveTyped DEF RouteInv
<1>2. RouteTypeOK'
    BY <1>1 DEF RouteTypeOK
<1>3. ASSUME NEW b \in Activations, act'[b].step \in Holding
      PROVE  lock' = b
    BY <1>1, <1>3 DEF RouteInv, LockExcludes
<1>4. ASSUME NEW b \in Activations, act'[b].step \in {"write", "rename"}
      PROVE  route' = act'[b].expected
    BY <1>1, <1>4 DEF RouteInv, LockExcludes
<1> QED BY <1>2, <1>3, <1>4 DEF RouteInv, LockExcludes

(* A step of one activation keeps the lock exclusive.                      *)
LEMMA RouteStepKeeps ==
    ASSUME RouteInv, NEW a \in Activations, Activate(a) \/ RouteStep(a) \/ Die(a)
    PROVE  RouteInv'
<1>0. /\ act[a] \in Activation
      /\ route \in Generations \cup {None}
      /\ lock \in Activations \cup {None}
      /\ act[a].step \in Holding => lock = a
      /\ act[a].step \in {"write", "rename"} => route = act[a].expected
    BY DEF RouteInv, RouteTypeOK, LockExcludes
<1> USE DEF Holding, Running
<1>1. CASE Activate(a)
  <2>1. /\ act' \in [Activations -> Activation]
        /\ act'[a].step = "lock"
        /\ \A b \in Activations \ {a} : act'[b] = act[b]
        /\ route' = route /\ lock' = lock
      BY <1>1, ActivateTyped DEF RouteInv, Activate
  <2> QED BY <2>1 DEF RouteInv, RouteTypeOK, LockExcludes
<1>2. CASE AcquireLock(a)
  <2>1. \A b \in Activations \ {a} : act[b].step \notin Holding
      BY <1>2, RouteAssumption DEF AcquireLock, RouteInv, LockExcludes
  <2> QED BY <1>0, <1>2, <2>1, MoveKeeps DEF AcquireLock, Proceed, Activation
<1>3. CASE LockFails(a)
    BY <1>0, <1>3, MoveKeeps DEF LockFails
<1>4. CASE Compare(a)
    BY <1>0, <1>4, MoveKeeps DEF Compare, Proceed, Activation
<1>5. CASE CompareFails(a)
    BY <1>0, <1>5, MoveKeeps DEF CompareFails
<1>6. CASE WriteTemporary(a)
    BY <1>0, <1>6, MoveKeeps DEF WriteTemporary, Proceed, Activation
<1>7. CASE RenameTemporary(a)
  <2>1. \A b \in Activations \ {a} : act[b].step \notin {"write", "rename"}
      BY <1>7 DEF RenameTemporary, RouteInv, LockExcludes
  <2>2. act[a].next \in Generations \cup {None}
      BY <1>0 DEF Activation
  <2> QED BY <1>0, <1>7, <2>1, <2>2, MoveKeeps DEF RenameTemporary
<1>8. CASE ReplaceFails(a)
    BY <1>0, <1>8, MoveKeeps DEF ReplaceFails
<1>9. CASE DiscardTemporary(a)
    BY <1>0, <1>9, MoveKeeps DEF DiscardTemporary, Activation
<1>10. CASE ReleaseLock(a)
  <2>1. \A b \in Activations \ {a} : act[b].step \notin Holding
      BY <1>10 DEF ReleaseLock, RouteInv, LockExcludes
  <2> QED BY <1>0, <1>10, <2>1, MoveKeeps DEF ReleaseLock, Proceed, Activation
<1>11. CASE ReleaseFails(a)
    BY <1>0, <1>11, MoveKeeps DEF ReleaseFails
<1>12. CASE Die(a)
    BY <1>0, <1>12, MoveKeeps DEF Die, Proceed, Activation
<1> QED BY <1>1, <1>2, <1>3, <1>4, <1>5, <1>6, <1>7, <1>8, <1>9, <1>10, <1>11, <1>12
        DEF RouteStep

LEMMA RouteKept == RouteInv /\ [Next]_vars => RouteInv'
<1> SUFFICES ASSUME RouteInv, [Next]_vars PROVE RouteInv'
    OBVIOUS
<1>1. CASE RouteNext
    BY <1>1, RouteStepKeeps DEF RouteNext
<1>2. CASE UNCHANGED routeVars
    BY <1>2 DEF routeVars, RouteInv, RouteTypeOK, LockExcludes
<1> QED BY <1>1, <1>2 DEF Next, vars, routeVars

(* The directory lock of withExclusiveDirectoryLock excludes, and the      *)
(* route an activation compared with is still there when it renames.       *)
THEOREM LockIsExclusive == Spec => []LockExcludes
<1>1. Init => RouteInv
    BY RouteInitial DEF Init
<1>2. RouteInv => LockExcludes
    BY DEF RouteInv
<1> QED BY <1>1, <1>2, RouteKept, PTL DEF Spec

-----------------------------------------------------------------------------
(* The register                                                            *)

AllCalls == [b \in Activations |-> CallOf(b)]

(* A move of an activation is a move of its call.                          *)
LEMMA CallMoves ==
    ASSUME RouteInv, NEW a \in Activations, NEW step \in Running \cup {"idle", "done", "dead"},
           NEW answer \in {"none", "true", "false", "error"}, Move(a, step, answer)
    PROVE  Register!Move(a, Phase(step), answer)
<1> DEFINE new == [phase |-> Phase(step), next |-> AllCalls[a].next,
                   expected |-> AllCalls[a].expected, answer |-> answer]
<1>1. /\ act'[a].step = step
      /\ act'[a].next = act[a].next
      /\ act'[a].expected = act[a].expected
      /\ act'[a].answer = answer
      /\ \A b \in Activations \ {a} : act'[b] = act[b]
    BY MoveTyped DEF RouteInv
<1>2. AllCalls[a] = CallOf(a)
    BY DEF AllCalls
<1>3. CallOf(a)' = new
    BY <1>1, <1>2 DEF CallOf
<1>4. \A b \in Activations \ {a} : CallOf(b)' = CallOf(b)
    BY <1>1 DEF CallOf
<1>5. AllCalls' = [AllCalls EXCEPT ![a] = new]
  <2> HIDE DEF new
  <2>1. AllCalls' = [b \in Activations |-> CallOf(b)']
      BY DEF AllCalls
  <2>2. [AllCalls EXCEPT ![a] = new] = [b \in Activations |-> IF b = a THEN new ELSE CallOf(b)]
      BY DEF AllCalls
  <2>3. \A b \in Activations : CallOf(b)' = IF b = a THEN new ELSE CallOf(b)
      BY <1>3, <1>4
  <2> QED BY <2>1, <2>2, <2>3
<1> QED BY <1>5 DEF Register!Move, AllCalls

LEMMA RegisterInitial == RouteInit => Register!Init
<1> SUFFICES ASSUME RouteInit PROVE Register!Init
    OBVIOUS
<1>1. \A a \in Activations : CallOf(a) = Register!Idle
    BY DEF RouteInit, CallOf, Phase, Register!Idle
<1> QED BY <1>1 DEF Register!Init, RouteInit

(* A step of an activation is a step of its call.                          *)
LEMMA StepIsRegisterStep ==
    ASSUME RouteInv, NEW a \in Activations, Activate(a) \/ RouteStep(a) \/ Die(a)
    PROVE  Register!Next \/ UNCHANGED Register!vars
<1>0. /\ act[a] \in Activation
      /\ AllCalls[a] = CallOf(a)
      /\ act[a].step \in {"write", "rename"} => route = act[a].expected
    BY DEF RouteInv, RouteTypeOK, LockExcludes, AllCalls
<1>1. /\ AllCalls[a].phase = Phase(act[a].step)
      /\ AllCalls[a].next = act[a].next
      /\ AllCalls[a].expected = act[a].expected
      /\ AllCalls[a].answer = act[a].answer
    BY <1>0 DEF CallOf
<1>2. \A step, answer : Move(a, step, answer) /\ step \in Running \cup {"idle", "done", "dead"}
          /\ answer \in {"none", "true", "false", "error"}
          => Register!Move(a, Phase(step), answer)
    BY CallMoves
<1>3. /\ Phase("idle") = "idle" /\ Phase("lock") = "pending"
      /\ Phase("compare") = "pending" /\ Phase("write") = "pending"
      /\ Phase("rename") = "pending" /\ Phase("discard") = "decided"
      /\ Phase("unlock") = "decided" /\ Phase("done") = "answered"
      /\ Phase("dead") = "dead"
    BY DEF Phase
<1> USE <1>0, <1>1, <1>2, <1>3 DEF Running, Holding, Proceed, AllCalls, Activation
<1>4. CASE Activate(a)
  <2>1. PICK next \in Generations, expected \in Generations \cup {None} :
          act' = [act EXCEPT ![a] = [step |-> "lock", next |-> next,
                                     expected |-> expected, answer |-> "none"]]
      BY <1>4 DEF Activate
  <2> DEFINE new == [phase |-> "pending", next |-> next,
                     expected |-> expected, answer |-> "none"]
  <2>2. CallOf(a)' = new
      BY <2>1 DEF CallOf, RouteInv, RouteTypeOK
  <2>3. \A b \in Activations \ {a} : CallOf(b)' = CallOf(b)
      BY <2>1 DEF CallOf, RouteInv, RouteTypeOK
  <2>4. AllCalls' = [AllCalls EXCEPT ![a] = new]
    <3> HIDE DEF new
    <3>1. AllCalls' = [b \in Activations |-> CallOf(b)']
        OBVIOUS
    <3>2. [AllCalls EXCEPT ![a] = new] = [b \in Activations |-> IF b = a THEN new ELSE CallOf(b)]
        OBVIOUS
    <3>3. \A b \in Activations : CallOf(b)' = IF b = a THEN new ELSE CallOf(b)
        BY <2>2, <2>3
    <3> QED BY <3>1, <3>2, <3>3
  <2>5. Register!Invoke(a)
      BY <1>4, <2>4 DEF Activate, Register!Invoke
  <2> QED BY <2>5 DEF Register!Next
<1>5. CASE LockFails(a)
  <2>1. Register!Move(a, "answered", "error")
      BY <1>5 DEF LockFails
  <2>2. Register!Fail(a)
      BY <1>5, <2>1 DEF LockFails, Register!Fail
  <2> QED BY <2>2 DEF Register!Next
<1>6. CASE AcquireLock(a) \/ WriteTemporary(a) \/ (Compare(a) /\ route = act[a].expected)
  <2>1. Register!Move(a, "pending", act[a].answer) /\ UNCHANGED route
      BY <1>6 DEF AcquireLock, WriteTemporary, Compare
  <2>2. /\ CallOf(a) = [phase |-> "pending", next |-> act[a].next,
                        expected |-> act[a].expected, answer |-> act[a].answer]
      BY <1>6 DEF AcquireLock, WriteTemporary, Compare, CallOf
  <2>3. AllCalls' = AllCalls
      BY <2>1, <2>2 DEF Register!Move
  <2> QED BY <2>1, <2>3 DEF Register!vars
<1>7. CASE Compare(a) /\ route # act[a].expected
  <2>1. Register!Refuse(a)
      BY <1>7 DEF Compare, Register!Refuse, Register!Decide
  <2> QED BY <2>1 DEF Register!Next
<1>8. CASE CompareFails(a) \/ ReplaceFails(a)
  <2>1. Register!Move(a, "decided", "error")
      BY <1>8 DEF CompareFails, ReplaceFails
  <2>2. Register!Fail(a)
      BY <1>8, <2>1 DEF CompareFails, ReplaceFails, Register!Fail
  <2> QED BY <2>2 DEF Register!Next
<1>9. CASE RenameTemporary(a)
  <2>1. Register!Swap(a)
      BY <1>9 DEF RenameTemporary, Register!Swap, Register!Decide
  <2> QED BY <2>1 DEF Register!Next
<1>10. CASE DiscardTemporary(a)
  <2>1. PICK answer \in {act[a].answer, "error"} : Move(a, "unlock", answer)
      BY <1>10 DEF DiscardTemporary
  <2>2. Register!Move(a, "decided", answer) /\ UNCHANGED route /\ AllCalls[a].phase = "decided"
      BY <1>10, <2>1 DEF DiscardTemporary
  <2>3. CASE answer = "error"
    <3>1. Register!Spoil(a)
        BY <2>2, <2>3 DEF Register!Spoil
    <3> QED BY <3>1 DEF Register!Next
  <2>4. CASE answer = act[a].answer
    <3>1. CallOf(a) = [phase |-> "decided", next |-> act[a].next,
                       expected |-> act[a].expected, answer |-> act[a].answer]
        BY <1>10 DEF DiscardTemporary, CallOf
    <3>2. AllCalls' = AllCalls
        BY <2>2, <2>4, <3>1 DEF Register!Move
    <3> QED BY <2>2, <3>2 DEF Register!vars
  <2> QED BY <2>3, <2>4
<1>11. CASE ReleaseLock(a) \/ ReleaseFails(a)
  <2>1. PICK answer \in {act[a].answer, "error"} : Move(a, "done", answer)
      BY <1>11 DEF ReleaseLock, ReleaseFails
  <2>2. Register!Move(a, "answered", answer)
      BY <2>1
  <2>3. Register!Answer(a)
      BY <1>11, <2>2 DEF ReleaseLock, ReleaseFails, Register!Answer
  <2> QED BY <2>3 DEF Register!Next
<1>12. CASE Die(a)
  <2>1. Register!Move(a, "dead", AllCalls[a].answer)
      BY <1>12 DEF Die
  <2>2. Register!Die(a)
      BY <1>12, <2>1 DEF Die, Register!Die
  <2> QED BY <2>2 DEF Register!Next
<1> QED BY <1>4, <1>5, <1>6, <1>7, <1>8, <1>9, <1>10, <1>11, <1>12 DEF RouteStep

(* An activation is atomic: whatever its steps, failures and deaths, what  *)
(* the callers and the readers of the route see is a compare-and-swap.     *)
THEOREM ActivationsImplementRegister == Spec => ActivationsAreAtomic
<1>1. Init => RouteInv /\ Register!Init
    BY RouteInitial, RegisterInitial DEF Init
<1>2. RouteInv /\ [Next]_vars => [Register!Next]_(Register!vars)
  <2> SUFFICES ASSUME RouteInv, [Next]_vars
               PROVE  Register!Next \/ UNCHANGED Register!vars
      OBVIOUS
  <2>1. CASE RouteNext
      BY <2>1, StepIsRegisterStep DEF RouteNext
  <2>2. CASE UNCHANGED routeVars
      BY <2>2 DEF routeVars, Register!vars, CallOf
  <2> QED BY <2>1, <2>2 DEF Next, vars, routeVars
<1> QED BY <1>1, <1>2, RouteKept, PTL DEF Spec, ActivationsAreAtomic, Register!Spec

-----------------------------------------------------------------------------
(* The removals                                                            *)

(* What a removal has done at each of its steps.                           *)
Settled(c) ==
    /\ work[c].step \notin {"put", "open"}
    /\ work[c].step \in {"list", "visit", "finish", "done"} =>
          Base \in work[c].failed \/ CleanOf(c, Base)
    /\ work[c].step \in {"visit", "finish", "done"} =>
          \A g \in Generations \ (work[c].todo \cup work[c].failed) : CleanOf(c, g)
    /\ work[c].step # "visit" => work[c].todo = {}
    /\ work[c].step # "done" => ~work[c].ok
    /\ work[c].ok => work[c].failed = {}

(* A call that makes a shadow has the generation it is for.                *)
Equipped(w) == w.step = "open" => w.store \in Generations

Cleaned ==
    /\ StoreTypeOK
    /\ \A c \in Calls : Equipped(work[c])
    /\ \A g \in Generations \ gens : docs[g] = {}
    /\ \A c \in Calls : Removing(c) => Settled(c)

LEMMA StoresInitial == StoreInit => Cleaned
BY DEF StoreInit, Cleaned, StoreTypeOK, Stores, Work, NoWork, Steps, Removing, Equipped

LEMMA BecomeTyped ==
    ASSUME StoreTypeOK, NEW c \in Calls, NEW w \in Work, Become(c, w)
    PROVE  /\ work' \in [Calls -> Work]
           /\ work'[c] = w
           /\ \A k \in Calls \ {c} : work'[k] = work[k]
BY DEF StoreTypeOK, Become

(* Other calls may put documents, which a removal counts, and take them.   *)
Counted(k) ==
    /\ since[k] \subseteq since'[k]
    /\ \A s \in Stores : \A d \in docs'[s] : d \in docs[s] \/ <<s, d>> \in since'[k]

LEMMA StaysSettled ==
    ASSUME Cleaned, NEW k \in Calls, work'[k] = work[k], Removing(k), Counted(k)
    PROVE  Removing(k)' /\ Settled(k)'
<1>1. Settled(k)
    BY DEF Cleaned
<1>2. \A s \in Stores : CleanOf(k, s) => CleanOf(k, s)'
    BY DEF CleanOf, Counted
<1>3. \A g \in Generations : CleanOf(k, g) => CleanOf(k, g)'
    BY <1>2 DEF Stores
<1>4. CleanOf(k, Base) => CleanOf(k, Base)'
    BY <1>2 DEF Stores
<1> QED BY <1>1, <1>3, <1>4 DEF Settled, Removing

(* A step of one call.                                                     *)
LEMMA CallKeeps ==
    ASSUME Cleaned, NEW c \in Calls, NEW w \in Work, Become(c, w), Equipped(w),
           gens' \in SUBSET Generations,
           docs' \in [Stores -> SUBSET Docs],
           since' \in [Calls -> SUBSET (Stores \X Docs)],
           \A g \in Generations \ gens' : docs'[g] = {},
           \A k \in Calls \ {c} : Removing(k) => Counted(k),
           w.op = "remove" => Settled(c)'
    PROVE  Cleaned'
<1>1. /\ work' \in [Calls -> Work]
      /\ work'[c] = w
      /\ \A k \in Calls \ {c} : work'[k] = work[k]
    BY BecomeTyped DEF Cleaned
<1>2. StoreTypeOK'
    BY <1>1 DEF StoreTypeOK
<1>3. ASSUME NEW k \in Calls, Removing(k)'
      PROVE  Settled(k)'
  <2>1. CASE k = c
      BY <1>1, <1>3, <2>1 DEF Removing
  <2>2. CASE k # c
    <3>1. Removing(k)
        BY <1>1, <1>3, <2>2 DEF Removing
    <3> QED BY <1>1, <2>2, <3>1, StaysSettled
  <2> QED BY <2>1, <2>2
<1>4. \A k \in Calls : Equipped(work'[k])
    BY <1>1 DEF Cleaned
<1> QED BY <1>2, <1>3, <1>4 DEF Cleaned

(* A step that leaves the stores alone.                                    *)
LEMMA QuietCallKeeps ==
    ASSUME Cleaned, NEW c \in Calls, NEW w \in Work, Become(c, w), Equipped(w),
           UNCHANGED <<gens, docs, since>>,
           w.op = "remove" => Settled(c)'
    PROVE  Cleaned'
BY CallKeeps DEF Cleaned, StoreTypeOK, Counted

LEMMA WorkTyped ==
    ASSUME Cleaned, NEW c \in Calls
    PROVE  /\ work[c] \in Work
           /\ Equipped(work[c])
           /\ Removing(c) => Settled(c)
           /\ \A s \in Stores : docs[s] \in SUBSET Docs
           /\ since[c] \in SUBSET (Stores \X Docs)
BY DEF Cleaned, StoreTypeOK

LEMMA BeginsKeep ==
    ASSUME Cleaned, NEW c \in Calls, Upsert(c) \/ Remove(c) \/ RemoveByIdentity(c)
    PROVE  Cleaned'
<1>1. CASE Upsert(c)
  <2>1. PICK batch \in SUBSET Docs :
          Begin(c, [NoWork EXCEPT !.op = "upsert", !.step = "route", !.scope = batch])
      BY <1>1 DEF Upsert
  <2> DEFINE w == [NoWork EXCEPT !.op = "upsert", !.step = "route", !.scope = batch]
  <2>2. w \in Work /\ w.op = "upsert" /\ Equipped(w)
      BY DEF NoWork, Work, Steps, Equipped
  <2>3. Become(c, w)
      BY <2>1 DEF Begin
  <2> HIDE DEF w
  <2> QED BY <1>1, <2>2, <2>3, QuietCallKeeps DEF Upsert
<1>2. CASE Remove(c)
  <2>1. PICK d \in Docs :
          Begin(c, [NoWork EXCEPT !.op = "remove", !.step = "route", !.doc = d])
      BY <1>2 DEF Remove
  <2> DEFINE w == [NoWork EXCEPT !.op = "remove", !.step = "route", !.doc = d]
  <2>2. /\ w \in Work /\ w.op = "remove" /\ w.step = "route" /\ w.ok = FALSE
        /\ w.todo = {} /\ Equipped(w)
      BY DEF NoWork, Work, Steps, Equipped
  <2>3. Become(c, w)
      BY <2>1 DEF Begin
  <2> HIDE DEF w
  <2>4. Settled(c)'
      BY <2>2, <2>3, BecomeTyped DEF Settled, Cleaned
  <2> QED BY <1>2, <2>2, <2>3, <2>4, QuietCallKeeps DEF Remove
<1>3. CASE RemoveByIdentity(c)
  <2>1. PICK d \in Docs :
          Begin(c, [NoWork EXCEPT !.op = "remove", !.step = "base", !.scope = Versions(d)])
      BY <1>3 DEF RemoveByIdentity
  <2> DEFINE w == [NoWork EXCEPT !.op = "remove", !.step = "base", !.scope = Versions(d)]
  <2>2. /\ w \in Work /\ w.op = "remove" /\ w.step = "base" /\ w.ok = FALSE
        /\ w.todo = {} /\ Equipped(w)
      BY DEF NoWork, Work, Steps, Equipped, Versions
  <2>3. Become(c, w)
      BY <2>1 DEF Begin
  <2> HIDE DEF w
  <2>4. Settled(c)'
      BY <2>2, <2>3, BecomeTyped DEF Settled, Cleaned
  <2> QED BY <1>3, <2>2, <2>3, <2>4, QuietCallKeeps DEF RemoveByIdentity
<1> QED BY <1>1, <1>2, <1>3

LEMMA ReadsKeep ==
    ASSUME Cleaned, RouteTypeOK, NEW c \in Calls,
           ReadRoute(c) \/ LookForReplacement(c) \/ Reject(c)
    PROVE  Cleaned'
<1>0. work[c] \in Work /\ Equipped(work[c]) /\ (Removing(c) => Settled(c))
    BY WorkTyped
<1>1. CASE ReadRoute(c)
  <2> DEFINE w == [work[c] EXCEPT !.store = IF route = None THEN Base ELSE route,
                                  !.step = IF work[c].op = "upsert" THEN "put" ELSE "look"]
  <2>1. /\ w \in Work /\ w.op = work[c].op /\ w.ok = work[c].ok /\ w.failed = work[c].failed
        /\ w.todo = work[c].todo
        /\ w.op # "upsert" => w.step = "look"
        /\ Equipped(w)
      BY <1>0, <1>1 DEF Work, Steps, RouteTypeOK, Stores, Equipped, ReadRoute, At
  <2>2. Become(c, w) /\ UNCHANGED <<gens, docs, since>>
      BY <1>1 DEF ReadRoute
  <2> HIDE DEF w
  <2>3. w.op = "remove" => Settled(c)'
      BY <1>0, <1>1, <2>1, <2>2, BecomeTyped DEF Settled, Cleaned, Removing, ReadRoute, At
  <2> QED BY <2>1, <2>2, <2>3, QuietCallKeeps
<1>2. CASE LookForReplacement(c)
  <2>1. PICK scope \in SUBSET Docs :
          Become(c, [NoWork EXCEPT !.op = "remove", !.step = "base", !.scope = scope])
    <3> DEFINE replaced == work[c].store # Base
              /\ docs[work[c].store] \cap (Versions(work[c].doc) \ {work[c].doc}) # {}
    <3>1. Become(c, [NoWork EXCEPT !.op = "remove", !.step = "base",
             !.scope = {e \in Versions(work[c].doc) : replaced => e = work[c].doc}])
        BY <1>2 DEF LookForReplacement
    <3>2. Versions(work[c].doc) \in SUBSET Docs
        BY DEF Versions
    <3> QED BY <3>1, <3>2
  <2> DEFINE w == [NoWork EXCEPT !.op = "remove", !.step = "base", !.scope = scope]
  <2>2. /\ w \in Work /\ w.ok = FALSE /\ w.todo = {} /\ w.step = "base" /\ Equipped(w)
      BY DEF NoWork, Work, Steps, Equipped
  <2>3. Become(c, w) /\ UNCHANGED <<gens, docs, since>>
      BY <1>2, <2>1 DEF LookForReplacement
  <2> HIDE DEF w
  <2>4. Settled(c)'
      BY <2>2, <2>3, BecomeTyped DEF Settled, Cleaned
  <2> QED BY <2>2, <2>3, <2>4, QuietCallKeeps
<1>3. CASE Reject(c)
  <2> DEFINE w == [NoWork EXCEPT !.op = work[c].op, !.step = "done", !.failed = Stores]
  <2>1. /\ w \in Work /\ w.ok = FALSE /\ w.failed = Stores
        /\ w.step = "done" /\ w.todo = {} /\ Equipped(w)
      BY <1>0 DEF NoWork, Work, Steps, Equipped
  <2>2. Become(c, w) /\ UNCHANGED <<gens, docs, since>>
      BY <1>3 DEF Reject
  <2> HIDE DEF w
  <2>3. Settled(c)'
      BY <2>1, <2>2, BecomeTyped DEF Settled, Cleaned, Stores
  <2> QED BY <2>1, <2>2, <2>3, QuietCallKeeps
<1> QED BY <1>1, <1>2, <1>3

LEMMA PutKeeps ==
    ASSUME Cleaned, NEW c \in Calls, Put(c)
    PROVE  Cleaned'
<1> DEFINE s == work[c].store
<1>0. /\ work[c] \in Work /\ (Removing(c) => Settled(c))
      /\ ~Removing(c) /\ s \in gens \cup {Base} /\ s \in Stores
      /\ work[c].scope \in SUBSET Docs
    BY WorkTyped DEF Put, At, Settled, Cleaned, StoreTypeOK, Stores, Work
<1>1. PICK kept \in SUBSET work[c].scope, ok \in BOOLEAN :
        /\ docs' = [docs EXCEPT ![s] = @ \cup kept]
        /\ since' = [k \in Calls |->
                        IF Removing(k) THEN since[k] \cup ({s} \X kept) ELSE since[k]]
        /\ Become(c, [NoWork EXCEPT !.op = "upsert", !.step = "done", !.ok = ok])
    BY DEF Put
<1> DEFINE w == [NoWork EXCEPT !.op = "upsert", !.step = "done", !.ok = ok]
<1>2. w \in Work /\ w.op = "upsert" /\ Equipped(w)
    BY DEF NoWork, Work, Steps, Equipped
<1>3. Become(c, w)
    BY <1>1
<1>4. docs' \in [Stores -> SUBSET Docs] /\ since' \in [Calls -> SUBSET (Stores \X Docs)]
    BY <1>0, <1>1 DEF Cleaned, StoreTypeOK
<1>5. gens' = gens /\ \A g \in Generations \ gens' : docs'[g] = {}
    BY <1>0, <1>1, StoresAssumption DEF Put, Cleaned, StoreTypeOK, Stores
<1>6. \A k \in Calls : Removing(k) => Counted(k)
    BY <1>0, <1>1 DEF Cleaned, StoreTypeOK, Counted
<1> HIDE DEF w
<1> QED BY <1>0, <1>2, <1>3, <1>4, <1>5, <1>6, CallKeeps DEF Removing, Cleaned, StoreTypeOK

(* What cleaning a store does to the store, to the others and to the call. *)
CleansInto(c, s, w, v) ==
    /\ Become(c, v)
    /\ v.op = w.op /\ v.step = w.step /\ v.doc = w.doc /\ v.store = w.store
    /\ v.scope = w.scope /\ v.todo = w.todo /\ v.ok = w.ok
    /\ w.failed \subseteq v.failed
    /\ s \in v.failed \/ docs'[s] \cap v.scope = {}
    /\ docs' \in [Stores -> SUBSET Docs]
    /\ docs'[s] \subseteq docs[s]
    /\ \A t \in Stores \ {s} : docs'[t] = docs[t]
    /\ since' \in [Calls -> SUBSET (Stores \X Docs)]
    /\ since'[c] = {p \in since[c] : p[1] # s}
    /\ \A k \in Calls \ {c} : since'[k] = since[k]

LEMMA CleanDoes ==
    ASSUME Cleaned, NEW c \in Calls, NEW s \in Stores, NEW w \in Work,
           w.scope = work[c].scope, Clean(c, s, w)
    PROVE  \E v \in Work : CleansInto(c, s, w, v)
<1>1. /\ since' \in [Calls -> SUBSET (Stores \X Docs)]
      /\ since'[c] = {p \in since[c] : p[1] # s}
      /\ \A k \in Calls \ {c} : since'[k] = since[k]
    BY DEF Clean, Cleaned, StoreTypeOK
<1>2. CASE docs' = [docs EXCEPT ![s] = @ \ work[c].scope] /\ Become(c, w)
  <2>1. /\ docs' \in [Stores -> SUBSET Docs]
        /\ docs'[s] = docs[s] \ work[c].scope
        /\ \A t \in Stores \ {s} : docs'[t] = docs[t]
      BY <1>2 DEF Cleaned, StoreTypeOK
  <2> QED BY <1>1, <1>2, <2>1 DEF CleansInto
<1>3. ASSUME NEW left \in SUBSET (docs[s] \cap work[c].scope),
             docs' = [docs EXCEPT ![s] = (@ \ work[c].scope) \cup left],
             Become(c, [w EXCEPT !.failed = @ \cup {s}])
      PROVE  \E v \in Work : CleansInto(c, s, w, v)
  <2> DEFINE v == [w EXCEPT !.failed = @ \cup {s}]
  <2>1. /\ docs' \in [Stores -> SUBSET Docs]
        /\ docs'[s] \subseteq docs[s]
        /\ \A t \in Stores \ {s} : docs'[t] = docs[t]
      BY <1>3 DEF Cleaned, StoreTypeOK
  <2>2. /\ v \in Work
        /\ v.op = w.op /\ v.step = w.step /\ v.doc = w.doc /\ v.store = w.store
        /\ v.scope = w.scope /\ v.todo = w.todo /\ v.ok = w.ok
        /\ w.failed \subseteq v.failed /\ s \in v.failed
      BY DEF Work
  <2>3. Become(c, v)
      BY <1>3
  <2> HIDE DEF v
  <2> QED BY <1>1, <2>1, <2>2, <2>3 DEF CleansInto
<1> QED BY <1>2, <1>3 DEF Clean

(* A removal that cleans a store it can reach keeps what it has settled.   *)
LEMMA CleanKeeps ==
    ASSUME Cleaned, NEW c \in Calls, NEW s \in gens \cup {Base}, NEW w \in Work,
           NEW v \in Work, CleansInto(c, s, w, v), UNCHANGED gens, Equipped(v),
           w.op = "remove" => Settled(c)'
    PROVE  Cleaned'
<1>1. gens \in SUBSET Generations /\ s \in Stores
    BY DEF Cleaned, StoreTypeOK, Stores
<1>2. \A g \in Generations \ gens : docs'[g] = {}
    BY <1>1, StoresAssumption DEF CleansInto, Cleaned, Stores
<1>3. \A k \in Calls \ {c} : Counted(k)
    BY <1>1 DEF CleansInto, Counted
<1> QED BY <1>1, <1>2, <1>3, CallKeeps DEF CleansInto

LEMMA CleanBaseKeeps ==
    ASSUME Cleaned, NEW c \in Calls, CleanBase(c)
    PROVE  Cleaned'
<1> DEFINE w == [work[c] EXCEPT !.step = "list"]
<1>0. work[c] \in Work /\ Equipped(work[c]) /\ (Removing(c) => Settled(c)) /\ Base \in Stores
    BY WorkTyped DEF Stores
<1>1. /\ w \in Work /\ w.op = work[c].op /\ w.ok = work[c].ok /\ w.failed = work[c].failed
      /\ w.todo = work[c].todo /\ w.scope = work[c].scope /\ w.step = "list"
    BY <1>0 DEF Work, Steps, CleanBase, At, Equipped
<1>2. Clean(c, Base, w) /\ UNCHANGED gens /\ work[c].step = "base"
    BY DEF CleanBase, At
<1> HIDE DEF w
<1>3. PICK v \in Work : CleansInto(c, Base, w, v)
    BY <1>0, <1>1, <1>2, CleanDoes
<1>4. Equipped(v)
    BY <1>1, <1>3 DEF CleansInto, Equipped
<1>5. work'[c] = v
    BY <1>3, BecomeTyped DEF CleansInto, Cleaned
<1>6. ASSUME w.op = "remove"
      PROVE  Settled(c)'
    BY <1>0, <1>1, <1>2, <1>3, <1>5, <1>6 DEF CleansInto, Settled, CleanOf, Removing
<1> QED BY <1>2, <1>1, <1>3, <1>4, <1>6, CleanKeeps

LEMMA VisitKeeps ==
    ASSUME Cleaned, NEW c \in Calls, VisitGeneration(c)
    PROVE  Cleaned'
<1>0. work[c] \in Work /\ Equipped(work[c]) /\ (Removing(c) => Settled(c))
    BY WorkTyped
<1>1. PICK g \in work[c].todo :
        LET w == [work[c] EXCEPT !.todo = @ \ {g}] IN
        IF g \in gens
           THEN Clean(c, g, w)
           ELSE /\ Become(c, [w EXCEPT !.failed = @ \cup {g}])
                /\ UNCHANGED <<docs, since>>
    BY DEF VisitGeneration
<1> DEFINE w == [work[c] EXCEPT !.todo = @ \ {g}]
<1>2. g \in Generations /\ g \in Stores /\ g # Base /\ Base \in Stores
    BY <1>0, StoresAssumption DEF Work, Stores
<1>3. /\ w \in Work /\ w.op = work[c].op /\ w.ok = work[c].ok /\ w.failed = work[c].failed
      /\ w.todo = work[c].todo \ {g} /\ w.scope = work[c].scope /\ w.step = "visit"
      /\ work[c].step = "visit" /\ UNCHANGED gens
    BY <1>0 DEF Work, Steps, VisitGeneration, At, Equipped
<1>4. CASE g \in gens
  <2>1. Clean(c, g, w)
      BY <1>1, <1>4
  <2> HIDE DEF w
  <2>2. PICK v \in Work : CleansInto(c, g, w, v)
      BY <1>2, <1>3, <2>1, CleanDoes
  <2>3. Equipped(v)
      BY <1>3, <2>2 DEF CleansInto, Equipped
  <2>4. work'[c] = v
      BY <2>2, BecomeTyped DEF CleansInto, Cleaned
  <2>5. ASSUME w.op = "remove"
        PROVE  Settled(c)'
    <3>1. \A t \in Stores \ {g} : CleanOf(c, t) => CleanOf(c, t)'
        BY <1>3, <2>2, <2>4 DEF CleansInto, CleanOf
    <3>2. g \in v.failed \/ CleanOf(c, g)'
        BY <1>2, <2>2, <2>4 DEF CleansInto, CleanOf
    <3>3. Settled(c)
        BY <1>0, <1>3, <2>5 DEF Removing
    <3> QED BY <1>2, <1>3, <2>2, <2>4, <3>1, <3>2, <3>3 DEF CleansInto, Settled, Stores
  <2> QED BY <1>3, <1>4, <2>2, <2>3, <2>5, CleanKeeps
<1>5. CASE g \notin gens
  <2> DEFINE v == [w EXCEPT !.failed = @ \cup {g}]
  <2>1. Become(c, v) /\ UNCHANGED <<gens, docs, since>>
      BY <1>1, <1>3, <1>5
  <2> HIDE DEF w
  <2>2. /\ v \in Work /\ v.op = w.op /\ v.ok = w.ok /\ v.failed = w.failed \cup {g}
        /\ v.todo = w.todo /\ v.scope = w.scope /\ v.step = "visit"
      BY <1>2, <1>3 DEF Work
  <2> HIDE DEF v
  <2>3. Equipped(v) /\ work'[c] = v
      BY <2>1, <2>2, BecomeTyped DEF Equipped, Cleaned
  <2>4. ASSUME v.op = "remove"
        PROVE  Settled(c)'
      BY <1>0, <1>3, <2>1, <2>2, <2>3, <2>4 DEF Settled, CleanOf, Removing
  <2> QED BY <2>1, <2>2, <2>3, <2>4, QuietCallKeeps
<1> QED BY <1>4, <1>5

(* Every generation that the list leaves out is empty.                     *)
LEMMA ListKeeps ==
    ASSUME Cleaned, NEW c \in Calls, ListGenerations(c)
    PROVE  Cleaned'
<1>0. /\ work[c] \in Work /\ Equipped(work[c]) /\ (Removing(c) => Settled(c))
      /\ work[c].step = "list" /\ UNCHANGED <<gens, docs, since>>
      /\ gens \in SUBSET Generations
    BY WorkTyped DEF ListGenerations, At, Equipped, Cleaned, StoreTypeOK
<1>1. CASE Become(c, [work[c] EXCEPT !.step = "visit", !.todo = gens])
  <2> DEFINE w == [work[c] EXCEPT !.step = "visit", !.todo = gens]
  <2>1. /\ w \in Work /\ w.op = work[c].op /\ w.ok = work[c].ok /\ w.failed = work[c].failed
        /\ w.todo = gens /\ w.scope = work[c].scope /\ w.step = "visit" /\ Equipped(w)
      BY <1>0 DEF Work, Steps, Equipped
  <2>2. Become(c, w)
      BY <1>1
  <2> HIDE DEF w
  <2>3. work'[c] = w
      BY <2>1, <2>2, BecomeTyped DEF Cleaned
  <2>4. ASSUME w.op = "remove"
        PROVE  Settled(c)'
    <3>1. Base \in w.failed \/ CleanOf(c, Base)'
        BY <1>0, <2>1, <2>3, <2>4 DEF Settled, CleanOf, Removing
    <3>2. \A g \in Generations \ gens : CleanOf(c, g)'
        BY <1>0 DEF CleanOf, Cleaned
    <3> QED BY <1>0, <2>1, <2>3, <2>4, <3>1, <3>2 DEF Settled, Removing
  <2> QED BY <1>0, <2>1, <2>2, <2>4, QuietCallKeeps
<1>2. CASE Become(c, [work[c] EXCEPT !.step = "finish", !.failed = @ \cup Generations])
  <2> DEFINE w == [work[c] EXCEPT !.step = "finish", !.failed = @ \cup Generations]
  <2>1. /\ w \in Work /\ w.op = work[c].op /\ w.ok = work[c].ok
        /\ w.failed = work[c].failed \cup Generations
        /\ w.todo = work[c].todo /\ w.scope = work[c].scope /\ w.step = "finish" /\ Equipped(w)
      BY <1>0 DEF Work, Steps, Equipped, Stores
  <2>2. Become(c, w)
      BY <1>2
  <2> HIDE DEF w
  <2>3. work'[c] = w
      BY <2>1, <2>2, BecomeTyped DEF Cleaned
  <2>4. ASSUME w.op = "remove"
        PROVE  Settled(c)'
      BY <1>0, <2>1, <2>3, <2>4 DEF Settled, CleanOf, Removing
  <2> QED BY <1>0, <2>1, <2>2, <2>4, QuietCallKeeps
<1> QED BY <1>1, <1>2 DEF ListGenerations

LEMMA FinishKeeps ==
    ASSUME Cleaned, NEW c \in Calls, FinishRemoval(c)
    PROVE  Cleaned'
<1> DEFINE w == [work[c] EXCEPT !.step = "done", !.ok = (work[c].failed = {})]
<1>0. /\ work[c] \in Work /\ (Removing(c) => Settled(c))
      /\ UNCHANGED <<gens, docs, since>>
      /\ \/ work[c].step = "visit" /\ work[c].todo = {}
         \/ work[c].step = "finish"
    BY WorkTyped DEF FinishRemoval, At
<1>1. /\ w \in Work /\ w.op = work[c].op /\ w.ok = (work[c].failed = {})
      /\ w.failed = work[c].failed /\ w.todo = work[c].todo /\ w.scope = work[c].scope
      /\ w.step = "done" /\ Equipped(w)
    BY <1>0 DEF Work, Steps, Equipped
<1>2. Become(c, w)
    BY DEF FinishRemoval
<1> HIDE DEF w
<1>3. work'[c] = w
    BY <1>1, <1>2, BecomeTyped DEF Cleaned
<1>4. ASSUME w.op = "remove"
      PROVE  Settled(c)'
    BY <1>0, <1>1, <1>3, <1>4 DEF Settled, CleanOf, Removing
<1> QED BY <1>0, <1>1, <1>2, <1>4, QuietCallKeeps

(* A shadow, a generation that is removed and clear only take documents.   *)
LEMMA ShadowsKeep ==
    ASSUME Cleaned, NEW c \in Calls, CreateShadow(c) \/ OpenShadow(c)
    PROVE  Cleaned'
<1>1. CASE CreateShadow(c)
  <2>1. PICK g \in Generations :
          /\ Begin(c, [NoWork EXCEPT !.op = "shadow", !.step = "open", !.store = g])
          /\ gens' = gens \ {g}
          /\ docs' = [docs EXCEPT ![g] = {}]
      BY <1>1 DEF CreateShadow
  <2> DEFINE w == [NoWork EXCEPT !.op = "shadow", !.step = "open", !.store = g]
  <2>2. w \in Work /\ w.op = "shadow" /\ Equipped(w)
      BY DEF NoWork, Work, Steps, Stores, Equipped
  <2>3. Become(c, w) /\ UNCHANGED since
      BY <1>1, <2>1 DEF Begin, CreateShadow
  <2> HIDE DEF w
  <2>4. /\ gens' \in SUBSET Generations
        /\ docs' \in [Stores -> SUBSET Docs]
        /\ \A h \in Generations \ gens' : docs'[h] = {}
        /\ \A s \in Stores : docs'[s] \subseteq docs[s]
      BY <2>1 DEF Cleaned, StoreTypeOK, Stores
  <2>5. \A k \in Calls : Counted(k)
      BY <2>3, <2>4 DEF Counted
  <2> QED BY <2>2, <2>3, <2>4, <2>5, CallKeeps DEF Cleaned, StoreTypeOK
<1>2. CASE OpenShadow(c)
  <2>0. /\ work[c] \in Work /\ (Removing(c) => Settled(c))
        /\ work[c].step = "open" /\ UNCHANGED <<docs, since>>
        /\ work[c].store \in Generations
      BY <1>2, WorkTyped DEF OpenShadow, At, Equipped
  <2>1. PICK ok \in BOOLEAN :
          /\ gens' = IF ok THEN gens \cup {work[c].store} ELSE gens
          /\ Become(c, [NoWork EXCEPT !.op = "shadow", !.step = "done", !.ok = ok])
      BY <1>2 DEF OpenShadow
  <2> DEFINE w == [NoWork EXCEPT !.op = "shadow", !.step = "done", !.ok = ok]
  <2>2. w \in Work /\ w.op = "shadow" /\ Equipped(w)
      BY DEF NoWork, Work, Steps, Equipped
  <2>3. Become(c, w)
      BY <2>1
  <2> HIDE DEF w
  <2>4. /\ gens' \in SUBSET Generations
        /\ \A h \in Generations \ gens' : docs'[h] = {}
      BY <2>0, <2>1 DEF Cleaned, StoreTypeOK
  <2>5. \A k \in Calls : Counted(k)
      BY <2>0 DEF Counted
  <2>6. ~Removing(c)
      BY <2>0 DEF Settled
  <2> QED BY <2>0, <2>2, <2>3, <2>4, <2>5, <2>6, CallKeeps DEF Cleaned, StoreTypeOK, Removing
<1> QED BY <1>1, <1>2

LEMMA EmptyingKeeps ==
    ASSUME Cleaned, Clear \/ \E g \in Generations : RemoveGeneration(g)
    PROVE  Cleaned'
<1>1. /\ UNCHANGED <<work, since>>
      /\ gens' \in SUBSET Generations
      /\ docs' \in [Stores -> SUBSET Docs]
      /\ \A h \in Generations \ gens' : docs'[h] = {}
      /\ \A s \in Stores : docs'[s] \subseteq docs[s]
    BY StoresAssumption DEF Clear, RemoveGeneration, Cleaned, StoreTypeOK, Stores
<1>2. \A k \in Calls : Counted(k)
    BY <1>1 DEF Counted
<1>3. \A k \in Calls : Removing(k)' => Settled(k)'
    BY <1>1, <1>2, StaysSettled DEF Removing
<1> QED BY <1>1, <1>3 DEF Cleaned, StoreTypeOK, Equipped

LEMMA StoresKept == RouteTypeOK /\ Cleaned /\ [Next]_vars => Cleaned'
<1> SUFFICES ASSUME RouteTypeOK, Cleaned, [Next]_vars PROVE Cleaned'
    OBVIOUS
<1>1. CASE StoreNext
  <2>1. CASE \E c \in Calls : Upsert(c) \/ Remove(c) \/ RemoveByIdentity(c)
      BY <2>1, BeginsKeep
  <2>2. CASE \E c \in Calls : StoreStep(c)
      BY <2>2, ReadsKeep, PutKeeps, CleanBaseKeeps, ListKeeps, VisitKeeps, FinishKeeps, ShadowsKeep
         DEF StoreStep
  <2>3. CASE \E c \in Calls : CreateShadow(c)
      BY <2>3, ShadowsKeep
  <2>4. CASE Clear \/ \E g \in Generations : RemoveGeneration(g)
      BY <2>4, EmptyingKeeps
  <2> QED BY <1>1, <2>1, <2>2, <2>3, <2>4 DEF StoreNext
<1>2. CASE UNCHANGED storeVars
    BY <1>2 DEF storeVars, Cleaned, StoreTypeOK, Removing, Settled, CleanOf, Equipped
<1> QED BY <1>1, <1>2 DEF Next, vars, storeVars

LEMMA Inductive == Spec => [](RouteInv /\ Cleaned)
<1>1. Init => RouteInv /\ Cleaned
    BY RouteInitial, StoresInitial DEF Init
<1>2. RouteInv /\ Cleaned /\ [Next]_vars => RouteInv' /\ Cleaned'
    BY RouteKept, StoresKept DEF RouteInv
<1> QED BY <1>1, <1>2, PTL DEF Spec

(* The route, the lock, the stores and the calls keep their types.         *)
THEOREM TypeCorrect == Spec => []TypeOK
<1>1. RouteInv /\ Cleaned => TypeOK
    BY DEF RouteInv, Cleaned, TypeOK
<1> QED BY <1>1, Inductive, PTL

(* A removal that resolved left no document of its scope in any store that *)
(* was there, and a rejected one none in a store it did not name as failed *)
(* (removeRecipeByIdentity, RoutedRecipeVectorStore.remove).               *)
THEOREM RemovalsReach == Spec => []RemovalReaches
<1>1. Cleaned => RemovalReaches
  <2> SUFFICES ASSUME Cleaned, NEW c \in Calls, Removing(c), At(c, "done")
               PROVE  /\ \A s \in Stores \ work[c].failed : CleanOf(c, s)
                      /\ work[c].ok => work[c].failed = {}
      BY DEF RemovalReaches
  <2>1. Settled(c)
      BY DEF Cleaned
  <2> QED BY <2>1 DEF Settled, At, Stores
<1> QED BY <1>1, Inductive, PTL
=============================================================================
