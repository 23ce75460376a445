-------------------------- MODULE VectorStores --------------------------
(***************************************************************************)
(* The stores behind the route: the base store and one store per           *)
(* generation directory (recipe-vector-generation-runtime.ts), with the    *)
(* calls of RoutedRecipeVectorStore, of GenerationRecipeVectorTruthRemover *)
(* and of JsonGenerationStoreFactory that change them, interleaved at      *)
(* their awaits with one another and with the activations of VectorRoute.  *)
(*                                                                         *)
(* A document of a Recipe is one content-hash version of it; documents     *)
(* that belong to no Recipe only pass through to the base store and are    *)
(* left out.  The adapter of a store (JsonVectorAdapter, of Core) is taken *)
(* to read and write the store's one content; opening an adapter and the   *)
(* operation on it are one step, so an operation on a generation that was  *)
(* removed since the route was read is rejected.                           *)
(***************************************************************************)
EXTENDS VectorRoute

CONSTANTS Calls,        \* the calls on the stores
          Docs,         \* documents of Recipes
          RecipeOf,     \* the Recipe a document is a version of
          Base          \* the base store

ASSUME StoresAssumption == Base \notin Generations \cup {None}

VARIABLES gens,         \* the generations whose directory exists
          docs,         \* the documents in each store
          work,         \* each call on the stores
          since         \* of a removal: what was put into a store that it has not
                        \* cleaned since, as pairs of store and document

storeVars == <<gens, docs, work, since>>

Stores == Generations \cup {Base}

(* Where a call stands: it reads the route, looks for a live replacement,  *)
(* puts; a removal cleans the base store, lists the generations and visits *)
(* them; a shadow is wiped and opened.                                     *)
Steps == {"idle", "route", "look", "put", "base", "list", "visit", "open",
          "finish", "done"}

Work == [op : {"none", "upsert", "remove", "shadow"},
         step : Steps,
         doc : Docs \cup {None},        \* the argument of a removal by document
         store : Stores \cup {None},    \* the route it read; the shadow it makes
         scope : SUBSET Docs,           \* the documents it puts or removes
         todo : SUBSET Generations,     \* the generations it has still to visit
         failed : SUBSET Stores,        \* the stores it could not clean
         ok : BOOLEAN]                  \* it resolved

NoWork == [op |-> "none", step |-> "idle", doc |-> None, store |-> None,
           scope |-> {}, todo |-> {}, failed |-> {}, ok |-> FALSE]

(* The stores hold what an earlier session left in them.                   *)
StoreInit ==
    /\ gens \in SUBSET Generations
    /\ docs \in [Stores -> SUBSET Docs]
    /\ \A g \in Generations \ gens : docs[g] = {}
    /\ work = [c \in Calls |-> NoWork]
    /\ since = [c \in Calls |-> {}]

At(c, step) == work[c].step = step

Become(c, w) == work' = [work EXCEPT ![c] = w]

Begin(c, w) == At(c, "idle") /\ Become(c, w)

Removing(c) == work[c].op = "remove"

Versions(d) == {e \in Docs : RecipeOf[e] = RecipeOf[d]}

-----------------------------------------------------------------------------
(* RoutedRecipeVectorStore.upsert of a Recipe document, or batchUpsert of  *)
(* several: the route is read first, and a batch is put after the await of *)
(* its documents that belong to no Recipe.                                 *)
Upsert(c) ==
    /\ \E batch \in SUBSET Docs \ {{}} :
          Begin(c, [NoWork EXCEPT !.op = "upsert", !.step = "route", !.scope = batch])
    /\ UNCHANGED <<gens, docs, since>>

(* RoutedRecipeVectorStore.remove of a Recipe document.                    *)
Remove(c) ==
    /\ \E d \in Docs :
          Begin(c, [NoWork EXCEPT !.op = "remove", !.step = "route", !.doc = d])
    /\ UNCHANGED <<gens, docs, since>>

(* removeRecipeByIdentity: every version of the Recipe, without a look.    *)
RemoveByIdentity(c) ==
    /\ \E d \in Docs :
          Begin(c, [NoWork EXCEPT !.op = "remove", !.step = "base", !.scope = Versions(d)])
    /\ UNCHANGED <<gens, docs, since>>

(* #activeStore, first await: the route as it is now.                      *)
ReadRoute(c) ==
    /\ At(c, "route")
    /\ Become(c, [work[c] EXCEPT !.store = IF route = None THEN Base ELSE route,
                                 !.step = IF work[c].op = "upsert" THEN "put" ELSE "look"])
    /\ UNCHANGED <<gens, docs, since>>

(* The call is rejected before it has touched a store: the route cannot be *)
(* read, or the generation it names is not there.                          *)
Reject(c) ==
    /\ \/ At(c, "route")
       \/ work[c].step \in {"look", "put"} /\ work[c].store \notin gens \cup {Base}
    /\ Become(c, [NoWork EXCEPT !.op = work[c].op, !.step = "done", !.failed = Stores])
    /\ UNCHANGED <<gens, docs, since>>

(* The documents go into the store of the route that was read; the write   *)
(* may fail with some of them stored.                                      *)
Put(c) ==
    /\ At(c, "put")
    /\ work[c].store \in gens \cup {Base}
    /\ \E kept \in SUBSET work[c].scope, ok \in BOOLEAN :
          /\ ok => kept = work[c].scope
          /\ docs' = [docs EXCEPT ![work[c].store] = @ \cup kept]
          /\ since' = [k \in Calls |->
                          IF Removing(k) THEN since[k] \cup ({work[c].store} \X kept)
                                         ELSE since[k]]
          /\ Become(c, [NoWork EXCEPT !.op = "upsert", !.step = "done", !.ok = ok])
    /\ UNCHANGED gens

(* #hasActiveRecipeReplacement: with another version in the active         *)
(* generation only this document goes, else every version of the Recipe.   *)
LookForReplacement(c) ==
    /\ At(c, "look")
    /\ work[c].store \in gens \cup {Base}
    /\ LET s == work[c].store
           d == work[c].doc
           replaced == s # Base /\ docs[s] \cap (Versions(d) \ {d}) # {} IN
       Become(c, [NoWork EXCEPT !.op = "remove", !.step = "base",
                                !.scope = {e \in Versions(d) : replaced => e = d}])
    /\ UNCHANGED <<gens, docs, since>>

(* A removal takes its documents out of a store, or fails with some of     *)
(* them left and remembers the store.                                      *)
Clean(c, s, w) ==
    /\ \/ /\ docs' = [docs EXCEPT ![s] = @ \ work[c].scope]
          /\ Become(c, w)
       \/ \E left \in SUBSET (docs[s] \cap work[c].scope) :
             /\ docs' = [docs EXCEPT ![s] = (@ \ work[c].scope) \cup left]
             /\ Become(c, [w EXCEPT !.failed = @ \cup {s}])
    /\ since' = [since EXCEPT ![c] = {p \in @ : p[1] # s}]

CleanBase(c) ==
    /\ At(c, "base")
    /\ Clean(c, Base, [work[c] EXCEPT !.step = "list"])
    /\ UNCHANGED gens

(* listGenerationIds: the directories there are now, or an error.          *)
ListGenerations(c) ==
    /\ At(c, "list")
    /\ \/ Become(c, [work[c] EXCEPT !.step = "visit", !.todo = gens])
       \/ Become(c, [work[c] EXCEPT !.step = "finish", !.failed = @ \cup Generations])
    /\ UNCHANGED <<gens, docs, since>>

(* Mutant: the first generation that is gone ends the removal.             *)
VisitGeneration_Stop(c) ==
    /\ At(c, "visit")
    /\ \E g \in work[c].todo :
          IF g \in gens
             THEN Clean(c, g, [work[c] EXCEPT !.todo = @ \ {g}])
             ELSE /\ Become(c, [work[c] EXCEPT !.todo = {}, !.failed = @ \cup {g}])
                  /\ UNCHANGED <<docs, since>>
    /\ UNCHANGED gens

(* One generation of the list: it may be gone by now, which is a failure   *)
(* like another; the others are visited all the same.                      *)
VisitGeneration(c) ==
    /\ At(c, "visit")
    /\ \E g \in work[c].todo :
          LET w == [work[c] EXCEPT !.todo = @ \ {g}] IN
          IF g \in gens
             THEN Clean(c, g, w)
             ELSE /\ Become(c, [w EXCEPT !.failed = @ \cup {g}])
                  /\ UNCHANGED <<docs, since>>
    /\ UNCHANGED gens

(* The removal resolves when nothing failed and is rejected otherwise.     *)
FinishRemoval(c) ==
    /\ \/ At(c, "visit") /\ work[c].todo = {}
       \/ At(c, "finish")
    /\ Become(c, [work[c] EXCEPT !.step = "done", !.ok = (work[c].failed = {})])
    /\ UNCHANGED <<gens, docs, since>>

(* createShadow of Core's build: the generation is removed with all it     *)
(* held, and opened empty.                                                 *)
CreateShadow(c) ==
    /\ \E g \in Generations :
          /\ Begin(c, [NoWork EXCEPT !.op = "shadow", !.step = "open", !.store = g])
          /\ gens' = gens \ {g}
          /\ docs' = [docs EXCEPT ![g] = {}]
    /\ UNCHANGED since

OpenShadow(c) ==
    /\ At(c, "open")
    /\ \E ok \in BOOLEAN :
          /\ gens' = IF ok THEN gens \cup {work[c].store} ELSE gens
          /\ Become(c, [NoWork EXCEPT !.op = "shadow", !.step = "done", !.ok = ok])
    /\ UNCHANGED <<docs, since>>

(* removeGeneration, as Core calls it for a generation it gives up.        *)
RemoveGeneration(g) ==
    /\ g \in gens
    /\ gens' = gens \ {g}
    /\ docs' = [docs EXCEPT ![g] = {}]
    /\ UNCHANGED <<work, since>>

(* clear: the base store only, the active generation stays queryable.      *)
Clear ==
    /\ docs[Base] # {}
    /\ docs' = [docs EXCEPT ![Base] = {}]
    /\ UNCHANGED <<gens, work, since>>

StoreStep(c) ==
    \/ ReadRoute(c) \/ Reject(c) \/ Put(c) \/ LookForReplacement(c)
    \/ CleanBase(c) \/ ListGenerations(c) \/ VisitGeneration(c) \/ FinishRemoval(c)
    \/ OpenShadow(c)

StoreNext ==
    \/ \E c \in Calls :
          Upsert(c) \/ Remove(c) \/ RemoveByIdentity(c) \/ CreateShadow(c) \/ StoreStep(c)
    \/ \E g \in Generations : RemoveGeneration(g)
    \/ Clear

-----------------------------------------------------------------------------
vars == <<route, lock, act, gens, docs, work, since>>

Init == RouteInit /\ StoreInit

Next ==
    \/ RouteNext /\ UNCHANGED storeVars
    \/ StoreNext /\ UNCHANGED routeVars

Spec == Init /\ [][Next]_vars

-----------------------------------------------------------------------------
StoreTypeOK ==
    /\ gens \in SUBSET Generations
    /\ docs \in [Stores -> SUBSET Docs]
    /\ work \in [Calls -> Work]
    /\ since \in [Calls -> SUBSET (Stores \X Docs)]

TypeOK == RouteTypeOK /\ StoreTypeOK

(* An activation is a compare-and-swap: with all its steps, failures and   *)
(* deaths it implements the register of RouteRegister.                     *)
ActivationsAreAtomic == Register!Spec

(* A removal that has answered left no document of its scope in any store  *)
(* it did not report as failed, but those put there after it had cleaned   *)
(* the store or after it had listed the generations; and it resolved only  *)
(* when no store failed (removeRecipeByIdentity, RoutedRecipeVectorStore). *)
CleanOf(c, s) == \A d \in docs[s] \cap work[c].scope : <<s, d>> \in since[c]

RemovalReaches ==
    \A c \in Calls : Removing(c) /\ At(c, "done") =>
        /\ \A s \in Stores \ work[c].failed : CleanOf(c, s)
        /\ work[c].ok => work[c].failed = {}
=============================================================================
