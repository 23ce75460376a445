------------------------ MODULE MCVectorStores ------------------------
(* Two versions of one Recipe; names are interchangeable.                  *)
EXTENDS VectorStores, Naturals, FiniteSets, TLC

CONSTANTS Recipe,
          MaxLoad       \* bound on Load

OneRecipe == [d \in Docs |-> Recipe]

Interchangeable ==
    Permutations(Activations) \cup Permutations(Generations)
        \cup Permutations(Docs) \cup Permutations(Calls)

(* An earlier session left every version in every store there is.          *)
StockedInit == Init /\ docs = [s \in Stores |-> IF s \in gens \cup {Base} THEN Docs ELSE {}]

(* The calls that have been made; a removal, the longest, counts twice.   *)
Load == Cardinality({a \in Activations : act[a].step # "idle"})
            + Cardinality({c \in Calls : ~At(c, "idle")})
            + Cardinality({c \in Calls : Removing(c)})

BoundedNext == Next /\ Load' <= MaxLoad

StockedSpec == StockedInit /\ [][BoundedNext]_vars
=============================================================================
