SPECIFICATION StockedSpec
CONSTANTS
    MaxLoad = 3
    Activations = {a1, a2}
    Generations = {g1, g2}
    Docs = {d1, d2}
    Calls = {c1, c2}
    Base = Base
    None = None
    Recipe = Recipe
    RecipeOf <- OneRecipe
INVARIANTS
    LockExcludes
    RemovalReaches
PROPERTIES
    ActivationsAreAtomic
CHECK_DEADLOCK FALSE
SYMMETRY Interchangeable
