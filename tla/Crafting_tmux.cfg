CONSTANTS
    Items = {"a", "b", "c"}
    Recipes <- MCRecipes
    MaxStack = 2
    Hour = 3
    MaxHeld = 2
SPECIFICATION CraftSpec
INVARIANT NeverOverGranted
CHECK_DEADLOCK FALSE
