CONSTANTS
    Calls = {c1, bye}
    Bye = bye
    Outcomes = {result}
    MaxLinks = 3
    Items = {"a", "b", "c"}
    Recipes <- MCRecipes
    MaxStack = 2
    Hour = 3
    MaxHeld = 2
    Jsons <- MCJsons
    RecipeIds = {1, 2, 3}
    MaxFiles = 3
    PageSize = 1
    Things = {"a", "b", "c"}
    Tags = {"t", "u"}
    TagFiles <- MCTagFiles
    Rules <- MCRules
    Amounts = {1, 2, 3}
    MaxTagFiles = 3
    MaxDepth = 2
    Restorers = {r1, r2}
    Archives = {a1}
    Parts = {1, 2}
    Nobody = nobody
    Processes = {p1, p2}
    Fields = {armed, desired}
    Unset = 0
    Values = {1}
    MaxSaves = 2
    Starters = {s1, s2}
    Legacy = {f1, f2}
    Addresses = {1, 2}
    MaxJobs = 2
    MaxChanges = 2
    MaxTurns = 3
    NoFlag = noflag
    None = none
    Editors = {e1, e2}
    MaxEdits = 3
    MaxClock = 3
    Runners = {u1, u2}
SPECIFICATION PartsSpec
INVARIANTS
    OneConnectionAtRest
    Backed
    FairTrade
    PhoneHasAll
    TagsMeanTheirFiles
    CostBalanced
    NothingLost
    NoHalfWorldServed
    UpdatesKept
    MigratedWhole
    FlagsAreJobs
    ShownIsFresh
    SettingsKept
    ChatAlternates
    Recoverable
    OnlyTheLockless
PROPERTIES
    KeepsPromise
    CallsEnd
    RestoredIsArchive
CHECK_DEADLOCK FALSE
