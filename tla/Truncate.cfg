CONSTANTS
    Kinds = {"system", "user", "assistant", "call", "tool"}
    Costs = {0, 1, 2, CountError}
    CountError = CountError
    Budgets = {0, 1, 2, 3}
    MaxLen = 4
SPECIFICATION Spec
INVARIANTS
    DropsFewestOldestTurns
    FitsOrIsBare
    ToolTurnsAreWhole
CHECK_DEADLOCK FALSE
