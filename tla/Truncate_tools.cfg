CONSTANTS
    Kinds = {"system", "user", "assistant", "call", "tool"}
    Costs = {1}
    CountError = CountError
    Budgets = {2, 3}
    MaxLen = 4
SPECIFICATION Spec
INVARIANTS
    NoOrphanToolResult
CHECK_DEADLOCK FALSE
