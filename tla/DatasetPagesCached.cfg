SPECIFICATION Spec
CONSTANTS
  Rows <- MCRows
  Plans <- MCPlans
  Principals = {alice}
  Modes = {"hunt"}
  Policies <- MCPolicies
  Groups <- MCGroups
  MaxRows = 3
  MaxResult = 3
  RowsInBudget = {1, 3}
  Ttl = 1
  CacheTtl = 1
  HasSecret = TRUE
  NullsLast = FALSE
  MaxTime = 2
  MaxCalls = 4
  MaxChanges = 1
  Null = Null
  None = None
  alice = alice
CHECK_DEADLOCK FALSE
INVARIANT NothingSkippedSinceFirst
