SPECIFICATION Spec
CONSTANTS
  NumCalls = 4
  Sessions <- TwoSessions
  Cases <- OneCase
  Modes <- TwoModes
  Items <- OneItem
  Requests <- SharedRequests
  HasStore = TRUE
  SessionCap = 1
  CaseCap = 2
  MaxFaults = 1
  None = None
  Unset = Unset
  Empty = Empty
  Omitted = Omitted
  first = first
  second = second
  case = case
  other = other
  hunt = hunt
  respond = respond
  x = x
PROPERTY OmittedScopeIsAlwaysKept
