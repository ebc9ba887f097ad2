SPECIFICATION Spec
CONSTANTS
  NumCalls = 4
  Sessions <- OneSession
  Cases <- TwoCases
  Modes <- TwoModes
  Items <- OneItem
  Requests <- SessionRequests
  HasStore = TRUE
  SessionCap = 1
  CaseCap = 2
  MaxFaults = 1
  None = None
  Unset = Unset
  Empty = Empty
  Omitted = Omitted
  first = first
  second = second
  case = case
  other = other
  hunt = hunt
  respond = respond
  x = x
INVARIANT TypeOK
INVARIANT SessionIsSerial
INVARIANT CaseFollowsSession
INVARIANT FactsAreEvidenced
INVARIANT SessionMatchesCase
PROPERTY OmittedScopeIsKept
