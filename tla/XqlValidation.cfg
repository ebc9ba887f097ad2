SPECIFICATION Spec
CHECK_DEADLOCK FALSE
SYMMETRY MCSymmetry
CONSTANTS
    one = one
    two = two
    Callers = {one, two}
    Principals <- MCPrincipals
    Grants <- MCGrants
    Raw <- MCRaw
    Scope <- MCScope
    Requests <- MCRequests
    EnumFields <- MCEnumFields
    TenantLists <- MCTenantLists
    Samples <- MCSamples
    MaxSpan = 8
    ModeWindow = 3
    MaxRows = 5
    AppendedLimit = 3
    Hour = 2
    CacheMax = 1
    MaxTime = 2
    MaxCalls = 2
    All = All
    None = None
INVARIANT AnswersAreFresh
INVARIANT RevealsOnlyAllowed
INVARIANT ProbeIsBounded
INVARIANT CorrectionSettles
