SPECIFICATION Spec
CHECK_DEADLOCK FALSE
SYMMETRY MCSymmetry
CONSTANTS
    one = one
    two = two
    Slots = {one, two}
    Requests <- MCRequests
    IdentityMode = "entra_or_gateway"
    Default = "ann"
    GroupsOf <- MCGroupsOf
    ToolPolicy <- MCToolPolicy
    Hidden <- MCHidden
    Profiles <- MCProfiles
    BrokerEnabled = TRUE
    Skew = 1
    NonceCacheSize = 1
    FailClosed = TRUE
    StartEvents = TRUE
    MaxTime = 3
    MaxCalls = 3
    MaxCancels = 1
    OwnKey = OwnKey
    AllTools = AllTools
    None = None
INVARIANT AssertionSpent
INVARIANT AuditFailsClosed
INVARIANT OneModePerCall
INVARIANT KeysAreBrokered
