SPECIFICATION FairSpec
CONSTANTS
  NumQueries = 2
  Principals <- Callers
  Requests <- ApprovalRequests
  Budget = 1
  ApprovalCap = 1
  MaxConcurrent = 1
  LongSlotLimit = 1
  MaxDay = 1
  Faults <- AllFaults
  Unknown = Unknown
  Current = Current
  alice = alice
  bob = bob
INVARIANT TypeOK
INVARIANT HoldsMatchPhases
INVARIANT SubmittedWithinGuard
INVARIANT ApprovalsWithinCap
PROPERTY QueriesEnd
