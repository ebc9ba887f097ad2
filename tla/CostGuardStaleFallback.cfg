SPECIFICATION Spec
CONSTANTS
  NumQueries = 2
  Principals <- Callers
  Requests <- QuotaRequests
  Budget = 5
  ApprovalCap = 2
  MaxConcurrent = 2
  LongSlotLimit = 1
  MaxDay = 0
  Faults <- OnlyUnreadable
  Unknown = Unknown
  Current = Current
  alice = alice
  bob = bob
PROPERTY AdmissionUsesLatestReading
