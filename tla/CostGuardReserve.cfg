SPECIFICATION Spec
CONSTANTS
  NumQueries = 3
  Principals <- Callers
  Requests <- QuotaRequests
  Budget = 5
  ApprovalCap = 2
  MaxConcurrent = 2
  LongSlotLimit = 1
  MaxDay = 1
  Faults <- NoFaults
  Unknown = Unknown
  Current = Current
  alice = alice
  bob = bob
INVARIANT FiguresBounded
INVARIANT ReserveKept
PROPERTY AdmissionKeepsReserve
PROPERTY KeepsPromise
