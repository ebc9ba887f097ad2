SPECIFICATION Spec
CONSTANTS
  NumQueries = 2
  Principals <- Callers
  Requests <- PromptRequests
  Budget = 5
  ApprovalCap = 2
  MaxConcurrent = 2
  LongSlotLimit = 1
  MaxDay = 0
  Faults <- NoFaults
  Unknown = Unknown
  Current = Current
  alice = alice
  bob = bob
PROPERTY NoHeavyWhileSlotsAreLong
