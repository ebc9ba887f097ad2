SPECIFICATION Spec
CONSTANTS
  Values <- TwoValues
  Engagements <- TwoEngagements
  Observations <- FewObservations
  Admins <- OneAdmin
  Actions = {"revert", "pin", "unpin"}
  MinConfirmations = 5
  MinEngagements = 1
  MinDays = 1
  Ttl = 2
  PromoteStreak = 2
  Retention = 0
  QueueLimit = 2
  MaxRecords = 4
  MaxDay = 2
  MaxAborts = 1
  Faults = {}
  None = None
  Absent = Absent
  v1 = v1
  v2 = v2
  e1 = e1
  e2 = e2
  alice = alice
  bob = bob
INVARIANT TypeOK
INVARIANT RevertIsFinal
INVARIANT PinIsKept
