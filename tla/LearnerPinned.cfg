SPECIFICATION Spec
CONSTANTS
  Values <- TwoValues
  Engagements <- TwoEngagements
  Observations <- FewObservations
  Admins <- OneAdmin
  Actions = {"pin", "unpin"}
  MinConfirmations = 2
  MinEngagements = 1
  MinDays = 0
  Ttl = 2
  PromoteStreak = 2
  Retention = 1
  QueueLimit = 1
  MaxRecords = 5
  MaxDay = 0
  MaxAborts = 0
  Faults = {}
  None = None
  Absent = Absent
  v1 = v1
  v2 = v2
  e1 = e1
  e2 = e2
  alice = alice
  bob = bob
INVARIANT VerifiedIsEarned
