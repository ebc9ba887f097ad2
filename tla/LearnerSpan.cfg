SPECIFICATION Spec
CONSTANTS
  Values <- TwoValues
  Engagements <- TwoEngagements
  Observations <- Agreements
  Admins <- OneAdmin
  Actions = {}
  MinConfirmations = 2
  MinEngagements = 2
  MinDays = 1
  Ttl = 2
  PromoteStreak = 2
  Retention = 1
  QueueLimit = 1
  MaxRecords = 4
  MaxDay = 2
  MaxAborts = 0
  Faults = {}
  None = None
  Absent = Absent
  v1 = v1
  v2 = v2
  e1 = e1
  e2 = e2
  alice = alice
  bob = bob
INVARIANT VerifiedSpansDays
