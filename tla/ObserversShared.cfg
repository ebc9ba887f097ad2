SPECIFICATION Spec
CONSTANTS
  None = None
  first = first
  second = second
  other = other
  here = here
  there = there
  mine = mine
  theirs = theirs
  f = f
  g = g
  h = h
  v = v
  v2 = v2
  Calls = {first, second, other}
  Fields = {f, g, h}
  Values = {v, v2}
  EngagementOf <- MCEngagementOf
  ProfileOf <- MCProfileOf
  Asks <- MCAsks
  Discovering <- MCDiscovering
  Columns <- MCColumns
  Sample <- MCSample
  Cost <- MCCost
  Reports <- MCReports
  Quota = 3
  TTL = 0
  MaxPending = 2
  Slots = 2
  Active = TRUE
  MaxQueries = 3
  MaxTime = 1
  MaxFaults = 1
INVARIANT DropIsOwnCost
CHECK_DEADLOCK FALSE
