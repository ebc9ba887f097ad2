SPECIFICATION Spec
CONSTANTS
  Datasets <- AllDatasets
  Volume <- MCVolume
  TierMap <- MCTierMap
  DefaultTier = "medium"
  UnitBands <- MCBands
  HostFields = {big, story}
  SelectiveHosts = {big}
  Cheaper <- MCCheaper
  Allowed = {small}
  LearnedCosts <- SomeCosts
  MaxSpan = 2400
  None = None
  Queries <- MCQueries
  Timeframes <- MCTimeframes
  Modes <- MCModes
  ModePolicy <- MCPolicy
  Threshold = 1
  MaxTaken = 5
  big = big
  story = story
  mid = mid
  small = small
CHECK_DEADLOCK FALSE
INVARIANT NarrowerIsPriced
INVARIANT LearnedKeepsFloor
INVARIANT OffersProgress
