SPECIFICATION Spec
CONSTANTS
  Ranges = {0, 24}
  MaxFetches = 2
  Family <- MCFamily
  Limits <- MCLimits
  ROWS = 2
  Tallies <- MCTallies
  DAYS = 4
  Rollups <- MCRollups
  Pointers = {0, 132, 140, 525, 640}
  MaxDraws = 2
INVARIANTS CacheServes StatsHonest TablesTrue TrendTrue ScreenHonest
PROPERTIES StatsLatest RetryReachesServer ObservationStays OverviewSettles
