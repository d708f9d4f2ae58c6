SPECIFICATION Spec
CONSTANTS
  NONE = NONE
  s1 = s1  s2 = s2  p1 = p1  p2 = p2  p3 = p3
  MaxTime = 5
  FeeConfigs <- MCFeeConfigs
  SeedHistories <- MCHistories
  FeeLimits <- Limits
  FEE_CONFIG_PROPOSAL_DELAY_SECS = 2
  FEE_CONFIG_HISTORY_CAP = 2
  Scouts = {s1, s2}
  MaxScoutId = 2
  SeedScoutIds = {2}
  ScoutTickets <- MCTickets
  MAX_SCOUTS = 2
  MAX_BATCH_SIZE = 4
  RegCooldowns = {0}
  DEFAULT_REG_COOLDOWN_SECS = 1
  Players = {p1, p2, p3}
  SeedSubscriptions <- MCSeeds
  ContactTimes = {0}
  Batches <- MCBatches
  ListingTimes = {2, 4, 5, 9}
  ListingLimits = {1, 2}
  SECS_PER_DAY = 2
  MIN_UPGRADE_INTERVAL_SECS = 1
  RENEWAL_FRACTION = 10
  EVIDENCE_ACCESS_GRANT_TTL_SECS = 2
  BATCH_CONTACT_MAX_SIZE = 3
  ACCESS_GRANT_PAGE_SIZE = 1
  MAX_PAGE_LIMIT = 2
  MaxDay = 5
CONSTRAINT Granting
INVARIANT TakedownIsFinal
CHECK_DEADLOCK FALSE
