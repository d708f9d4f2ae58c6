SPECIFICATION Spec
CONSTANTS
  NONE = NONE
  w1 = w1
  w2 = w2
  w3 = w3
  Wallets <- FewWallets
  MaxPlayerId = 2
  Vitals <- TwoVitals
  SeedIds = {1}
  Authorizations <- OneTicket
  LegacyPlayers <- OldPlayer
  Levels <- TwoLevels
  Cooldowns <- CooldownOrNone
  MAX_PAGE = 2
  MAX_PLAYERS = 2
  MAX_BATCH_SIZE = 4
  DEFAULT_REG_COOLDOWN_SECS = 1
  Queries <- Anywhere
  PageLimits <- OneByOne
  MaxTime = 1
CHECK_DEADLOCK FALSE
INVARIANTS
  TypeOK
  WalletsOwnTheirProfiles
  LiveCountIsExact
  BucketsMatchProfiles
  FilterListsEachOnce
  ScanLosesNoOne
PROPERTIES
  CooldownOutlivesErasure
