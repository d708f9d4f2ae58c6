SPECIFICATION Spec
CONSTANTS
  NONE = NONE
  a1 = a1
  a2 = a2
  v1 = v1
  s1 = s1
  MaxPlayerId = 1
  Admins <- OneAdmin
  Validators <- OneValidator
  Scouts <- OneScout
  HISTORY_PAGE_SIZE = 2
  PURGE_PAGE_SIZE = 3
  MAX_PAGE = 2
  MAX_PAGES_SCAN = 1
  U32_MAX = 4
  MaxTime = 1
  MaxMilestones = 1
  MaxPurges = 0
  ResetTargets <- TopAndBottom
  ImportLevels <- OnlyTop
  LegacyLevels <- LegacyMix
  SeedEntries <- SeedChain
INVARIANTS
  TypeOK
  HistoryExplainsLevel
  RegistrationMirrorsLevel
  PagesReadBackEntries
  RootCommitsToHistory
PROPERTIES
  HistoryAppendOnly
