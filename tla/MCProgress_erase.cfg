SPECIFICATION Spec
CONSTANTS
  NONE = NONE
  a1 = a1
  a2 = a2
  v1 = v1
  s1 = s1
  MaxPlayerId = 1
  Admins <- OneAdmin
  Validators <- OneValidator
  Scouts <- NoScout
  HISTORY_PAGE_SIZE = 2
  PURGE_PAGE_SIZE = 3
  MAX_PAGE = 2
  MAX_PAGES_SCAN = 1
  U32_MAX = 5
  MaxTime = 0
  MaxMilestones = 0
  MaxPurges = 2
  ResetTargets <- TopAndBottom
  ImportLevels <- NoLevel
  LegacyLevels <- LegacyLong
  SeedEntries <- SeedNone
INVARIANTS
  PurgeLeavesNoHistory
