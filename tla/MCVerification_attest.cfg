SPECIFICATION Spec
CONSTANTS
  NONE = NONE
  v1 = v1
  v2 = v2
  v3 = v3
  p1 = p1
  p2 = p2
  e1 = e1
  e2 = e2
  e3 = e3
  d1 = d1
  d2 = d2
  k1 = k1
  k2 = k2
  north = north
  south = south
  Wallets <- ThreeValidators
  Affiliations = {north}
  Enlisted <- TwoValidators
  AffiliationOf <- SamePlace
  MAX_VALIDATORS = 2
  MAX_BATCH = 1
  RegCooldownSecs = 1
  Switches = {}
  Severities = {"Routine"}
  MaxTransfers = 1
  StartTime = 1
  MaxTime = 2
  Players = {p1}
  Hideable = {}
  Evidence = {e1, e2}
  Descriptions = {d1, d2}
  Keys = {}
  Signers <- Nobody
  Attestations <- Nobody
  SeedMilestones <- Nobody
  Thresholds = {1, 2}
  VotingWindows = {1}
  DEFAULT_VOTING_WINDOW_SECS = 0
  MAX_PENDING_VOTES_PER_VALIDATOR = 1
  MAX_MILESTONES_PER_PLAYER_PER_VALIDATOR = 1
  PLAYER_VALIDATOR_WINDOW_SECS = 1
  ATTESTATION_NONCE_BITMAP_BITS = 2
  MAX_ATTESTATION_FUTURE_TOLERANCE_SECS = 3
  U64_MAX = 4
  MAX_GLOBAL_MILESTONE_INDEX = 2
  DiversityConfigs <- Nobody
  Unwired = {}
  MaxEpoch = 1
  MAX_PAGE = 1
  MaxMilestones = 2
  Disputants = {}
  ImpactScores = {}
  SeedDisputes <- Nobody
  JuryConfigs <- Nobody
  DefaultJury <- Jury
  DISPUTE_REOPEN_COOLDOWN_SECS = 1
  MAX_DISPUTE_ROUNDS = 1
  MAX_OPEN_DISPUTES_PER_PLAYER = 1
  Suspects <- ThreeValidators
  Sweepable = {}
  CASCADE_LIMIT = 1
  MILESTONE_FLAG_PAGE_SIZE = 2
  PURGE_PAGE_SIZE = 1
  Erasable = {}
  MaxPages = 1
INVARIANTS
  ClaimMatchesItsVotes
PROPERTY QuorumBacksMilestone
CONSTRAINT Claiming
CHECK_DEADLOCK FALSE
