SPECIFICATION Spec
CONSTANTS
  NONE = NONE
  v1 = v1
  v2 = v2
  v3 = v3
  p1 = p1
  p2 = p2
  e1 = e1
  e2 = e2
  e3 = e3
  d1 = d1
  d2 = d2
  k1 = k1
  k2 = k2
  north = north
  south = south
  Wallets <- ThreeValidators
  Affiliations = {north, south}
  Enlisted <- ThreeValidators
  AffiliationOf <- TwoPlaces
  MAX_VALIDATORS = 3
  MAX_BATCH = 2
  RegCooldownSecs = 0
  Switches = {"contract", "approve"}
  Severities = {"Routine", "ForCause"}
  MaxTransfers = 0
  StartTime = 1
  MaxTime = 4
  Players = {p1}
  Hideable = {p1}
  Evidence = {e1, e2, e3}
  Descriptions = {d1}
  Keys = {k1, k2}
  Signers <- TwoValidators
  Attestations <- SomeSigned
  SeedMilestones <- SeedRecord
  Thresholds = {2}
  VotingWindows = {}
  DEFAULT_VOTING_WINDOW_SECS = 0
  MAX_PENDING_VOTES_PER_VALIDATOR = 2
  MAX_MILESTONES_PER_PLAYER_PER_VALIDATOR = 2
  PLAYER_VALIDATOR_WINDOW_SECS = 1
  ATTESTATION_NONCE_BITMAP_BITS = 2
  MAX_ATTESTATION_FUTURE_TOLERANCE_SECS = 3
  U64_MAX = 4
  MAX_GLOBAL_MILESTONE_INDEX = 2
  DiversityConfigs <- OneGate
  Unwired = {"progress", "registration"}
  MaxEpoch = 2
  MAX_PAGE = 2
  MaxMilestones = 3
  Disputants = {p1}
  ImpactScores = {0, 1}
  SeedDisputes <- SeedDisputePair
  JuryConfigs <- OneJuror
  DefaultJury <- Jury
  DISPUTE_REOPEN_COOLDOWN_SECS = 1
  MAX_DISPUTE_ROUNDS = 2
  MAX_OPEN_DISPUTES_PER_PLAYER = 2
  Suspects <- TwoValidators
  Sweepable = {v1}
  CASCADE_LIMIT = 1
  MILESTONE_FLAG_PAGE_SIZE = 2
  PURGE_PAGE_SIZE = 1
  Erasable = {p1}
  MaxPages = 2
INVARIANTS
  TypeOK
  OpenDisputesAreExact
  JuryDecides
  NonceAcceptedOnce
  RateIsWindowed
  TalliesFollowTheRecord
CONSTRAINT OneSubject
CHECK_DEADLOCK FALSE
