SPECIFICATION Spec
CONSTANTS
  NONE = NONE
  s1 = s1  s2 = s2
  Scouts = {s1, s2}
  Players = {p1}
  Nonces = {}
  EscrowAmounts = {0, 2}
  ExpirySecs = {1}
  SeedEscrows <- SeedSome
  Fees = {1}
  Refunds = {1}
  TRIAL_OFFER_COOLDOWN_SECS = 2
  EXPIRE_TRIAL_OFFERS_MAX_LIMIT = 2
  PURGE_PAGE_SIZE = 1
  MAX_OFFERS = 1
  MAX_PAGE = 2
  MaxOffers = 2
  MaxDeposits = 3
  MaxBalance = 3
  MaxTime = 4
CONSTRAINT OneSubject
INVARIANTS
  TypeOK
  EscrowsCovered
  SweepFindsEveryEscrow
  NoOrphanEscrow
PROPERTY KeepsEscrowPromise
CHECK_DEADLOCK FALSE
