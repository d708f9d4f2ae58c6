SPECIFICATION FairSpec
CONSTANTS
  NONE = NONE
  s1 = s1  s2 = s2
  Scouts = {s1}
  Players = {p1}
  Nonces = {n1}
  EscrowAmounts = {1}
  ExpirySecs = {1, 2}
  SeedEscrows <- SeedNone
  Fees = {}
  Refunds = {}
  TRIAL_OFFER_COOLDOWN_SECS = 1
  EXPIRE_TRIAL_OFFERS_MAX_LIMIT = 2
  PURGE_PAGE_SIZE = 1
  MAX_OFFERS = 1
  MAX_PAGE = 2
  MaxOffers = 2
  MaxDeposits = 3
  MaxBalance = 2
  MaxTime = 3
PROPERTY EveryEscrowSettles
CHECK_DEADLOCK FALSE
