\* The free tier across routers, discovery, and the breaker.  A router stops
\* when the clock and its requests have run out.  And the pool under every
\* interleaving of submissions, drains, commits and readmissions; it stops once
\* MaxSeq transactions have been admitted.
SPECIFICATION MCSpec
CHECK_DEADLOCK FALSE
CONSTANTS
  None = None
  Scenarios = {"gossip", "discovery", "breaker", "pool"}
  Router = {"r1", "r2"}
  Wallet = {"w", "sw"}
  Key = {"k", "s"}
  AddressOf <- MCAddressOf
  HourTicks = 1
  DayHours = 3
  HourlyLimit = 1
  DailyLimit = 2
  NonceCap = 2
  MaxNow = 3
  MaxRestarts = 1
  MaxAbsorbed = 3
  Request = {1, 2, 3, 4}
  RequestOf <- MCRequestOf
  Peer = {1, 2}
  Model = {"m"}
  StakeOf <- MCStakeOf
  Candidate_Ttl = 1
  MaxSkew = 2
  Claims <- MCClaims
  Bonded = {1}
  Missing = {0, 4}
  MissingThreshold = 3
  MaxOffers = 2
  MaxEpoch = 2
  Tx <- MCTx
  MaxTxBytes = 5
  MaxCount = 3
  MaxBytes = 5
  BlockGas = 61000
  BlockBytes = 5
  MaxSeq = 6
INVARIANTS
  ChargesSound
  SentWhereOffered
  IndexesAgree
  CapsHold
PROPERTIES
  StoppedByBreaker
  FeeBumpOnly
  EvictsLowestFees
