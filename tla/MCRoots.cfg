\* Transfers and escrow locks in blocks whose header carries the builder's
\* root: the first block after a lock expires does not replay.
SPECIFICATION MCSpec
CHECK_DEADLOCK FALSE
CONSTANTS
  None = None
  PRICE_SCALE = 100
  GENESIS_BASE_PRICE = 40
  PRICE_CEILING = 400
  ANNUAL_EMISSION <- MCEmission
  EPOCHS_PER_YEAR = 2
  EPOCH_LENGTH = 2
  TOTAL_SUPPLY_CAP = 60
  Capacities = {0, 2, 7}
  Heights = {1, 2, 5, 8, 12, 14, 21, 30}
  Jobs <- MCJobs
  MaxJobs = 4
  MaxEpoch = 6
  Scenarios = {"pooled"}
  Addr <- MCAddr
  Treasury = 9
  Node = {1, 2}
  NodeAddr <- MCNodeAddr
  Role = {"Compute"}
  Job = {1, 2}
  Model = {}
  MaxProposals = 0
  BaseTransferGas = 1
  EpochLength = 10
  BootstrapBlocks = 4
  BootstrapTarget = 100
  UnbondingPeriod = 2
  RedelegateCooldown = 1
  MinStake <- MCMinStake
  ProposalDeposit = 1
  ModelDeposit = 1
  SlashPercent = 5
  MaxActive = 2
  AtomsPerArk = 100
  EpochBudget = 107
  Txs <- MCTxs
  Start <- PaymentsStart
  HeaderRoots = {"builder"}
  EscrowTimeout = 2
  GasCost <- MCGasCost
  TargetGas = 2
  Times = {0}
  HeaderFees = {1, 2}
  MaxBlockTxs = 2
  MaxHeight = 4
INVARIANT
  BuilderAgreesWithReplay
