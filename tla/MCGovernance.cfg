\* Proposals, votes, registrations and validator rotation over MaxHeight
\* blocks, each an epoch boundary.  The chain stops at that height.
SPECIFICATION MCSpec
CHECK_DEADLOCK FALSE
CONSTANTS
  None = None
  Addr <- MCAddr
  Treasury = 9
  Node = {1, 2, 3}
  NodeAddr <- MCNodeAddr
  Role = {"Validator"}
  Job = {1}
  Model = {"m", "seeded"}
  MaxProposals = 2
  BaseTransferGas = 1
  EpochLength = 1
  BootstrapBlocks = 2
  BootstrapTarget = 100
  UnbondingPeriod = 2
  RedelegateCooldown = 1
  MinStake <- MCMinStake
  ProposalDeposit = 10
  ModelDeposit = 200
  SlashPercent = 5
  MaxActive = 2
  AtomsPerArk = 100
  EpochBudget = 0
  Txs <- MCTxs
  Start <- GovernanceStart
  HeaderRoots = {"replay", "builder"}
  EscrowTimeout = 2
  GasCost <- MCGasCost
  TargetGas = 10
  Times = {0, 1}
  HeaderFees = {1}
  MaxBlockTxs = 2
  MaxHeight = 5
  RotationHeight = 3
PROPERTIES
  ProposalForward
  VotesSettled
  QuorumHeld
  RotationFollowsStake
