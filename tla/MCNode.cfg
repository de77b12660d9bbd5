\* A node with a pool of two bytes and one retained block behind the newest, over three
\* heights, three transfers and one restart.  The chain stops at the last height.
SPECIFICATION FairSpec
CHECK_DEADLOCK FALSE
CONSTANTS
  None = None
  Tx <- MCTx
  MaxTxBytes = 2
  MaxCount = 2
  MaxBytes = 2
  BlockGas = 6
  BlockBytes = 2
  MaxSeq = 3
  InitialHeight = 1
  Retention = 1
  MaxHeight = 3
  MaxSends = 3
  MaxRestarts = 1
INVARIANTS
  IndexSound
PROPERTIES
  UnknownExplained
  OwedIsUsed
