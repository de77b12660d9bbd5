\* The same batches, for what merkle.rs says of roots over an odd number of leaves.
SPECIFICATION VerificationSpec
CHECK_DEADLOCK FALSE
CONSTANTS
  Receipt <- MCReceipt
  RECEIPT_BATCH_MAX = 3
  BatchSizeCap = 3
  MaxBatches = 2
  MaxBlockBatches = 1
  MaxBlocks = 2
  Reexecution <- MCReexecution
  Under <- MCUnder
  BLOCK_EVENT_CAPACITY = 1
  Key = "key"
INVARIANT
  NoSecondPreimage
