\* A peer book over a restart, two calls that share their responses, and a probe
\* task over four events. The calls and the task end and the bounded network falls
\* silent.  And three receipts in batches of up to three, two batches made, one to a
\* block, two blocks, and a broadcast that holds one; the chain stops at the last block.
SPECIFICATION MCSpec
CONSTANTS
  p1 = p1
  p2 = p2
  p3 = p3
  a1 = a1
  a2 = a2
  c1 = c1
  c2 = c2
  Peer = {p1, p2, p3}
  Address = {a1, a2}
  Agent <- MCAgent
  Bootstrap <- MCBootstrap
  Model <- MCModel
  Stake <- MCStake
  HANDSHAKE_VERSION = 1
  network_id = "mainnet"
  EVENT_CAPACITY = 1
  MaxConnections = 2
  MaxEstablished = 3
  MaxRestarts = 1
  Call = {c1, c2}
  WantedModel = "m"
  CANDIDATE_TTL = 0
  SESSION_EXPIRY = 0
  MAX_RETRIES = 2
  RESPONSE_CAPACITY = 1
  MaxTime = 1
  MaxOffers = 2
  OfferedModels <- MCOfferedModels
  MaxProbes = 2
  MaxGossip = 4
  Receipt <- MCReceipt
  RECEIPT_BATCH_MAX = 3
  BatchSizeCap = 3
  MaxBatches = 2
  MaxBlockBatches = 1
  MaxBlocks = 2
  Reexecution <- MCReexecution
  Under <- MCUnder
  BLOCK_EVENT_CAPACITY = 1
  Key = "key"
INVARIANTS
  BookFollowsPeers
  OwnAnswer
  DisputesHold
PROPERTIES
  InferReturns
  ProbesEnd
  InclusionProved
  DivergenceDisputed
CHECK_DEADLOCK FALSE
