\* One engine driven over two heights, with a query of the role and two
\* transactions, one of which no block takes. The process ends.
SPECIFICATION MCSpec
CONSTANTS
  Tx = {"tx", "stuck"}
  Stuck = {"stuck"}
  Query = {"q"}
  Duration <- MCDuration
  per_round_delta = 1
  HEARTBEAT = 1
  NET_RX_CAPACITY = 1
  SELF = 1
  Message <- MCMessage
  Foreign <- MCForeign
  Heights = 1
  MaxRound = 1
  MaxClock = 2
  MaxGossip = 1
  Genesis <- MCGenesis
INVARIANT
  GossipFaithful
PROPERTIES
  CommandsServed
  Exits
CHECK_DEADLOCK FALSE
