SPECIFICATION MCSpec
CHECK_DEADLOCK FALSE
CONSTANTS
  None = None
  Request = {"q1", "q2"}
  Node = {"home", "remote"}
  Home = "home"
  Ranked <- MCRanked
  Nonce <- MCNonce
  MaxTokens <- MCMaxTokens
  EventCap = 1
  StreamCap = 1
  InboundCap = 1
  ResponseCap = 1
  NonceCap = 1
INVARIANTS
  StreamWellFormed
  ReplayWindow
PROPERTIES
  Answered
  StreamSpec
