\* Two requests and a restart, of a node that starts empty or with the small
\* model cached, over a model that fills the cache, one that does not fit beside
\* it and has two mirrors, and one whose header is not the manifest's.  Requests
\* stop at their bound.  And one completion.
SPECIFICATION MCSpec
CHECK_DEADLOCK FALSE
CONSTANTS
  big = big
  small = small
  odd = odd
  Model = {big, small, odd}
  SizeOf <- MCSizeOf
  Sane = {big, small}
  Task = {t1, t2}
  FileId = {1, 2, 3, 4, 5, 6, 7, 8, 9, 10, 11}
  MaxBytes = 2
  Mirrors <- MCMirrors
  MaxRequests = 2
  MaxRestarts = 1
  Main = Main
  None = None
  Completions <- MCCompletions
  Piece <- MCPiece
  tee_enabled = FALSE
  n_ctx = 4
  CHANNEL = 2
INVARIANTS
  StreamFaithful
  CacheSound
PROPERTIES
  ChatAnswered
  Answered
