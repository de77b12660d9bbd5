\* Two validators, three heights of two rounds, one restart.  The chain stops
\* at the last height.
SPECIFICATION Spec
CHECK_DEADLOCK FALSE
CONSTANTS
  None = None
  N = 2
  InitialHeight = 1
  Transaction = {t}
  MaxHeight = 3
  MaxRound = 1
  MaxRestarts = 1
  MayRestart = {1}
INVARIANT
  ReplicasConverge
PROPERTY
  LogSpec
