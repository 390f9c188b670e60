SPECIFICATION FairSpec
CONSTANTS
  N = 4
  SPURIOUS = 1
  ROUNDS = 2
INVARIANTS
  TurnOfOne
  PrintsItsTurn
  NoLostWakeup
PROPERTIES
  Termination
