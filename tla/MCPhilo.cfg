SPECIFICATION FairSpec
CONSTANTS
  N = 4
  SPURIOUS = 1
  ROUNDS = 2
INVARIANTS
  TypeOK
  ForkExclusion
  ForksAccounted
  NoLostWakeup
PROPERTIES
  Termination
