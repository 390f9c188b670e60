SPECIFICATION FairSpec
CONSTANTS
  MAX_PROCESS = 3
  SEGMENT_SIZE = 14
  MEM_SIZE = 42
  CPU_CLOCK = 3
  INT_LIMIT = 4
  Registers <- MCRegisters
  Programs <- MCPrograms
INVARIANTS
  ParentLoads4000
  ForkNeverRefused
PROPERTIES
  KernelSpec
  SleepersWake
  WaitersServed
  ReadyRuns
