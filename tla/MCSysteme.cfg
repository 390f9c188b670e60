SPECIFICATION Spec
CONSTANTS
  MAX_PROCESS = 3
  SEGMENT_SIZE = 1
  MEM_SIZE = 3
  CPU_CLOCK = 1
  INT_LIMIT = 4
  Registers <- MCRegisters
  UserPCs <- MCPCs
  UserWords <- MCOneWord
  UserInsts <- MCInsts
INVARIANTS
  TypeOK
  CountersAgree
  NoWaiterWhileBuffered
  SchedulerNeverSpins
  IdleSegmentPrivate
PROPERTIES
  SuspendedUntouched
VIEW LiveView
