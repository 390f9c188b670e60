SPECIFICATION Spec
CONSTANTS
  MAX_PROCESS = 3
  SEGMENT_SIZE = 1
  MEM_SIZE = 3
  CPU_CLOCK = 1
  INT_LIMIT = 4
  Registers <- MCOneRegister
  UserPCs <- MCPCs
  UserWords <- MCWords
  UserInsts <- MCForkInsts
INVARIANTS
  ForkIsolation
  NbrProcessExact
  NoWildWrite
PROPERTIES
  PrivateMemory
VIEW LiveView
