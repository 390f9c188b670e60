------------------------------ MODULE Machine ------------------------------
(***************************************************************************)
(* The simulated machine as cpu.h and systeme.h declare it: sizes, codes,  *)
(* 32-bit words, the coding of an instruction in a word and the processor  *)
(* status word (PSW).  No state: Cpu, Noyau and Simul build on it.         *)
(***************************************************************************)
EXTENDS Integers

CONSTANTS
  MAX_PROCESS,    \* slots of the process table (3 in the code)
  SEGMENT_SIZE,   \* words of a segment (32 in the code)
  MEM_SIZE,       \* words of the memory (1024 in the code)
  CPU_CLOCK,      \* instructions of a time slice (3 in the code)
  Registers       \* numbers of the data registers (0..7 in the code)

(* A WORD is a 32-bit int. *)
MaxWord == 2147483647
MinWord == -MaxWord - 1
Word == MinWord .. MaxWord

ASSUME MachineAssumption ==
  /\ MAX_PROCESS \in Nat /\ MAX_PROCESS >= 2   \* systeme_init fills two slots
  /\ SEGMENT_SIZE \in Nat \ {0}
  /\ MEM_SIZE \in Nat /\ MEM_SIZE <= MaxWord   \* addresses are ints
  /\ MAX_PROCESS * SEGMENT_SIZE <= MEM_SIZE    \* every slot has its segment
  /\ CPU_CLOCK \in Nat \ {0}
  /\ Registers \subseteq 0..7 /\ 0 \in Registers

Slots == 0 .. MAX_PROCESS - 1
Addresses == 0 .. MEM_SIZE - 1

(* The words of the segment that starts at base. *)
Segment(base) == base .. base + SEGMENT_SIZE - 1

-----------------------------------------------------------------------------
INT_INIT  == 1
INT_SEGV  == 2
INT_INST  == 3
INT_TRACE == 4
INT_HALT  == 5
INT_CLOCK == 6
INT_SYSC  == 7

INST_ADD   == 0
INST_SUB   == 1
INST_CMP   == 2
INST_IFGT  == 3
INST_NOP   == 4
INST_JUMP  == 5
INST_HALT  == 6
INST_SYSC  == 7
INST_LOAD  == 8
INST_STORE == 9

SYSC_EXIT       == 0
SYSC_PUTI       == 1
SYSC_NEW_THREAD == 2
SYSC_SLEEP      == 3
SYSC_IDLE       == 4
SYSC_GETCHAR    == 5
SYSC_FORK       == 6

EMPTY   == 0
READY   == 1
SLEEP   == 2
GETCHAR == 3

-----------------------------------------------------------------------------
(* The 32-bit result of one addition or subtraction of two words. *)
Wrap(x) == IF x > MaxWord THEN x - MaxWord - MaxWord - 2
           ELSE IF x < MinWord THEN x + MaxWord + MaxWord + 2
           ELSE x

(* Ten bits of operation code, sixteen of a signed argument. *)
MaxOp == 1023
MaxArg == 32767
INST == [OP : 0..MaxOp, i : Registers, j : Registers, ARG : -MaxArg - 1 .. MaxArg]

(* The union { WORD; INST } of make_inst and decode_instruction: OP, i and *)
(* j fill the low half of the word, ARG the signed high half.              *)
Encode(inst) == inst.OP + 1024 * inst.i + 8192 * inst.j + 65536 * inst.ARG

\* Mutant: ARG unsigned.
DecodeUnsigned(word) == [OP  |-> word % 1024,
                         i   |-> (word \div 1024) % 8,
                         j   |-> (word \div 8192) % 8,
                         ARG |-> (word \div 65536) % 65536]

Decode(word) == [OP  |-> word % 1024,
                 i   |-> (word \div 1024) % 8,
                 j   |-> (word \div 8192) % 8,
                 ARG |-> word \div 65536]

(* Field INT is IN of the code, a reserved word of TLA+. *)
PSW == [PC : Word, SB : Word, SS : Word, INT : 0..7,
        DR : [Registers -> Word], AC : Word, RI : INST]

(* A PSW of static storage: every field zero. *)
ZeroPSW == [PC |-> 0, SB |-> 0, SS |-> 0, INT |-> 0,
            DR |-> [r \in Registers |-> 0], AC |-> 0, RI |-> Decode(0)]
=============================================================================
