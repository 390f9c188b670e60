-------------------------------- MODULE Cpu --------------------------------
(***************************************************************************)
(* The instructions of cpu.c.  Each cpu_XXX takes the PSW whose RI holds   *)
(* the decoded instruction and gives the PSW it returns; cpu_STORE also    *)
(* has the memory it leaves.  Simul runs them one loop iteration of cpu()  *)
(* at a time.                                                              *)
(***************************************************************************)
EXTENDS Machine

(* m.DR[m.RI.j] + m.RI.ARG *)
Operand(m) == Wrap(m.DR[m.RI.j] + m.RI.ARG)

(* m.AC = m.DR[m.RI.i] = value, then the next instruction. *)
Assign(m, value) ==
  [m EXCEPT !.DR[m.RI.i] = value, !.AC = value, !.PC = @ + 1]

cpu_ADD(m) == Assign(m, Wrap(m.DR[m.RI.i] + Operand(m)))

cpu_SUB(m) == Assign(m, Wrap(m.DR[m.RI.i] - Operand(m)))

cpu_CMP(m) == [m EXCEPT !.AC = Wrap(m.DR[m.RI.i] - Operand(m)), !.PC = @ + 1]

cpu_IFGT(m) == [m EXCEPT !.PC = IF m.AC > 0 THEN m.RI.ARG ELSE @ + 1]

cpu_NOP(m) == [m EXCEPT !.PC = @ + 1]

cpu_JUMP(m) == [m EXCEPT !.PC = m.RI.ARG]

cpu_HALT(m) == [m EXCEPT !.INT = INT_HALT]

cpu_SYSC(m) == [m EXCEPT !.INT = INT_SYSC, !.PC = @ + 1]

(* Mutant: only the upper bound is tested. *)
BelowSize(m, offset) == offset < m.SS

(* The segment test LOAD and STORE make on the offset they compute. *)
InSegment(m, offset) == offset >= 0 /\ offset < m.SS

(* The accumulator keeps the offset that faulted. *)
Fault(m) == [m EXCEPT !.AC = Operand(m), !.INT = INT_SEGV]

cpu_LOAD(m, memory) ==
  IF InSegment(m, Operand(m)) THEN Assign(m, memory[m.SB + Operand(m)])
                              ELSE Fault(m)

cpu_STORE(m) ==
  IF InSegment(m, Operand(m))
  THEN [m EXCEPT !.AC = m.DR[m.RI.i], !.PC = @ + 1]
  ELSE Fault(m)

(* mem after STORE. *)
Stored(m, memory) ==
  IF InSegment(m, Operand(m))
  THEN [memory EXCEPT ![m.SB + Operand(m)] = m.DR[m.RI.i]]
  ELSE memory

(* The operations of the switch in cpu(); any other is INT_INST. *)
KnownOps == INST_ADD .. INST_STORE
=============================================================================
