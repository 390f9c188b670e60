----------------------------- MODULE MCSysteme -----------------------------
(***************************************************************************)
(* Small user programs for Systeme: one instruction per system call, LOAD  *)
(* (which traps or not), one that halts and one that is unknown.           *)
(***************************************************************************)
EXTENDS Systeme

MCRegisters == {0, 1}
MCOneRegister == {0}
MCPCs == {0}
MCWords == {0, 1}
MCOneWord == {1}

\* GETCHAR names register 1, the others register 0.
Inst(op, arg) ==
  [OP |-> op, i |-> IF arg = SYSC_GETCHAR /\ 1 \in Registers THEN 1 ELSE 0,
   j |-> 0, ARG |-> arg]

MCInsts == {Inst(INST_LOAD, 0), Inst(INST_HALT, 0), Inst(10, 0)} \cup
  {Inst(INST_SYSC, arg) : arg \in {SYSC_EXIT, SYSC_PUTI, SYSC_NEW_THREAD,
                                   SYSC_SLEEP, SYSC_GETCHAR, SYSC_FORK}}
MCForkInsts == MCInsts \ {Inst(INST_SYSC, SYSC_NEW_THREAD)}

(* What the kernel's next steps depend on.  It reads SB, SS and DR of a    *)
(* context; INT and RI only when they are fresh from a trap, or RI.i of a  *)
(* waiter; AC and PC never.  The saved context of the running process and  *)
(* of an empty slot are overwritten before they are read, and              *)
(* nbr_process_alive is read nowhere.                                      *)
Kept(psw) == <<psw.SB, psw.SS, psw.DR>>
LiveView ==
  <<mode, current_process, nbr_process_sleeping, nbr_in_getchar, nbr_process,
    tampon, frappe, mem, Kept(m),
    IF mode = "cpu" THEN <<>> ELSE <<m.INT, m.RI>>,
    [i \in Slots |-> <<process[i].state, process[i].due,
                       IF i \in Live \ {current_process} THEN Kept(process[i].cpu) ELSE <<>>,
                       IF process[i].state = GETCHAR THEN process[i].cpu.RI.i ELSE 0>>]>>
=============================================================================
