------------------------------ MODULE Systeme ------------------------------
(***************************************************************************)
(* The kernel under any user programs: what the processes of slots 1 and   *)
(* above compute is left open, only what the processor cannot let them do  *)
(* (touch another segment, their SB or SS, the kernel's state) is ruled    *)
(* out.  The idle program of slot 0 is known: it never traps by itself and *)
(* never stores.  Simul refines this module.                               *)
(***************************************************************************)
EXTENDS Noyau

CONSTANTS
  UserPCs,     \* values a program leaves in PC
  UserWords,   \* values it leaves in a register, AC or a word of memory
  UserInsts    \* instructions it executes

ASSUME SystemeAssumption ==
  UserPCs \subseteq Word /\ UserWords \subseteq Word /\ UserInsts \subseteq INST

Ordinary == {INST_ADD, INST_SUB, INST_CMP, INST_IFGT, INST_NOP, INST_JUMP, INST_LOAD, INST_STORE}

(* Some instructions of the running process, none of which traps. *)
UserStep ==
  /\ mode = "cpu"
  /\ m' \in [PC : UserPCs, SB : {m.SB}, SS : {m.SS}, INT : {m.INT},
             DR : [Registers -> UserWords], AC : UserWords, RI : UserInsts]
  /\ m'.RI.OP \in Ordinary
  /\ mem' \in [Addresses -> UserWords]
  /\ \A a \in Addresses : mem'[a] # mem[a] => a \in Segment(m.SB) /\ current_process # 0
  /\ UNCHANGED <<mode, process, current_process, counters, tampon, frappe>>

(* cpu() returns psw. *)
Interrupt(psw) ==
  /\ mode = "cpu"
  /\ mode' = "systeme"
  /\ m' = psw
  /\ UNCHANGED <<process, current_process, counters, tampon, frappe, mem>>

(* The slice is over. *)
UserClock == Interrupt([m EXCEPT !.INT = INT_CLOCK])

(* PC left the segment. *)
UserFetchFault == current_process # 0 /\ Interrupt([m EXCEPT !.INT = INT_SEGV])

(* LOAD or STORE left the segment. *)
UserDataFault ==
  /\ current_process # 0
  /\ m' \in [PC : {m.PC}, SB : {m.SB}, SS : {m.SS}, INT : {INT_SEGV},
             DR : {m.DR}, AC : UserWords, RI : UserInsts]
  /\ m'.RI.OP \in {INST_LOAD, INST_STORE}
  /\ Interrupt(m')

(* The interrupt of an instruction that always gives one. *)
Trap(op) == CASE op = INST_SYSC -> INT_SYSC
              [] op = INST_HALT -> INT_HALT
              [] OTHER          -> INT_INST

UserTrap ==
  /\ current_process # 0
  /\ m' \in [PC : UserPCs, SB : {m.SB}, SS : {m.SS}, INT : {INT_SYSC, INT_HALT, INT_INST},
             DR : {m.DR}, AC : {m.AC}, RI : UserInsts]
  /\ m'.RI.OP \notin Ordinary
  /\ m'.INT = Trap(m'.RI.OP)
  /\ Interrupt(m')

(* A program the kernel loads is any words. *)
Demarrage == mem' \in [Addresses -> UserWords] /\ systeme_init(mem')

Next == \/ Demarrage \/ systeme
        \/ UserStep \/ UserClock \/ UserFetchFault \/ UserDataFault \/ UserTrap
        \/ \E i \in Slots : Reveille(i)
        \/ Touche \/ Fini

Spec == NoyauInit /\ [][Next]_noyau

-----------------------------------------------------------------------------
(* While a process is suspended nothing changes its saved context but the  *)
(* keystroke it waits for, which goes to the register its GETCHAR names.   *)
(* It is then resumed with exactly that context.                           *)
SuspendedUntouched ==
  [][\A i \in Live \ {current_process} :
       Booted => \/ process'[i].cpu = process[i].cpu
                 \/ /\ process[i].state = GETCHAR /\ process'[i].state = READY
                    /\ process'[i].cpu = [process[i].cpu EXCEPT
                                            !.DR[process[i].cpu.RI.i] = caractere]
    ]_noyau

-----------------------------------------------------------------------------
(* The same kernel when no program calls NEW_THREAD: what my_fork promises *)
(* holds of processes that fork, and of those only.                        *)
NoThreads ==
  \A inst \in UserInsts : ~(inst.OP = INST_SYSC /\ inst.ARG = SYSC_NEW_THREAD)

(* Each process has the segment of its own slot, so no two share a word.   *)
ForkIsolation == \A i \in Live : Booted => Context(i).SB = i * SEGMENT_SIZE

(* nbr_process is what cpu.h says: all processes, whatever their state; so *)
(* the guard of my_fork sees a full table exactly when it is full.         *)
NbrProcessExact == nbr_process = Cardinality(Live)

(* find_first_empty() is called with a slot to find. *)
NoWildWrite == mode # "wild"

(* The words of a live process change only while it runs, by its stores:   *)
(* not by another program, nor by a fork that copies a segment.            *)
PrivateMemory ==
  [][\A i \in Live : \A a \in Segment(Context(i).SB) :
       mem'[a] # mem[a] => mode = "cpu" /\ current_process = i]_noyau
-----------------------------------------------------------------------------
(* What the sources say and the kernel does not do: each of these fails.   *)

(* cpu.h calls nbr_process_alive the number of READY processes.  my_fork   *)
(* does not count the child, my_getchar goes on counting the caller.       *)
AliveIsReady == Booted => nbr_process_alive = Cardinality(InState(READY))

(* my_fork answers "Nombre max de process atteint" to a call that finds    *)
(* the table full.  Threads are not counted in nbr_process: when one has    *)
(* taken the last slot the guard lets the call through, and                *)
(* find_first_empty() gives -1.                                            *)
ForkRefusedWhenFull == Sysc(SYSC_FORK) /\ InState(EMPTY) = {} => Full
=============================================================================
