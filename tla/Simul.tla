------------------------------- MODULE Simul -------------------------------
(***************************************************************************)
(* The simulator of simul.c: the kernel of Noyau and the processor of      *)
(* cpu.c, one step per iteration of the loop of cpu(), on a program that   *)
(* systeme_init loads in slot 1.                                           *)
(***************************************************************************)
EXTENDS Noyau, Cpu, Sequences

CONSTANT Programs   \* the programs systeme_init may have compiled in

VARIABLES
  program,   \* the one it has
  tick       \* i of the loop of cpu(): instructions done since it was called

vars == <<noyau, program, tick>>

idle == <<[OP |-> INST_NOP, i |-> 0, j |-> 0, ARG |-> SYSC_IDLE],
          [OP |-> INST_NOP, i |-> 0, j |-> 0, ARG |-> 0],
          [OP |-> INST_NOP, i |-> 0, j |-> 0, ARG |-> 0],
          [OP |-> INST_NOP, i |-> 0, j |-> 0, ARG |-> 0],
          [OP |-> INST_JUMP, i |-> 0, j |-> 0, ARG |-> 0]>>

ASSUME SimulAssumption ==
  /\ Registers = 0..7
  /\ Len(idle) <= SEGMENT_SIZE
  /\ Programs \subseteq Seq(INST)
  /\ \A p \in Programs : Len(p) <= SEGMENT_SIZE

(* make_inst for each instruction of idle at 0 and of p at first_pc. *)
first_pc == SEGMENT_SIZE

Image(p) ==
  [a \in Addresses |->
     IF a \in 0 .. Len(idle) - 1 THEN Encode(idle[a + 1])
     ELSE IF a - first_pc \in 0 .. Len(p) - 1 THEN Encode(p[a - first_pc + 1])
     ELSE 0]

Init == NoyauInit /\ program \in Programs /\ tick = 0

-----------------------------------------------------------------------------
(* cpu() returns to the main loop. *)
Interrupt(psw) ==
  /\ m' = psw
  /\ mode' = "systeme"
  /\ tick' = 0
  /\ UNCHANGED <<process, current_process, counters, tampon, frappe, mem, program>>

Continue(psw, memory) ==
  /\ m' = psw
  /\ mem' = memory
  /\ tick' = tick + 1
  /\ UNCHANGED <<mode, process, current_process, counters, tampon, frappe, program>>

InLoop == mode = "cpu" /\ tick < CPU_CLOCK

(* The instruction read and decoded at PC. *)
Fetched == [m EXCEPT !.RI = Decode(mem[m.PC + m.SB])]

Fetch(op) == InLoop /\ InSegment(m, m.PC) /\ Fetched.RI.OP = op

HorsSegment ==
  /\ InLoop
  /\ ~InSegment(m, m.PC)
  /\ Interrupt([m EXCEPT !.INT = INT_SEGV])

ADD  == Fetch(INST_ADD)  /\ Continue(cpu_ADD(Fetched), mem)
SUB  == Fetch(INST_SUB)  /\ Continue(cpu_SUB(Fetched), mem)
CMP  == Fetch(INST_CMP)  /\ Continue(cpu_CMP(Fetched), mem)
JUMP == Fetch(INST_JUMP) /\ Continue(cpu_JUMP(Fetched), mem)
IFGT == Fetch(INST_IFGT) /\ Continue(cpu_IFGT(Fetched), mem)
NOP  == Fetch(INST_NOP)  /\ Continue(cpu_NOP(Fetched), mem)
HALT == Fetch(INST_HALT) /\ Interrupt(cpu_HALT(Fetched))
SYSC == Fetch(INST_SYSC) /\ Interrupt(cpu_SYSC(Fetched))

(* LOAD and STORE go on unless they fault. *)
LOAD ==
  /\ Fetch(INST_LOAD)
  /\ LET psw == cpu_LOAD(Fetched, mem)
     IN  IF psw.INT = INT_SEGV THEN Interrupt(psw) ELSE Continue(psw, mem)

STORE ==
  /\ Fetch(INST_STORE)
  /\ LET psw == cpu_STORE(Fetched)
     IN  IF psw.INT = INT_SEGV THEN Interrupt(psw)
         ELSE Continue(psw, Stored(Fetched, mem))

Inconnue ==
  /\ InLoop
  /\ InSegment(m, m.PC)
  /\ Fetched.RI.OP \notin KnownOps
  /\ Interrupt([Fetched EXCEPT !.INT = INT_INST])

(* The slice is over after CPU_CLOCK instructions. *)
FinDeTranche ==
  /\ mode = "cpu"
  /\ tick = CPU_CLOCK
  /\ Interrupt([m EXCEPT !.INT = INT_CLOCK])

cpu == \/ HorsSegment \/ ADD \/ SUB \/ CMP \/ JUMP \/ IFGT \/ NOP \/ HALT
       \/ SYSC \/ LOAD \/ STORE \/ Inconnue \/ FinDeTranche

-----------------------------------------------------------------------------
Demarrage == systeme_init(Image(program)) /\ UNCHANGED <<program, tick>>

(* The main loop of simul.c. *)
main == \/ Demarrage
        \/ systeme /\ UNCHANGED <<program, tick>>
        \/ cpu

Temps(i) == Reveille(i) /\ UNCHANGED <<program, tick>>
Frappe == Touche /\ UNCHANGED <<program, tick>>

Next == \/ main
        \/ \E i \in Slots : Temps(i)
        \/ Frappe
        \/ Fini /\ UNCHANGED <<program, tick>>

(* The simulator is a process that the host lets run; its clock goes on.   *)
Fairness == /\ WF_vars(main)
            /\ \A i \in Slots : WF_vars(Temps(i))
            /\ WF_vars(Frappe)

Spec == Init /\ [][Next]_vars
FairSpec == Spec /\ Fairness

-----------------------------------------------------------------------------
(* What Systeme promises holds of the simulator: the processor lets a      *)
(* program do nothing but what Systeme leaves open.                        *)
Kernel == INSTANCE Systeme WITH UserPCs <- Word, UserWords <- Word, UserInsts <- INST

KernelSpec == Kernel!Spec
=============================================================================
