----------------------------- MODULE Programmes -----------------------------
(***************************************************************************)
(* The four test programs of systeme.c, one of which systeme_init loads,   *)
(* and what each of them is there to show.                                 *)
(***************************************************************************)
EXTENDS Simul

Make(op, i, j, arg) == [OP |-> op, i |-> i, j |-> j, ARG |-> arg]
Sysc3(i, arg) == Make(INST_SYSC, i, 0, arg)
Nop == Make(INST_NOP, 0, 0, 0)

make_inst_test_fork ==
  << Sysc3(0, SYSC_FORK), Make(INST_IFGT, 0, 0, 6),
     Sysc3(3, SYSC_PUTI), Nop, Sysc3(3, SYSC_PUTI), Sysc3(0, SYSC_EXIT),
     Make(INST_SUB, 3, 3, -4), Sysc3(3, SYSC_SLEEP), Make(INST_SUB, 3, 3, 0),
     Make(INST_JUMP, 0, 0, 0) >>

make_inst_test_getchar ==
  << Make(INST_SUB, 3, 3, -2), Sysc3(4, SYSC_GETCHAR), Sysc3(4, SYSC_PUTI),
     Sysc3(3, SYSC_SLEEP), Make(INST_JUMP, 0, 0, 0) >>

make_inst_test_sleep ==
  << Make(INST_ADD, 3, 0, 0), Make(INST_ADD, 7, 7, 10), Sysc3(7, SYSC_SLEEP),
     Sysc3(3, SYSC_PUTI), Nop, Nop, Nop, Nop, Nop, Sysc3(7, SYSC_SLEEP),
     Make(INST_HALT, 0, 0, 0) >>

make_inst_test_thread ==
  << Make(INST_SYSC, 1, 1, SYSC_NEW_THREAD), Make(INST_IFGT, 0, 0, 11),
     Make(INST_SUB, 3, 3, -4000), Make(INST_STORE, 3, 0, 0),
     Make(INST_NOP, 3, 0, SYSC_PUTI), Nop, Nop, Make(INST_HALT, 0, 0, 0),
     Nop, Nop, Nop,
     Make(INST_LOAD, 2, 0, 0), Sysc3(2, SYSC_PUTI), Sysc3(0, SYSC_EXIT) >>

TestPrograms == {make_inst_test_fork, make_inst_test_getchar,
                 make_inst_test_sleep, make_inst_test_thread}

At(i, pc) == mode = "cpu" /\ current_process = i /\ m.PC = pc

(* The thread that parent and child share the memory through: the parent   *)
(* loads what the child stored, though nothing in the program orders them. *)
ParentLoads4000 ==
  program = make_inst_test_thread /\ At(1, 12) => m.DR[2] = 4000

(* The fork program never meets a full table: each child has ended before  *)
(* its parent forks again.  A refusal would leave AC at 0 and send the     *)
(* parent down the child's branch, to EXIT.                                *)
ForkNeverRefused ==
  program = make_inst_test_fork /\ Sysc(SYSC_FORK) => nbr_process < MAX_PROCESS

Ended == mode \in {"arret", "wild"}
State(i) == process[i].state

(* A sleeper is woken, also when every other process is idle. *)
SleepersWake == \A i \in Slots : State(i) = SLEEP ~> (State(i) # SLEEP \/ Ended)

(* A process waiting for the keyboard has its character in the end. *)
WaitersServed == \A i \in Slots : State(i) = GETCHAR ~> (State(i) # GETCHAR \/ Ended)

(* The round robin gives every ready process the processor. *)
ReadyRuns == \A i \in Slots : State(i) = READY ~> (current_process = i \/ Ended)
=============================================================================
