------------------------------ MODULE MCSimul ------------------------------
(***************************************************************************)
(* Simul on the test programs of systeme.c and on four short ones that     *)
(* take the paths these leave out: CMP, each fault, an unknown instruction *)
(* and an unknown call.                                                    *)
(***************************************************************************)
EXTENDS Programmes

MCRegisters == 0..7

Faults ==
  { << Make(INST_CMP, 1, 0, -3), Make(INST_IFGT, 0, 0, -1) >>,
    << Sysc3(0, 9), Make(INST_LOAD, 1, 0, SEGMENT_SIZE) >>,
    << Make(INST_ADD, 1, 0, 1), Make(INST_STORE, 1, 0, -1) >>,
    << Sysc3(1, SYSC_PUTI), Make(10, 0, 0, 0) >> }

MCPrograms == TestPrograms \cup Faults
=============================================================================
