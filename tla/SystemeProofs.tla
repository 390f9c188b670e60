--------------------------- MODULE SystemeProofs ---------------------------
(***************************************************************************)
(* The invariants of Systeme, for every size of the machine and every user *)
(* program; then what fork promises when no program starts a thread, and   *)
(* what becomes of the context of a suspended process.                     *)
(***************************************************************************)
EXTENDS Systeme, NoyauProofs

(* A step of a program keeps the invariant of the kernel. *)
LEMMA UserStepInv == IInv /\ UserStep => IInv'
<1> SUFFICES ASSUME IInv, UserStep PROVE IInv'
  OBVIOUS
<1>1. m \in PSW
  BY DEF IInv, TypeOK
<1>2. m' \in [PC : UserPCs, SB : {m.SB}, SS : {m.SS}, INT : {m.INT},
             DR : [Registers -> UserWords], AC : UserWords, RI : UserInsts]
  BY DEF UserStep
<1>3. [Registers -> UserWords] \subseteq [Registers -> Word]
  BY SystemeAssumption
<1>4. m' \in PSW /\ m'.SB = m.SB /\ m'.SS = m.SS
  BY <1>1, <1>2, <1>3, SystemeAssumption DEF PSW
<1>5. mem' \in [Addresses -> Word]
  BY SystemeAssumption DEF UserStep
<1> QED
  BY <1>4, <1>5, UserInv DEF UserStep

(* So does each trap a program can cause. *)
LEMMA TrapInv ==
  IInv /\ (UserClock \/ UserFetchFault \/ UserDataFault \/ UserTrap) => IInv'
<1> SUFFICES ASSUME IInv, UserClock \/ UserFetchFault \/ UserDataFault \/ UserTrap
             PROVE  IInv'
  OBVIOUS
<1>1. m \in PSW /\ mem \in [Addresses -> Word]
  BY DEF IInv, TypeOK
<1>2. mode = "cpu" /\ mode' = "systeme"
      /\ UNCHANGED <<process, current_process, counters, tampon, frappe, mem>>
  BY DEF UserClock, UserFetchFault, UserDataFault, UserTrap, Interrupt
<1>3. /\ m' \in PSW /\ m'.SB = m.SB /\ m'.SS = m.SS
      /\ m'.INT \in {INT_SEGV, INT_INST, INT_HALT, INT_CLOCK, INT_SYSC}
      /\ current_process = 0 => m'.INT = INT_CLOCK
  <2>1. CASE UserClock
    BY <1>1, <2>1 DEF UserClock, Interrupt, PSW, INT_CLOCK
  <2>2. CASE UserFetchFault
    BY <1>1, <2>2 DEF UserFetchFault, Interrupt, PSW, INT_SEGV
  <2>3. CASE UserDataFault
    BY <1>1, <2>3, SystemeAssumption DEF UserDataFault, PSW, INT_SEGV
  <2>4. CASE UserTrap
    BY <1>1, <2>4, SystemeAssumption DEF UserTrap, PSW, INT_SYSC, INT_HALT, INT_INST
  <2> QED
    BY <2>1, <2>2, <2>3, <2>4
<1> QED
  BY <1>1, <1>2, <1>3, UserInv

(* IInv is inductive. *)
THEOREM Inductive == IInv /\ [Next]_noyau => IInv'
<1> SUFFICES ASSUME IInv, [Next]_noyau PROVE IInv'
  OBVIOUS
<1>1. CASE Demarrage
  BY <1>1, BootInv, SystemeAssumption DEF Demarrage
<1>2. CASE systeme
  BY <1>2, ClavierInv, ArretInv, HorlogeInv, ExitInv, NewThreadInv, SleepInv, GetcharInv,
     ForkInv, AffichageInv DEF systeme, system_SYSC
<1>3. CASE UserStep
  BY <1>3, UserStepInv
<1>4. CASE UserClock \/ UserFetchFault \/ UserDataFault \/ UserTrap
  BY <1>4, TrapInv
<1>5. CASE (\E i \in Slots : Reveille(i)) \/ Touche
  BY <1>5, TimeInv
<1>6. CASE Fini \/ UNCHANGED noyau
  BY <1>6, StutterInv DEF Fini
<1> QED
  BY <1>1, <1>2, <1>3, <1>4, <1>5, <1>6 DEF Next

(* IInv holds in every state. *)
LEMMA Invariant == Spec => []IInv
BY InitInv, Inductive, PTL DEF Spec

(* The state of the kernel keeps its types: counters and slots in range,   *)
(* words of 32 bits.                                                       *)
THEOREM TypeCorrect == Spec => []TypeOK
BY Invariant, PTL DEF IInv

(* reveil() and frappe_clavier() never skip their search because a counter *)
(* is zero while a process sleeps or waits.                                *)
THEOREM CountersCorrect == Spec => []CountersAgree
BY Invariant, PTL DEF IInv

(* No process waits for the keyboard while a character is buffered.        *)
THEOREM NoLostKey == Spec => []NoWaiterWhileBuffered
BY Invariant, PTL DEF IInv

(* The do-while of ordonnanceur() always finds a READY slot.               *)
THEOREM SchedulerEnds == Spec => []SchedulerNeverSpins
BY Invariant, PTL DEF IInv

(* No process executes or writes in the segment of idle.                   *)
THEOREM IdlePrivate == Spec => []IdleSegmentPrivate
BY Invariant, PTL DEF IInv

-----------------------------------------------------------------------------

(* A system call comes from an instruction of the program. *)
TrapInst ==
  mode \in {"systeme", "switch"} /\ m.INT = INT_SYSC =>
    m.RI \in UserInsts /\ m.RI.OP = INST_SYSC

(* The inductive invariant of kernels without threads. *)
FInv == IInv /\ TrapInst /\ ForkIsolation /\ NbrProcessExact /\ NoWildWrite

-----------------------------------------------------------------------------
(* Segments of different slots have no word in common. *)
LEMMA Disjoint ==
  ASSUME NEW i \in Slots, NEW j \in Slots, NEW a \in Addresses,
         a \in Segment(i * SEGMENT_SIZE), a \in Segment(j * SEGMENT_SIZE)
  PROVE  i = j
<1>1. SEGMENT_SIZE \in Nat /\ SEGMENT_SIZE > 0
  BY MachineAssumption
<1>2. i \in Int /\ j \in Int /\ a \in Int
  BY MachineAssumption DEF Slots, Addresses
<1>3. ASSUME NEW x \in Int, NEW y \in Int, x < y
      PROVE  x * SEGMENT_SIZE + SEGMENT_SIZE <= y * SEGMENT_SIZE
  <2>1. PICK k \in Nat : y = x + 1 + k
    <3>1. y - x - 1 \in Nat /\ y = x + 1 + (y - x - 1)
      BY <1>3
    <3> QED
      BY <3>1
  <2>2. y * SEGMENT_SIZE = x * SEGMENT_SIZE + SEGMENT_SIZE + k * SEGMENT_SIZE
    BY <1>1, <2>1
  <2>3. k * SEGMENT_SIZE >= 0 /\ k * SEGMENT_SIZE \in Int /\ x * SEGMENT_SIZE \in Int
    BY <1>1
  <2> QED
    BY <1>1, <2>2, <2>3
<1>4. i * SEGMENT_SIZE \in Int /\ j * SEGMENT_SIZE \in Int
  BY <1>1, <1>2
<1>5. /\ a >= i * SEGMENT_SIZE /\ a < i * SEGMENT_SIZE + SEGMENT_SIZE
      /\ a >= j * SEGMENT_SIZE /\ a < j * SEGMENT_SIZE + SEGMENT_SIZE
  BY <1>1, <1>2, <1>4 DEF Segment
<1>6. ~(i < j) /\ ~(j < i)
  BY <1>1, <1>2, <1>3, <1>4, <1>5
<1> QED
  BY <1>2, <1>6

(* The live processes are finitely many, fewer than the slots if one is empty. *)
LEMMA LiveFinite ==
  /\ IsFiniteSet(Live) /\ Cardinality(Live) \in 0 .. MAX_PROCESS
  /\ Live # Slots => Cardinality(Live) < MAX_PROCESS
<1>1. Live \in SUBSET Slots
  BY DEF Live
<1>2. IsFiniteSet(Slots) /\ Cardinality(Slots) = MAX_PROCESS
  BY FS_Interval, MachineAssumption DEF Slots
<1>3. Live # Slots => Cardinality(Live) # Cardinality(Slots)
  BY <1>1, <1>2, FS_Subset
<1> QED
  BY <1>1, <1>2, <1>3, SlotsFinite

(* What the scheduler leaves of the fork invariants. *)
LEMMA ForkDispatch ==
  ASSUME NEW psw \in PSW, NEW table \in [Slots -> ProcessEntry],
         NEW alive \in -INT_LIMIT .. INT_LIMIT - 1, NEW sleeping,
         current_process \in Slots,
         sleeping = Cardinality({i \in Slots : table[i].state = SLEEP}),
         table[0].state = READY,
         \A i \in Slots : table[i].state # EMPTY =>
            (IF i = current_process THEN psw ELSE table[i].cpu).SB = i * SEGMENT_SIZE,
         ordonnanceur(psw, table, alive, sleeping),
         nbr_process' = Cardinality({i \in Slots : table[i].state # EMPTY})
  PROVE  TrapInst' /\ ForkIsolation' /\ NbrProcessExact' /\ NoWildWrite'
<1>1. /\ mode' = "cpu"
      /\ current_process' \in Slots
      /\ Live' = {i \in Slots : table[i].state # EMPTY}
      /\ m' = process'[current_process'].cpu
      /\ \A i \in Slots :
           process'[i].cpu = IF i = current_process THEN psw ELSE table[i].cpu
  BY Schedule
<1>2. \A i \in Live' : Context(i)' = process'[i].cpu
  BY <1>1 DEF Context
<1>3. \A i \in Live' : process'[i].cpu.SB = i * SEGMENT_SIZE
  BY <1>1
<1>4. ForkIsolation'
  BY <1>2, <1>3 DEF ForkIsolation
<1> QED
  BY <1>1, <1>4 DEF TrapInst, NbrProcessExact, NoWildWrite

(* What a handler finds at the switch. *)
LEMMA AtCall ==
  ASSUME FInv, mode = "switch"
  PROVE  /\ Booted /\ current_process \in Slots
         /\ m \in PSW /\ process \in [Slots -> ProcessEntry]
         /\ process[0].state = READY /\ process[current_process].state = READY
         /\ current_process # 0 \/ m.INT # INT_SYSC
         /\ m.SB = current_process * SEGMENT_SIZE
         /\ m.SS = SEGMENT_SIZE
         /\ \A i \in Slots : process[i].state # EMPTY =>
               (IF i = current_process THEN m ELSE process[i].cpu).SB = i * SEGMENT_SIZE
         /\ nbr_process_sleeping = Cardinality({i \in Slots : process[i].state = SLEEP})
         /\ nbr_process = Cardinality({i \in Slots : process[i].state # EMPTY})
         /\ nbr_process_alive \in -INT_LIMIT .. INT_LIMIT - 1
<1>1. IInv
  BY DEF FInv
<1>2. /\ Booted /\ current_process \in Slots
      /\ m \in PSW /\ process \in [Slots -> ProcessEntry]
      /\ HasSegment(m, current_process)
      /\ process[0].state = READY /\ process[current_process].state = READY
      /\ m.INT = INT_SYSC => current_process # 0
  BY <1>1, AtSwitch
<1>3. \A i \in Slots : process[i].state # EMPTY => Context(i).SB = i * SEGMENT_SIZE
  BY <1>2 DEF FInv, ForkIsolation, Live
<1>4. m.SB = current_process * SEGMENT_SIZE
  BY <1>2, <1>3 DEF Context, READY, EMPTY
<1> QED
  BY <1>1, <1>2, <1>3, <1>4
     DEF FInv, IInv, TypeOK, CountersAgree, InState, NbrProcessExact, Live, HasSegment, Context

-----------------------------------------------------------------------------
(* my_exit keeps what kernels without threads have. *)
LEMMA ExitFork ==
  ASSUME FInv, my_exit
  PROVE  TrapInst' /\ ForkIsolation' /\ NbrProcessExact' /\ NoWildWrite'
<1> DEFINE table == [process EXCEPT ![current_process].state = EMPTY]
<1>1. /\ mode = "switch" /\ m.INT = INT_SYSC
      /\ ordonnanceur(m, table, Count(nbr_process_alive - 1), nbr_process_sleeping)
      /\ nbr_process' = Count(nbr_process - 1)
  BY DEF my_exit, Sysc
<1>2. /\ current_process \in Slots /\ current_process # 0
      /\ m \in PSW /\ process \in [Slots -> ProcessEntry]
      /\ process[0].state = READY /\ process[current_process].state = READY
      /\ \A i \in Slots : process[i].state # EMPTY =>
            (IF i = current_process THEN m ELSE process[i].cpu).SB = i * SEGMENT_SIZE
      /\ nbr_process_sleeping = Cardinality({i \in Slots : process[i].state = SLEEP})
      /\ nbr_process = Cardinality({i \in Slots : process[i].state # EMPTY})
      /\ nbr_process_alive \in -INT_LIMIT .. INT_LIMIT - 1
  BY <1>1, AtCall
<1>3. /\ table \in [Slots -> ProcessEntry]
      /\ \A i \in Slots : table[i].state = IF i = current_process THEN EMPTY
                                            ELSE process[i].state
      /\ \A i \in Slots : table[i].cpu = process[i].cpu
  BY <1>2 DEF ProcessEntry
<1> HIDE DEF table
<1>4. /\ {i \in Slots : table[i].state = SLEEP} = {i \in Slots : process[i].state = SLEEP}
      /\ {i \in Slots : table[i].state # EMPTY} = Live \ {current_process}
      /\ current_process \in Live
      /\ table[0].state = READY
  BY <1>2, <1>3, SlotsFinite DEF Live, SLEEP, READY, EMPTY
<1>5. nbr_process' = Cardinality(Live \ {current_process})
  <2>1. /\ Cardinality(Live \ {current_process}) = Cardinality(Live) - 1
        /\ Cardinality(Live) \in 0 .. MAX_PROCESS
        /\ Cardinality(Live \ {current_process}) \in Nat
    BY <1>4, LiveFinite, FS_RemoveElement, FS_Subset, FS_CardinalityType
  <2>2. nbr_process = Cardinality(Live)
    BY <1>2 DEF Live
  <2> QED
    BY <1>1, <2>1, <2>2, NoyauAssumption, MachineAssumption DEF Count
<1>6. Count(nbr_process_alive - 1) \in -INT_LIMIT .. INT_LIMIT - 1
  BY <1>2, NoyauAssumption, MachineAssumption DEF Count
<1>7. \A i \in Slots : table[i].state # EMPTY =>
        (IF i = current_process THEN m ELSE table[i].cpu).SB = i * SEGMENT_SIZE
  BY <1>2, <1>3
<1>8. nbr_process_sleeping = Cardinality({i \in Slots : table[i].state = SLEEP})
      /\ nbr_process' = Cardinality({i \in Slots : table[i].state # EMPTY})
  BY <1>2, <1>4, <1>5
<1> QED
  BY <1>1, <1>2, <1>3, <1>4, <1>6, <1>7, <1>8, ForkDispatch

(* Handlers that change the state of the caller only, and end in READY,    *)
(* SLEEP or GETCHAR.                                                       *)
LEMMA CallerFork ==
  ASSUME FInv, mode = "switch", NEW to \in {READY, SLEEP, GETCHAR},
         m.INT = INT_SYSC \/ to = READY,
         NEW table \in [Slots -> ProcessEntry], NEW sleeping,
         \A i \in Slots : table[i].state = IF i = current_process THEN to
                                           ELSE process[i].state,
         \A i \in Slots : table[i].cpu = process[i].cpu,
         NEW alive \in -INT_LIMIT .. INT_LIMIT - 1,
         sleeping = Cardinality({i \in Slots : table[i].state = SLEEP}),
         ordonnanceur(m, table, alive, sleeping),
         UNCHANGED nbr_process
  PROVE  TrapInst' /\ ForkIsolation' /\ NbrProcessExact' /\ NoWildWrite'
<1>2. /\ current_process # 0 \/ m.INT # INT_SYSC
      /\ m \in PSW /\ process \in [Slots -> ProcessEntry]
      /\ process[0].state = READY /\ process[current_process].state = READY
      /\ \A i \in Slots : process[i].state # EMPTY =>
            (IF i = current_process THEN m ELSE process[i].cpu).SB = i * SEGMENT_SIZE
      /\ nbr_process = Cardinality({i \in Slots : process[i].state # EMPTY})
  BY AtCall
<1>3. current_process \in Slots
  BY AtCall
<1>4. table[0].state = READY
  BY <1>2, SlotsFinite
<1>5. {i \in Slots : table[i].state # EMPTY} = {i \in Slots : process[i].state # EMPTY}
  BY <1>2, <1>3 DEF READY, SLEEP, GETCHAR, EMPTY
<1>6. \A i \in Slots : table[i].state # EMPTY =>
        (IF i = current_process THEN m ELSE table[i].cpu).SB = i * SEGMENT_SIZE
  BY <1>2, <1>3 DEF READY, EMPTY
<1> QED
  BY <1>2, <1>3, <1>4, <1>5, <1>6, ForkDispatch

(* send_thread_to_sleep keeps it. *)
LEMMA SleepFork ==
  ASSUME FInv, send_thread_to_sleep
  PROVE  TrapInst' /\ ForkIsolation' /\ NbrProcessExact' /\ NoWildWrite'
<1>1. PICK due \in BOOLEAN :
        ordonnanceur(m,
            [process EXCEPT ![current_process].state = SLEEP, ![current_process].due = due],
            Count(nbr_process_alive - 1), nbr_process_sleeping + 1)
  BY DEF send_thread_to_sleep
<1> DEFINE table == [process EXCEPT ![current_process].state = SLEEP,
                                    ![current_process].due = due]
<1>2. /\ mode = "switch" /\ m.INT = INT_SYSC
      /\ ordonnanceur(m, table, Count(nbr_process_alive - 1), nbr_process_sleeping + 1)
      /\ UNCHANGED nbr_process
  BY <1>1 DEF send_thread_to_sleep, Sysc
<1>3. /\ current_process \in Slots
      /\ process \in [Slots -> ProcessEntry]
      /\ process[current_process].state = READY
      /\ nbr_process_sleeping = Cardinality({i \in Slots : process[i].state = SLEEP})
      /\ nbr_process_alive \in -INT_LIMIT .. INT_LIMIT - 1
  BY <1>2, AtCall
<1>4. /\ table \in [Slots -> ProcessEntry]
      /\ \A i \in Slots : table[i].state = IF i = current_process THEN SLEEP
                                            ELSE process[i].state
      /\ \A i \in Slots : table[i].cpu = process[i].cpu
  BY <1>3 DEF ProcessEntry
<1> HIDE DEF table
<1>5. nbr_process_sleeping + 1 = Cardinality({i \in Slots : table[i].state = SLEEP})
  <2> DEFINE S == {i \in Slots : process[i].state = SLEEP}
  <2>1. {i \in Slots : table[i].state = SLEEP} = S \cup {current_process}
        /\ current_process \notin S
    BY <1>3, <1>4 DEF SLEEP, READY
  <2>2. IsFiniteSet(S) /\ Cardinality(S) \in Nat
    BY SlotsFinite, FS_CardinalityType
  <2>3. nbr_process_sleeping = Cardinality(S)
    BY <1>3
  <2> HIDE DEF S
  <2> QED
    BY <2>1, <2>2, <2>3, FS_AddElement
<1>6. Count(nbr_process_alive - 1) \in -INT_LIMIT .. INT_LIMIT - 1
  BY <1>3, NoyauAssumption, MachineAssumption DEF Count
<1> QED
  BY <1>2, <1>4, <1>5, <1>6, CallerFork

(* Steps without the scheduler: the table and the segments stay. *)
LEMMA KeepFork ==
  ASSUME FInv, Live' = Live, current_process' = current_process,
         \A i \in Live : Booted => Context(i)'.SB = Context(i).SB,
         UNCHANGED nbr_process, mode' # "wild"
  PROVE  ForkIsolation' /\ NbrProcessExact' /\ NoWildWrite'
BY DEF FInv, ForkIsolation, NbrProcessExact, NoWildWrite, Booted

(* my_getchar keeps it. *)
LEMMA GetcharFork ==
  ASSUME FInv, my_getchar
  PROVE  TrapInst' /\ ForkIsolation' /\ NbrProcessExact' /\ NoWildWrite'
<1>1. mode = "switch" /\ m.INT = INT_SYSC /\ UNCHANGED nbr_process
  BY DEF my_getchar, Sysc
<1>2. /\ current_process \in Slots
      /\ process \in [Slots -> ProcessEntry]
      /\ process[current_process].state = READY
      /\ nbr_process_sleeping = Cardinality({i \in Slots : process[i].state = SLEEP})
      /\ nbr_process_alive \in -INT_LIMIT .. INT_LIMIT - 1
      /\ m \in PSW
  BY <1>1, AtCall
<1>3. CASE tampon = 0
  <2> DEFINE table == [process EXCEPT ![current_process].state = GETCHAR]
  <2>1. ordonnanceur(m, table, nbr_process_alive, nbr_process_sleeping)
    BY <1>3 DEF my_getchar
  <2>2. /\ table \in [Slots -> ProcessEntry]
        /\ \A i \in Slots : table[i].state = IF i = current_process THEN GETCHAR
                                              ELSE process[i].state
        /\ \A i \in Slots : table[i].cpu = process[i].cpu
    BY <1>2 DEF ProcessEntry
  <2> HIDE DEF table
  <2>3. {i \in Slots : table[i].state = SLEEP} = {i \in Slots : process[i].state = SLEEP}
    BY <1>2, <2>2 DEF SLEEP, GETCHAR, READY
  <2> QED
    BY <1>1, <1>2, <2>1, <2>2, <2>3, CallerFork
<1>4. CASE tampon # 0
  <2>1. /\ m' = [m EXCEPT !.DR[m.RI.i] = tampon] /\ mode' = "cpu"
        /\ UNCHANGED <<process, current_process>>
    BY <1>4 DEF my_getchar
  <2>2. m'.SB = m.SB
    BY <1>2, <2>1 DEF PSW
  <2>3. TrapInst'
    BY <2>1 DEF TrapInst
  <2>4. Live' = Live /\ \A i \in Live : Context(i)'.SB = Context(i).SB
    BY <2>1, <2>2 DEF Live, Context
  <2> QED
    BY <1>1, <2>1, <2>3, <2>4, KeepFork
<1> QED
  BY <1>3, <1>4

(* The end of a slice, and a refused fork, keep it. *)
LEMMA ClockFork ==
  ASSUME FInv, mode = "switch",
         ordonnanceur(m, process, nbr_process_alive, nbr_process_sleeping),
         UNCHANGED nbr_process
  PROVE  TrapInst' /\ ForkIsolation' /\ NbrProcessExact' /\ NoWildWrite'
<1>1. /\ current_process \in Slots
      /\ process \in [Slots -> ProcessEntry]
      /\ process[current_process].state = READY
      /\ nbr_process_sleeping = Cardinality({i \in Slots : process[i].state = SLEEP})
      /\ nbr_process_alive \in -INT_LIMIT .. INT_LIMIT - 1
  BY AtCall
<1>2. \A i \in Slots : process[i].state = IF i = current_process THEN READY
                                           ELSE process[i].state
  BY <1>1
<1> QED
  BY <1>1, <1>2, CallerFork

(* The guard of my_fork: a slot is free when it lets the call through. *)
LEMMA ForkRoom == FInv /\ mode = "switch" /\ ~Full => InState(EMPTY) # {}
<1> SUFFICES ASSUME FInv, mode = "switch", ~Full, InState(EMPTY) = {} PROVE FALSE
  OBVIOUS
<1>1. Live = Slots
  BY DEF Live, InState
<1>2. Cardinality(Slots) = MAX_PROCESS
  BY FS_Interval, MachineAssumption DEF Slots
<1>3. nbr_process = MAX_PROCESS
  BY <1>1, <1>2 DEF FInv, NbrProcessExact
<1> QED
  BY <1>3, MachineAssumption DEF Full

(* my_fork keeps it: an empty slot is there when nbr_process allows one. *)
LEMMA ForkFork ==
  ASSUME FInv, my_fork
  PROVE  TrapInst' /\ ForkIsolation' /\ NbrProcessExact' /\ NoWildWrite'
<1>1. mode = "switch" /\ m.INT = INT_SYSC
  BY DEF my_fork, Sysc
<1>2. /\ current_process \in Slots /\ current_process # 0
      /\ m \in PSW /\ process \in [Slots -> ProcessEntry]
      /\ process[0].state = READY /\ process[current_process].state = READY
      /\ m.SB = current_process * SEGMENT_SIZE
      /\ \A i \in Slots : process[i].state # EMPTY =>
            (IF i = current_process THEN m ELSE process[i].cpu).SB = i * SEGMENT_SIZE
      /\ nbr_process_sleeping = Cardinality({i \in Slots : process[i].state = SLEEP})
      /\ nbr_process = Cardinality({i \in Slots : process[i].state # EMPTY})
      /\ nbr_process_alive \in -INT_LIMIT .. INT_LIMIT - 1
  BY <1>1, AtCall
<1>3. CASE ordonnanceur(m, process, nbr_process_alive, nbr_process_sleeping)
           /\ UNCHANGED nbr_process
  BY <1>1, <1>3, ClockFork
<1>4. ASSUME NEW index \in Slots,
             Lowest(index, InState(EMPTY)),
             ordonnanceur([m EXCEPT !.AC = index],
               [process EXCEPT ![index].cpu = [m EXCEPT !.SB = index * SEGMENT_SIZE, !.AC = 0],
                               ![index].state = process[current_process].state],
               nbr_process_alive, nbr_process_sleeping),
             nbr_process' = Count(nbr_process + 1),
             ~Full
      PROVE  TrapInst' /\ ForkIsolation' /\ NbrProcessExact' /\ NoWildWrite'
  <2> DEFINE parent == [m EXCEPT !.AC = index]
             child  == [m EXCEPT !.SB = index * SEGMENT_SIZE, !.AC = 0]
             table  == [process EXCEPT ![index].cpu = child, ![index].state = READY]
  <2>1. process[index].state = EMPTY /\ index # 0 /\ index # current_process
    BY <1>2, <1>4 DEF Lowest, InState, EMPTY, READY
  <2>2. /\ parent \in PSW /\ parent.SB = m.SB
        /\ child \in PSW /\ child.SB = index * SEGMENT_SIZE
    BY <1>2, Sizes, ZeroTyped DEF PSW
  <2>3. ordonnanceur(parent, table, nbr_process_alive, nbr_process_sleeping)
    BY <1>2, <1>4
  <2> HIDE DEF parent, child
  <2>4. /\ table \in [Slots -> ProcessEntry]
        /\ \A i \in Slots : table[i].state = IF i = index THEN READY ELSE process[i].state
        /\ \A i \in Slots : table[i].cpu = IF i = index THEN child ELSE process[i].cpu
    BY <1>2, <2>2 DEF ProcessEntry
  <2> HIDE DEF table
  <2>5. /\ {i \in Slots : table[i].state = SLEEP} = {i \in Slots : process[i].state = SLEEP}
        /\ {i \in Slots : table[i].state # EMPTY} = Live \cup {index}
        /\ index \notin Live
        /\ table[0].state = READY
    BY <1>2, <2>1, <2>4, SlotsFinite DEF Live, SLEEP, READY, EMPTY
  <2>6. nbr_process' = Cardinality(Live \cup {index})
    <3>1. Cardinality(Live \cup {index}) = Cardinality(Live) + 1
          /\ Cardinality(Live) \in Nat /\ nbr_process = Cardinality(Live)
      BY <1>2, <2>5, LiveFinite, FS_AddElement, FS_CardinalityType DEF Live
    <3> QED
      BY <1>4, <3>1, NoyauAssumption, MachineAssumption DEF Count, Full
  <2>7. \A i \in Slots : table[i].state # EMPTY =>
          (IF i = current_process THEN parent ELSE table[i].cpu).SB = i * SEGMENT_SIZE
    BY <1>2, <2>1, <2>2, <2>4
  <2> QED
    BY <1>2, <2>2, <2>3, <2>4, <2>5, <2>6, <2>7, ForkDispatch
<1>5. ~Full => InState(EMPTY) # {}
  BY <1>1, ForkRoom
<1> QED
  BY <1>3, <1>4, <1>5 DEF my_fork, ForkBase

-----------------------------------------------------------------------------
(* systeme_init establishes it with two processes. *)
LEMMA BootFork ==
  ASSUME FInv, Demarrage
  PROVE  TrapInst' /\ ForkIsolation' /\ NbrProcessExact' /\ NoWildWrite'
<1>1. /\ mode' = "cpu" /\ current_process' = 1 /\ m' = process'[1].cpu
      /\ nbr_process' = Count(nbr_process + 2)
      /\ process' = [i \in Slots |->
           IF i <= 1
           THEN [process[i] EXCEPT !.cpu.PC = 0, !.cpu.SB = i * SEGMENT_SIZE,
                                   !.cpu.SS = SEGMENT_SIZE, !.state = READY]
           ELSE [process[i] EXCEPT !.state = EMPTY]]
  BY DEF Demarrage, systeme_init, BootBase
<1>2. ~Booted
  <2>1. mode = "systeme" /\ m.INT = INT_INIT
    BY DEF Demarrage, systeme_init
  <2> QED
    BY <2>1 DEF FInv, IInv, TrapState, INT_INIT, INT_SEGV, INT_INST, INT_HALT, INT_CLOCK, INT_SYSC
<1>3. nbr_process = 0
  BY <1>2, FS_EmptySet DEF FInv, IInv, BootState, NbrProcessExact
<1>4. \A i \in Slots : process[i] \in ProcessEntry
  BY DEF FInv, IInv, TypeOK
<1>5. ASSUME NEW i \in Slots
      PROVE  /\ process'[i].state = IF i <= 1 THEN READY ELSE EMPTY
             /\ i <= 1 => process'[i].cpu.SB = i * SEGMENT_SIZE
  <2>1. process[i] \in ProcessEntry
    BY <1>4
  <2>2. CASE i <= 1
    BY <1>1, <2>1, <2>2 DEF ProcessEntry, PSW
  <2>3. CASE ~(i <= 1)
    BY <1>1, <2>1, <2>3 DEF ProcessEntry
  <2> QED
    BY <2>2, <2>3
<1>6. Live' = {0, 1}
  BY <1>5, SlotsFinite DEF Live, READY, EMPTY, Slots
<1>7. Cardinality({0, 1}) = 2
  <2>1. IsFiniteSet({0}) /\ Cardinality({0}) = 1
    BY FS_Singleton
  <2>2. {0, 1} = {0} \cup {1} /\ 1 \notin {0}
    OBVIOUS
  <2> QED
    BY <2>1, <2>2, FS_AddElement
<1>8. NbrProcessExact'
  <2>1. nbr_process' = 2
    <3>1. Count(2) = 2
      BY NoyauAssumption, MachineAssumption DEF Count
    <3>2. nbr_process' = Count(0 + 2)
      BY <1>1, <1>3
    <3> QED
      BY <3>1, <3>2
  <2>2. Cardinality(Live') = 2
    BY <1>6, <1>7
  <2> QED
    BY <2>1, <2>2 DEF NbrProcessExact
<1>9. ForkIsolation'
  <2>1. \A i \in Live' : Context(i)' = process'[i].cpu
    BY <1>1 DEF Context
  <2> QED
    BY <1>5, <1>6, <2>1, SlotsFinite DEF ForkIsolation
<1> QED
  BY <1>1, <1>8, <1>9 DEF TrapInst, NoWildWrite

(* frappe_clavier keeps it. *)
LEMMA ClavierFork ==
  ASSUME FInv, Clavier
  PROVE  TrapInst' /\ ForkIsolation' /\ NbrProcessExact' /\ NoWildWrite'
<1>1. /\ mode = "systeme" /\ mode' = "switch"
      /\ UNCHANGED <<m, current_process, nbr_process>>
  BY DEF Clavier
<1>2. TrapInst'
  BY <1>1 DEF FInv, TrapInst
<1>3. process \in [Slots -> ProcessEntry]
  BY DEF FInv, IInv, TypeOK
<1>4. CASE UNCHANGED process
  BY <1>1, <1>2, <1>4, KeepFork DEF Live, Context
<1>5. ASSUME NEW k \in Slots, process[k].state = GETCHAR, process' = Delivered(k)
      PROVE  ForkIsolation' /\ NbrProcessExact' /\ NoWildWrite'
  <2>1. process[k] \in ProcessEntry
    BY <1>3
  <2>2. \A i \in Slots :
          /\ process'[i].state = IF i = k THEN READY ELSE process[i].state
          /\ process'[i].cpu.SB = process[i].cpu.SB
    BY <1>3, <1>5, <2>1 DEF Delivered, ProcessEntry, PSW
  <2>3. Live' = Live
    BY <1>5, <2>2 DEF Live, READY, EMPTY, GETCHAR
  <2>4. \A i \in Live : Context(i)'.SB = Context(i).SB
    BY <1>1, <2>2 DEF Context, Live
  <2> QED
    BY <1>1, <2>3, <2>4, KeepFork
<1> QED
  BY <1>2, <1>4, <1>5 DEF Clavier, frappe_clavier, Lowest, InState

(* Steps and traps of programs keep it. *)
LEMMA UserFork ==
  ASSUME FInv, UserStep \/ UserClock \/ UserFetchFault \/ UserDataFault \/ UserTrap
  PROVE  TrapInst' /\ ForkIsolation' /\ NbrProcessExact' /\ NoWildWrite'
<1>1. m \in PSW
  BY DEF FInv, IInv, TypeOK
<1>2. UNCHANGED <<process, current_process, nbr_process>> /\ mode' \in {"cpu", "systeme"}
  BY DEF UserStep, UserClock, UserFetchFault, UserDataFault, UserTrap, Interrupt, counters
<1>3. m'.SB = m.SB
  BY <1>1 DEF UserStep, UserClock, UserFetchFault, UserDataFault, UserTrap, Interrupt, PSW
<1>4. TrapInst'
  <2>1. CASE UserStep
    BY <2>1 DEF UserStep, TrapInst
  <2>2. CASE UserClock \/ UserFetchFault \/ UserDataFault
    <3>1. m'.INT # INT_SYSC
      BY <1>1, <2>2 DEF UserClock, UserFetchFault, UserDataFault, Interrupt, PSW,
                        INT_SYSC, INT_CLOCK, INT_SEGV
    <3> QED
      BY <3>1 DEF TrapInst
  <2>3. CASE UserTrap
    <3>1. m'.RI \in UserInsts /\ m'.INT = Trap(m'.RI.OP)
      BY <2>3 DEF UserTrap
    <3>2. m'.INT = INT_SYSC => m'.RI.OP = INST_SYSC
      BY <3>1 DEF Trap, INT_SYSC, INT_HALT, INT_INST, INST_SYSC, INST_HALT
    <3> QED
      BY <3>1, <3>2 DEF TrapInst
  <2> QED
    BY <2>1, <2>2, <2>3
<1> QED
  BY <1>2, <1>3, <1>4, KeepFork DEF Live, Context

(* What neither runs nor schedules a process keeps it. *)
LEMMA OtherFork ==
  ASSUME FInv, Arret \/ Affichage \/ (\E i \in Slots : Reveille(i)) \/ Touche \/ Fini
               \/ UNCHANGED noyau
  PROVE  TrapInst' /\ ForkIsolation' /\ NbrProcessExact' /\ NoWildWrite'
<1>1. process \in [Slots -> ProcessEntry]
  BY DEF FInv, IInv, TypeOK
<1>2. UNCHANGED <<m, current_process, nbr_process>>
      /\ (mode' = mode \/ mode' \in {"cpu", "arret"})
  BY DEF Arret, Affichage, Reveille, Touche, Fini, noyau, counters
<1>3. mode' # "wild" /\ TrapInst'
  BY <1>2 DEF FInv, NoWildWrite, TrapInst
<1>4. \A i \in Slots : process'[i].state = process[i].state /\ process'[i].cpu = process[i].cpu
  <2>1. CASE UNCHANGED process
    BY <2>1
  <2>2. ASSUME NEW k \in Slots, Reveille(k)
        PROVE  \A i \in Slots : process'[i].state = process[i].state
                               /\ process'[i].cpu = process[i].cpu
    BY <1>1, <2>2 DEF Reveille, ProcessEntry
  <2> QED
    BY <2>1, <2>2 DEF Arret, Affichage, Touche, Fini, noyau
<1>5. Live' = Live /\ \A i \in Live : Context(i)' = Context(i)
  BY <1>2, <1>4 DEF Live, Context
<1> QED
  BY <1>2, <1>3, <1>5, KeepFork

(* Without threads nothing calls new_thread. *)
LEMMA NoNewThread == ASSUME NoThreads PROVE FInv => ~new_thread
<1> SUFFICES ASSUME FInv, new_thread PROVE FALSE
  OBVIOUS
<1>1. mode = "switch" /\ m.INT = INT_SYSC /\ m.RI.ARG = SYSC_NEW_THREAD
  BY DEF new_thread, Sysc
<1>2. m.RI \in UserInsts /\ m.RI.OP = INST_SYSC
  BY <1>1 DEF FInv, TrapInst
<1> QED
  BY <1>1, <1>2 DEF NoThreads

(* FInv is inductive. *)
LEMMA ForkInductive == ASSUME NoThreads PROVE FInv /\ [Next]_noyau => FInv'
<1> SUFFICES ASSUME FInv, [Next]_noyau PROVE FInv'
  OBVIOUS
<1>1. IInv'
  BY Inductive DEF FInv
<1>2. TrapInst' /\ ForkIsolation' /\ NbrProcessExact' /\ NoWildWrite'
  <2>1. CASE Demarrage
    BY <2>1, BootFork
  <2>2. CASE systeme
    <3>1. CASE Horloge
      BY <3>1, ClockFork DEF Horloge
    <3> QED
      BY <2>2, <3>1, NoNewThread, ClavierFork, OtherFork, ExitFork, SleepFork, GetcharFork,
         ForkFork DEF systeme, system_SYSC
  <2>3. CASE UserStep \/ UserClock \/ UserFetchFault \/ UserDataFault \/ UserTrap
    BY <2>3, UserFork
  <2>4. CASE (\E i \in Slots : Reveille(i)) \/ Touche \/ Fini \/ UNCHANGED noyau
    BY <2>4, OtherFork
  <2> QED
    BY <2>1, <2>2, <2>3, <2>4 DEF Next
<1> QED
  BY <1>1, <1>2 DEF FInv

(* FInv holds at first. *)
LEMMA ForkStart == NoyauInit => FInv
<1> SUFFICES ASSUME NoyauInit PROVE FInv
  OBVIOUS
<1>1. IInv
  BY InitInv
<1>2. Live = {} /\ nbr_process = 0 /\ mode = "systeme" /\ m.INT # INT_SYSC
  BY ZeroTyped DEF NoyauInit, Live, EMPTY, PSW, INT_INIT, INT_SYSC
<1> QED
  BY <1>1, <1>2, FS_EmptySet DEF FInv, TrapInst, ForkIsolation, NbrProcessExact, NoWildWrite

(* FInv holds in every state. *)
LEMMA ForkInvariant == ASSUME NoThreads PROVE Spec => []FInv
<1>1. FInv /\ [Next]_noyau => FInv'
  BY ForkInductive
<1> QED
  BY <1>1, ForkStart, PTL DEF Spec

(* Without threads every process has the segment of its own slot. *)
THEOREM ForkIsolates == ASSUME NoThreads PROVE Spec => []ForkIsolation
<1>1. FInv => ForkIsolation
  BY DEF FInv
<1> QED
  BY <1>1, ForkInvariant, PTL

(* Without threads nbr_process counts the processes of the table. *)
THEOREM ProcessesCounted == ASSUME NoThreads PROVE Spec => []NbrProcessExact
<1>1. FInv => NbrProcessExact
  BY DEF FInv
<1> QED
  BY <1>1, ForkInvariant, PTL

(* Without threads process[-1] is never written. *)
THEOREM NeverWild == ASSUME NoThreads PROVE Spec => []NoWildWrite
<1>1. FInv => NoWildWrite
  BY DEF FInv
<1> QED
  BY <1>1, ForkInvariant, PTL

-----------------------------------------------------------------------------
(* No step of the kernel or of another process writes in the segment of a  *)
(* live process.                                                           *)
LEMMA PrivateStep ==
  ASSUME NoThreads, FInv, [Next]_noyau, NEW i \in Live,
         NEW a \in Segment(Context(i).SB), mem'[a] # mem[a]
  PROVE  mode = "cpu" /\ current_process = i
<1>1. i \in Slots /\ process[i].state # EMPTY
  BY DEF Live
<1>2. Booted
  BY DEF FInv, IInv, BootState
<1>3. Context(i).SB = i * SEGMENT_SIZE
  BY <1>2 DEF FInv, ForkIsolation
<1>4. a \in Segment(i * SEGMENT_SIZE) /\ a \in Addresses
  <2>1. i * SEGMENT_SIZE \in 0 .. MEM_SIZE - SEGMENT_SIZE /\ SEGMENT_SIZE \in Nat
        /\ MEM_SIZE \in Nat
    BY <1>1, Sizes, MachineAssumption
  <2> QED
    BY <1>3, <2>1 DEF Segment, Addresses
<1>5. current_process \in Slots /\ process[current_process].state = READY
  BY <1>2 DEF FInv, IInv, TypeOK, SchedulerNeverSpins, Booted
<1>6. m.SB = current_process * SEGMENT_SIZE
  BY <1>2, <1>5 DEF FInv, ForkIsolation, Live, Context, READY, EMPTY
<1>7. CASE UserStep
  BY <1>4, <1>5, <1>6, <1>1, <1>7, Disjoint DEF UserStep
<1>8. ASSUME NEW index \in Slots, process[index].state = EMPTY,
             mem' = Copied(index * SEGMENT_SIZE), mode = "switch"
      PROVE  FALSE
  <2>1. m.SS = SEGMENT_SIZE
    BY <1>8, AtCall
  <2>2. a \in Segment(index * SEGMENT_SIZE)
    BY <1>4, <1>8, <2>1 DEF Copied, Segment
  <2> QED
    BY <1>1, <1>4, <1>8, <2>2, Disjoint
<1>9. CASE my_fork
  <2>1. mem' # mem
    OBVIOUS
  <2> QED
    BY <1>8, <1>9, <2>1 DEF my_fork, Sysc, Wild, Lowest, InState, ForkBase
<1>10. CASE Demarrage
  <2>1. mode = "systeme" /\ m.INT = INT_INIT
    BY <1>10 DEF Demarrage, systeme_init
  <2> QED
    BY <1>2, <2>1 DEF FInv, IInv, TrapState, INT_INIT, INT_SEGV, INT_INST, INT_HALT, INT_CLOCK,
                      INT_SYSC
<1>11. ~new_thread
  BY NoNewThread
<1>12. CASE Clavier \/ Arret \/ Horloge \/ my_exit \/ send_thread_to_sleep \/ my_getchar
            \/ Affichage \/ UserClock \/ UserFetchFault \/ UserDataFault \/ UserTrap
            \/ (\E k \in Slots : Reveille(k)) \/ Touche \/ Fini \/ UNCHANGED noyau
  <2>1. mem' = mem
    BY <1>12 DEF Clavier, Arret, Horloge, my_exit, send_thread_to_sleep, my_getchar, Affichage,
         UserClock, UserFetchFault, UserDataFault, UserTrap, Interrupt, Reveille, Touche, Fini, noyau
  <2> QED
    BY <2>1
<1> QED
  BY <1>7, <1>9, <1>10, <1>11, <1>12 DEF Next, systeme, system_SYSC

(* Without threads a process is alone to write in its memory. *)
THEOREM MemoryPrivate == ASSUME NoThreads PROVE Spec => PrivateMemory
<1>1. ASSUME FInv, [Next]_noyau
      PROVE  [\A i \in Live : \A a \in Segment(Context(i).SB) :
                mem'[a] # mem[a] => mode = "cpu" /\ current_process = i]_noyau
  BY <1>1, PrivateStep
<1> QED
  BY <1>1, ForkInvariant, PTL DEF Spec, PrivateMemory

-----------------------------------------------------------------------------
(* The context of a suspended process, over a handler that ends in the     *)
(* scheduler and hands over a table which differs from process in the      *)
(* caller and in empty slots only.                                         *)
LEMMA ScheduleKeeps ==
  ASSUME process \in [Slots -> ProcessEntry], current_process \in Slots,
         NEW psw \in PSW, NEW table, NEW alive, NEW sleeping,
         DOMAIN table = Slots,
         \A j \in Slots : table[j].state \in {EMPTY, READY, SLEEP, GETCHAR},
         NEW i \in Slots, i # current_process, table[i] = process[i],
         ordonnanceur(psw, table, alive, sleeping)
  PROVE  process'[i].cpu = process[i].cpu
<1> DEFINE R == reveil(table, sleeping)
<1>1. R \in [Slots -> {R[j] : j \in Slots}] /\ R[i].cpu = process[i].cpu
  <2>1. process[i] \in ProcessEntry
    OBVIOUS
  <2> QED
    BY <2>1 DEF reveil, ProcessEntry
<1>2. process' = [R EXCEPT ![current_process].cpu = psw]
  BY DEF ordonnanceur
<1> HIDE DEF R
<1> QED
  BY <1>1, <1>2

(* The context of a process that does not run stays, or has its character. *)
LEMMA SuspendedStep ==
  ASSUME IInv, Next, Booted, NEW i \in Live \ {current_process}
  PROVE  \/ process'[i].cpu = process[i].cpu
         \/ /\ process[i].state = GETCHAR /\ process'[i].state = READY
            /\ process'[i].cpu = [process[i].cpu EXCEPT
                                    !.DR[process[i].cpu.RI.i] = caractere]
<1>1. /\ i \in Slots /\ i # current_process /\ process[i].state # EMPTY
      /\ process \in [Slots -> ProcessEntry] /\ m \in PSW
      /\ current_process \in Slots
  BY DEF IInv, TypeOK, Live, Booted
<1>2. CASE Horloge
  <2>1. ordonnanceur(m, process, nbr_process_alive, nbr_process_sleeping)
    BY <1>2 DEF Horloge
  <2> QED
    BY <1>1, <2>1, ScheduleKeeps DEF ProcessEntry
<1>3. CASE my_exit
  <2> DEFINE table == [process EXCEPT ![current_process].state = EMPTY]
  <2>1. ordonnanceur(m, table, Count(nbr_process_alive - 1), nbr_process_sleeping)
    BY <1>3 DEF my_exit
  <2>2. table[i] = process[i] /\ table \in [Slots -> ProcessEntry]
    BY <1>1 DEF ProcessEntry
  <2> HIDE DEF table
  <2> QED
    BY <1>1, <2>1, <2>2, ScheduleKeeps DEF ProcessEntry
<1>4. CASE send_thread_to_sleep
  <2>1. PICK due \in BOOLEAN :
          ordonnanceur(m,
            [process EXCEPT ![current_process].state = SLEEP, ![current_process].due = due],
            Count(nbr_process_alive - 1), nbr_process_sleeping + 1)
    BY <1>4 DEF send_thread_to_sleep
  <2> DEFINE table == [process EXCEPT ![current_process].state = SLEEP,
                                      ![current_process].due = due]
  <2>2. ordonnanceur(m, table, Count(nbr_process_alive - 1), nbr_process_sleeping + 1)
    BY <2>1
  <2>3. table[i] = process[i] /\ table \in [Slots -> ProcessEntry]
    BY <1>1 DEF ProcessEntry
  <2> HIDE DEF table
  <2> QED
    BY <1>1, <2>2, <2>3, ScheduleKeeps DEF ProcessEntry
<1>5. CASE my_getchar
  <2>1. CASE UNCHANGED process
    BY <2>1
  <2>2. CASE ordonnanceur(m, [process EXCEPT ![current_process].state = GETCHAR],
                          nbr_process_alive, nbr_process_sleeping)
    <3> DEFINE table == [process EXCEPT ![current_process].state = GETCHAR]
    <3>1. ordonnanceur(m, table, nbr_process_alive, nbr_process_sleeping)
      BY <2>2
    <3>2. table[i] = process[i] /\ table \in [Slots -> ProcessEntry]
      BY <1>1 DEF ProcessEntry
    <3> HIDE DEF table
    <3> QED
      BY <1>1, <3>1, <3>2, ScheduleKeeps DEF ProcessEntry
  <2> QED
    BY <1>5, <2>1, <2>2 DEF my_getchar
<1>6. ASSUME NEW index \in Slots, process[index].state = EMPTY,
             NEW parent \in PSW, NEW child, NEW state \in {READY, SLEEP, GETCHAR},
             NEW alive,
             ordonnanceur(parent,
               [process EXCEPT ![index].cpu = child, ![index].state = state],
               alive, nbr_process_sleeping)
      PROVE  process'[i].cpu = process[i].cpu
  <2> DEFINE table == [process EXCEPT ![index].cpu = child, ![index].state = state]
  <2>1. ordonnanceur(parent, table, alive, nbr_process_sleeping)
    BY <1>6
  <2>2. /\ table[i] = process[i] /\ DOMAIN table = Slots
        /\ \A j \in Slots : table[j].state \in {EMPTY, READY, SLEEP, GETCHAR}
    BY <1>1, <1>6 DEF ProcessEntry
  <2> HIDE DEF table
  <2> QED
    BY <1>1, <1>6, <2>1, <2>2, ScheduleKeeps
<1>7. CASE new_thread
  <2>1. CASE Wild
    BY <2>1 DEF Wild
  <2>2. ASSUME NEW index \in Slots, Lowest(index, InState(EMPTY)),
               ordonnanceur([m EXCEPT !.DR[m.RI.i] = index, !.AC = index],
                 [process EXCEPT ![index].cpu = [m EXCEPT !.DR[m.RI.i] = 0, !.AC = 0],
                                 ![index].state = READY],
                 Count(nbr_process_alive + 1), nbr_process_sleeping)
        PROVE  process'[i].cpu = process[i].cpu
    <3>1. process[index].state = EMPTY
      BY <2>2 DEF Lowest, InState
    <3>2. [m EXCEPT !.DR[m.RI.i] = index, !.AC = index] \in PSW
      <4>1. index \in Word
        BY Sizes
      <4>2. [m.DR EXCEPT ![m.RI.i] = index] \in [Registers -> Word]
        BY <1>1, <4>1 DEF PSW
      <4>3. [m EXCEPT !.DR[m.RI.i] = index, !.AC = index]
              = [m EXCEPT !.DR = [m.DR EXCEPT ![m.RI.i] = index], !.AC = index]
        BY <1>1 DEF PSW
      <4> QED
        BY <1>1, <4>1, <4>2, <4>3 DEF PSW
    <3> QED
      BY <1>6, <2>2, <3>1, <3>2
  <2> QED
    BY <1>7, <2>1, <2>2 DEF new_thread
<1>8. CASE my_fork
  <2>1. CASE Wild
    BY <2>1 DEF Wild
  <2>2. CASE ordonnanceur(m, process, nbr_process_alive, nbr_process_sleeping)
    BY <1>1, <2>2, ScheduleKeeps DEF ProcessEntry
  <2>3. ASSUME NEW index \in Slots, Lowest(index, InState(EMPTY)),
               ordonnanceur([m EXCEPT !.AC = index],
                 [process EXCEPT ![index].cpu = [m EXCEPT !.SB = index * SEGMENT_SIZE, !.AC = 0],
                                 ![index].state = process[current_process].state],
                 nbr_process_alive, nbr_process_sleeping)
        PROVE  process'[i].cpu = process[i].cpu
    <3>1. process[index].state = EMPTY
      BY <2>3 DEF Lowest, InState
    <3>2. [m EXCEPT !.AC = index] \in PSW
      BY <1>1, Sizes DEF PSW
    <3>3. process[current_process].state \in {READY, SLEEP, GETCHAR}
      BY DEF IInv, SchedulerNeverSpins
    <3> QED
      BY <1>6, <2>3, <3>1, <3>2, <3>3
  <2> QED
    BY <1>8, <2>1, <2>2, <2>3 DEF my_fork, ForkBase
<1>9. CASE Clavier
  <2>1. CASE UNCHANGED process
    BY <2>1
  <2>2. ASSUME NEW k \in Slots, process[k].state = GETCHAR, process' = Delivered(k)
        PROVE  \/ process'[i].cpu = process[i].cpu
               \/ /\ process[i].state = GETCHAR /\ process'[i].state = READY
                  /\ process'[i].cpu = [process[i].cpu EXCEPT
                                          !.DR[process[i].cpu.RI.i] = caractere]
    <3>1. process[i] \in ProcessEntry
      BY <1>1
    <3> QED
      BY <1>1, <2>2, <3>1 DEF Delivered, ProcessEntry
  <2> QED
    BY <1>9, <2>1, <2>2 DEF Clavier, frappe_clavier, Lowest, InState
<1>10. CASE Demarrage
  <2>1. mode = "systeme" /\ m.INT = INT_INIT
    BY <1>10 DEF Demarrage, systeme_init
  <2> QED
    BY <2>1 DEF IInv, TrapState, INT_INIT, INT_SEGV, INT_INST, INT_HALT, INT_CLOCK, INT_SYSC
<1>11. ASSUME NEW k \in Slots, Reveille(k) PROVE process'[i].cpu = process[i].cpu
  <2>1. process[i] \in ProcessEntry
    BY <1>1
  <2> QED
    BY <1>1, <1>11, <2>1 DEF Reveille, ProcessEntry
<1>12. CASE Arret \/ Affichage \/ UserStep \/ UserClock \/ UserFetchFault \/ UserDataFault
            \/ UserTrap \/ Touche \/ Fini
  <2>1. UNCHANGED process
    BY <1>12 DEF Arret, Affichage, UserStep, UserClock, UserFetchFault, UserDataFault, UserTrap,
                 Interrupt, Touche, Fini, noyau
  <2> QED
    BY <2>1
<1> QED
  BY <1>2, <1>3, <1>4, <1>5, <1>7, <1>8, <1>9, <1>10, <1>11, <1>12
     DEF Next, systeme, system_SYSC

(* A suspended process is resumed with the context it was suspended with,  *)
(* plus the key it waited for.                                             *)
THEOREM SuspendedKept == Spec => SuspendedUntouched
<1>1. ASSUME IInv, [Next]_noyau
      PROVE  [\A i \in Live \ {current_process} :
                Booted => \/ process'[i].cpu = process[i].cpu
                          \/ /\ process[i].state = GETCHAR /\ process'[i].state = READY
                             /\ process'[i].cpu = [process[i].cpu EXCEPT
                                                     !.DR[process[i].cpu.RI.i] = caractere]
             ]_noyau
  BY <1>1, SuspendedStep
<1> QED
  BY <1>1, Invariant, PTL DEF Spec, SuspendedUntouched
=============================================================================
