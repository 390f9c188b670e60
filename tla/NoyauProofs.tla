---------------------------- MODULE NoyauProofs ----------------------------
(***************************************************************************)
(* What every handler of the kernel preserves, for every size of the       *)
(* machine: lemmas on the actions of Noyau alone.  SystemeProofs adds      *)
(* arbitrary programs to them, SimulProofs the processor of cpu.c.         *)
(***************************************************************************)
EXTENDS Noyau, FiniteSetTheorems, TLAPS

(* Sizes: the segment of a slot lies in the memory, words hold addresses.  *)
LEMMA Sizes ==
  ASSUME NEW i \in Slots
  PROVE  /\ i \in Word
         /\ i * SEGMENT_SIZE \in Word
         /\ i * SEGMENT_SIZE \in 0 .. MEM_SIZE - SEGMENT_SIZE
         /\ SEGMENT_SIZE \in Word
         /\ i # 0 => i * SEGMENT_SIZE # 0
         /\ 0 * SEGMENT_SIZE = 0
<1>1. i \in Nat /\ i + 1 \in Nat /\ i + 1 <= MAX_PROCESS /\ SEGMENT_SIZE \in Nat
      /\ SEGMENT_SIZE > 0 /\ MAX_PROCESS \in Nat /\ MEM_SIZE \in Nat
      /\ MEM_SIZE <= MaxWord /\ MAX_PROCESS * SEGMENT_SIZE <= MEM_SIZE
  BY MachineAssumption DEF Slots
<1>2. (i + 1) * SEGMENT_SIZE = i * SEGMENT_SIZE + SEGMENT_SIZE
  BY <1>1
<1>3. i * SEGMENT_SIZE + SEGMENT_SIZE <= MAX_PROCESS * SEGMENT_SIZE
  BY <1>1, <1>2
<1>4. i <= i * SEGMENT_SIZE /\ i * SEGMENT_SIZE \in Nat
  BY <1>1
<1>5. MaxWord \in Nat
  BY SMT DEF MaxWord
<1> QED
  BY <1>1, <1>3, <1>4, <1>5 DEF Word, MinWord

(* The slots are finitely many, and 0 and 1 are among them. *)
LEMMA SlotsFinite ==
  /\ 0 \in Slots /\ 1 \in Slots
  /\ \A S \in SUBSET Slots : IsFiniteSet(S) /\ Cardinality(S) \in 0 .. MAX_PROCESS
<1>1. 0 \in Slots /\ 1 \in Slots
  BY MachineAssumption DEF Slots
<1>2. IsFiniteSet(Slots) /\ Cardinality(Slots) = MAX_PROCESS
  BY FS_Interval, MachineAssumption DEF Slots
<1>3. ASSUME NEW S \in SUBSET Slots
      PROVE  IsFiniteSet(S) /\ Cardinality(S) \in 0 .. MAX_PROCESS
  BY <1>2, <1>3, FS_Subset, FS_CardinalityType, MachineAssumption
<1> QED
  BY <1>1, <1>3

(* A counter that wraps around stays an int. *)
LEMMA CountRange ==
  ASSUME NEW n \in -INT_LIMIT .. INT_LIMIT - 1, NEW d \in -MAX_PROCESS .. MAX_PROCESS
  PROVE  Count(n + d) \in -INT_LIMIT .. INT_LIMIT - 1
BY NoyauAssumption, MachineAssumption DEF Count

(* What a handler finds after ordonnanceur(), whatever table and counters  *)
(* it was called with, if these agree and idle is ready in the table.      *)
LEMMA Schedule ==
  ASSUME NEW psw \in PSW, NEW table \in [Slots -> ProcessEntry],
         NEW alive \in -INT_LIMIT .. INT_LIMIT - 1, NEW sleeping,
         sleeping = Cardinality({i \in Slots : table[i].state = SLEEP}),
         table[0].state = READY,
         current_process \in Slots,
         ordonnanceur(psw, table, alive, sleeping)
  PROVE  /\ process' \in [Slots -> ProcessEntry]
         /\ m' \in PSW
         /\ mode' = "cpu"
         /\ current_process' \in Slots
         /\ nbr_process_alive' \in -INT_LIMIT .. INT_LIMIT - 1
         /\ nbr_process_sleeping' \in 0 .. MAX_PROCESS
         /\ nbr_process_sleeping' = Cardinality(InState(SLEEP)')
         /\ InState(GETCHAR)' = {i \in Slots : table[i].state = GETCHAR}
         /\ Live' = {i \in Slots : table[i].state # EMPTY}
         /\ process'[0].state = READY
         /\ process'[current_process'].state = READY
         /\ m' = process'[current_process'].cpu
         /\ \A i \in Slots :
              process'[i].cpu = IF i = current_process THEN psw ELSE table[i].cpu
<1> DEFINE W == Wakeable(table, sleeping)
           Asleep == {i \in Slots : table[i].state = SLEEP}
           R == reveil(table, sleeping)
<1>1. W \in SUBSET Asleep /\ Asleep \in SUBSET Slots
  BY DEF Wakeable
<1>2. /\ R \in [Slots -> ProcessEntry]
      /\ \A i \in Slots : R[i].cpu = table[i].cpu
      /\ \A i \in W : R[i].state = READY /\ table[i].state = SLEEP
      /\ \A i \in Slots \ W : R[i].state = table[i].state
  BY <1>1 DEF reveil, ProcessEntry, READY, SLEEP
<1>3. process' = [R EXCEPT ![current_process].cpu = psw]
  BY DEF ordonnanceur
<1>4. /\ process' \in [Slots -> ProcessEntry]
      /\ \A i \in Slots : process'[i].state = R[i].state
      /\ \A i \in Slots : process'[i].cpu = IF i = current_process THEN psw ELSE R[i].cpu
  <2> HIDE DEF R
  <2> QED
    BY <1>2, <1>3 DEF ProcessEntry
<1>5. /\ InState(SLEEP)' = Asleep \ W
      /\ InState(GETCHAR)' = {i \in Slots : table[i].state = GETCHAR}
      /\ Live' = {i \in Slots : table[i].state # EMPTY}
      /\ process'[0].state = READY
  <2>1. \A i \in Slots : process'[i].state = IF i \in W THEN READY ELSE table[i].state
    BY <1>2, <1>4
  <2>2. InState(SLEEP)' = {i \in Slots : process'[i].state = SLEEP}
        /\ InState(GETCHAR)' = {i \in Slots : process'[i].state = GETCHAR}
        /\ Live' = {i \in Slots : process'[i].state # EMPTY}
    BY DEF InState, Live
  <2>3. \A i \in W : i \in Slots /\ table[i].state = SLEEP
    BY <1>1
  <2>4. /\ \A i \in Slots : process'[i].state = GETCHAR <=> table[i].state = GETCHAR
        /\ \A i \in Slots : process'[i].state # EMPTY <=> table[i].state # EMPTY
        /\ \A i \in Slots : process'[i].state = SLEEP <=> table[i].state = SLEEP /\ i \notin W
        /\ process'[0].state = READY
    <3> HIDE DEF W
    <3> QED
      BY <2>1, <2>3, SlotsFinite DEF READY, SLEEP, GETCHAR, EMPTY
  <2>5. InState(SLEEP)' = Asleep \ W
    <3> HIDE DEF W
    <3> QED
      BY <2>2, <2>4
  <2> QED
    BY <2>2, <2>4, <2>5
<1>6. nbr_process_sleeping' = Cardinality(Asleep \ W)
      /\ nbr_process_sleeping' \in 0 .. MAX_PROCESS
  <2>1. IsFiniteSet(Asleep) /\ IsFiniteSet(W) /\ Asleep \cap W = W
    BY <1>1, SlotsFinite
  <2>2. Cardinality(Asleep \ W) = Cardinality(Asleep) - Cardinality(W)
    <3> HIDE DEF W, Asleep
    <3> QED
      BY <2>1, FS_Difference
  <2>3. nbr_process_sleeping' = sleeping - Cardinality(W)
    BY DEF ordonnanceur
  <2>4. Cardinality(Asleep \ W) \in 0 .. MAX_PROCESS
    BY <1>1, SlotsFinite
  <2>5. sleeping = Cardinality(Asleep)
    OBVIOUS
  <2> HIDE DEF W, Asleep
  <2> QED
    BY <2>2, <2>3, <2>4, <2>5
<1>7. nbr_process_alive' \in -INT_LIMIT .. INT_LIMIT - 1
  <2>1. Cardinality(W) \in 0 .. MAX_PROCESS
    BY <1>1, SlotsFinite
  <2>2. nbr_process_alive' = Count(alive + Cardinality(W))
    BY DEF ordonnanceur
  <2> HIDE DEF W
  <2>3. Cardinality(W) \in -MAX_PROCESS .. MAX_PROCESS
    BY <2>1, MachineAssumption
  <2>4. Count(alive + Cardinality(W)) \in -INT_LIMIT .. INT_LIMIT - 1
    BY <2>3, CountRange
  <2> QED
    BY <2>2, <2>4
<1>8. /\ mode' = "cpu"
      /\ current_process' \in Slots
      /\ process'[current_process'].state = READY
      /\ m' = process'[current_process'].cpu
  BY DEF ordonnanceur
<1>9. m' \in PSW
  BY <1>4, <1>8 DEF ProcessEntry
<1> QED
  BY <1>2, <1>4, <1>5, <1>6, <1>7, <1>8, <1>9

(* A handler that ends in ordonnanceur() keeps the invariant if the table, *)
(* the context and the counters it hands over are right.                   *)
LEMMA Dispatch ==
  ASSUME NEW psw \in PSW, NEW table \in [Slots -> ProcessEntry],
         NEW alive \in -INT_LIMIT .. INT_LIMIT - 1, NEW sleeping,
         current_process \in Slots,
         sleeping = Cardinality({i \in Slots : table[i].state = SLEEP}),
         table[0].state = READY,
         \A i \in Slots : table[i].state # EMPTY =>
            HasSegment(IF i = current_process THEN psw ELSE table[i].cpu, i),
         ordonnanceur(psw, table, alive, sleeping),
         nbr_in_getchar' = Cardinality({i \in Slots : table[i].state = GETCHAR}),
         tampon' \in {0, caractere},
         tampon' # 0 => {i \in Slots : table[i].state = GETCHAR} = {},
         nbr_process' \in -INT_LIMIT .. INT_LIMIT - 1,
         frappe' \in BOOLEAN,
         mem' \in [Addresses -> Word]
  PROVE  IInv'
<1>1. /\ process' \in [Slots -> ProcessEntry]
      /\ m' \in PSW
      /\ mode' = "cpu"
      /\ current_process' \in Slots
      /\ nbr_process_alive' \in -INT_LIMIT .. INT_LIMIT - 1
      /\ nbr_process_sleeping' \in 0 .. MAX_PROCESS
      /\ nbr_process_sleeping' = Cardinality(InState(SLEEP)')
      /\ InState(GETCHAR)' = {i \in Slots : table[i].state = GETCHAR}
      /\ Live' = {i \in Slots : table[i].state # EMPTY}
      /\ process'[0].state = READY
      /\ process'[current_process'].state = READY
      /\ m' = process'[current_process'].cpu
      /\ \A i \in Slots :
           process'[i].cpu = IF i = current_process THEN psw ELSE table[i].cpu
  BY Schedule
<1>2. nbr_in_getchar' \in 0 .. MAX_PROCESS
  BY SlotsFinite
<1>3. current_process' # -1
  BY <1>1 DEF Slots
<1>4. TypeOK'
  BY <1>1, <1>2 DEF TypeOK
<1>5. BootState' /\ TrapState' /\ SchedulerNeverSpins'
  BY <1>1, <1>3 DEF BootState, TrapState, SchedulerNeverSpins, Booted
<1>6. CountersAgree' /\ NoWaiterWhileBuffered'
  BY <1>1 DEF CountersAgree, NoWaiterWhileBuffered
<1>7. IdleSegmentPrivate'
  <2>1. \A i \in Live' : HasSegment(process'[i].cpu, i)
    BY <1>1
  <2>2. \A i \in Live' : Context(i)' = process'[i].cpu
    BY <1>1 DEF Context
  <2> QED
    BY <2>1, <2>2 DEF IdleSegmentPrivate, HasSegment, Bases
<1> QED
  BY <1>4, <1>5, <1>6, <1>7 DEF IInv

-----------------------------------------------------------------------------
(* Static storage has the types of the machine. *)
LEMMA ZeroTyped == ZeroPSW \in PSW /\ 0 \in Word
<1>1. 0 \in Word
  <2>1. MaxWord \in Nat
    BY SMT DEF MaxWord
  <2> QED
    BY <2>1 DEF Word, MinWord
<1>2. Decode(0) \in INST
  <2>1. Decode(0) = [OP |-> 0, i |-> 0, j |-> 0, ARG |-> 0]
    BY SMT DEF Decode
  <2>2. 0 \in 0 .. MaxOp /\ 0 \in -MaxArg - 1 .. MaxArg /\ 0 \in Registers
    BY MachineAssumption, SMT DEF MaxOp, MaxArg
  <2> QED
    BY <2>1, <2>2, SMT DEF INST
<1> QED
  BY <1>1, <1>2 DEF ZeroPSW, PSW

(* Before main() calls anything the invariant holds. *)
LEMMA InitInv == NoyauInit => IInv
<1> SUFFICES ASSUME NoyauInit PROVE IInv
  OBVIOUS
<1>1. \A i \in Slots : process[i].state = EMPTY
  BY DEF NoyauInit
<1>2. InState(SLEEP) = {} /\ InState(GETCHAR) = {} /\ Live = {}
  BY <1>1 DEF InState, Live, SLEEP, GETCHAR, EMPTY
<1>3. TypeOK
  <2>1. m \in PSW
    BY ZeroTyped DEF NoyauInit, PSW, INT_INIT
  <2>2. process \in [Slots -> ProcessEntry]
    BY ZeroTyped DEF NoyauInit, ProcessEntry
  <2>3. mem \in [Addresses -> Word]
    BY ZeroTyped DEF NoyauInit
  <2>4. /\ nbr_process_alive = 0 /\ nbr_process_sleeping = 0 /\ nbr_in_getchar = 0
        /\ nbr_process = 0 /\ tampon = 0 /\ frappe = FALSE /\ current_process = -1
        /\ mode = "systeme"
    BY DEF NoyauInit
  <2>5. 0 \in -INT_LIMIT .. INT_LIMIT - 1 /\ 0 \in 0 .. MAX_PROCESS
    BY NoyauAssumption, MachineAssumption
  <2> QED
    BY <2>1, <2>2, <2>3, <2>4, <2>5 DEF TypeOK
<1>4. BootState /\ TrapState /\ SchedulerNeverSpins /\ IdleSegmentPrivate
  BY <1>2 DEF NoyauInit, BootState, TrapState, SchedulerNeverSpins, IdleSegmentPrivate, Booted
<1>5. CountersAgree /\ NoWaiterWhileBuffered
  BY <1>2, FS_EmptySet DEF NoyauInit, CountersAgree, NoWaiterWhileBuffered
<1> QED
  BY <1>3, <1>4, <1>5 DEF IInv

(* systeme_init establishes it, whatever image it leaves in memory. *)
LEMMA BootInv ==
  ASSUME NEW image \in [Addresses -> Word], IInv, systeme_init(image)
  PROVE  IInv'
<1> mode = "systeme" /\ m.INT = INT_INIT
  BY DEF systeme_init
<1> /\ current_process' = 1 /\ m' = process'[1].cpu /\ mode' = "cpu"
    /\ UNCHANGED <<nbr_process_sleeping, nbr_in_getchar, tampon>>
  BY DEF systeme_init
<1>1. ~Booted
  BY DEF IInv, TrapState, INT_INIT, INT_SEGV, INT_INST, INT_HALT, INT_CLOCK, INT_SYSC
<1>2. Live = {} /\ tampon = 0
  BY <1>1 DEF IInv, BootState
<1>3. InState(SLEEP) = {} /\ InState(GETCHAR) = {}
  BY <1>2 DEF Live, InState, SLEEP, GETCHAR, EMPTY
<1>4. /\ process' \in [Slots -> ProcessEntry]
      /\ \A i \in Slots : process'[i].state = IF i <= 1 THEN READY ELSE EMPTY
      /\ \A i \in Slots : i <= 1 => process'[i].cpu.SB = i * SEGMENT_SIZE
                                 /\ process'[i].cpu.SS = SEGMENT_SIZE
  <2>1. \A i \in Slots : process[i] \in ProcessEntry
    BY DEF IInv, TypeOK
  <2>2. process' = [i \in Slots |->
           IF i <= 1
           THEN [process[i] EXCEPT !.cpu.PC = 0, !.cpu.SB = i * SEGMENT_SIZE,
                                   !.cpu.SS = SEGMENT_SIZE, !.state = READY]
           ELSE [process[i] EXCEPT !.state = EMPTY]]
    BY DEF systeme_init, BootBase
  <2>3. ASSUME NEW i \in Slots
        PROVE  /\ process'[i] \in ProcessEntry
               /\ process'[i].state = IF i <= 1 THEN READY ELSE EMPTY
               /\ i <= 1 => process'[i].cpu.SB = i * SEGMENT_SIZE
                            /\ process'[i].cpu.SS = SEGMENT_SIZE
    <3>1. process[i] \in ProcessEntry /\ i * SEGMENT_SIZE \in Word /\ SEGMENT_SIZE \in Word
          /\ 0 \in Word
      BY <2>1, Sizes, ZeroTyped
    <3>2. CASE i <= 1
      BY <3>1, <3>2, <2>2 DEF ProcessEntry, PSW
    <3>3. CASE ~(i <= 1)
      BY <3>1, <3>3, <2>2 DEF ProcessEntry
    <3> QED
      BY <3>2, <3>3
  <2> QED
    BY <2>2, <2>3
<1>5. /\ InState(SLEEP)' = {} /\ InState(GETCHAR)' = {}
      /\ Live' = {i \in Slots : i <= 1}
  BY <1>4 DEF Live, InState, SLEEP, GETCHAR, EMPTY, READY
<1>6. TypeOK'
  <2>1. m' \in PSW
    BY <1>4, SlotsFinite DEF ProcessEntry
  <2>2. Count(nbr_process_alive + 2) \in -INT_LIMIT .. INT_LIMIT - 1
        /\ Count(nbr_process + 2) \in -INT_LIMIT .. INT_LIMIT - 1
    BY CountRange, MachineAssumption DEF IInv, TypeOK
  <2>3. mem' \in [Addresses -> Word]
    BY DEF systeme_init
  <2> QED
    BY <1>4, <2>1, <2>2, <2>3, SlotsFinite DEF systeme_init, IInv, TypeOK
<1>7. CountersAgree' /\ NoWaiterWhileBuffered'
  BY <1>2, <1>3, <1>5 DEF IInv, CountersAgree, NoWaiterWhileBuffered, systeme_init
<1>8. BootState' /\ TrapState' /\ SchedulerNeverSpins'
  BY <1>4, SlotsFinite DEF BootState, TrapState, SchedulerNeverSpins, Booted
<1>9. IdleSegmentPrivate'
  <2>1. \A i \in Live' : Context(i)' = process'[i].cpu
    BY DEF systeme_init, Context
  <2>2. \A i \in Live' : HasSegment(process'[i].cpu, i)
    BY <1>4, <1>5, Sizes DEF HasSegment, Bases
  <2> QED
    BY <2>1, <2>2 DEF IdleSegmentPrivate, HasSegment, Bases
<1> QED
  BY <1>6, <1>7, <1>8, <1>9 DEF IInv

-----------------------------------------------------------------------------
(* What holds at the switch of systeme(). *)
LEMMA AtSwitch ==
  ASSUME IInv, mode = "switch"
  PROVE  /\ Booted /\ current_process \in Slots
         /\ m \in PSW /\ process \in [Slots -> ProcessEntry]
         /\ HasSegment(m, current_process)
         /\ process[0].state = READY /\ process[current_process].state = READY
         /\ m.INT = INT_SYSC => current_process # 0
         /\ \A i \in Slots : i # current_process /\ process[i].state # EMPTY =>
              HasSegment(process[i].cpu, i)
<1>1. Booted
  BY DEF IInv, BootState
<1>2. current_process \in Slots
  BY <1>1 DEF IInv, TypeOK, Booted
<1>3. process[current_process].state = READY
  BY <1>1 DEF IInv, SchedulerNeverSpins
<1>4. \A i \in Slots : process[i].state # EMPTY => HasSegment(Context(i), i)
  BY <1>1 DEF IInv, IdleSegmentPrivate, Live
<1>5. HasSegment(m, current_process)
  BY <1>2, <1>3, <1>4 DEF Context, READY, EMPTY
<1>6. \A i \in Slots : i # current_process /\ process[i].state # EMPTY =>
         HasSegment(process[i].cpu, i)
  BY <1>4 DEF Context
<1>7. m.INT = INT_SYSC => current_process # 0
  BY <1>1 DEF IInv, TrapState, INT_SYSC, INT_CLOCK
<1> QED
  BY <1>1, <1>2, <1>3, <1>5, <1>6, <1>7 DEF IInv, TypeOK, SchedulerNeverSpins

(* frappe_clavier keeps the invariant: it serves a waiter or fills the buffer. *)
LEMMA ClavierInv == IInv /\ Clavier => IInv'
<1> SUFFICES ASSUME IInv, Clavier PROVE IInv'
  OBVIOUS
<1> /\ mode = "systeme" /\ m.INT # INT_INIT /\ mode' = "switch" /\ frappe' = FALSE
    /\ UNCHANGED <<m, current_process, nbr_process_sleeping, nbr_process, mem>>
  BY DEF Clavier
<1>1. Booted /\ current_process \in Slots
  BY DEF IInv, BootState, Booted, TypeOK
<1>2. \A i \in Slots : Context(i)' = IF i = current_process THEN m ELSE process'[i].cpu
  BY DEF Context
<1>3. CASE UNCHANGED <<process, nbr_in_getchar, nbr_process_alive>> /\ tampon' \in {0, caractere}
           /\ (tampon' # 0 => InState(GETCHAR) = {})
  <2>1. TypeOK' /\ BootState' /\ TrapState' /\ SchedulerNeverSpins'
    BY <1>1, <1>3 DEF IInv, TypeOK, BootState, TrapState, SchedulerNeverSpins, Booted
  <2>2. CountersAgree' /\ NoWaiterWhileBuffered'
    BY <1>3 DEF IInv, CountersAgree, NoWaiterWhileBuffered, InState
  <2>3. IdleSegmentPrivate'
    BY <1>1, <1>3 DEF IInv, IdleSegmentPrivate, Live, Context, HasSegment, Bases, Booted
  <2> QED
    BY <2>1, <2>2, <2>3 DEF IInv
<1>4. CASE /\ nbr_in_getchar # 0
           /\ nbr_in_getchar' = nbr_in_getchar - 1
           /\ nbr_process_alive' = Count(nbr_process_alive + 1)
           /\ UNCHANGED tampon
           /\ \E i \in Slots :
                /\ Lowest(i, InState(GETCHAR))
                /\ process' = [process EXCEPT
                     ![i].state = READY, ![i].cpu.DR[process[i].cpu.RI.i] = caractere]
  <2>1. PICK k \in Slots :
          /\ process[k].state = GETCHAR
          /\ process' = [process EXCEPT
               ![k].state = READY, ![k].cpu.DR[process[k].cpu.RI.i] = caractere]
    BY <1>4 DEF Lowest, InState
  <2>2. process[k] \in ProcessEntry /\ caractere \in Word
    <3>1. process[k] \in ProcessEntry
      BY DEF IInv, TypeOK
    <3>2. MaxWord \in Nat /\ 97 <= MaxWord
      BY SMT DEF MaxWord
    <3> QED
      BY <3>1, <3>2 DEF caractere, Word, MinWord
  <2>3. /\ process' \in [Slots -> ProcessEntry]
        /\ \A i \in Slots : process'[i].state = IF i = k THEN READY ELSE process[i].state
        /\ \A i \in Slots : /\ process'[i].cpu.SB = process[i].cpu.SB
                             /\ process'[i].cpu.SS = process[i].cpu.SS
    <3>1. process' = [process EXCEPT ![k] =
            [process[k] EXCEPT !.state = READY,
               !.cpu = [process[k].cpu EXCEPT !.DR =
                          [process[k].cpu.DR EXCEPT ![process[k].cpu.RI.i] = caractere]]]]
      BY <2>1
    <3>2. process[k].cpu \in PSW
      BY <2>2 DEF ProcessEntry
    <3>3. [process[k].cpu EXCEPT !.DR =
             [process[k].cpu.DR EXCEPT ![process[k].cpu.RI.i] = caractere]] \in PSW
      BY <2>2, <3>2 DEF PSW
    <3> DEFINE psw == [process[k].cpu EXCEPT !.DR =
             [process[k].cpu.DR EXCEPT ![process[k].cpu.RI.i] = caractere]]
    <3>4. psw \in PSW /\ psw.SB = process[k].cpu.SB /\ psw.SS = process[k].cpu.SS
      BY <3>2, <3>3 DEF PSW
    <3>5. process' = [process EXCEPT ![k] = [process[k] EXCEPT !.state = READY, !.cpu = psw]]
      BY <3>1
    <3> HIDE DEF psw
    <3> QED
      BY <2>2, <3>4, <3>5 DEF IInv, TypeOK, ProcessEntry
  <2>4. /\ InState(SLEEP)' = InState(SLEEP)
        /\ InState(GETCHAR)' = InState(GETCHAR) \ {k}
        /\ k \in InState(GETCHAR)
        /\ Live' = Live
        /\ process'[0].state = READY /\ process'[current_process].state = READY
    <3>1. process[0].state = READY /\ process[current_process].state = READY
      BY <1>1 DEF IInv, SchedulerNeverSpins
    <3> QED
      BY <1>1, <2>1, <2>3, <3>1, SlotsFinite
         DEF InState, Live, READY, SLEEP, GETCHAR, EMPTY
  <2>5. /\ Cardinality(InState(GETCHAR) \ {k}) = Cardinality(InState(GETCHAR)) - 1
        /\ Cardinality(InState(GETCHAR) \ {k}) \in 0 .. MAX_PROCESS
    <3>1. InState(GETCHAR) \in SUBSET Slots /\ InState(GETCHAR) \ {k} \in SUBSET Slots
      BY DEF InState
    <3> QED
      BY <2>4, <3>1, SlotsFinite, FS_RemoveElement
  <2>6. CountersAgree' /\ NoWaiterWhileBuffered'
    BY <1>4, <2>4, <2>5 DEF IInv, CountersAgree, NoWaiterWhileBuffered
  <2>7. nbr_process_alive' \in -INT_LIMIT .. INT_LIMIT - 1
    BY <1>4, CountRange, MachineAssumption DEF IInv, TypeOK
  <2>8. TypeOK'
    <3>1. nbr_in_getchar' \in 0 .. MAX_PROCESS
      BY <1>4, <2>5 DEF IInv, CountersAgree
    <3> QED
      BY <1>4, <2>3, <2>7, <3>1 DEF IInv, TypeOK
  <2>9. BootState' /\ TrapState' /\ SchedulerNeverSpins'
    BY <1>1, <2>4 DEF IInv, BootState, TrapState, SchedulerNeverSpins, Booted
  <2>10. IdleSegmentPrivate'
    <3>1. \A i \in Live : Context(i)'.SB = Context(i).SB /\ Context(i)'.SS = Context(i).SS
      BY <2>3 DEF Context, Live
    <3>2. Booted' /\ Booted
      BY <1>1 DEF Booted
    <3> QED
      BY <2>4, <3>1, <3>2 DEF IInv, IdleSegmentPrivate, HasSegment, Bases
  <2> QED
    BY <2>6, <2>8, <2>9, <2>10 DEF IInv
<1>5. CASE ~frappe /\ UNCHANGED <<process, nbr_in_getchar, nbr_process_alive, tampon>>
  BY <1>3, <1>5 DEF IInv, TypeOK, NoWaiterWhileBuffered
<1>6. CASE (nbr_in_getchar = 0 \/ InState(GETCHAR) = {}) /\ tampon' = caractere
           /\ UNCHANGED <<process, nbr_in_getchar, nbr_process_alive>>
  <2>1. IsFiniteSet(InState(GETCHAR)) /\ nbr_in_getchar = Cardinality(InState(GETCHAR))
    BY SlotsFinite DEF InState, IInv, CountersAgree
  <2>2. InState(GETCHAR) = {}
    BY <1>6, <2>1, FS_EmptySet
  <2> QED
    BY <1>3, <1>6, <2>2
<1> QED
  BY <1>4, <1>5, <1>6 DEF Clavier, frappe_clavier, Delivered

(* Handlers that leave systeme() and change nothing else. *)
LEMMA LeaveInv ==
  ASSUME IInv, mode = "switch", mode' \in {"cpu", "arret", "wild"},
         UNCHANGED <<m, process, current_process, counters, tampon, frappe, mem>>
  PROVE  IInv'
<1> UNCHANGED <<m, process, current_process, nbr_process_alive, nbr_process_sleeping,
                nbr_in_getchar, nbr_process, tampon, frappe, mem>>
  BY DEF counters
<1>1. Booted
  BY AtSwitch
<1>2. TypeOK' /\ BootState' /\ TrapState' /\ SchedulerNeverSpins'
  BY <1>1 DEF IInv, TypeOK, BootState, TrapState, SchedulerNeverSpins, Booted
<1>3. CountersAgree' /\ NoWaiterWhileBuffered'
  BY DEF IInv, CountersAgree, NoWaiterWhileBuffered, InState
<1>4. IdleSegmentPrivate'
  BY <1>1 DEF IInv, IdleSegmentPrivate, Live, Context, HasSegment, Bases, Booted
<1> QED
  BY <1>2, <1>3, <1>4 DEF IInv

(* The end of the simulator keeps it. *)
LEMMA ArretInv == IInv /\ Arret => IInv'
BY LeaveInv DEF Arret

(* PUTI, IDLE and unknown calls keep it. *)
LEMMA AffichageInv == IInv /\ Affichage => IInv'
BY LeaveInv DEF Affichage

(* The end of a slice keeps it: ordonnanceur() with the table as it is. *)
LEMMA HorlogeInv == IInv /\ Horloge => IInv'
<1> SUFFICES ASSUME IInv, Horloge PROVE IInv'
  OBVIOUS
<1> /\ mode = "switch"
    /\ ordonnanceur(m, process, nbr_process_alive, nbr_process_sleeping)
    /\ UNCHANGED <<nbr_in_getchar, nbr_process, tampon, frappe, mem>>
  BY DEF Horloge
<1>1. /\ nbr_process_sleeping = Cardinality({i \in Slots : process[i].state = SLEEP})
      /\ nbr_in_getchar = Cardinality({i \in Slots : process[i].state = GETCHAR})
      /\ tampon # 0 => {i \in Slots : process[i].state = GETCHAR} = {}
  BY DEF IInv, CountersAgree, NoWaiterWhileBuffered, InState
<1>2. TypeOK
  BY DEF IInv
<1> QED
  BY <1>1, <1>2, AtSwitch, Dispatch DEF TypeOK

(* my_exit keeps it: the slot is emptied, its counter goes down. *)
LEMMA ExitInv == IInv /\ my_exit => IInv'
<1> SUFFICES ASSUME IInv, my_exit PROVE IInv'
  OBVIOUS
<1> DEFINE table == [process EXCEPT ![current_process].state = EMPTY]
<1>1. /\ mode = "switch" /\ m.INT = INT_SYSC
      /\ ordonnanceur(m, table, Count(nbr_process_alive - 1), nbr_process_sleeping)
      /\ nbr_process' = Count(nbr_process - 1)
      /\ UNCHANGED <<nbr_in_getchar, tampon, frappe, mem>>
  BY DEF my_exit, Sysc
<1>2. /\ current_process \in Slots /\ current_process # 0
      /\ m \in PSW /\ process \in [Slots -> ProcessEntry]
      /\ process[0].state = READY /\ process[current_process].state = READY
      /\ HasSegment(m, current_process)
      /\ \A i \in Slots : i # current_process /\ process[i].state # EMPTY =>
            HasSegment(process[i].cpu, i)
  BY <1>1, AtSwitch
<1>3. /\ table \in [Slots -> ProcessEntry]
      /\ \A i \in Slots : table[i].state = IF i = current_process THEN EMPTY
                                            ELSE process[i].state
      /\ \A i \in Slots : table[i].cpu = process[i].cpu
  BY <1>2 DEF ProcessEntry
<1> HIDE DEF table
<1>4. /\ {i \in Slots : table[i].state = SLEEP} = InState(SLEEP)
      /\ {i \in Slots : table[i].state = GETCHAR} = InState(GETCHAR)
      /\ table[0].state = READY
  BY <1>2, <1>3, SlotsFinite DEF InState, SLEEP, GETCHAR, READY, EMPTY
<1>5. /\ Count(nbr_process_alive - 1) \in -INT_LIMIT .. INT_LIMIT - 1
      /\ Count(nbr_process - 1) \in -INT_LIMIT .. INT_LIMIT - 1
  BY NoyauAssumption, MachineAssumption DEF IInv, TypeOK, Count
<1>6. /\ nbr_process_sleeping = Cardinality(InState(SLEEP))
      /\ nbr_in_getchar = Cardinality(InState(GETCHAR))
      /\ tampon # 0 => InState(GETCHAR) = {}
      /\ tampon \in {0, caractere} /\ frappe \in BOOLEAN /\ mem \in [Addresses -> Word]
  BY DEF IInv, CountersAgree, NoWaiterWhileBuffered, TypeOK
<1>7. \A i \in Slots : table[i].state # EMPTY =>
         HasSegment(IF i = current_process THEN m ELSE table[i].cpu, i)
  BY <1>2, <1>3
<1> QED
  BY <1>1, <1>2, <1>3, <1>4, <1>5, <1>6, <1>7, Dispatch

(* new_thread keeps it: the child has the segment of its parent. *)
LEMMA NewThreadInv == IInv /\ new_thread => IInv'
<1> SUFFICES ASSUME IInv, new_thread PROVE IInv'
  OBVIOUS
<1>1. mode = "switch" /\ m.INT = INT_SYSC
  BY DEF new_thread, Sysc
<1>2. CASE Wild
  BY <1>1, <1>2, LeaveInv DEF Wild
<1>3. ASSUME NEW index \in Slots,
             Lowest(index, InState(EMPTY)),
             ordonnanceur([m EXCEPT !.DR[m.RI.i] = index, !.AC = index],
               [process EXCEPT ![index].cpu = [m EXCEPT !.DR[m.RI.i] = 0, !.AC = 0],
                               ![index].state = READY],
               Count(nbr_process_alive + 1), nbr_process_sleeping),
             UNCHANGED <<nbr_in_getchar, nbr_process, tampon, frappe, mem>>
      PROVE  IInv'
  <2> DEFINE parent == [m EXCEPT !.DR[m.RI.i] = index, !.AC = index]
             child  == [m EXCEPT !.DR[m.RI.i] = 0, !.AC = 0]
             table  == [process EXCEPT ![index].cpu = child, ![index].state = READY]
  <2>1. /\ current_process \in Slots /\ current_process # 0
        /\ m \in PSW /\ process \in [Slots -> ProcessEntry]
        /\ process[0].state = READY /\ process[current_process].state = READY
        /\ HasSegment(m, current_process)
        /\ \A i \in Slots : i # current_process /\ process[i].state # EMPTY =>
              HasSegment(process[i].cpu, i)
    BY <1>1, AtSwitch
  <2>2. process[index].state = EMPTY /\ index # 0 /\ index # current_process
    BY <1>3, <2>1 DEF Lowest, InState, EMPTY, READY
  <2>3. /\ parent \in PSW /\ parent.SB = m.SB /\ parent.SS = m.SS
        /\ child \in PSW /\ child.SB = m.SB /\ child.SS = m.SS
    <3>1. index \in Word /\ 0 \in Word
      BY Sizes, ZeroTyped
    <3>2. [m.DR EXCEPT ![m.RI.i] = index] \in [Registers -> Word]
          /\ [m.DR EXCEPT ![m.RI.i] = 0] \in [Registers -> Word]
      BY <2>1, <3>1 DEF PSW
    <3>3. /\ parent = [m EXCEPT !.DR = [m.DR EXCEPT ![m.RI.i] = index], !.AC = index]
          /\ child = [m EXCEPT !.DR = [m.DR EXCEPT ![m.RI.i] = 0], !.AC = 0]
      BY <2>1 DEF PSW
    <3> QED
      BY <2>1, <3>1, <3>2, <3>3 DEF PSW
  <2> HIDE DEF parent, child
  <2>4. /\ table \in [Slots -> ProcessEntry]
        /\ \A i \in Slots : table[i].state = IF i = index THEN READY ELSE process[i].state
        /\ \A i \in Slots : table[i].cpu = IF i = index THEN child ELSE process[i].cpu
    BY <2>1, <2>3 DEF ProcessEntry
  <2>5. ordonnanceur(parent, table, Count(nbr_process_alive + 1), nbr_process_sleeping)
    BY <1>3 DEF parent, child
  <2> HIDE DEF table
  <2>6. /\ {i \in Slots : table[i].state = SLEEP} = InState(SLEEP)
        /\ {i \in Slots : table[i].state = GETCHAR} = InState(GETCHAR)
        /\ table[0].state = READY
    BY <2>1, <2>2, <2>4, SlotsFinite DEF InState, SLEEP, GETCHAR, READY, EMPTY
  <2>7. Count(nbr_process_alive + 1) \in -INT_LIMIT .. INT_LIMIT - 1
    BY NoyauAssumption, MachineAssumption DEF IInv, TypeOK, Count
  <2>8. /\ nbr_process_sleeping = Cardinality(InState(SLEEP))
        /\ nbr_in_getchar = Cardinality(InState(GETCHAR))
        /\ tampon # 0 => InState(GETCHAR) = {}
        /\ tampon \in {0, caractere} /\ frappe \in BOOLEAN /\ mem \in [Addresses -> Word]
        /\ nbr_process \in -INT_LIMIT .. INT_LIMIT - 1
    BY DEF IInv, CountersAgree, NoWaiterWhileBuffered, TypeOK
  <2>9. \A i \in Slots : table[i].state # EMPTY =>
           HasSegment(IF i = current_process THEN parent ELSE table[i].cpu, i)
    <3>1. HasSegment(parent, current_process) /\ HasSegment(child, index)
      BY <2>1, <2>2, <2>3 DEF HasSegment
    <3> QED
      BY <2>1, <2>2, <2>4, <3>1
  <2> QED
    BY <1>3, <2>1, <2>3, <2>4, <2>5, <2>6, <2>7, <2>8, <2>9, Dispatch
<1> QED
  BY <1>2, <1>3 DEF new_thread

(* send_thread_to_sleep keeps it: one sleeper more, and counted. *)
LEMMA SleepInv == IInv /\ send_thread_to_sleep => IInv'
<1> SUFFICES ASSUME IInv, send_thread_to_sleep PROVE IInv'
  OBVIOUS
<1>1. PICK due \in BOOLEAN :
        ordonnanceur(m,
            [process EXCEPT ![current_process].state = SLEEP, ![current_process].due = due],
            Count(nbr_process_alive - 1), nbr_process_sleeping + 1)
  BY DEF send_thread_to_sleep
<1> DEFINE table == [process EXCEPT ![current_process].state = SLEEP,
                                    ![current_process].due = due]
<1>2. /\ mode = "switch" /\ m.INT = INT_SYSC
      /\ ordonnanceur(m, table, Count(nbr_process_alive - 1), nbr_process_sleeping + 1)
      /\ UNCHANGED <<nbr_in_getchar, nbr_process, tampon, frappe, mem>>
  BY <1>1 DEF send_thread_to_sleep, Sysc
<1>3. /\ current_process \in Slots /\ current_process # 0
      /\ m \in PSW /\ process \in [Slots -> ProcessEntry]
      /\ process[0].state = READY /\ process[current_process].state = READY
      /\ HasSegment(m, current_process)
      /\ \A i \in Slots : i # current_process /\ process[i].state # EMPTY =>
            HasSegment(process[i].cpu, i)
  BY <1>2, AtSwitch
<1>4. /\ table \in [Slots -> ProcessEntry]
      /\ \A i \in Slots : table[i].state = IF i = current_process THEN SLEEP
                                            ELSE process[i].state
      /\ \A i \in Slots : table[i].cpu = process[i].cpu
  BY <1>3 DEF ProcessEntry
<1> HIDE DEF table
<1>5. /\ {i \in Slots : table[i].state = SLEEP} = InState(SLEEP) \cup {current_process}
      /\ {i \in Slots : table[i].state = GETCHAR} = InState(GETCHAR)
      /\ table[0].state = READY
      /\ current_process \notin InState(SLEEP)
  BY <1>3, <1>4, SlotsFinite DEF InState, SLEEP, GETCHAR, READY
<1>6. Count(nbr_process_alive - 1) \in -INT_LIMIT .. INT_LIMIT - 1
  BY NoyauAssumption, MachineAssumption DEF IInv, TypeOK, Count
<1>7. /\ nbr_process_sleeping = Cardinality(InState(SLEEP))
      /\ nbr_in_getchar = Cardinality(InState(GETCHAR))
      /\ tampon # 0 => InState(GETCHAR) = {}
      /\ tampon \in {0, caractere} /\ frappe \in BOOLEAN /\ mem \in [Addresses -> Word]
      /\ nbr_process \in -INT_LIMIT .. INT_LIMIT - 1
  BY DEF IInv, CountersAgree, NoWaiterWhileBuffered, TypeOK
<1>8. nbr_process_sleeping + 1 = Cardinality(InState(SLEEP) \cup {current_process})
  <2>1. IsFiniteSet(InState(SLEEP)) /\ Cardinality(InState(SLEEP)) \in Nat
    BY SlotsFinite, FS_CardinalityType DEF InState
  <2> QED
    BY <1>5, <1>7, <2>1, FS_AddElement
<1>9. \A i \in Slots : table[i].state # EMPTY =>
         HasSegment(IF i = current_process THEN m ELSE table[i].cpu, i)
  BY <1>3, <1>4
<1> QED
  BY <1>2, <1>3, <1>4, <1>5, <1>6, <1>7, <1>8, <1>9, Dispatch

(* my_getchar keeps it: one waiter more, or the buffer is emptied. *)
LEMMA GetcharInv == IInv /\ my_getchar => IInv'
<1> SUFFICES ASSUME IInv, my_getchar PROVE IInv'
  OBVIOUS
<1>1. mode = "switch" /\ m.INT = INT_SYSC /\ UNCHANGED <<nbr_process, frappe, mem>>
  BY DEF my_getchar, Sysc
<1>2. /\ current_process \in Slots /\ current_process # 0 /\ Booted
      /\ m \in PSW /\ process \in [Slots -> ProcessEntry]
      /\ process[0].state = READY /\ process[current_process].state = READY
      /\ HasSegment(m, current_process)
      /\ \A i \in Slots : i # current_process /\ process[i].state # EMPTY =>
            HasSegment(process[i].cpu, i)
  BY <1>1, AtSwitch
<1>3. /\ nbr_process_sleeping = Cardinality(InState(SLEEP))
      /\ nbr_in_getchar = Cardinality(InState(GETCHAR))
      /\ tampon # 0 => InState(GETCHAR) = {}
      /\ tampon \in {0, caractere} /\ frappe \in BOOLEAN /\ mem \in [Addresses -> Word]
      /\ nbr_process \in -INT_LIMIT .. INT_LIMIT - 1
      /\ nbr_process_alive \in -INT_LIMIT .. INT_LIMIT - 1
  BY DEF IInv, CountersAgree, NoWaiterWhileBuffered, TypeOK
<1>4. CASE tampon = 0
  <2> DEFINE table == [process EXCEPT ![current_process].state = GETCHAR]
  <2>1. /\ ordonnanceur(m, table, nbr_process_alive, nbr_process_sleeping)
        /\ nbr_in_getchar' = nbr_in_getchar + 1
        /\ tampon' = 0
    BY <1>4 DEF my_getchar
  <2>2. /\ table \in [Slots -> ProcessEntry]
        /\ \A i \in Slots : table[i].state = IF i = current_process THEN GETCHAR
                                              ELSE process[i].state
        /\ \A i \in Slots : table[i].cpu = process[i].cpu
    BY <1>2 DEF ProcessEntry
  <2> HIDE DEF table
  <2>3. /\ {i \in Slots : table[i].state = SLEEP} = InState(SLEEP)
        /\ {i \in Slots : table[i].state = GETCHAR} = InState(GETCHAR) \cup {current_process}
        /\ table[0].state = READY
        /\ current_process \notin InState(GETCHAR)
    BY <1>2, <2>2, SlotsFinite DEF InState, SLEEP, GETCHAR, READY
  <2>4. nbr_in_getchar + 1 = Cardinality(InState(GETCHAR) \cup {current_process})
    <3>1. IsFiniteSet(InState(GETCHAR)) /\ Cardinality(InState(GETCHAR)) \in Nat
      BY SlotsFinite, FS_CardinalityType DEF InState
    <3> QED
      BY <1>3, <2>3, <3>1, FS_AddElement
  <2>5. \A i \in Slots : table[i].state # EMPTY =>
           HasSegment(IF i = current_process THEN m ELSE table[i].cpu, i)
    BY <1>2, <2>2
  <2> QED
    BY <1>1, <1>2, <1>3, <2>1, <2>2, <2>3, <2>4, <2>5, Dispatch
<1>5. CASE tampon # 0
  <2>1. /\ m' = [m EXCEPT !.DR = [m.DR EXCEPT ![m.RI.i] = tampon]]
        /\ tampon' = 0
        /\ mode' = "cpu"
        /\ UNCHANGED <<process, current_process, nbr_process_alive,
                       nbr_process_sleeping, nbr_in_getchar>>
    BY <1>2, <1>5 DEF my_getchar, PSW
  <2>2. m' \in PSW /\ m'.SB = m.SB /\ m'.SS = m.SS
    <3>1. tampon \in Word
      <4>1. MaxWord \in Nat /\ 97 <= MaxWord
        BY SMT DEF MaxWord
      <4> QED
        BY <1>3, <4>1 DEF caractere, Word, MinWord
    <3>2. [m.DR EXCEPT ![m.RI.i] = tampon] \in [Registers -> Word]
      BY <1>2, <3>1 DEF PSW
    <3> QED
      BY <1>2, <2>1, <3>2 DEF PSW
  <2>3. TypeOK' /\ BootState' /\ TrapState' /\ SchedulerNeverSpins'
    BY <1>1, <1>2, <2>1, <2>2 DEF IInv, TypeOK, BootState, TrapState, SchedulerNeverSpins, Booted
  <2>4. CountersAgree' /\ NoWaiterWhileBuffered'
    BY <1>3, <2>1 DEF CountersAgree, NoWaiterWhileBuffered, InState
  <2>5. IdleSegmentPrivate'
    BY <1>2, <2>1, <2>2 DEF IInv, IdleSegmentPrivate, Live, Context, HasSegment, Bases, Booted
  <2> QED
    BY <2>3, <2>4, <2>5 DEF IInv
<1> QED
  BY <1>4, <1>5

(* The copy loop of my_fork stays inside the memory. *)
LEMMA CopyTyped ==
  ASSUME m \in PSW, HasSegment(m, current_process), mem \in [Addresses -> Word],
         NEW base \in Int
  PROVE  Copied(base) \in [Addresses -> Word]
<1>1. PICK k \in Slots : m.SB = k * SEGMENT_SIZE
  BY DEF HasSegment, Bases
<1>2. m.SB \in 0 .. MEM_SIZE - SEGMENT_SIZE /\ m.SS = SEGMENT_SIZE /\ SEGMENT_SIZE \in Nat
      /\ MEM_SIZE \in Nat
  BY <1>1, Sizes, MachineAssumption DEF HasSegment
<1>3. ASSUME NEW a \in Addresses, a \in base .. base + m.SS - 1
      PROVE  mem[a - base + m.SB] \in Word
  <2>1. a - base + m.SB \in Addresses
    BY <1>2, <1>3 DEF Addresses
  <2> QED
    BY <2>1
<1> QED
  BY <1>3 DEF Copied

(* my_fork keeps it, refused or not: the child has the segment of its slot. *)
LEMMA ForkInv == IInv /\ my_fork => IInv'
<1> SUFFICES ASSUME IInv, my_fork PROVE IInv'
  OBVIOUS
<1>1. mode = "switch" /\ m.INT = INT_SYSC
  BY DEF my_fork, Sysc
<1>2. /\ current_process \in Slots /\ current_process # 0
      /\ m \in PSW /\ process \in [Slots -> ProcessEntry]
      /\ process[0].state = READY /\ process[current_process].state = READY
      /\ HasSegment(m, current_process)
      /\ \A i \in Slots : i # current_process /\ process[i].state # EMPTY =>
            HasSegment(process[i].cpu, i)
  BY <1>1, AtSwitch
<1>3. /\ nbr_process_sleeping = Cardinality(InState(SLEEP))
      /\ nbr_in_getchar = Cardinality(InState(GETCHAR))
      /\ tampon # 0 => InState(GETCHAR) = {}
      /\ tampon \in {0, caractere} /\ frappe \in BOOLEAN /\ mem \in [Addresses -> Word]
      /\ nbr_process \in -INT_LIMIT .. INT_LIMIT - 1
      /\ nbr_process_alive \in -INT_LIMIT .. INT_LIMIT - 1
  BY DEF IInv, CountersAgree, NoWaiterWhileBuffered, TypeOK
<1>4. CASE Wild
  BY <1>1, <1>4, LeaveInv DEF Wild
<1>5. CASE /\ ordonnanceur(m, process, nbr_process_alive, nbr_process_sleeping)
           /\ UNCHANGED <<nbr_in_getchar, nbr_process, tampon, frappe, mem>>
  <2>1. \A i \in Slots : process[i].state # EMPTY =>
           HasSegment(IF i = current_process THEN m ELSE process[i].cpu, i)
    BY <1>2
  <2> QED
    BY <1>2, <1>3, <1>5, <2>1, Dispatch DEF InState
<1>6. ASSUME NEW index \in Slots,
             Lowest(index, InState(EMPTY)),
             ordonnanceur([m EXCEPT !.AC = index],
               [process EXCEPT ![index].cpu = [m EXCEPT !.SB = index * SEGMENT_SIZE, !.AC = 0],
                               ![index].state = process[current_process].state],
               nbr_process_alive, nbr_process_sleeping),
             mem' = Copied(index * SEGMENT_SIZE),
             nbr_process' = Count(nbr_process + 1),
             UNCHANGED <<nbr_in_getchar, tampon, frappe>>
      PROVE  IInv'
  <2> DEFINE parent == [m EXCEPT !.AC = index]
             child  == [m EXCEPT !.SB = index * SEGMENT_SIZE, !.AC = 0]
             table  == [process EXCEPT ![index].cpu = child, ![index].state = READY]
  <2>1. process[index].state = EMPTY /\ index # 0 /\ index # current_process
    BY <1>2, <1>6 DEF Lowest, InState, EMPTY, READY
  <2>2. /\ parent \in PSW /\ parent.SB = m.SB /\ parent.SS = m.SS
        /\ child \in PSW /\ child.SB = index * SEGMENT_SIZE /\ child.SS = m.SS
    BY <1>2, Sizes, ZeroTyped DEF PSW
  <2>3. ordonnanceur(parent, table, nbr_process_alive, nbr_process_sleeping)
    BY <1>2, <1>6
  <2> HIDE DEF parent, child
  <2>4. /\ table \in [Slots -> ProcessEntry]
        /\ \A i \in Slots : table[i].state = IF i = index THEN READY ELSE process[i].state
        /\ \A i \in Slots : table[i].cpu = IF i = index THEN child ELSE process[i].cpu
    BY <1>2, <2>2 DEF ProcessEntry
  <2> HIDE DEF table
  <2>5. /\ {i \in Slots : table[i].state = SLEEP} = InState(SLEEP)
        /\ {i \in Slots : table[i].state = GETCHAR} = InState(GETCHAR)
        /\ table[0].state = READY
    BY <1>2, <2>1, <2>4, SlotsFinite DEF InState, SLEEP, GETCHAR, READY, EMPTY
  <2>6. nbr_process' \in -INT_LIMIT .. INT_LIMIT - 1
    BY <1>3, <1>6, NoyauAssumption, MachineAssumption DEF Count
  <2>7. \A i \in Slots : table[i].state # EMPTY =>
           HasSegment(IF i = current_process THEN parent ELSE table[i].cpu, i)
    <3>1. HasSegment(parent, current_process)
      BY <1>2, <2>2 DEF HasSegment
    <3>2. HasSegment(child, index)
      BY <1>2, <2>1, <2>2, Sizes DEF HasSegment, Bases
    <3> QED
      BY <1>2, <2>1, <2>4, <3>1, <3>2
  <2>8. mem' \in [Addresses -> Word]
    BY <1>2, <1>3, <1>6, CopyTyped, Sizes
  <2> QED
    BY <1>2, <1>3, <1>6, <2>2, <2>3, <2>4, <2>5, <2>6, <2>7, <2>8, Dispatch
<1> QED
  BY <1>4, <1>5, <1>6 DEF my_fork, ForkBase

-----------------------------------------------------------------------------
(* A step of the running program, or its trap: m keeps its segment. *)
LEMMA UserInv ==
  ASSUME IInv, mode = "cpu", mode' \in {"cpu", "systeme"},
         m' \in PSW, m'.SB = m.SB, m'.SS = m.SS,
         mode' = "systeme" =>
           /\ m'.INT \in {INT_SEGV, INT_INST, INT_HALT, INT_CLOCK, INT_SYSC}
           /\ current_process = 0 => m'.INT = INT_CLOCK,
         mem' \in [Addresses -> Word],
         UNCHANGED <<process, current_process, counters, tampon, frappe>>
  PROVE  IInv'
<1> UNCHANGED <<process, current_process, nbr_process_alive, nbr_process_sleeping,
                nbr_in_getchar, nbr_process, tampon, frappe>>
  BY DEF counters
<1>1. Booted
  BY DEF IInv, BootState
<1>2. TypeOK' /\ BootState' /\ TrapState' /\ SchedulerNeverSpins'
  BY <1>1 DEF IInv, TypeOK, BootState, TrapState, SchedulerNeverSpins, Booted
<1>3. CountersAgree' /\ NoWaiterWhileBuffered'
  BY DEF IInv, CountersAgree, NoWaiterWhileBuffered, InState
<1>4. IdleSegmentPrivate'
  BY <1>1 DEF IInv, IdleSegmentPrivate, Live, Context, HasSegment, Bases, Booted
<1> QED
  BY <1>2, <1>3, <1>4 DEF IInv

(* The clock and the keyboard touch due and frappe only. *)
LEMMA TimeInv == IInv /\ ((\E i \in Slots : Reveille(i)) \/ Touche) => IInv'
<1> SUFFICES ASSUME IInv, (\E i \in Slots : Reveille(i)) \/ Touche PROVE IInv'
  OBVIOUS
<1> UNCHANGED <<mode, m, current_process, nbr_process_alive, nbr_process_sleeping,
                nbr_in_getchar, nbr_process, tampon, mem>>
  BY DEF Reveille, Touche, counters
<1>1. process \in [Slots -> ProcessEntry]
  BY DEF IInv, TypeOK
<1>2. /\ process' \in [Slots -> ProcessEntry] /\ frappe' \in BOOLEAN
      /\ \A i \in Slots : process'[i].state = process[i].state /\ process'[i].cpu = process[i].cpu
  <2>1. CASE Touche
    BY <1>1, <2>1 DEF Touche
  <2>2. ASSUME NEW i \in Slots, Reveille(i)
        PROVE  /\ process' \in [Slots -> ProcessEntry] /\ frappe' \in BOOLEAN
               /\ \A j \in Slots : process'[j].state = process[j].state
                                  /\ process'[j].cpu = process[j].cpu
    BY <1>1, <2>2 DEF Reveille, ProcessEntry, IInv, TypeOK
  <2> QED
    BY <2>1, <2>2
<1>3. InState(SLEEP)' = InState(SLEEP) /\ InState(GETCHAR)' = InState(GETCHAR) /\ Live' = Live
  BY <1>2 DEF InState, Live
<1>4. TypeOK' /\ BootState' /\ TrapState'
  BY <1>2, <1>3 DEF IInv, TypeOK, BootState, TrapState, Booted
<1>5. SchedulerNeverSpins'
  <2>1. current_process \in Slots \cup {-1}
    BY DEF IInv, TypeOK
  <2> QED
    BY <1>2, <2>1, SlotsFinite DEF IInv, SchedulerNeverSpins, Booted
<1>6. CountersAgree' /\ NoWaiterWhileBuffered'
  BY <1>3 DEF IInv, CountersAgree, NoWaiterWhileBuffered
<1>7. IdleSegmentPrivate'
  <2>1. \A i \in Live : Context(i)' = Context(i)
    BY <1>2 DEF Context, Live
  <2> QED
    BY <1>3, <2>1 DEF IInv, IdleSegmentPrivate, HasSegment, Bases, Booted
<1> QED
  BY <1>4, <1>5, <1>6, <1>7 DEF IInv

(* A step of the surroundings keeps it. *)
LEMMA StutterInv == IInv /\ UNCHANGED noyau => IInv'
BY DEF IInv, TypeOK, BootState, TrapState, CountersAgree, NoWaiterWhileBuffered,
       SchedulerNeverSpins, IdleSegmentPrivate, HasSegment, Bases, Context, Live, InState,
       Booted, noyau, counters
=============================================================================
