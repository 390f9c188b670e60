---------------------------- MODULE SimulProofs ----------------------------
(***************************************************************************)
(* The simulator implements the kernel under arbitrary programs: Simul's   *)
(* KernelSpec, for every size of the machine, every slice and every        *)
(* program.  What Systeme leaves open is what cpu.c can do; the two things *)
(* it rules out, a trap or a store of idle and a store outside the         *)
(* segment, cannot happen because nothing writes over the code of idle.    *)
(* Then what two of the test programs show: the fork that is never         *)
(* refused, and the parent that loads what its thread has stored.          *)
(***************************************************************************)
EXTENDS Programmes, NoyauProofs

(* Nothing has overwritten the code of idle. *)
IdleCode == Booted => \A a \in 0 .. 4 : mem[a] = Encode(idle[a + 1])

(* Idle goes round in it. *)
IdleInside == Booted => Context(0).PC \in 0 .. 4

(* A process is never resumed with the interrupt of an address fault, that *)
(* cpu() would take for one of its next LOAD or STORE.                     *)
NoStaleFault ==
  /\ \A i \in Slots : process[i].cpu.INT # INT_SEGV
  /\ mode = "cpu" => m.INT # INT_SEGV

(* The inductive invariant of the simulator. *)
SInv == IInv /\ program \in Programs /\ IdleCode /\ IdleInside /\ NoStaleFault

-----------------------------------------------------------------------------
(* The bounds of words and arguments, as numbers. *)
LEMMA Bounds ==
  /\ MaxWord = 2147483647 /\ MinWord = -2147483647 - 1
  /\ MaxArg = 32767 /\ MaxOp = 1023
  /\ \A w : w \in Word <=> w \in Int /\ MinWord <= w /\ w <= MaxWord
<1>1. /\ MaxWord = 2147483647 /\ MinWord = -2147483647 - 1
      /\ MaxArg = 32767 /\ MaxOp = 1023
  BY SMT DEF MaxWord, MinWord, MaxArg, MaxOp
<1>2. MaxWord \in Int /\ MinWord \in Int
  BY <1>1, SMT
<1>3. \A w : w \in Word <=> w \in Int /\ MinWord <= w /\ w <= MaxWord
  BY <1>2, SMT DEF Word
<1> QED
  BY <1>1, <1>3

(* An instruction fits a word. *)
LEMMA EncodeTyped == ASSUME NEW inst \in INST PROVE Encode(inst) \in Word
<1>1. MaxArg \in Int /\ MaxOp \in Int
  BY Bounds, SMT
<1>2. /\ inst.OP \in Int /\ 0 <= inst.OP /\ inst.OP <= MaxOp
      /\ inst.i \in 0..7 /\ inst.j \in 0..7
      /\ inst.ARG \in Int /\ -MaxArg - 1 <= inst.ARG /\ inst.ARG <= MaxArg
  <2>1. inst.OP \in 0..MaxOp /\ inst.i \in Registers /\ inst.j \in Registers
        /\ inst.ARG \in -MaxArg - 1 .. MaxArg
    BY DEF INST
  <2> QED
    BY <1>1, <2>1, SimulAssumption
<1>3. /\ inst.OP \in Int /\ 0 <= inst.OP /\ inst.OP <= 1023
      /\ inst.i \in Int /\ 0 <= inst.i /\ inst.i <= 7
      /\ inst.j \in Int /\ 0 <= inst.j /\ inst.j <= 7
  BY <1>2, Bounds, SMT
<1>4. inst.ARG \in Int /\ -32768 <= inst.ARG /\ inst.ARG <= 32767
  BY <1>2, Bounds, SMT
<1> QED
  BY <1>3, <1>4, Bounds, SMT DEF Encode

(* Any word is some instruction. *)
LEMMA DecodeTyped == ASSUME NEW word \in Word PROVE Decode(word) \in INST
<1>1. word \in Int /\ -2147483648 <= word /\ word <= 2147483647
  BY Bounds, SMT
<1>2. word % 1024 \in 0..MaxOp
  <2>1. word % 1024 \in Int /\ 0 <= word % 1024 /\ word % 1024 <= MaxOp /\ MaxOp \in Int
    BY <1>1, Bounds, SMT
  <2> QED
    BY <2>1, SMT
<1>3. (word \div 1024) % 8 \in 0..7 /\ (word \div 8192) % 8 \in 0..7
  BY <1>1, SMT
<1>4. word \div 65536 \in Int /\ -32768 <= word \div 65536 /\ word \div 65536 <= 32767
  BY <1>1, SMT
<1>5. word \div 65536 \in -MaxArg - 1 .. MaxArg
  <2>1. MaxArg \in Int /\ -MaxArg - 1 <= word \div 65536 /\ word \div 65536 <= MaxArg
    BY <1>4, Bounds, SMT
  <2> QED
    BY <1>4, <2>1, SMT
<1> QED
  BY <1>2, <1>3, <1>5, SimulAssumption DEF Decode, INST

(* The five instructions of idle: four NOP and a JUMP to the first. *)
LEMMA IdleDecodes ==
  ASSUME NEW a \in 0 .. 4
  PROVE  /\ Encode(idle[a + 1]) \in Word
         /\ a < 4 => Decode(Encode(idle[a + 1])).OP = INST_NOP
         /\ a = 4 => /\ Decode(Encode(idle[a + 1])).OP = INST_JUMP
                     /\ Decode(Encode(idle[a + 1])).ARG = 0
<1>1. Encode(idle[1]) = 262148
  BY SMT DEF Encode, idle, INST_NOP, SYSC_IDLE
<1>2. Encode(idle[2]) = 4 /\ Encode(idle[3]) = 4 /\ Encode(idle[4]) = 4
  BY SMT DEF Encode, idle, INST_NOP
<1>3. Encode(idle[5]) = 5
  BY SMT DEF Encode, idle, INST_JUMP
<1>4. /\ 262148 % 1024 = 4 /\ 4 % 1024 = 4 /\ 5 % 1024 = 5 /\ 5 \div 65536 = 0
      /\ 262148 \in Word /\ 4 \in Word /\ 5 \in Word
  BY Bounds, SMT
<1>5. /\ Decode(262148).OP = INST_NOP /\ Decode(4).OP = INST_NOP
      /\ Decode(5).OP = INST_JUMP /\ Decode(5).ARG = 0
  BY <1>4, SMT DEF Decode, INST_NOP, INST_JUMP
<1>6. a + 1 \in 1 .. 5 /\ (a < 4 <=> a + 1 \in 1 .. 4) /\ (a = 4 <=> a + 1 = 5)
  OBVIOUS
<1> QED
  BY <1>1, <1>2, <1>3, <1>4, <1>5, <1>6, SMT

(* A segment is at least as long as the code of idle. *)
LEMMA SegmentHoldsIdle == SEGMENT_SIZE \in Nat /\ SEGMENT_SIZE >= 5
<1>1. Len(idle) = 5
  BY DEF idle
<1> QED
  BY <1>1, MachineAssumption, SimulAssumption

(* What systeme_init loads is words, and starts with idle. *)
LEMMA ImageTyped ==
  ASSUME NEW p \in Programs
  PROVE  /\ Image(p) \in [Addresses -> Word]
         /\ \A a \in 0 .. 4 : Image(p)[a] = Encode(idle[a + 1])
<1>1. Len(idle) = 5
  BY DEF idle
<1>2. p \in Seq(INST)
  BY SimulAssumption
<1>3. ASSUME NEW a \in Addresses, a - first_pc \in 0 .. Len(p) - 1
      PROVE  Encode(p[a - first_pc + 1]) \in Word
  <2>1. a - first_pc + 1 \in 1 .. Len(p)
    BY <1>2, <1>3, MachineAssumption DEF Addresses, first_pc
  <2> QED
    BY <1>2, <2>1, EncodeTyped
<1>4. 0 \in Word
  BY ZeroTyped
<1>5. \A a \in 0 .. 4 : a \in Addresses
  <2>1. MEM_SIZE >= SEGMENT_SIZE
    BY Sizes, SlotsFinite, MachineAssumption
  <2> QED
    BY <2>1, SegmentHoldsIdle, MachineAssumption DEF Addresses
<1> QED
  BY <1>1, <1>3, <1>4, <1>5, IdleDecodes DEF Image

-----------------------------------------------------------------------------
(* What the kernel does to contexts and to the code of idle. *)
LEMMA InitSInv == Init => SInv
<1> SUFFICES ASSUME Init PROVE SInv
  OBVIOUS
<1>1. IInv
  BY InitInv DEF Init
<1>2. ~Booted
  BY DEF Init, NoyauInit, Booted
<1>3. NoStaleFault
  BY DEF Init, NoyauInit, NoStaleFault, ZeroPSW, INT_SEGV
<1> QED
  BY <1>1, <1>2, <1>3 DEF SInv, IdleCode, IdleInside, Init

(* systeme_init establishes the invariant of the simulator. *)
LEMMA BootSInv == SInv /\ Demarrage => SInv'
<1> SUFFICES ASSUME SInv, Demarrage PROVE SInv'
  OBVIOUS
<1>1. /\ systeme_init(Image(program)) /\ program' = program
      /\ program \in Programs /\ IInv /\ NoStaleFault
  BY DEF Demarrage, SInv
<1>2. /\ Image(program) \in [Addresses -> Word]
      /\ \A a \in 0 .. 4 : Image(program)[a] = Encode(idle[a + 1])
  BY <1>1, ImageTyped
<1>3. IInv'
  BY <1>1, <1>2, BootInv
<1>4. /\ current_process' = 1 /\ mem' = Image(program) /\ mode' = "cpu"
      /\ m' = process'[1].cpu
  BY <1>1 DEF systeme_init
<1>5. IdleCode'
  BY <1>2, <1>4 DEF IdleCode
<1>6. ASSUME NEW i \in Slots
      PROVE  /\ process'[i].cpu.INT = process[i].cpu.INT
             /\ i <= 1 => process'[i].cpu.PC = 0
  <2>1. process[i] \in ProcessEntry
    BY <1>1 DEF IInv, TypeOK
  <2>2. process' = [j \in Slots |->
           IF j <= 1
           THEN [process[j] EXCEPT !.cpu.PC = 0, !.cpu.SB = BootBase(j),
                                   !.cpu.SS = SEGMENT_SIZE, !.state = READY]
           ELSE [process[j] EXCEPT !.state = EMPTY]]
    BY <1>1 DEF systeme_init
  <2>3. CASE i <= 1
    BY <2>1, <2>2, <2>3 DEF ProcessEntry, PSW
  <2>4. CASE ~(i <= 1)
    BY <2>1, <2>2, <2>4 DEF ProcessEntry, PSW
  <2> QED
    BY <2>3, <2>4
<1>7. IdleInside'
  BY <1>4, <1>6, SlotsFinite DEF IdleInside, Context
<1>8. NoStaleFault'
  BY <1>1, <1>4, <1>6, SlotsFinite DEF NoStaleFault
<1> QED
  BY <1>1, <1>3, <1>5, <1>7, <1>8 DEF SInv

(* ordonnanceur() saves the context it is given and resumes another as it  *)
(* was saved.                                                              *)
LEMMA Saves ==
  ASSUME NEW psw \in PSW, NEW table \in [Slots -> ProcessEntry], NEW alive, NEW sleeping,
         current_process \in Slots,
         ordonnanceur(psw, table, alive, sleeping)
  PROVE  /\ current_process' \in Slots
         /\ m' = process'[current_process'].cpu
         /\ \A i \in Slots :
              process'[i].cpu = IF i = current_process THEN psw ELSE table[i].cpu
<1> DEFINE R == reveil(table, sleeping)
<1>1. /\ R \in [Slots -> ProcessEntry]
      /\ \A i \in Slots : R[i].cpu = table[i].cpu
  BY DEF reveil, ProcessEntry
<1>2. process' = [R EXCEPT ![current_process].cpu = psw]
  BY DEF ordonnanceur
<1>3. current_process' \in Slots /\ m' = process'[current_process'].cpu
  BY DEF ordonnanceur
<1> HIDE DEF R
<1> QED
  BY <1>1, <1>2, <1>3 DEF ProcessEntry

(* A handler that saves m, or m with another AC or register, and copies it *)
(* to other slots at most, keeps idle in its code and resumes no fault.    *)
LEMMA HandlerKeeps ==
  ASSUME IInv, mode = "switch", IdleInside, NoStaleFault,
         m.INT \in {INT_CLOCK, INT_SYSC},
         NEW psw \in PSW, psw.INT = m.INT, psw.PC = m.PC,
         NEW table \in [Slots -> ProcessEntry], NEW alive, NEW sleeping,
         table[0].cpu = process[0].cpu,
         \A i \in Slots : table[i].cpu.INT \in {process[i].cpu.INT, m.INT},
         ordonnanceur(psw, table, alive, sleeping)
  PROVE  IdleInside' /\ NoStaleFault'
<1>1. current_process \in Slots /\ Booted
  BY AtSwitch
<1>2. /\ current_process' \in Slots
      /\ m' = process'[current_process'].cpu
      /\ \A i \in Slots :
           process'[i].cpu = IF i = current_process THEN psw ELSE table[i].cpu
  BY <1>1, Saves
<1>3. m.INT # INT_SEGV
  BY DEF INT_CLOCK, INT_SYSC, INT_SEGV
<1>4. NoStaleFault'
  BY <1>2, <1>3 DEF NoStaleFault
<1>5. 0 \in Slots
  BY SlotsFinite
<1>6. Context(0)' = process'[0].cpu
  BY <1>2 DEF Context
<1>7. IdleInside'
  BY <1>1, <1>2, <1>5, <1>6 DEF IdleInside, Context
<1> QED
  BY <1>4, <1>7

(* A character delivered to a waiter leaves idle inside its code. *)
LEMMA ClavierKeeps == IInv /\ IdleInside /\ NoStaleFault /\ Clavier => IdleInside' /\ NoStaleFault'
<1> SUFFICES ASSUME IInv, IdleInside, NoStaleFault, Clavier PROVE IdleInside' /\ NoStaleFault'
  OBVIOUS
<1>1. process \in [Slots -> ProcessEntry] /\ mode' = "switch"
      /\ UNCHANGED <<m, current_process>>
  BY DEF IInv, TypeOK, Clavier
<1>2. \A i \in Slots : /\ process'[i].cpu.INT = process[i].cpu.INT
                       /\ process'[i].cpu.PC = process[i].cpu.PC
  <2>1. CASE UNCHANGED process
    BY <2>1
  <2>2. ASSUME NEW k \in Slots, process' = Delivered(k)
        PROVE  \A i \in Slots : /\ process'[i].cpu.INT = process[i].cpu.INT
                                /\ process'[i].cpu.PC = process[i].cpu.PC
    BY <1>1, <2>2 DEF Delivered, ProcessEntry, PSW
  <2> QED
    BY <2>1, <2>2 DEF Clavier, frappe_clavier
<1> QED
  BY <1>1, <1>2, SlotsFinite DEF IdleInside, NoStaleFault, Context, Booted

(* So does every handler, and none leaves a stale fault. *)
LEMMA SystemeKeeps ==
  IInv /\ IdleInside /\ NoStaleFault /\ systeme => IdleInside' /\ NoStaleFault'
<1> SUFFICES ASSUME IInv, IdleInside, NoStaleFault, systeme PROVE IdleInside' /\ NoStaleFault'
  OBVIOUS
<1>1. CASE Clavier
  BY <1>1, ClavierKeeps
<1>2. CASE Arret \/ Wild \/ Affichage
  <2>1. UNCHANGED <<m, process, current_process>> /\ (mode' = "cpu" => m.INT = INT_SYSC)
    BY <1>2 DEF Arret, Wild, Affichage
  <2> QED
    BY <2>1, SlotsFinite
    DEF IdleInside, NoStaleFault, Context, Booted, INT_SYSC, INT_SEGV
<1> SUFFICES ASSUME mode = "switch", m.INT \in {INT_CLOCK, INT_SYSC}
             PROVE  IdleInside' /\ NoStaleFault'
  BY <1>1, <1>2 DEF systeme, system_SYSC, Horloge, Sysc, my_exit, new_thread,
     send_thread_to_sleep, my_getchar, my_fork
<1>3. /\ process \in [Slots -> ProcessEntry] /\ m \in PSW
      /\ current_process \in Slots /\ process[0].state = READY
      /\ process[current_process].state = READY
      /\ m.INT = INT_SYSC => current_process # 0
  BY AtSwitch
<1>4. 0 \in Slots /\ \A i \in Slots : process[i] \in ProcessEntry
  BY <1>3, SlotsFinite
<1>5. CASE Horloge
  BY <1>3, <1>5, HandlerKeeps DEF Horloge
<1>6. ASSUME NEW table, NEW state \in {EMPTY, READY, SLEEP, GETCHAR}, NEW due \in BOOLEAN,
             table = [process EXCEPT ![current_process].state = state,
                                     ![current_process].due = due]
      PROVE  /\ table \in [Slots -> ProcessEntry]
             /\ \A i \in Slots : table[i].cpu = process[i].cpu
  BY <1>3, <1>6 DEF ProcessEntry
<1>7. CASE my_exit
  <2> DEFINE table == [process EXCEPT ![current_process].state = EMPTY]
  <2>1. table \in [Slots -> ProcessEntry] /\ \A i \in Slots : table[i].cpu = process[i].cpu
    BY <1>3 DEF ProcessEntry
  <2>2. ordonnanceur(m, table, Count(nbr_process_alive - 1), nbr_process_sleeping)
    BY <1>7 DEF my_exit
  <2> HIDE DEF table
  <2> QED
    BY <1>3, <1>4, <2>1, <2>2, HandlerKeeps
<1>8. CASE send_thread_to_sleep
  <2>1. PICK due \in BOOLEAN :
          ordonnanceur(m,
            [process EXCEPT ![current_process].state = SLEEP, ![current_process].due = due],
            Count(nbr_process_alive - 1), nbr_process_sleeping + 1)
    BY <1>8 DEF send_thread_to_sleep
  <2> DEFINE table == [process EXCEPT ![current_process].state = SLEEP,
                                      ![current_process].due = due]
  <2>2. table \in [Slots -> ProcessEntry] /\ \A i \in Slots : table[i].cpu = process[i].cpu
    BY <1>6
  <2>3. ordonnanceur(m, table, Count(nbr_process_alive - 1), nbr_process_sleeping + 1)
    BY <2>1
  <2> HIDE DEF table
  <2> QED
    BY <1>3, <1>4, <2>2, <2>3, HandlerKeeps
<1>9. CASE my_getchar
  <2>1. CASE ordonnanceur(m, [process EXCEPT ![current_process].state = GETCHAR],
                          nbr_process_alive, nbr_process_sleeping)
    <3> DEFINE table == [process EXCEPT ![current_process].state = GETCHAR]
    <3>1. table \in [Slots -> ProcessEntry] /\ \A i \in Slots : table[i].cpu = process[i].cpu
      BY <1>3 DEF ProcessEntry
    <3>2. ordonnanceur(m, table, nbr_process_alive, nbr_process_sleeping)
      BY <2>1
    <3> HIDE DEF table
    <3> QED
      BY <1>3, <1>4, <3>1, <3>2, HandlerKeeps
  <2>2. CASE /\ m' = [m EXCEPT !.DR[m.RI.i] = tampon]
             /\ UNCHANGED <<process, current_process>>
    <3>1. m'.INT = m.INT /\ m'.PC = m.PC
      BY <1>3, <2>2 DEF PSW
    <3> QED
      BY <2>2, <3>1, <1>4
      DEF IdleInside, NoStaleFault, Context, Booted, INT_CLOCK, INT_SYSC, INT_SEGV
  <2> QED
    BY <1>9, <2>1, <2>2 DEF my_getchar
<1>10. ASSUME NEW index \in Slots, process[index].state = EMPTY, m.INT = INT_SYSC,
              NEW parent \in PSW, parent.INT = m.INT, parent.PC = m.PC,
              NEW child \in PSW, child.INT = m.INT,
              NEW state \in {READY, SLEEP, GETCHAR}, NEW alive,
              ordonnanceur(parent,
                [process EXCEPT ![index].cpu = child, ![index].state = state],
                alive, nbr_process_sleeping)
       PROVE  IdleInside' /\ NoStaleFault'
  <2> DEFINE table == [process EXCEPT ![index].cpu = child, ![index].state = state]
  <2>1. index # 0
    BY <1>3, <1>10 DEF READY, EMPTY
  <2>2. /\ table \in [Slots -> ProcessEntry]
        /\ table[0].cpu = process[0].cpu
        /\ \A i \in Slots : table[i].cpu = IF i = index THEN child ELSE process[i].cpu
    BY <1>3, <1>4, <1>10, <2>1 DEF ProcessEntry
  <2>3. ordonnanceur(parent, table, alive, nbr_process_sleeping)
    BY <1>10
  <2> HIDE DEF table
  <2> QED
    BY <1>10, <2>2, <2>3, HandlerKeeps
<1>11. CASE new_thread
  <2> SUFFICES ASSUME ~Wild PROVE IdleInside' /\ NoStaleFault'
    BY <1>2
  <2>1. PICK index \in Slots :
          /\ Lowest(index, InState(EMPTY))
          /\ ordonnanceur([m EXCEPT !.DR[m.RI.i] = index, !.AC = index],
               [process EXCEPT ![index].cpu = [m EXCEPT !.DR[m.RI.i] = 0, !.AC = 0],
                               ![index].state = READY],
               Count(nbr_process_alive + 1), nbr_process_sleeping)
    BY <1>11 DEF new_thread
  <2>2. process[index].state = EMPTY /\ index \in Word /\ 0 \in Word
    BY <2>1, Sizes, ZeroTyped DEF Lowest, InState
  <2>3. /\ [m EXCEPT !.DR[m.RI.i] = index, !.AC = index] \in PSW
        /\ [m EXCEPT !.DR[m.RI.i] = 0, !.AC = 0] \in PSW
    BY <1>3, <2>2 DEF PSW
  <2>4. /\ [m EXCEPT !.DR[m.RI.i] = index, !.AC = index].INT = m.INT
        /\ [m EXCEPT !.DR[m.RI.i] = index, !.AC = index].PC = m.PC
        /\ [m EXCEPT !.DR[m.RI.i] = 0, !.AC = 0].INT = m.INT
    BY <1>3 DEF PSW
  <2>5. m.INT = INT_SYSC
    BY <1>11 DEF new_thread, Sysc
  <2> QED
    BY <2>1, <2>2, <2>3, <2>4, <2>5, <1>10
<1>12. CASE my_fork
  <2>1. CASE ordonnanceur(m, process, nbr_process_alive, nbr_process_sleeping)
    BY <1>3, <2>1, HandlerKeeps
  <2>2. ASSUME NEW index \in Slots, Lowest(index, InState(EMPTY)),
               ordonnanceur([m EXCEPT !.AC = index],
                 [process EXCEPT ![index].cpu = [m EXCEPT !.SB = ForkBase(index), !.AC = 0],
                                 ![index].state = process[current_process].state],
                 nbr_process_alive, nbr_process_sleeping)
        PROVE  IdleInside' /\ NoStaleFault'
    <3>1. process[index].state = EMPTY /\ index \in Word /\ ForkBase(index) \in Word
          /\ 0 \in Word
      BY <2>2, Sizes, ZeroTyped DEF Lowest, InState, ForkBase
    <3>2. /\ [m EXCEPT !.AC = index] \in PSW
          /\ [m EXCEPT !.SB = ForkBase(index), !.AC = 0] \in PSW
          /\ [m EXCEPT !.AC = index].INT = m.INT /\ [m EXCEPT !.AC = index].PC = m.PC
          /\ [m EXCEPT !.SB = ForkBase(index), !.AC = 0].INT = m.INT
      BY <1>3, <3>1 DEF PSW
    <3>3. m.INT = INT_SYSC
      BY <1>12 DEF my_fork, Sysc
    <3> QED
      BY <1>3, <2>2, <3>1, <3>2, <3>3, <1>10
  <2> QED
    BY <1>2, <1>12, <2>1, <2>2 DEF my_fork
<1> QED
  BY <1>1, <1>2, <1>5, <1>7, <1>8, <1>9, <1>11, <1>12 DEF systeme, system_SYSC

(* Of the handlers only my_fork writes memory, and not the segment of idle. *)
LEMMA SystemeSInv == SInv /\ systeme /\ program' = program => SInv'
<1> SUFFICES ASSUME SInv, systeme, program' = program PROVE SInv'
  OBVIOUS
<1>1. IInv'
  BY ClavierInv, ArretInv, HorlogeInv, ExitInv, NewThreadInv, SleepInv, GetcharInv,
     ForkInv, AffichageInv DEF systeme, system_SYSC, SInv
<1>2. IdleInside' /\ NoStaleFault'
  BY SystemeKeeps DEF SInv
<1>3. Booted
  <2>1. mode = "switch" \/ (mode = "systeme" /\ m.INT # INT_INIT)
    BY DEF systeme, Clavier, Arret, Horloge, system_SYSC, Sysc, my_exit, new_thread,
       send_thread_to_sleep, my_getchar, my_fork, Affichage
  <2> QED
    BY <2>1 DEF SInv, IInv, BootState
<1>4. /\ \A a \in 0 .. 4 : mem[a] = Encode(idle[a + 1])
      /\ UNCHANGED mem => IdleCode'
  <2>1. \A a \in 0 .. 4 : mem[a] = Encode(idle[a + 1])
    BY <1>3 DEF IdleCode, SInv
  <2> QED
    BY <2>1 DEF IdleCode
<1>5. ASSUME my_fork, NEW index \in Slots, Lowest(index, InState(EMPTY)),
             mem' = Copied(ForkBase(index))
      PROVE  IdleCode'
  <2>1. process[0].state = READY
    BY <1>5, AtSwitch DEF my_fork, Sysc, SInv
  <2>2. index # 0
    BY <1>5, <2>1 DEF Lowest, InState, READY, EMPTY
  <2>3. \A a \in 0 .. 4 : a < ForkBase(index)
    <3>1. index \in Nat /\ index >= 1
      BY <2>2, MachineAssumption DEF Slots
    <3>2. index * SEGMENT_SIZE >= SEGMENT_SIZE
      <4>1. PICK k \in Nat : index = k + 1
        <5>1. index - 1 \in Nat /\ index = (index - 1) + 1
          BY <3>1
        <5> QED
          BY <5>1
      <4>2. index * SEGMENT_SIZE = k * SEGMENT_SIZE + SEGMENT_SIZE /\ k * SEGMENT_SIZE \in Nat
        BY <4>1, SegmentHoldsIdle
      <4> QED
        BY <4>2, SegmentHoldsIdle
    <3> QED
      BY <3>2, SegmentHoldsIdle, Sizes DEF ForkBase
  <2>4. \A a \in 0 .. 4 : a \in Addresses
    <3>1. MEM_SIZE >= SEGMENT_SIZE
      BY Sizes, SlotsFinite, MachineAssumption
    <3> QED
      BY <3>1, SegmentHoldsIdle, MachineAssumption DEF Addresses
  <2>5. m.SS \in Int /\ ForkBase(index) \in Int
    <3>1. HasSegment(m, current_process)
      BY <1>5, AtSwitch DEF my_fork, Sysc, SInv
    <3> QED
      BY <3>1, SegmentHoldsIdle, Sizes, MachineAssumption DEF ForkBase, HasSegment
  <2>6. \A a \in 0 .. 4 : mem'[a] = mem[a]
    BY <1>5, <2>3, <2>4, <2>5 DEF Copied
  <2> QED
    BY <1>4, <2>6 DEF IdleCode
<1>6. IdleCode'
  BY <1>4, <1>5 DEF systeme, Clavier, Arret, Horloge, system_SYSC, Wild, my_exit, new_thread,
     send_thread_to_sleep, my_getchar, my_fork, Affichage
<1> QED
  BY <1>1, <1>2, <1>6 DEF SInv

-----------------------------------------------------------------------------
(* The processor. *)
LEMMA WrapTyped ==
  ASSUME NEW a \in Word, NEW b \in Word
  PROVE  Wrap(a + b) \in Word /\ Wrap(a - b) \in Word
<1>1. /\ a \in Int /\ MinWord <= a /\ a <= MaxWord
      /\ b \in Int /\ MinWord <= b /\ b <= MaxWord
      /\ MaxWord \in Int /\ MinWord = -MaxWord - 1
  BY Bounds, SMT
<1>2. Wrap(a + b) \in Int /\ MinWord <= Wrap(a + b) /\ Wrap(a + b) <= MaxWord
  BY <1>1, SMT DEF Wrap
<1>3. Wrap(a - b) \in Int /\ MinWord <= Wrap(a - b) /\ Wrap(a - b) <= MaxWord
  BY <1>1, SMT DEF Wrap
<1> QED
  BY <1>2, <1>3, Bounds, SMT

(* A PSW that differs from p in registers, AC and PC only. *)
SameButRegisters(p, q) ==
  q \in PSW /\ q.SB = p.SB /\ q.SS = p.SS /\ q.INT = p.INT /\ q.RI = p.RI

(* An argument is a word. *)
LEMMA ArgTyped == ASSUME NEW inst \in INST PROVE inst.ARG \in Word
<1>1. inst.ARG \in -MaxArg - 1 .. MaxArg
  BY DEF INST
<1>2. MaxArg \in Int
  BY Bounds, SMT
<1>3. inst.ARG \in Int /\ -MaxArg - 1 <= inst.ARG /\ inst.ARG <= MaxArg
  BY <1>1, <1>2
<1> QED
  BY <1>3, Bounds, SMT

(* The operand of an instruction is a word. *)
LEMMA OperandTyped ==
  ASSUME NEW p \in PSW
  PROVE  Operand(p) \in Word /\ p.DR[p.RI.i] \in Word /\ p.RI.ARG \in Word
<1>1. p.RI \in INST /\ p.DR \in [Registers -> Word]
  BY DEF PSW
<1>2. p.RI.i \in Registers /\ p.RI.j \in Registers
  BY <1>1 DEF INST
<1> QED
  BY <1>1, <1>2, ArgTyped, WrapTyped DEF Operand

(* The instructions that go on leave a PSW. *)
LEMMA InstructionsTyped ==
  ASSUME NEW p \in PSW, p.PC + 1 \in Word, NEW memory \in [Addresses -> Word],
         InSegment(p, Operand(p)) => p.SB + Operand(p) \in Addresses
  PROVE  /\ SameButRegisters(p, cpu_ADD(p)) /\ SameButRegisters(p, cpu_SUB(p))
         /\ SameButRegisters(p, cpu_CMP(p)) /\ SameButRegisters(p, cpu_IFGT(p))
         /\ SameButRegisters(p, cpu_NOP(p)) /\ SameButRegisters(p, cpu_JUMP(p))
         /\ InSegment(p, Operand(p)) =>
              /\ SameButRegisters(p, cpu_LOAD(p, memory))
              /\ SameButRegisters(p, cpu_STORE(p))
         /\ Stored(p, memory) \in [Addresses -> Word]
<1>1. Operand(p) \in Word /\ p.DR[p.RI.i] \in Word /\ p.RI.ARG \in Word
  BY OperandTyped
<1>2. p.RI \in INST /\ p.RI.i \in Registers
  BY DEF PSW, INST
<1>3. ASSUME NEW value \in Word
      PROVE  SameButRegisters(p, Assign(p, value))
  BY <1>3 DEF SameButRegisters, Assign, PSW
<1>4. Wrap(p.DR[p.RI.i] + Operand(p)) \in Word /\ Wrap(p.DR[p.RI.i] - Operand(p)) \in Word
  BY <1>1, WrapTyped
<1>5. SameButRegisters(p, cpu_ADD(p)) /\ SameButRegisters(p, cpu_SUB(p))
  BY <1>3, <1>4 DEF cpu_ADD, cpu_SUB
<1>6. SameButRegisters(p, cpu_CMP(p))
  BY <1>4 DEF cpu_CMP, SameButRegisters, PSW
<1>7. /\ SameButRegisters(p, cpu_IFGT(p)) /\ SameButRegisters(p, cpu_NOP(p))
      /\ SameButRegisters(p, cpu_JUMP(p))
  BY <1>1 DEF cpu_IFGT, cpu_NOP, cpu_JUMP, SameButRegisters, PSW
<1>8. InSegment(p, Operand(p)) => SameButRegisters(p, cpu_LOAD(p, memory))
  BY <1>3 DEF cpu_LOAD
<1>9. InSegment(p, Operand(p)) => SameButRegisters(p, cpu_STORE(p))
  BY <1>1 DEF cpu_STORE, SameButRegisters, PSW
<1>10. Stored(p, memory) \in [Addresses -> Word]
  BY <1>1 DEF Stored
<1> QED
  BY <1>5, <1>6, <1>7, <1>8, <1>9, <1>10

(* What holds in cpu(). *)
LEMMA AtCpu ==
  ASSUME SInv, mode = "cpu"
  PROVE  /\ Booted /\ current_process \in Slots
         /\ m \in PSW /\ mem \in [Addresses -> Word]
         /\ m.SS = SEGMENT_SIZE /\ m.SB \in 0 .. MEM_SIZE - SEGMENT_SIZE
         /\ m.SB = 0 <=> current_process = 0
         /\ current_process # 0 => m.SB >= SEGMENT_SIZE
         /\ m.INT # INT_SEGV
         /\ current_process = 0 => m.PC \in 0 .. 4
         /\ \A a \in 0 .. 4 : mem[a] = Encode(idle[a + 1])
<1>1. Booted /\ IInv
  BY DEF SInv, IInv, BootState
<1>2. current_process \in Slots /\ m \in PSW /\ mem \in [Addresses -> Word]
  BY <1>1 DEF IInv, TypeOK, Booted
<1>3. HasSegment(m, current_process)
  BY <1>1, <1>2 DEF IInv, SchedulerNeverSpins, IdleSegmentPrivate, Live, Context, READY, EMPTY
<1>4. PICK k \in Slots : m.SB = k * SEGMENT_SIZE
  BY <1>3 DEF HasSegment, Bases
<1>5. k # 0 => k * SEGMENT_SIZE >= SEGMENT_SIZE
  <2> SUFFICES ASSUME k # 0 PROVE k * SEGMENT_SIZE >= SEGMENT_SIZE
    OBVIOUS
  <2>1. k - 1 \in Nat /\ k = (k - 1) + 1
    BY MachineAssumption DEF Slots
  <2>2. PICK l \in Nat : k = l + 1
    BY <2>1
  <2>3. k * SEGMENT_SIZE = l * SEGMENT_SIZE + SEGMENT_SIZE /\ l * SEGMENT_SIZE \in Nat
    BY <2>2, SegmentHoldsIdle
  <2> QED
    BY <2>3, SegmentHoldsIdle
<1>6. current_process = 0 => m.PC \in 0 .. 4
  BY <1>1 DEF SInv, IdleInside, Context
<1>7. \A a \in 0 .. 4 : mem[a] = Encode(idle[a + 1])
  BY <1>1 DEF SInv, IdleCode
<1>8. m.INT # INT_SEGV
  BY DEF SInv, NoStaleFault
<1> QED
  BY <1>1, <1>2, <1>3, <1>4, <1>5, <1>6, <1>7, <1>8, Sizes DEF HasSegment

(* What holds of the instruction that is fetched. *)
LEMMA AtFetch ==
  ASSUME SInv, mode = "cpu", InSegment(m, m.PC)
  PROVE  /\ Fetched \in PSW
         /\ Fetched.PC = m.PC /\ Fetched.SB = m.SB /\ Fetched.SS = m.SS
         /\ Fetched.INT = m.INT /\ Fetched.DR = m.DR /\ Fetched.AC = m.AC
         /\ m.PC + 1 \in Word
         /\ InSegment(Fetched, Operand(Fetched)) => Fetched.SB + Operand(Fetched) \in Addresses
         /\ current_process = 0 =>
              /\ m.PC < 4 => Fetched.RI.OP = INST_NOP
              /\ m.PC = 4 => Fetched.RI.OP = INST_JUMP /\ Fetched.RI.ARG = 0
<1>1. /\ m \in PSW /\ mem \in [Addresses -> Word] /\ m.SS = SEGMENT_SIZE
      /\ m.SB \in 0 .. MEM_SIZE - SEGMENT_SIZE
      /\ current_process = 0 => m.SB = 0 /\ m.PC \in 0 .. 4
      /\ \A a \in 0 .. 4 : mem[a] = Encode(idle[a + 1])
  BY AtCpu
<1>2. /\ MEM_SIZE \in Nat /\ MEM_SIZE <= MaxWord /\ SEGMENT_SIZE \in Nat
      /\ SEGMENT_SIZE <= MEM_SIZE
  BY MachineAssumption, Sizes, SlotsFinite
<1>3. m.PC \in Int /\ m.PC >= 0 /\ m.PC < SEGMENT_SIZE
  <2>1. m.PC \in Word
    BY <1>1 DEF PSW
  <2> QED
    BY <2>1, <1>1, Bounds, SMT DEF InSegment
<1>4. m.PC + m.SB \in Addresses
  BY <1>1, <1>2, <1>3 DEF Addresses
<1>5. Decode(mem[m.PC + m.SB]) \in INST
  BY <1>1, <1>4, DecodeTyped
<1>6. /\ Fetched \in PSW /\ Fetched.RI = Decode(mem[m.PC + m.SB])
      /\ Fetched.PC = m.PC /\ Fetched.SB = m.SB /\ Fetched.SS = m.SS
      /\ Fetched.INT = m.INT /\ Fetched.DR = m.DR /\ Fetched.AC = m.AC
  BY <1>1, <1>5 DEF Fetched, PSW
<1>7. m.PC + 1 \in Word
  BY <1>2, <1>3, Bounds, SMT
<1>8. InSegment(Fetched, Operand(Fetched)) => Fetched.SB + Operand(Fetched) \in Addresses
  <2>1. Operand(Fetched) \in Int
    BY <1>6, OperandTyped, Bounds
  <2> QED
    BY <1>1, <1>2, <1>6, <2>1 DEF InSegment, Addresses
<1>9. ASSUME current_process = 0
      PROVE  /\ m.PC < 4 => Fetched.RI.OP = INST_NOP
             /\ m.PC = 4 => Fetched.RI.OP = INST_JUMP /\ Fetched.RI.ARG = 0
  <2>1. m.SB = 0 /\ m.PC \in 0 .. 4 /\ m.PC + m.SB = m.PC
    BY <1>1, <1>9
  <2>2. Fetched.RI = Decode(Encode(idle[m.PC + 1]))
    BY <1>1, <1>6, <2>1
  <2> QED
    BY <2>1, <2>2, IdleDecodes
<1> QED
  BY <1>6, <1>7, <1>8, <1>9

(* An instruction that goes on is a step of an arbitrary program.          *)
LEMMA StepMaps ==
  ASSUME SInv, mode = "cpu", InSegment(m, m.PC),
         NEW psw, SameButRegisters(Fetched, psw), Fetched.RI.OP \in Kernel!Ordinary,
         NEW memory \in [Addresses -> Word],
         \A a \in Addresses :
           memory[a] # mem[a] => a \in Segment(m.SB) /\ current_process # 0,
         current_process = 0 => psw.PC \in 0 .. 4,
         Continue(psw, memory)
  PROVE  Kernel!UserStep /\ SInv'
<1>1. /\ psw \in PSW /\ psw.SB = m.SB /\ psw.SS = m.SS /\ psw.INT = m.INT
      /\ psw.RI.OP \in Kernel!Ordinary
  BY AtFetch DEF SameButRegisters
<1>2. /\ m' = psw /\ mem' = memory
      /\ UNCHANGED <<mode, process, current_process, counters, tampon, frappe, program>>
  BY DEF Continue
<1>3. psw \in [PC : Word, SB : {m.SB}, SS : {m.SS}, INT : {m.INT},
               DR : [Registers -> Word], AC : Word, RI : INST]
  BY <1>1 DEF PSW
<1>4. Kernel!UserStep
  BY <1>1, <1>2, <1>3
  DEF Kernel!UserStep, Kernel!counters, Kernel!Segment, Kernel!Addresses,
      Addresses, counters, Segment, Kernel!Word, Kernel!INST
<1>5. IInv'
  BY <1>1, <1>2, UserInv DEF SInv
<1>6. /\ Booted
      /\ current_process # 0 => m.SB >= SEGMENT_SIZE
      /\ \A a \in 0 .. 4 : mem[a] = Encode(idle[a + 1])
      /\ m.SB \in Int /\ m.INT # INT_SEGV
  BY AtCpu, Sizes
<1>7. IdleCode'
  <2> SUFFICES ASSUME NEW a \in 0 .. 4 PROVE memory[a] = mem[a]
    BY <1>2, <1>6 DEF IdleCode
  <2>1. a \in Addresses
    BY SegmentHoldsIdle, Sizes, SlotsFinite, MachineAssumption DEF Addresses
  <2>2. current_process # 0 => a \notin Segment(m.SB)
    BY <1>6, SegmentHoldsIdle DEF Segment
  <2> QED
    BY <2>1, <2>2
<1>8. IdleInside'
  BY <1>2, <1>6 DEF SInv, IdleInside, Context, Booted
<1>9. NoStaleFault'
  BY <1>1, <1>2, <1>6 DEF SInv, NoStaleFault
<1> QED
  BY <1>2, <1>4, <1>5, <1>7, <1>8, <1>9 DEF SInv

(* The return of cpu() keeps the invariant.                                *)
LEMMA InterruptKeeps ==
  ASSUME SInv, mode = "cpu", NEW psw \in PSW, psw.SB = m.SB, psw.SS = m.SS,
         psw.INT \in {INT_SEGV, INT_INST, INT_HALT, INT_CLOCK, INT_SYSC},
         current_process = 0 => psw.INT = INT_CLOCK /\ psw.PC = m.PC,
         Interrupt(psw)
  PROVE  SInv'
<1>1. /\ m' = psw /\ mode' = "systeme"
      /\ UNCHANGED <<process, current_process, counters, tampon, frappe, mem, program>>
  BY DEF Interrupt
<1>2. mem \in [Addresses -> Word] /\ Booted
  BY AtCpu
<1>3. IInv'
  BY <1>1, <1>2, UserInv DEF SInv
<1>4. IdleCode' /\ IdleInside' /\ NoStaleFault'
  BY <1>1, <1>2 DEF SInv, IdleCode, IdleInside, NoStaleFault, Context, Booted
<1> QED
  BY <1>1, <1>3, <1>4 DEF SInv

(* The instructions that go on. *)
LEMMA InstructionMaps ==
  ASSUME SInv,
         ADD \/ SUB \/ CMP \/ JUMP \/ IFGT \/ NOP
         \/ (LOAD /\ mode' = "cpu") \/ (STORE /\ mode' = "cpu")
  PROVE  Kernel!UserStep /\ SInv'
<1>1. mode = "cpu" /\ InSegment(m, m.PC)
  BY DEF ADD, SUB, CMP, JUMP, IFGT, NOP, LOAD, STORE, Fetch, InLoop
<1>2. /\ Fetched \in PSW /\ Fetched.PC = m.PC /\ Fetched.SB = m.SB /\ Fetched.SS = m.SS
      /\ Fetched.INT = m.INT /\ m.PC + 1 \in Word
      /\ InSegment(Fetched, Operand(Fetched)) => Fetched.SB + Operand(Fetched) \in Addresses
      /\ current_process = 0 =>
           /\ m.PC < 4 => Fetched.RI.OP = INST_NOP
           /\ m.PC = 4 => Fetched.RI.OP = INST_JUMP /\ Fetched.RI.ARG = 0
  BY <1>1, AtFetch
<1>3. /\ m \in PSW /\ mem \in [Addresses -> Word] /\ m.INT # INT_SEGV
      /\ current_process = 0 => m.PC \in 0 .. 4
      /\ m.SS = SEGMENT_SIZE /\ m.SB \in Int
  BY <1>1, AtCpu
<1>4. /\ SameButRegisters(Fetched, cpu_ADD(Fetched))
      /\ SameButRegisters(Fetched, cpu_SUB(Fetched))
      /\ SameButRegisters(Fetched, cpu_CMP(Fetched))
      /\ SameButRegisters(Fetched, cpu_IFGT(Fetched))
      /\ SameButRegisters(Fetched, cpu_NOP(Fetched))
      /\ SameButRegisters(Fetched, cpu_JUMP(Fetched))
      /\ InSegment(Fetched, Operand(Fetched)) =>
           /\ SameButRegisters(Fetched, cpu_LOAD(Fetched, mem))
           /\ SameButRegisters(Fetched, cpu_STORE(Fetched))
      /\ Stored(Fetched, mem) \in [Addresses -> Word]
  BY <1>2, <1>3, InstructionsTyped
<1>5. current_process = 0 => Fetched.RI.OP \in {INST_NOP, INST_JUMP}
  BY <1>2, <1>3
<1>6. ASSUME NEW psw, SameButRegisters(Fetched, psw), Fetched.RI.OP \in Kernel!Ordinary,
             current_process # 0, Continue(psw, mem)
      PROVE  Kernel!UserStep /\ SInv'
  BY <1>1, <1>3, <1>6, StepMaps
<1>7. CASE ADD
  BY <1>4, <1>5, <1>6, <1>7
  DEF ADD, Fetch, Kernel!Ordinary, Kernel!INST_ADD, INST_ADD, INST_NOP, INST_JUMP
<1>8. CASE SUB
  BY <1>4, <1>5, <1>6, <1>8
  DEF SUB, Fetch, Kernel!Ordinary, Kernel!INST_SUB, INST_SUB, INST_NOP, INST_JUMP
<1>9. CASE CMP
  BY <1>4, <1>5, <1>6, <1>9
  DEF CMP, Fetch, Kernel!Ordinary, Kernel!INST_CMP, INST_CMP, INST_NOP, INST_JUMP
<1>10. CASE IFGT
  BY <1>4, <1>5, <1>6, <1>10
  DEF IFGT, Fetch, Kernel!Ordinary, Kernel!INST_IFGT, INST_IFGT, INST_NOP, INST_JUMP
<1>11. CASE NOP
  <2>1. Fetched.RI.OP \in Kernel!Ordinary /\ Fetched.RI.OP = INST_NOP
        /\ Continue(cpu_NOP(Fetched), mem)
    BY <1>11 DEF NOP, Fetch, Kernel!Ordinary, Kernel!INST_NOP, INST_NOP
  <2>2. current_process = 0 => m.PC # 4
    BY <1>2, <2>1 DEF INST_NOP, INST_JUMP
  <2>3. cpu_NOP(Fetched).PC = m.PC + 1
    BY <1>2 DEF cpu_NOP, PSW
  <2>4. current_process = 0 => cpu_NOP(Fetched).PC \in 0 .. 4
    BY <1>3, <2>2, <2>3
  <2> QED
    BY <1>1, <1>3, <1>4, <2>1, <2>4, StepMaps
<1>12. CASE JUMP
  <2>1. Fetched.RI.OP \in Kernel!Ordinary /\ Fetched.RI.OP = INST_JUMP
        /\ Continue(cpu_JUMP(Fetched), mem)
    BY <1>12 DEF JUMP, Fetch, Kernel!Ordinary, Kernel!INST_JUMP, INST_JUMP
  <2>2. current_process = 0 => Fetched.RI.ARG = 0
    <3>1. Fetched.RI.OP # INST_NOP
      BY <2>1 DEF INST_NOP, INST_JUMP
    <3>2. m.PC \in 0 .. 4 => m.PC < 4 \/ m.PC = 4
      OBVIOUS
    <3> QED
      BY <1>2, <1>3, <3>1, <3>2
  <2>3. cpu_JUMP(Fetched).PC = Fetched.RI.ARG
    BY <1>2 DEF cpu_JUMP, PSW
  <2>4. current_process = 0 => cpu_JUMP(Fetched).PC \in 0 .. 4
    BY <2>2, <2>3
  <2> QED
    BY <1>1, <1>3, <1>4, <2>1, <2>4, StepMaps
<1>13. InSegment(Fetched, Operand(Fetched)) \/ Fault(Fetched).INT = INT_SEGV
  BY <1>2 DEF Fault, PSW
<1>14. CASE LOAD /\ mode' = "cpu"
  <2>1. Fetched.RI.OP \in Kernel!Ordinary /\ current_process # 0
    BY <1>5, <1>14
    DEF LOAD, Fetch, Kernel!Ordinary, Kernel!INST_LOAD, INST_LOAD, INST_NOP, INST_JUMP
  <2>2. cpu_LOAD(Fetched, mem).INT # INT_SEGV /\ Continue(cpu_LOAD(Fetched, mem), mem)
    BY <1>14 DEF LOAD, Interrupt
  <2>3. InSegment(Fetched, Operand(Fetched))
    BY <1>13, <2>2 DEF cpu_LOAD
  <2> QED
    BY <1>4, <1>6, <2>1, <2>2, <2>3
<1>15. CASE STORE /\ mode' = "cpu"
  <2>1. Fetched.RI.OP \in Kernel!Ordinary /\ current_process # 0
    BY <1>5, <1>15
    DEF STORE, Fetch, Kernel!Ordinary, Kernel!INST_STORE, INST_STORE, INST_NOP, INST_JUMP
  <2>2. cpu_STORE(Fetched).INT # INT_SEGV
        /\ Continue(cpu_STORE(Fetched), Stored(Fetched, mem))
    BY <1>15 DEF STORE, Interrupt
  <2>3. InSegment(Fetched, Operand(Fetched))
    BY <1>13, <2>2 DEF cpu_STORE
  <2>4. /\ Operand(Fetched) \in Int /\ 0 <= Operand(Fetched)
        /\ Operand(Fetched) < SEGMENT_SIZE
    BY <1>2, <1>3, <2>3, OperandTyped, Bounds DEF InSegment
  <2>5. \A a \in Addresses : Stored(Fetched, mem)[a] # mem[a] => a \in Segment(m.SB)
    <3>1. \A a \in Addresses :
            Stored(Fetched, mem)[a] # mem[a] => a = m.SB + Operand(Fetched)
      BY <1>2, <1>3, <2>3 DEF Stored
    <3>2. m.SB + Operand(Fetched) \in Segment(m.SB)
      BY <1>3, <2>4, SegmentHoldsIdle DEF Segment
    <3> QED
      BY <3>1, <3>2
  <2> QED
    BY <1>1, <1>4, <2>1, <2>2, <2>3, <2>5, StepMaps
<1> QED
  BY <1>7, <1>8, <1>9, <1>10, <1>11, <1>12, <1>14, <1>15

(* The returns of cpu(). *)
LEMMA InterruptMaps ==
  ASSUME SInv,
         HorsSegment \/ HALT \/ SYSC \/ Inconnue \/ FinDeTranche
         \/ (LOAD /\ mode' # "cpu") \/ (STORE /\ mode' # "cpu")
  PROVE  /\ \/ Kernel!UserClock \/ Kernel!UserFetchFault
            \/ Kernel!UserDataFault \/ Kernel!UserTrap
         /\ SInv'
<1>1. mode = "cpu"
  BY DEF HorsSegment, HALT, SYSC, Inconnue, FinDeTranche, LOAD, STORE, Fetch, InLoop
<1>2. /\ m \in PSW /\ mem \in [Addresses -> Word] /\ m.INT # INT_SEGV
      /\ current_process = 0 => m.PC \in 0 .. 4
      /\ m.SS = SEGMENT_SIZE
  BY <1>1, AtCpu
<1>3. ASSUME InSegment(m, m.PC)
      PROVE  /\ Fetched \in PSW /\ Fetched.PC = m.PC /\ Fetched.SB = m.SB
             /\ Fetched.SS = m.SS /\ Fetched.INT = m.INT /\ Fetched.DR = m.DR
             /\ Fetched.AC = m.AC /\ m.PC + 1 \in Word
             /\ current_process = 0 => Fetched.RI.OP \in {INST_NOP, INST_JUMP}
  <2>1. m.PC \in 0 .. 4 => m.PC < 4 \/ m.PC = 4
    OBVIOUS
  <2> QED
    BY <1>1, <1>2, <1>3, <2>1, AtFetch
<1>4. ASSUME NEW psw, Interrupt(psw)
      PROVE  Kernel!Interrupt(psw) /\ m' = psw
  BY <1>1, <1>4 DEF Interrupt, Kernel!Interrupt, Kernel!counters, counters
<1>5. CASE FinDeTranche
  <2> DEFINE psw == [m EXCEPT !.INT = INT_CLOCK]
  <2>1. Interrupt(psw)
    BY <1>5 DEF FinDeTranche
  <2>2. psw \in PSW /\ psw.SB = m.SB /\ psw.SS = m.SS /\ psw.PC = m.PC
        /\ psw.INT = INT_CLOCK
    BY <1>2 DEF PSW, INT_CLOCK
  <2>3. Kernel!UserClock
    BY <1>4, <2>1 DEF Kernel!UserClock, Kernel!INT_CLOCK, INT_CLOCK
  <2> HIDE DEF psw
  <2> QED
    BY <1>1, <2>1, <2>2, <2>3, InterruptKeeps
<1>6. CASE HorsSegment
  <2> DEFINE psw == [m EXCEPT !.INT = INT_SEGV]
  <2>1. Interrupt(psw) /\ ~InSegment(m, m.PC)
    BY <1>6 DEF HorsSegment
  <2>2. psw \in PSW /\ psw.SB = m.SB /\ psw.SS = m.SS /\ psw.INT = INT_SEGV
    BY <1>2 DEF PSW, INT_SEGV
  <2>3. current_process # 0
    BY <1>2, <2>1, SegmentHoldsIdle DEF InSegment
  <2>4. Kernel!UserFetchFault
    BY <1>4, <2>1, <2>3 DEF Kernel!UserFetchFault, Kernel!INT_SEGV, INT_SEGV
  <2> HIDE DEF psw
  <2> QED
    BY <1>1, <2>1, <2>2, <2>3, <2>4, InterruptKeeps
<1>7. CASE (LOAD \/ STORE) /\ mode' # "cpu"
  <2>1. InSegment(m, m.PC) /\ Fetched.RI.OP \in {INST_LOAD, INST_STORE}
    BY <1>7 DEF LOAD, STORE, Fetch
  <2>2. Interrupt(Fault(Fetched))
    <3>1. CASE LOAD
      <4>1. Interrupt(cpu_LOAD(Fetched, mem)) /\ cpu_LOAD(Fetched, mem).INT = INT_SEGV
        BY <1>1, <1>7, <3>1 DEF LOAD, Continue
      <4>2. ~InSegment(Fetched, Operand(Fetched))
        BY <1>2, <1>3, <2>1, <4>1 DEF cpu_LOAD, Assign, PSW
      <4> QED
        BY <4>1, <4>2 DEF cpu_LOAD
    <3>2. CASE STORE
      <4>1. Interrupt(cpu_STORE(Fetched)) /\ cpu_STORE(Fetched).INT = INT_SEGV
        BY <1>1, <1>7, <3>2 DEF STORE, Continue
      <4>2. ~InSegment(Fetched, Operand(Fetched))
        BY <1>2, <1>3, <2>1, <4>1 DEF cpu_STORE, PSW
      <4> QED
        BY <4>1, <4>2 DEF cpu_STORE
    <3> QED
      BY <1>7, <3>1, <3>2
  <2>3. /\ Fault(Fetched) \in [PC : {m.PC}, SB : {m.SB}, SS : {m.SS}, INT : {INT_SEGV},
                                DR : {m.DR}, AC : Word, RI : INST]
        /\ Fault(Fetched).RI.OP = Fetched.RI.OP
    BY <1>3, <2>1, OperandTyped DEF Fault, PSW
  <2>4. Fault(Fetched) \in PSW /\ Fault(Fetched).SB = m.SB /\ Fault(Fetched).SS = m.SS
        /\ Fault(Fetched).INT = INT_SEGV
    BY <1>2, <2>3 DEF PSW, INT_SEGV
  <2>5. current_process # 0
    BY <1>3, <2>1 DEF INST_LOAD, INST_STORE, INST_NOP, INST_JUMP
  <2>6. Kernel!UserDataFault
    BY <1>4, <2>1, <2>2, <2>3, <2>5
    DEF Kernel!UserDataFault, Kernel!INT_SEGV, INT_SEGV, Kernel!INST_LOAD, INST_LOAD,
        Kernel!INST_STORE, INST_STORE
  <2> QED
    BY <1>1, <2>2, <2>4, <2>5, <2>6, InterruptKeeps
<1>8. ASSUME InSegment(m, m.PC), Fetched.RI.OP \notin Kernel!Ordinary,
             NEW psw, Interrupt(psw), psw.RI = Fetched.RI,
             psw \in [PC : Word, SB : {m.SB}, SS : {m.SS},
                      INT : {INT_SYSC, INT_HALT, INT_INST},
                      DR : {m.DR}, AC : {m.AC}, RI : INST],
             psw.INT = Kernel!Trap(psw.RI.OP)
      PROVE  Kernel!UserTrap /\ SInv'
  <2>1. current_process # 0
    BY <1>3, <1>8 DEF Kernel!Ordinary, Kernel!INST_NOP, INST_NOP, Kernel!INST_JUMP, INST_JUMP
  <2>2. Kernel!UserTrap
    BY <1>4, <1>8, <2>1
    DEF Kernel!UserTrap, Kernel!INT_SYSC, INT_SYSC, Kernel!INT_HALT, INT_HALT,
        Kernel!INT_INST, INT_INST
  <2>3. psw \in PSW /\ psw.SB = m.SB /\ psw.SS = m.SS
        /\ psw.INT \in {INT_SYSC, INT_HALT, INT_INST}
    BY <1>2, <1>8 DEF PSW, INT_SYSC, INT_HALT, INT_INST
  <2> QED
    BY <1>1, <1>8, <2>1, <2>2, <2>3, InterruptKeeps
<1>9. CASE HALT
  <2>1. InSegment(m, m.PC) /\ Fetched.RI.OP = INST_HALT /\ Interrupt(cpu_HALT(Fetched))
    BY <1>9 DEF HALT, Fetch
  <2>2. /\ cpu_HALT(Fetched).RI = Fetched.RI /\ cpu_HALT(Fetched).INT = INT_HALT
        /\ cpu_HALT(Fetched) \in
             [PC : Word, SB : {m.SB}, SS : {m.SS}, INT : {INT_SYSC, INT_HALT, INT_INST},
              DR : {m.DR}, AC : {m.AC}, RI : INST]
    BY <1>3, <2>1 DEF cpu_HALT, PSW
  <2>3. Kernel!Trap(INST_HALT) = INT_HALT /\ INST_HALT \notin Kernel!Ordinary
    BY DEF Kernel!Trap, Kernel!INST_HALT, INST_HALT, Kernel!INST_SYSC, Kernel!INT_HALT,
       INT_HALT, Kernel!Ordinary, Kernel!INST_ADD, Kernel!INST_SUB, Kernel!INST_CMP,
       Kernel!INST_IFGT, Kernel!INST_NOP, Kernel!INST_JUMP, Kernel!INST_LOAD,
       Kernel!INST_STORE
  <2> QED
    BY <1>8, <2>1, <2>2, <2>3
<1>10. CASE SYSC
  <2>1. InSegment(m, m.PC) /\ Fetched.RI.OP = INST_SYSC /\ Interrupt(cpu_SYSC(Fetched))
    BY <1>10 DEF SYSC, Fetch
  <2>2. /\ cpu_SYSC(Fetched).RI = Fetched.RI /\ cpu_SYSC(Fetched).INT = INT_SYSC
        /\ cpu_SYSC(Fetched) \in
             [PC : Word, SB : {m.SB}, SS : {m.SS}, INT : {INT_SYSC, INT_HALT, INT_INST},
              DR : {m.DR}, AC : {m.AC}, RI : INST]
    BY <1>3, <2>1 DEF cpu_SYSC, PSW
  <2>3. Kernel!Trap(INST_SYSC) = INT_SYSC /\ INST_SYSC \notin Kernel!Ordinary
    BY DEF Kernel!Trap, INST_SYSC, Kernel!INST_SYSC, Kernel!INST_HALT, Kernel!INT_SYSC,
       INT_SYSC, Kernel!Ordinary, Kernel!INST_ADD, Kernel!INST_SUB, Kernel!INST_CMP,
       Kernel!INST_IFGT, Kernel!INST_NOP, Kernel!INST_JUMP, Kernel!INST_LOAD,
       Kernel!INST_STORE
  <2> QED
    BY <1>8, <2>1, <2>2, <2>3
<1>11. CASE Inconnue
  <2> DEFINE psw == [Fetched EXCEPT !.INT = INT_INST]
  <2>1. InSegment(m, m.PC) /\ Fetched.RI.OP \notin KnownOps /\ Interrupt(psw)
    BY <1>11 DEF Inconnue
  <2>2. /\ psw.RI = Fetched.RI /\ psw.INT = INT_INST
        /\ psw \in
             [PC : Word, SB : {m.SB}, SS : {m.SS}, INT : {INT_SYSC, INT_HALT, INT_INST},
              DR : {m.DR}, AC : {m.AC}, RI : INST]
    BY <1>2, <1>3, <2>1 DEF PSW
  <2>3. Kernel!Trap(Fetched.RI.OP) = INT_INST /\ Fetched.RI.OP \notin Kernel!Ordinary
    BY <2>1
    DEF KnownOps, INST_ADD, INST_STORE, Kernel!Trap, Kernel!INST_HALT, Kernel!INST_SYSC,
        Kernel!INT_INST, INT_INST, Kernel!Ordinary, Kernel!INST_ADD, Kernel!INST_SUB,
        Kernel!INST_CMP, Kernel!INST_IFGT, Kernel!INST_NOP, Kernel!INST_JUMP,
        Kernel!INST_LOAD, Kernel!INST_STORE
  <2> HIDE DEF psw
  <2> QED
    BY <1>8, <2>1, <2>2, <2>3
<1> QED
  BY <1>5, <1>6, <1>7, <1>9, <1>10, <1>11

(* The actions of Noyau are those of Kernel. *)
LEMMA KernelActions ==
  /\ systeme => Kernel!systeme
  /\ \A i \in Slots : Reveille(i) => i \in Kernel!Slots /\ Kernel!Reveille(i)
  /\ Touche => Kernel!Touche
  /\ Fini => Kernel!Fini
  /\ NoyauInit => Kernel!NoyauInit
  /\ UNCHANGED noyau => UNCHANGED Kernel!noyau
<1>1. \A psw, table, alive, sleeping :
        ordonnanceur(psw, table, alive, sleeping)
        => Kernel!ordonnanceur(psw, table, alive, sleeping)
  <2>1. \A table, sleeping : Wakeable(table, sleeping) = Kernel!Wakeable(table, sleeping)
    BY DEF Wakeable, Kernel!Wakeable, Slots, Kernel!Slots, SLEEP, Kernel!SLEEP
  <2>2. \A table, sleeping : reveil(table, sleeping) = Kernel!reveil(table, sleeping)
    BY <2>1 DEF reveil, Kernel!reveil, Slots, Kernel!Slots, READY, Kernel!READY
  <2>3. \A i : Before(i) = Kernel!Before(i)
    BY DEF Before, Kernel!Before
  <2>4. /\ \A n : Count(n) = Kernel!Count(n)
        /\ Slots = Kernel!Slots /\ READY = Kernel!READY
    BY DEF Count, Kernel!Count, Slots, Kernel!Slots, READY, Kernel!READY
  <2>5. \A S : Cardinality(S) = Kernel!Cardinality(S)
    BY Zenon DEF Cardinality, Kernel!Cardinality
  <2> QED
    BY <2>1, <2>2, <2>3, <2>4, <2>5, Zenon DEF ordonnanceur, Kernel!ordonnanceur
<1>2. Clavier => Kernel!Clavier
  BY
  DEF Clavier, Kernel!Clavier, frappe_clavier, Kernel!frappe_clavier, Delivered,
      Kernel!Delivered, Lowest, Kernel!Lowest, InState, Kernel!InState, caractere,
      Kernel!caractere, Count, Kernel!Count, GETCHAR, Kernel!GETCHAR, READY,
      Kernel!READY, INT_INIT, Kernel!INT_INIT, Slots, Kernel!Slots
<1>3. Arret => Kernel!Arret
  BY
  DEF Arret, Kernel!Arret, counters, Kernel!counters, INT_SEGV, Kernel!INT_SEGV,
      INT_INST, Kernel!INT_INST, INT_HALT, Kernel!INT_HALT
<1>4. Horloge => Kernel!Horloge
  BY <1>1
  DEF Horloge, Kernel!Horloge, INT_CLOCK, Kernel!INT_CLOCK
<1>5. my_exit => Kernel!my_exit
  BY <1>1
  DEF my_exit, Kernel!my_exit, Sysc, Kernel!Sysc, INT_SYSC, Kernel!INT_SYSC,
      SYSC_EXIT, Kernel!SYSC_EXIT, EMPTY, Kernel!EMPTY, Count, Kernel!Count
<1>6. new_thread => Kernel!new_thread
  <2>1. /\ \A a : Sysc(a) = Kernel!Sysc(a)
        /\ SYSC_NEW_THREAD = Kernel!SYSC_NEW_THREAD
        /\ READY = Kernel!READY /\ Slots = Kernel!Slots
        /\ InState(EMPTY) = Kernel!InState(Kernel!EMPTY)
        /\ Wild => Kernel!Wild
    BY DEF Sysc, Kernel!Sysc, INT_SYSC, Kernel!INT_SYSC, SYSC_NEW_THREAD,
       Kernel!SYSC_NEW_THREAD, InState, Kernel!InState, EMPTY, Kernel!EMPTY, READY,
       Kernel!READY, Wild, Kernel!Wild, counters, Kernel!counters, Slots, Kernel!Slots
  <2>2. /\ \A i, S : Lowest(i, S) = Kernel!Lowest(i, S)
        /\ \A n : Count(n) = Kernel!Count(n)
    BY DEF Lowest, Kernel!Lowest, Count, Kernel!Count
  <2> QED
    BY <1>1, <2>1, <2>2, Zenon DEF new_thread, Kernel!new_thread
<1>7. send_thread_to_sleep => Kernel!send_thread_to_sleep
  BY <1>1, SMTT(60)
  DEF send_thread_to_sleep, Kernel!send_thread_to_sleep, Sysc, Kernel!Sysc,
      INT_SYSC, Kernel!INT_SYSC, SYSC_SLEEP, Kernel!SYSC_SLEEP, SLEEP, Kernel!SLEEP,
      Count, Kernel!Count
<1>8. my_getchar => Kernel!my_getchar
  BY <1>1
  DEF my_getchar, Kernel!my_getchar, Sysc, Kernel!Sysc, INT_SYSC, Kernel!INT_SYSC,
      SYSC_GETCHAR, Kernel!SYSC_GETCHAR, GETCHAR, Kernel!GETCHAR
<1>9. my_fork => Kernel!my_fork
  BY <1>1, Zenon
  DEF my_fork, Kernel!my_fork, Sysc, Kernel!Sysc, INT_SYSC, Kernel!INT_SYSC,
      SYSC_FORK, Kernel!SYSC_FORK, Full, Kernel!Full, InState, Kernel!InState,
      EMPTY, Kernel!EMPTY, Wild, Kernel!Wild, counters, Kernel!counters, ForkBase,
      Kernel!ForkBase, Lowest, Kernel!Lowest, Copied, Kernel!Copied, Segment,
      Kernel!Segment, Addresses, Kernel!Addresses, Count, Kernel!Count, Slots,
      Kernel!Slots
<1>10. Affichage => Kernel!Affichage
  BY
  DEF Affichage, Kernel!Affichage, counters, Kernel!counters, INT_SYSC,
      Kernel!INT_SYSC, SYSC_EXIT, Kernel!SYSC_EXIT, SYSC_NEW_THREAD,
      Kernel!SYSC_NEW_THREAD, SYSC_SLEEP, Kernel!SYSC_SLEEP, SYSC_GETCHAR,
      Kernel!SYSC_GETCHAR, SYSC_FORK, Kernel!SYSC_FORK
<1>11. Touche => Kernel!Touche
  BY
  DEF Touche, Kernel!Touche, Running, Kernel!Running, counters, Kernel!counters
<1>12. Fini => Kernel!Fini
  BY
  DEF Fini, Kernel!Fini, noyau, Kernel!noyau, counters, Kernel!counters
<1>13. NoyauInit => Kernel!NoyauInit
  BY
  DEF NoyauInit, Kernel!NoyauInit, ZeroPSW, Kernel!ZeroPSW, INT_INIT,
      Kernel!INT_INIT, EMPTY, Kernel!EMPTY, Slots, Kernel!Slots, Addresses,
      Kernel!Addresses, Decode, Kernel!Decode
<1>14. ASSUME NEW i \in Slots, Reveille(i)
      PROVE  i \in Kernel!Slots /\ Kernel!Reveille(i)
  BY <1>14
  DEF Reveille, Kernel!Reveille, Running, Kernel!Running, Slots, Kernel!Slots,
      SLEEP, Kernel!SLEEP, counters, Kernel!counters
<1>15. UNCHANGED noyau => UNCHANGED Kernel!noyau
  BY
  DEF noyau, Kernel!noyau, counters, Kernel!counters
<1> QED
  BY <1>2, <1>3, <1>4, <1>5, <1>6, <1>7, <1>8, <1>9, <1>10, <1>11, <1>12, <1>13, <1>14, <1>15
  DEF systeme, Kernel!systeme, system_SYSC, Kernel!system_SYSC

(* SInv is inductive, and with it every step is one of the kernel.         *)
LEMMA SimulStep == SInv /\ [Next]_vars => SInv' /\ [Kernel!Next]_(Kernel!noyau)
<1> SUFFICES ASSUME SInv, [Next]_vars PROVE SInv' /\ [Kernel!Next]_(Kernel!noyau)
  OBVIOUS
<1>1. CASE Demarrage
  <2>1. systeme_init(Image(program)) /\ program \in Programs
    BY <1>1 DEF Demarrage, SInv
  <2>2. mem' = Image(program)
    BY <2>1 DEF systeme_init
  <2>3. mem' \in [Addresses -> Word] /\ systeme_init(mem')
    BY <2>1, <2>2, ImageTyped
  <2>4. Kernel!Demarrage
    BY <2>3
    DEF Kernel!Demarrage, systeme_init, Kernel!systeme_init, BootBase, Kernel!BootBase,
        Count, Kernel!Count, Slots, Kernel!Slots, Addresses, Kernel!Addresses,
        READY, Kernel!READY, EMPTY, Kernel!EMPTY, INT_INIT, Kernel!INT_INIT
  <2> QED
    BY <1>1, <2>4, BootSInv DEF Kernel!Next
<1>2. CASE systeme /\ UNCHANGED <<program, tick>>
  BY <1>2, SystemeSInv, KernelActions DEF Kernel!Next
<1>3. CASE cpu
  <2>1. CASE ADD \/ SUB \/ CMP \/ JUMP \/ IFGT \/ NOP
             \/ (LOAD /\ mode' = "cpu") \/ (STORE /\ mode' = "cpu")
    BY <2>1, InstructionMaps DEF Kernel!Next
  <2>2. CASE HorsSegment \/ HALT \/ SYSC \/ Inconnue \/ FinDeTranche
             \/ (LOAD /\ mode' # "cpu") \/ (STORE /\ mode' # "cpu")
    BY <2>2, InterruptMaps DEF Kernel!Next
  <2>3. \/ HorsSegment \/ ADD \/ SUB \/ CMP \/ JUMP \/ IFGT \/ NOP \/ HALT
        \/ SYSC \/ LOAD \/ STORE \/ Inconnue \/ FinDeTranche
    BY <1>3 DEF cpu
  <2> QED
    BY <2>1, <2>2, <2>3
<1>4. ASSUME program' = program, UNCHANGED <<m, mode, current_process, mem>>,
             \A i \in Slots : process'[i].cpu = process[i].cpu,
             IInv'
      PROVE  SInv'
  <2>1. NoStaleFault'
    BY <1>4 DEF SInv, NoStaleFault
  <2>2. IdleCode' /\ IdleInside'
    BY <1>4, SlotsFinite DEF SInv, IdleCode, IdleInside, Context, Booted
  <2> QED
    BY <1>4, <2>1, <2>2 DEF SInv
<1>5. ASSUME NEW i \in Slots, Temps(i)
      PROVE  SInv' /\ Kernel!Next
  <2>1. Reveille(i) /\ program' = program
    BY <1>5 DEF Temps
  <2>2. process \in [Slots -> ProcessEntry]
    BY DEF SInv, IInv, TypeOK
  <2>3. \A j \in Slots : process'[j].cpu = process[j].cpu
    BY <2>1, <2>2 DEF Reveille, ProcessEntry
  <2>4. IInv'
    BY <2>1, TimeInv DEF SInv
  <2> QED
    BY <1>4, <2>1, <2>3, <2>4, KernelActions DEF Reveille, Kernel!Next
<1>6. CASE Frappe
  <2>1. Touche /\ program' = program
    BY <1>6 DEF Frappe
  <2>2. IInv'
    BY <2>1, TimeInv DEF SInv
  <2> QED
    BY <1>4, <2>1, <2>2, KernelActions DEF Touche, Kernel!Next
<1>7. ASSUME UNCHANGED <<noyau, program>>
      PROVE  SInv' /\ UNCHANGED Kernel!noyau
  <2>1. IInv'
    BY <1>7, StutterInv DEF SInv
  <2> QED
    BY <1>4, <1>7, <2>1, KernelActions DEF noyau
<1>8. CASE Fini /\ UNCHANGED <<program, tick>>
  BY <1>7, <1>8 DEF Fini
<1>9. CASE UNCHANGED vars
  BY <1>7, <1>9 DEF vars
<1> QED
  BY <1>1, <1>2, <1>3, <1>5, <1>6, <1>8, <1>9 DEF Next, main

(* SInv holds in every state. *)
LEMMA SimulInvariant == Spec => []SInv
<1>1. SInv /\ [Next]_vars => SInv'
  BY SimulStep
<1> QED
  BY <1>1, InitSInv, PTL DEF Spec

(* The simulator of simul.c, cpu.c and systeme.c, whatever program it      *)
(* loads, does nothing that the kernel under arbitrary programs does not:  *)
(* the processor confines a program to its segment and to its registers.   *)
THEOREM KernelRefined == Spec => KernelSpec
<1>1. Init => Kernel!NoyauInit
  BY KernelActions DEF Init
<1>2. SInv /\ [Next]_vars => [Kernel!Next]_(Kernel!noyau)
  BY SimulStep
<1> QED
  BY <1>1, <1>2, SimulInvariant, PTL DEF Spec, KernelSpec, Kernel!Spec

(* What the kernel promises of its counters, its scheduler, its keyboard   *)
(* buffer and its segments holds of the simulator.                         *)
THEOREM SimulSafe ==
  Spec => [](TypeOK /\ CountersAgree /\ NoWaiterWhileBuffered
             /\ SchedulerNeverSpins /\ IdleSegmentPrivate)
<1>1. SInv => TypeOK /\ CountersAgree /\ NoWaiterWhileBuffered
              /\ SchedulerNeverSpins /\ IdleSegmentPrivate
  BY DEF SInv, IInv
<1> QED
  BY <1>1, SimulInvariant, PTL

-----------------------------------------------------------------------------
(* An instruction is read back as it was written. *)
LEMMA DecodeEncode == ASSUME NEW inst \in INST PROVE Decode(Encode(inst)) = inst
<1>1. /\ inst.OP \in 0 .. MaxOp /\ inst.i \in 0 .. 7 /\ inst.j \in 0 .. 7
      /\ inst.ARG \in -MaxArg - 1 .. MaxArg
      /\ inst = [OP |-> inst.OP, i |-> inst.i, j |-> inst.j, ARG |-> inst.ARG]
  BY MachineAssumption DEF INST
<1>2. /\ inst.OP \in Int /\ 0 <= inst.OP /\ inst.OP <= 1023
      /\ inst.i \in Int /\ 0 <= inst.i /\ inst.i <= 7
      /\ inst.j \in Int /\ 0 <= inst.j /\ inst.j <= 7 /\ inst.ARG \in Int
  <2>1. MaxOp = 1023 /\ MaxArg = 32767
    BY SMT DEF MaxOp, MaxArg
  <2>2. inst.OP \in 0 .. 1023
    <3>1. inst.OP \in 0 .. MaxOp
      BY <1>1, Zenon
    <3> QED
      BY <2>1, <3>1, SMT
  <2>3. MaxArg \in Int /\ -MaxArg - 1 \in Int
    BY <2>1, SMT
  <2>4. inst.ARG \in Int
    <3> HIDE DEF MaxArg
    <3> QED
      BY <1>1, <2>3, SMT
  <2> QED
    BY <1>1, <2>2, <2>4, SMT
<1> DEFINE o == inst.OP
           i == inst.i
           j == inst.j
           a == inst.ARG
           w == Encode(inst)
<1>3. w = o + 1024 * i + 8192 * j + 65536 * a
  BY SMT DEF Encode
<1>4. Decode(w) = [OP |-> w % 1024, i |-> (w \div 1024) % 8, j |-> (w \div 8192) % 8,
                   ARG |-> w \div 65536]
  BY SMT DEF Decode
<1> HIDE DEF o, i, j, a, w
<1>5. w % 1024 = o /\ (w \div 1024) % 8 = i /\ (w \div 8192) % 8 = j /\ w \div 65536 = a
  <2> /\ o \in Int /\ 0 <= o /\ o <= 1023 /\ i \in Int /\ 0 <= i /\ i <= 7
      /\ j \in Int /\ 0 <= j /\ j <= 7 /\ a \in Int
    BY <1>2, SMT DEF o, i, j, a
  <2>1. w % 1024 = o
    BY <1>3, SMT
  <2>2. w \div 1024 = i + 8 * j + 64 * a
    BY <1>3, SMT
  <2>3. w \div 8192 = j + 8 * a
    BY <1>3, SMT
  <2>4. w \div 65536 = a
    BY <1>3, SMT
  <2> QED
    BY <2>1, <2>2, <2>3, <2>4, SMT
<1> QED
  BY <1>1, <1>4, <1>5, SMT DEF o, i, j, a, w

(* The code of p is at base. *)
Holds(memory, base, p) == \A k \in 1 .. Len(p) : Decode(memory[base + k - 1]) = p[k]

(* systeme_init puts it in the segment of slot 1. *)
LEMMA ImageHolds ==
  ASSUME NEW p \in Programs
  PROVE  Holds(Image(p), SEGMENT_SIZE, p)
<1>1. Len(idle) = 5
  BY DEF idle
<1>2. /\ p \in Seq(INST) /\ Len(p) \in Nat /\ Len(p) <= SEGMENT_SIZE
      /\ SEGMENT_SIZE \in Nat /\ SEGMENT_SIZE >= 5
  BY SimulAssumption, SegmentHoldsIdle
<1>3. SEGMENT_SIZE \in 0 .. MEM_SIZE - SEGMENT_SIZE /\ MEM_SIZE \in Nat
  BY Sizes, SlotsFinite, MachineAssumption
<1>4. ASSUME NEW k \in 1 .. Len(p) PROVE Decode(Image(p)[SEGMENT_SIZE + k - 1]) = p[k]
  <2> DEFINE a == SEGMENT_SIZE + k - 1
  <2>1. a \in Addresses /\ a \notin 0 .. 4 /\ a - SEGMENT_SIZE = k - 1 /\ k - 1 \in 0 .. Len(p) - 1
    BY <1>2, <1>3 DEF Addresses
  <2> HIDE DEF a
  <2>2. Image(p)[a] = Encode(p[a - SEGMENT_SIZE + 1])
    BY <1>1, <2>1 DEF Image, first_pc
  <2>3. a - SEGMENT_SIZE + 1 = k /\ p[k] \in INST
    BY <1>2, <2>1
  <2> QED
    BY <2>2, <2>3, DecodeEncode DEF a
<1> QED
  BY <1>4 DEF Holds

(* An iteration of the loop of cpu() is the end of the slice, a fetch      *)
(* outside the segment, or what the instruction at PC says.                *)
Executes(inst) ==
  /\ Fetched.RI = inst
  /\ \/ inst.OP = INST_ADD /\ Continue(cpu_ADD(Fetched), mem)
     \/ inst.OP = INST_SUB /\ Continue(cpu_SUB(Fetched), mem)
     \/ inst.OP = INST_CMP /\ Continue(cpu_CMP(Fetched), mem)
     \/ inst.OP = INST_JUMP /\ Continue(cpu_JUMP(Fetched), mem)
     \/ inst.OP = INST_IFGT /\ Continue(cpu_IFGT(Fetched), mem)
     \/ inst.OP = INST_NOP /\ Continue(cpu_NOP(Fetched), mem)
     \/ inst.OP = INST_HALT /\ Interrupt(cpu_HALT(Fetched))
     \/ inst.OP = INST_SYSC /\ Interrupt(cpu_SYSC(Fetched))
     \/ inst.OP = INST_LOAD /\ LOAD
     \/ inst.OP = INST_STORE /\ STORE
     \/ inst.OP \notin KnownOps

(* An iteration inside the segment ends the slice or executes the instruction. *)
LEMMA CpuExecutes ==
  ASSUME m \in PSW, cpu, NEW inst, inst = Decode(mem[m.PC + m.SB]), InSegment(m, m.PC)
  PROVE  \/ tick = CPU_CLOCK /\ Interrupt([m EXCEPT !.INT = INT_CLOCK])
         \/ tick < CPU_CLOCK /\ Executes(inst)
<1>1. Fetched.RI = inst
  BY DEF Fetched, PSW
<1> QED
  BY <1>1 DEF cpu, HorsSegment, ADD, SUB, CMP, JUMP, IFGT, NOP, HALT, SYSC, LOAD, STORE,
              Inconnue, FinDeTranche, Fetch, InLoop, Executes

(* The slot after slot 1 comes first when slot 1 is left. *)
LEMMA NextSlot ==
  ASSUME current_process = 1, 2 \in Slots, NEW next \in Slots, next # 2
  PROVE  2 \in Before(next)
<1>1. MAX_PROCESS \in Nat /\ MAX_PROCESS >= 3 /\ next \in 0 .. MAX_PROCESS - 1
  BY MachineAssumption DEF Slots
<1>2. (1 + 1) % MAX_PROCESS = 2
  BY <1>1, SMT
<1>3. (next - 1 - 1) % MAX_PROCESS >= 1 /\ (next - 1 - 1) % MAX_PROCESS \in Nat
  <2>1. CASE next > 2
    BY <1>1, <2>1, SMT
  <2>2. CASE next < 2
    BY <1>1, <2>2, SMT
  <2> QED
    BY <1>1, <2>1, <2>2
<1> QED
  BY <1>2, <1>3 DEF Before

(* What ordonnanceur() leaves: the saved context, every state as it was    *)
(* but for sleepers that are woken, and a ready process that runs.         *)
LEMMA Elects ==
  ASSUME NEW psw \in PSW, NEW table \in [Slots -> ProcessEntry], NEW alive, NEW sleeping,
         current_process \in Slots, ordonnanceur(psw, table, alive, sleeping)
  PROVE  /\ current_process' \in Slots /\ mode' = "cpu"
         /\ m' = process'[current_process'].cpu /\ process'[current_process'].state = READY
         /\ \A i \in Slots :
              /\ process'[i].cpu = IF i = current_process THEN psw ELSE table[i].cpu
              /\ \/ process'[i].state = table[i].state
                 \/ table[i].state = SLEEP /\ process'[i].state = READY
         /\ current_process = 1 /\ 2 \in Slots /\ table[2].state = READY => current_process' = 2
<1>1. /\ current_process' \in Slots /\ m' = process'[current_process'].cpu
      /\ \A i \in Slots : process'[i].cpu = IF i = current_process THEN psw ELSE table[i].cpu
  BY Saves
<1>2. /\ process' = [reveil(table, sleeping) EXCEPT ![current_process].cpu = psw]
      /\ mode' = "cpu"
  BY DEF ordonnanceur
<1>3. PICK next \in Slots :
        /\ process'[next].state = READY
        /\ \A i \in Before(next) : process'[i].state # READY
        /\ current_process' = next
  BY DEF ordonnanceur
<1>4. ASSUME NEW i \in Slots
      PROVE  \/ process'[i].state = table[i].state
             \/ table[i].state = SLEEP /\ process'[i].state = READY
  <2> DEFINE R == reveil(table, sleeping)
  <2>1. R[i] = IF i \in Wakeable(table, sleeping)
               THEN [table[i] EXCEPT !.state = READY, !.due = FALSE] ELSE table[i]
    BY DEF reveil
  <2>2. process'[i].state = R[i].state
    <3>1. DOMAIN R = Slots
      BY DEF reveil
    <3> HIDE DEF R
    <3> QED
      BY <1>2, <3>1 DEF R
  <2>3. i \in Wakeable(table, sleeping) => table[i].state = SLEEP
    BY DEF Wakeable
  <2>4. table[i] \in ProcessEntry
    OBVIOUS
  <2> HIDE DEF R
  <2>5. CASE i \in Wakeable(table, sleeping)
    <3>1. R[i].state = READY
      BY <2>1, <2>4, <2>5 DEF ProcessEntry
    <3> QED
      BY <2>2, <2>3, <2>5, <3>1
  <2>6. CASE i \notin Wakeable(table, sleeping)
    BY <2>1, <2>2, <2>6
  <2> QED
    BY <2>5, <2>6
<1>5. ASSUME current_process = 1, 2 \in Slots, table[2].state = READY
      PROVE  current_process' = 2
  <2>1. process'[2].state = READY
    BY <1>4, <1>5
  <2>2. next # 2 => 2 \in Before(next)
    BY <1>5, NextSlot
  <2> QED
    BY <1>3, <2>1, <2>2
<1> QED
  BY <1>1, <1>2, <1>3, <1>4, <1>5

(* What is seen of an instruction of the test programs that neither loads  *)
(* nor stores.                                                             *)
Effects(inst) ==
  /\ UNCHANGED <<process, current_process, nbr_process, mem>> /\ m'.SB = m.SB
  /\ inst.OP = INST_SYSC =>
       m'.PC = m.PC + 1 /\ m'.INT = INT_SYSC /\ m'.RI = inst /\ mode' = "systeme" /\ tick' = 0
  /\ inst.OP = INST_HALT => m'.PC = m.PC /\ m'.INT = INT_HALT /\ mode' = "systeme" /\ tick' = 0
  /\ inst.OP \notin {INST_SYSC, INST_HALT} => mode' = mode /\ tick' = tick + 1
  /\ inst.OP \in {INST_SUB, INST_NOP} => m'.PC = m.PC + 1
  /\ inst.OP = INST_IFGT => m'.PC = IF m.AC > 0 THEN inst.ARG ELSE m.PC + 1
  /\ inst.OP = INST_JUMP => m'.PC = inst.ARG
  /\ inst.OP # INST_SUB => m'.DR = m.DR
  /\ inst.OP = INST_SUB =>
       m'.DR = [m.DR EXCEPT ![inst.i] = Wrap(m.DR[inst.i] - Wrap(m.DR[inst.j] + inst.ARG))]

(* Those instructions have these effects. *)
LEMMA ExecutedEffects ==
  ASSUME m \in PSW, NEW inst, Executes(inst),
         inst.OP \in {INST_SUB, INST_IFGT, INST_NOP, INST_JUMP, INST_HALT, INST_SYSC}
  PROVE  Effects(inst)
<1> USE DEF INST_ADD, INST_SUB, INST_CMP, INST_IFGT, INST_NOP, INST_JUMP, INST_HALT, INST_SYSC,
            INST_LOAD, INST_STORE
<1> DEFINE f == Fetched
<1>1. f \in [PC : Word, SB : Word, SS : Word, INT : 0 .. 7, DR : [Registers -> Word], AC : Word,
             RI : {inst}]
      /\ f.PC = m.PC /\ f.SB = m.SB /\ f.AC = m.AC /\ f.DR = m.DR /\ f.RI = inst
  <2>1. f.RI = inst
    BY DEF Executes
  <2> QED
    BY <2>1 DEF Fetched, PSW
<1> HIDE DEF f
<1>2. CASE inst.OP = INST_SYSC
  <2>1. Interrupt(cpu_SYSC(f))
    BY <1>2 DEF Executes, KnownOps, f
  <2> QED
    BY <1>1, <1>2, <2>1 DEF Interrupt, cpu_SYSC, counters, Effects
<1>3. CASE inst.OP = INST_HALT
  <2>1. Interrupt(cpu_HALT(f))
    BY <1>3 DEF Executes, KnownOps, f
  <2> QED
    BY <1>1, <1>3, <2>1 DEF Interrupt, cpu_HALT, counters, Effects
<1>4. CASE inst.OP = INST_NOP
  <2>1. Continue(cpu_NOP(f), mem)
    BY <1>4 DEF Executes, KnownOps, f
  <2> QED
    BY <1>1, <1>4, <2>1 DEF Continue, cpu_NOP, counters, Effects
<1>5. CASE inst.OP = INST_JUMP
  <2>1. Continue(cpu_JUMP(f), mem)
    BY <1>5 DEF Executes, KnownOps, f
  <2> QED
    BY <1>1, <1>5, <2>1 DEF Continue, cpu_JUMP, counters, Effects
<1>6. CASE inst.OP = INST_IFGT
  <2>1. Continue(cpu_IFGT(f), mem)
    BY <1>6 DEF Executes, KnownOps, f
  <2> QED
    BY <1>1, <1>6, <2>1 DEF Continue, cpu_IFGT, counters, Effects
<1>7. CASE inst.OP = INST_SUB
  <2>1. Continue(cpu_SUB(f), mem)
    BY <1>7 DEF Executes, KnownOps, f
  <2> QED
    BY <1>1, <1>7, <2>1 DEF Continue, cpu_SUB, Assign, Operand, counters, Effects
<1> QED
  BY <1>2, <1>3, <1>4, <1>5, <1>6, <1>7

(* A step that leaves the processor and the contexts as they are. *)
Quiet ==
  /\ UNCHANGED <<m, current_process, mem, tick, nbr_process>>
  /\ \A i \in Slots : process'[i].cpu = process[i].cpu /\ process'[i].state = process[i].state
  /\ \/ mode' = mode
     \/ mode = "switch" /\ mode' = "arret" /\ m.INT # INT_SYSC
     \/ mode = "systeme" /\ mode' = "switch"

(* Time goes by, keys are struck, and nobody waits for them. *)
LEMMA QuietSteps ==
  ASSUME SInv, Booted, InState(GETCHAR) = {}, tick' = tick,
         Clavier \/ Arret \/ (\E i \in Slots : Reveille(i)) \/ Touche \/ UNCHANGED noyau
  PROVE  Quiet
<1>1. process \in [Slots -> ProcessEntry]
  BY DEF SInv, IInv, TypeOK
<1>2. CASE Clavier
  <2>1. process' = process
    BY <1>2 DEF Clavier, frappe_clavier, Lowest
  <2> QED
    BY <1>2, <2>1 DEF Clavier, Quiet
<1>3. CASE Arret
  BY <1>3 DEF Arret, Quiet, counters, INT_SYSC, INT_SEGV, INT_INST, INT_HALT
<1>4. ASSUME NEW i \in Slots, Reveille(i) PROVE Quiet
  <2>1. process' = [process EXCEPT ![i].due = TRUE]
    BY <1>4 DEF Reveille
  <2>2. \A j \in Slots : process'[j].cpu = process[j].cpu /\ process'[j].state = process[j].state
    BY <1>1, <2>1 DEF ProcessEntry
  <2> QED
    BY <1>4, <2>2 DEF Reveille, Quiet, counters
<1>5. CASE Touche
  BY <1>5 DEF Touche, Quiet, counters
<1>6. CASE UNCHANGED noyau
  BY <1>6 DEF noyau, Quiet, counters
<1> QED
  BY <1>2, <1>3, <1>4, <1>5, <1>6

(* The end of a slice. *)
Tick ==
  /\ tick = CPU_CLOCK /\ m' = [m EXCEPT !.INT = INT_CLOCK] /\ mode' = "systeme" /\ tick' = 0
  /\ UNCHANGED <<process, current_process, nbr_process, mem>>

(* A process whose PC is in a program that its segment holds. *)
LEMMA Fetches ==
  ASSUME SInv, mode = "cpu", cpu, NEW p \in Programs, Holds(mem, m.SB, p), m.PC \in 0 .. Len(p) - 1
  PROVE  Tick \/ (tick < CPU_CLOCK /\ Executes(p[m.PC + 1]))
<1>1. m \in PSW /\ m.SS = SEGMENT_SIZE /\ m.SB \in 0 .. MEM_SIZE - SEGMENT_SIZE
  BY AtCpu
<1>2. Len(p) \in Nat /\ Len(p) <= SEGMENT_SIZE /\ SEGMENT_SIZE \in Nat /\ MEM_SIZE \in Nat
  BY SimulAssumption, MachineAssumption
<1>3. InSegment(m, m.PC)
  BY <1>1, <1>2 DEF InSegment
<1>4. m.PC + 1 \in 1 .. Len(p) /\ m.SB + (m.PC + 1) - 1 = m.PC + m.SB
  BY <1>1, <1>2
<1>5. p[m.PC + 1] = Decode(mem[m.PC + m.SB])
  BY <1>4 DEF Holds
<1> QED
  BY <1>1, <1>3, <1>5, CpuExecutes DEF Tick, Interrupt, counters

(* Idle changes nothing but its own context. *)
LEMMA IdleRuns ==
  ASSUME SInv, mode = "cpu", cpu, current_process = 0
  PROVE  /\ UNCHANGED <<process, current_process, nbr_process, mem>>
         /\ mode' \in {"cpu", "systeme"} /\ (mode' = "systeme" => tick' = 0)
<1>1. /\ m \in PSW /\ m.PC \in 0 .. 4 /\ m.SS = SEGMENT_SIZE
      /\ SEGMENT_SIZE \in Nat /\ SEGMENT_SIZE >= 5
  BY AtCpu, SegmentHoldsIdle
<1>2. InSegment(m, m.PC)
  BY <1>1 DEF InSegment
<1> DEFINE inst == Decode(mem[m.PC + m.SB])
<1>3. Fetched.RI.OP \in {INST_NOP, INST_JUMP}
  BY <1>1, <1>2, AtFetch
<1> HIDE DEF inst
<1>4. CASE Executes(inst)
  <2>1. inst.OP \in {INST_NOP, INST_JUMP}
    BY <1>3, <1>4 DEF Executes
  <2>2. Effects(inst)
    BY <1>1, <1>4, <2>1, ExecutedEffects
  <2> QED
    BY <2>1, <2>2 DEF Effects, INST_NOP, INST_JUMP, INST_SYSC, INST_HALT
<1>5. CASE Interrupt([m EXCEPT !.INT = INT_CLOCK])
  BY <1>5 DEF Interrupt, counters
<1> QED
  BY <1>1, <1>2, <1>4, <1>5, CpuExecutes DEF inst

-----------------------------------------------------------------------------
(* The test of fork: its instructions, *)
F == make_inst_test_fork

(* as make_inst_test_fork writes them, *)
LEMMA ForkCode ==
  /\ Len(F) = 10
  /\ F[1].OP = INST_SYSC /\ F[1].ARG = SYSC_FORK
  /\ F[2].OP = INST_IFGT /\ F[2].ARG = 6
  /\ F[3].OP = INST_SYSC /\ F[3].ARG = SYSC_PUTI
  /\ F[4].OP = INST_NOP
  /\ F[5].OP = INST_SYSC /\ F[5].ARG = SYSC_PUTI
  /\ F[6].OP = INST_SYSC /\ F[6].ARG = SYSC_EXIT
  /\ F[7].OP = INST_SUB
  /\ F[8].OP = INST_SYSC /\ F[8].ARG = SYSC_SLEEP
  /\ F[9].OP = INST_SUB
  /\ F[10].OP = INST_JUMP /\ F[10].ARG = 0
BY DEF F, make_inst_test_fork, Sysc3, Make, Nop

(* and what is known of its processes.  The child is elected by the fork   *)
(* that makes it, and runs to its end: it traps before its slice is over   *)
(* each time.  So the parent never runs while there is a child.            *)
InTrap == mode \in {"systeme", "switch"}
Asks(i) == current_process = i /\ InTrap /\ m.INT = INT_SYSC

ParentForks ==
  /\ Context(1).SB = SEGMENT_SIZE
  /\ Context(1).PC \in {0, 1, 6, 7, 8, 9}
  /\ Context(1).PC = 1 => Context(1).AC > 0 \/ Asks(1)
  /\ Asks(1) => (m.PC = 1 /\ m.RI = F[1]) \/ (m.PC = 8 /\ m.RI = F[8])

ChildPrints ==
  /\ m.SB = 2 * SEGMENT_SIZE /\ Holds(mem, 2 * SEGMENT_SIZE, F)
  /\ mode = "cpu" => \/ tick = 0 /\ m.PC \in {1, 3, 5} /\ (m.PC = 1 => m.AC = 0)
                     \/ tick = 1 /\ m.PC \in {2, 4}
  /\ InTrap => m.INT = INT_SYSC /\ m.PC \in {3, 5, 6} /\ m.RI = F[m.PC]

Forks ==
  /\ Holds(mem, SEGMENT_SIZE, F)
  /\ process[1].state \in {READY, SLEEP}
  /\ process[2].state = IF current_process = 2 THEN READY ELSE EMPTY
  /\ \A i \in Slots : i > 2 => process[i].state = EMPTY
  /\ nbr_process = IF current_process = 2 THEN 3 ELSE 2
  /\ mode # "cpu" => tick = 0
  /\ ParentForks
  /\ current_process = 2 => ChildPrints

OneChild == program = F => IF Booted THEN Forks ELSE nbr_process = 0 /\ tick = 0

(* What SInv says that both test programs use. *)
LEMMA BootedFacts ==
  ASSUME SInv, Booted
  PROVE  /\ process \in [Slots -> ProcessEntry] /\ m \in PSW /\ mem \in [Addresses -> Word]
         /\ current_process \in Slots /\ process[0].state = READY
         /\ process[current_process].state = READY
         /\ mode \in {"systeme", "switch", "cpu", "arret", "wild"}
         /\ InTrap /\ current_process = 0 => m.INT = INT_CLOCK
BY DEF SInv, IInv, TypeOK, Booted, SchedulerNeverSpins, TrapState, InTrap

(* Nobody waits for the keyboard, and the third slot has but the child. *)
LEMMA ForksFacts ==
  ASSUME MAX_PROCESS >= 3, SInv, Booted, Forks
  PROVE  /\ current_process \in {0, 1, 2} /\ InState(GETCHAR) = {}
         /\ 0 \in Slots /\ 1 \in Slots /\ 2 \in Slots
<1>1. \A i \in Slots : i \in {0, 1, 2} \/ i > 2
  BY MachineAssumption DEF Slots
<1>2. 0 \in Slots /\ 1 \in Slots /\ 2 \in Slots
  BY MachineAssumption DEF Slots
<1>3. \A i \in Slots : process[i].state # GETCHAR
  BY <1>1, BootedFacts DEF Forks, READY, SLEEP, EMPTY, GETCHAR
<1>4. current_process \in {0, 1, 2}
  BY <1>1, BootedFacts DEF Forks, READY, EMPTY
<1> QED
  BY <1>2, <1>3, <1>4 DEF InState

(* Time and keys change nothing of it. *)
LEMMA ForksQuiet == ASSUME MAX_PROCESS >= 3, SInv, Booted, Forks, Quiet PROVE Forks'
<1>1. 1 \in Slots /\ 2 \in Slots
  BY ForksFacts
<1>2. Context(1)' = Context(1) /\ m' = m /\ current_process' = current_process
  BY <1>1 DEF Context, Quiet
<1>3. (Asks(1)' <=> Asks(1)) /\ (InTrap' => InTrap) /\ (mode' = "cpu" <=> mode = "cpu")
  BY <1>2 DEF Asks, InTrap, Quiet
<1>4. ParentForks'
  BY <1>2, <1>3 DEF Forks, ParentForks
<1>5. current_process' = 2 => ChildPrints'
  BY <1>2, <1>3 DEF Forks, ChildPrints, Quiet, Holds
<1>6. Holds(mem, SEGMENT_SIZE, F)'
  BY DEF Forks, Quiet, Holds
<1> QED
  BY <1>1, <1>3, <1>4, <1>5, <1>6 DEF Forks, Quiet

(* The election of idle or of the parent. *)
LEMMA ForksElects ==
  ASSUME MAX_PROCESS >= 3, SInv, Booted, Forks, mem' = mem, nbr_process' = 2,
         NEW psw \in PSW, NEW table \in [Slots -> ProcessEntry], NEW alive, NEW sleeping,
         ordonnanceur(psw, table, alive, sleeping),
         table[1].state \in {READY, SLEEP}, table[2].state = EMPTY,
         \A i \in Slots : i > 2 => table[i].state = EMPTY,
         NEW p, p = IF current_process = 1 THEN psw ELSE table[1].cpu,
         p.SB = SEGMENT_SIZE, p.PC \in {0, 1, 6, 7, 8, 9}, p.PC = 1 => p.AC > 0
  PROVE  Forks'
<1>1. 1 \in Slots /\ 2 \in Slots /\ current_process \in Slots
  BY ForksFacts, BootedFacts
<1>2. /\ current_process' \in Slots /\ mode' = "cpu"
      /\ m' = process'[current_process'].cpu /\ process'[current_process'].state = READY
      /\ \A i \in Slots :
           /\ process'[i].cpu = IF i = current_process THEN psw ELSE table[i].cpu
           /\ \/ process'[i].state = table[i].state
              \/ table[i].state = SLEEP /\ process'[i].state = READY
  BY <1>1, Elects
<1>3. /\ process'[1].state \in {READY, SLEEP} /\ process'[2].state = EMPTY
      /\ \A i \in Slots : i > 2 => process'[i].state = EMPTY
  BY <1>1, <1>2 DEF READY, SLEEP, EMPTY
<1>4. current_process' # 2
  BY <1>2, <1>3 DEF READY, EMPTY
<1>5. Context(1)' = p
  BY <1>1, <1>2 DEF Context
<1>6. ~Asks(1)'
  BY <1>2 DEF Asks, InTrap
<1>7. ParentForks'
  BY <1>5, <1>6 DEF ParentForks
<1>8. Holds(mem, SEGMENT_SIZE, F)'
  BY DEF Forks, Holds
<1> QED
  BY <1>2, <1>3, <1>4, <1>7, <1>8 DEF Forks

(* What a fork of slot 1 copies to slot 2. *)
LEMMA CopyHolds ==
  ASSUME SInv, mode = "switch", NEW p, Len(p) \in 0 .. SEGMENT_SIZE, m.SB = SEGMENT_SIZE,
         2 \in Slots, Holds(mem, SEGMENT_SIZE, p)
  PROVE  /\ Holds(Copied(2 * SEGMENT_SIZE), SEGMENT_SIZE, p)
         /\ Holds(Copied(2 * SEGMENT_SIZE), 2 * SEGMENT_SIZE, p)
<1> DEFINE S == SEGMENT_SIZE
           base == 2 * S
<1>1. S \in Nat /\ MEM_SIZE \in Nat /\ base + S <= MEM_SIZE /\ m.SS = S /\ Len(p) <= S
      /\ Len(p) \in Nat
  <2>1. base \in 0 .. MEM_SIZE - S
    BY Sizes
  <2>2. S \in Nat /\ MEM_SIZE \in Nat
    BY MachineAssumption
  <2>3. m.SS = S
    BY AtSwitch DEF SInv, HasSegment
  <2>4. Len(p) \in Nat /\ Len(p) <= S
    BY <2>2
  <2> QED
    BY <2>1, <2>2, <2>3, <2>4
<1>2. ASSUME NEW a \in Addresses
      PROVE  Copied(base)[a] = IF a \in base .. base + m.SS - 1 THEN mem[a - base + m.SB] ELSE mem[a]
  BY DEF Copied
<1> HIDE DEF S, base
<1>3. base = S + S /\ m.SB = S
  BY <1>1 DEF base, S
<1>4. ASSUME NEW k \in 1 .. Len(p) PROVE Copied(base)[S + k - 1] = mem[S + k - 1]
  <2>1. S + k - 1 \in Addresses /\ S + k - 1 \notin base .. base + m.SS - 1
    BY <1>1, <1>3 DEF Addresses
  <2> QED
    BY <1>2, <2>1
<1>5. ASSUME NEW k \in 1 .. Len(p) PROVE Copied(base)[base + k - 1] = mem[S + k - 1]
  <2> DEFINE a == base + k - 1
  <2>1. a \in Addresses /\ a \in base .. base + m.SS - 1 /\ a - base + m.SB = S + k - 1
    BY <1>1, <1>3 DEF Addresses
  <2> HIDE DEF a
  <2>2. Copied(base)[a] = mem[S + k - 1]
    BY <1>2, <2>1
  <2> QED
    BY <2>2 DEF a
<1> QED
  BY <1>4, <1>5 DEF Holds, base, S

(* The fork makes the child in slot 2, which runs next. *)
LEMMA ForksForks ==
  ASSUME MAX_PROCESS >= 3, SInv, Booted, F \in Programs, Forks, my_fork, tick' = tick
  PROVE  Forks'
<1>1. mode = "switch" /\ m.INT = INT_SYSC /\ m.RI.ARG = SYSC_FORK
  BY DEF my_fork, Sysc
<1>2. /\ current_process \in {0, 1, 2} /\ 0 \in Slots /\ 1 \in Slots /\ 2 \in Slots
      /\ process \in [Slots -> ProcessEntry] /\ m \in PSW
  BY ForksFacts, BootedFacts
<1>3. current_process = 1 /\ m.PC = 1 /\ Context(1) = m /\ m.SB = SEGMENT_SIZE
  <2>1. InTrap
    BY <1>1 DEF InTrap
  <2>2. current_process # 0
    BY <1>1, <2>1, BootedFacts DEF INT_CLOCK, INT_SYSC
  <2>3. current_process # 2
    BY <1>1, <2>1, ForkCode DEF Forks, ChildPrints, SYSC_FORK, SYSC_PUTI, SYSC_EXIT
  <2>4. current_process = 1
    BY <1>2, <2>2, <2>3
  <2>5. Asks(1)
    BY <1>1, <2>1, <2>4 DEF Asks
  <2>6. m.PC = 1
    BY <1>1, <2>5, ForkCode DEF Forks, ParentForks, SYSC_FORK, SYSC_SLEEP
  <2> QED
    BY <2>4, <2>6 DEF Context, Forks, ParentForks
<1>4. /\ nbr_process = 2 /\ process[2].state = EMPTY /\ process[1].state = READY
      /\ process[0].state = READY
  BY <1>3, BootedFacts DEF Forks
<1>5. ~Full /\ 2 \in InState(EMPTY) /\ 0 \notin InState(EMPTY) /\ 1 \notin InState(EMPTY)
  BY <1>2, <1>4, MachineAssumption DEF Full, InState, EMPTY, READY
<1>6. ASSUME NEW index \in Slots, Lowest(index, InState(EMPTY)) PROVE index = 2
  <2>1. index <= 2 /\ index # 0 /\ index # 1
    BY <1>5, <1>6 DEF Lowest
  <2> QED
    BY <2>1, MachineAssumption DEF Slots
<1> DEFINE base == 2 * SEGMENT_SIZE
           child == [m EXCEPT !.SB = base, !.AC = 0]
           psw == [m EXCEPT !.AC = 2]
           table == [process EXCEPT ![2].cpu = child, ![2].state = process[current_process].state]
<1>7. /\ ordonnanceur(psw, table, nbr_process_alive, nbr_process_sleeping)
      /\ mem' = Copied(base) /\ nbr_process' = Count(nbr_process + 1)
  BY <1>5, <1>6 DEF my_fork, ForkBase
<1>8. nbr_process' = 3
  BY <1>4, <1>7, NoyauAssumption, MachineAssumption DEF Count
<1>9. psw \in PSW /\ child \in PSW
  <2>1. base \in Word /\ 2 \in Word /\ 0 \in Word
    BY <1>2, Sizes
  <2> HIDE DEF base
  <2> QED
    BY <1>2, <2>1 DEF PSW
<1>10. /\ table \in [Slots -> ProcessEntry] /\ table[2].cpu = child /\ table[2].state = READY
       /\ table[1] = process[1] /\ \A i \in Slots : i > 2 => table[i] = process[i]
  <2> HIDE DEF child
  <2>1. table = [process EXCEPT ![2] = [process[2] EXCEPT !.cpu = child, !.state = READY]]
    BY <1>2, <1>3, <1>4 DEF ProcessEntry
  <2> DEFINE e == [process[2] EXCEPT !.cpu = child, !.state = READY]
  <2>2. e \in ProcessEntry /\ e.cpu = child /\ e.state = READY
    <3>1. process[2] \in ProcessEntry /\ child \in PSW
      BY <1>2, <1>9
    <3> QED
      BY <3>1 DEF ProcessEntry
  <2> HIDE DEF table, e
  <2> QED
    BY <1>2, <2>1, <2>2 DEF e
<1>11. /\ current_process' = 2 /\ mode' = "cpu" /\ m' = process'[2].cpu
       /\ process'[2].state = READY
       /\ \A i \in Slots :
            /\ process'[i].cpu = IF i = 1 THEN psw ELSE table[i].cpu
            /\ \/ process'[i].state = table[i].state
               \/ table[i].state = SLEEP /\ process'[i].state = READY
  <2> HIDE DEF psw, table
  <2> QED
    BY <1>2, <1>3, <1>7, <1>9, <1>10, Elects
<1>12. m' = child /\ process'[1].cpu = psw
  <2> HIDE DEF psw, table, child
  <2> QED
    BY <1>2, <1>10, <1>11
<1>13. Holds(mem', SEGMENT_SIZE, F) /\ Holds(mem', 2 * SEGMENT_SIZE, F)
  <2>1. Len(F) \in 0 .. SEGMENT_SIZE /\ Holds(mem, SEGMENT_SIZE, F)
    <3>1. Len(F) = 10 /\ Len(F) <= SEGMENT_SIZE /\ SEGMENT_SIZE \in Nat
      BY ForkCode, SimulAssumption, MachineAssumption
    <3> QED
      BY <3>1 DEF Forks
  <2> QED
    BY <1>1, <1>2, <1>3, <1>7, <2>1, CopyHolds
<1>14. ChildPrints'
  <2>1. m'.SB = base /\ m'.AC = 0 /\ m'.PC = 1
    BY <1>2, <1>3, <1>12 DEF PSW
  <2>2. tick' = 0 /\ ~InTrap'
    BY <1>1, <1>11 DEF Forks, InTrap
  <2> QED
    BY <1>11, <1>13, <2>1, <2>2 DEF ChildPrints
<1>15. ParentForks'
  <2>1. Context(1)' = psw
    BY <1>11, <1>12 DEF Context
  <2>2. psw.SB = SEGMENT_SIZE /\ psw.PC = 1 /\ psw.AC = 2
    BY <1>2, <1>3 DEF PSW
  <2>3. ~Asks(1)'
    BY <1>11 DEF Asks
  <2> HIDE DEF psw
  <2> QED
    BY <2>1, <2>2, <2>3 DEF ParentForks
<1>16. /\ process'[1].state \in {READY, SLEEP}
       /\ \A i \in Slots : i > 2 => process'[i].state = EMPTY
  <2> HIDE DEF table, psw, child
  <2> QED
    BY <1>2, <1>4, <1>10, <1>11 DEF Forks, READY, SLEEP, EMPTY
<1> QED
  BY <1>8, <1>11, <1>13, <1>14, <1>15, <1>16 DEF Forks

(* Each handler of the kernel keeps it. *)
LEMMA ForksHandles ==
  ASSUME MAX_PROCESS >= 3, SInv, Booted, F \in Programs, Forks, systeme, tick' = tick
  PROVE  Forks'
<1>1. /\ current_process \in {0, 1, 2} /\ InState(GETCHAR) = {}
      /\ 0 \in Slots /\ 1 \in Slots /\ 2 \in Slots
      /\ process \in [Slots -> ProcessEntry] /\ m \in PSW /\ process[0].state = READY
      /\ process[current_process].state = READY
  BY ForksFacts, BootedFacts
<1>2. CASE Clavier \/ Arret
  BY <1>1, <1>2, QuietSteps, ForksQuiet
<1>3. CASE Horloge
  <2>1. InTrap /\ m.INT = INT_CLOCK /\ mem' = mem /\ nbr_process' = nbr_process
    BY <1>3 DEF Horloge, InTrap
  <2>2. current_process # 2 /\ ~Asks(1)
    BY <2>1 DEF Forks, ChildPrints, Asks, INT_CLOCK, INT_SYSC
  <2>3. ordonnanceur(m, process, nbr_process_alive, nbr_process_sleeping)
    BY <1>3 DEF Horloge
  <2> DEFINE p == IF current_process = 1 THEN m ELSE process[1].cpu
  <2>4. p = Context(1) /\ p.SB = SEGMENT_SIZE /\ p.PC \in {0, 1, 6, 7, 8, 9} /\ (p.PC = 1 => p.AC > 0)
    BY <2>2 DEF Forks, ParentForks, Context
  <2> HIDE DEF p
  <2>5. /\ process[1].state \in {READY, SLEEP} /\ process[2].state = EMPTY /\ nbr_process = 2
        /\ \A i \in Slots : i > 2 => process[i].state = EMPTY
    BY <2>2 DEF Forks
  <2> QED
    BY <1>1, <2>1, <2>3, <2>4, <2>5, ForksElects DEF p
<1>4. ASSUME NEW arg, Sysc(arg)
      PROVE  /\ mode = "switch" /\ m.INT = INT_SYSC /\ m.RI.ARG = arg
             /\ \/ current_process = 1 /\ m.PC = 1 /\ arg = SYSC_FORK
                \/ current_process = 1 /\ m.PC = 8 /\ arg = SYSC_SLEEP
                \/ current_process = 2 /\ m.PC \in {3, 5} /\ arg = SYSC_PUTI
                \/ current_process = 2 /\ m.PC = 6 /\ arg = SYSC_EXIT
  <2>1. mode = "switch" /\ m.INT = INT_SYSC /\ m.RI.ARG = arg /\ InTrap
    BY <1>4 DEF Sysc, InTrap
  <2>2. current_process # 0
    BY <2>1, BootedFacts DEF INT_CLOCK, INT_SYSC
  <2>3. CASE current_process = 1
    BY <2>1, <2>3, ForkCode DEF Forks, ParentForks, Asks
  <2>4. CASE current_process = 2
    BY <2>1, <2>4, ForkCode DEF Forks, ChildPrints
  <2> QED
    BY <1>1, <2>1, <2>2, <2>3, <2>4
<1>5. CASE my_exit
  <2>1. current_process = 2 /\ mem' = mem /\ nbr_process' = Count(nbr_process - 1)
    BY <1>4, <1>5 DEF my_exit, SYSC_EXIT, SYSC_FORK, SYSC_SLEEP, SYSC_PUTI
  <2>2. nbr_process' = 2
    BY <2>1, NoyauAssumption, MachineAssumption DEF Forks, Count
  <2> DEFINE table == [process EXCEPT ![2].state = EMPTY]
             p == process[1].cpu
  <2>3. ordonnanceur(m, table, Count(nbr_process_alive - 1), nbr_process_sleeping)
    BY <1>5, <2>1 DEF my_exit
  <2>4. /\ table \in [Slots -> ProcessEntry] /\ table[2].state = EMPTY /\ table[1] = process[1]
        /\ \A i \in Slots : i > 2 => table[i] = process[i]
    BY <1>1 DEF ProcessEntry
  <2>5. p = Context(1) /\ p.SB = SEGMENT_SIZE /\ p.PC \in {0, 1, 6, 7, 8, 9} /\ (p.PC = 1 => p.AC > 0)
    BY <2>1 DEF Forks, ParentForks, Context, Asks
  <2>6. /\ process[1].state \in {READY, SLEEP}
        /\ \A i \in Slots : i > 2 => process[i].state = EMPTY
    BY DEF Forks
  <2> HIDE DEF table, p
  <2>7. p = IF current_process = 1 THEN m ELSE table[1].cpu
    BY <2>1, <2>4 DEF p
  <2> QED
    BY <1>1, <2>1, <2>2, <2>3, <2>4, <2>5, <2>6, <2>7, ForksElects
<1>6. CASE send_thread_to_sleep
  <2>1. current_process = 1 /\ m.PC = 8 /\ mem' = mem /\ nbr_process' = nbr_process
    BY <1>4, <1>6 DEF send_thread_to_sleep, SYSC_EXIT, SYSC_FORK, SYSC_SLEEP, SYSC_PUTI
  <2>2. nbr_process' = 2
    BY <2>1 DEF Forks
  <2>3. PICK due \in BOOLEAN :
          ordonnanceur(m,
            [process EXCEPT ![current_process].state = SLEEP, ![current_process].due = due],
            Count(nbr_process_alive - 1), nbr_process_sleeping + 1)
    BY <1>6 DEF send_thread_to_sleep
  <2> DEFINE table == [process EXCEPT ![current_process].state = SLEEP,
                                      ![current_process].due = due]
  <2>4. /\ table \in [Slots -> ProcessEntry] /\ table[1].state = SLEEP
        /\ \A i \in Slots : i > 1 => table[i] = process[i]
    <3> DEFINE e == [process[1] EXCEPT !.state = SLEEP, !.due = due]
    <3>1. table = [process EXCEPT ![1] = e]
      BY <1>1, <2>1
    <3>2. e \in ProcessEntry /\ e.state = SLEEP
      <4>1. process[1] \in ProcessEntry
        BY <1>1
      <4> QED
        BY <4>1 DEF ProcessEntry
    <3> HIDE DEF table, e
    <3> QED
      BY <1>1, <3>1, <3>2
  <2>5. m = (IF current_process = 1 THEN m ELSE table[1].cpu) /\ m.SB = SEGMENT_SIZE
        /\ m.PC \in {0, 1, 6, 7, 8, 9} /\ (m.PC = 1 => m.AC > 0)
    BY <2>1 DEF Forks, ParentForks, Context
  <2>6. table[1].state \in {READY, SLEEP} /\ table[2].state = EMPTY
        /\ \A i \in Slots : i > 2 => table[i].state = EMPTY
    <3> HIDE DEF table
    <3> QED
      BY <1>1, <2>1, <2>4, MachineAssumption DEF Forks, Slots
  <2>7. ordonnanceur(m, table, Count(nbr_process_alive - 1), nbr_process_sleeping + 1)
    BY <2>3
  <2> HIDE DEF table
  <2> QED
    BY <1>1, <2>1, <2>2, <2>4, <2>5, <2>6, <2>7, ForksElects
<1>7. CASE my_fork
  BY <1>7, ForksForks
<1>8. CASE Affichage
  <2>1. Sysc(m.RI.ARG) /\ m.RI.ARG \notin {SYSC_EXIT, SYSC_SLEEP, SYSC_FORK}
        /\ mode' = "cpu" /\ UNCHANGED <<m, process, current_process, nbr_process, mem>>
    BY <1>8 DEF Affichage, Sysc, counters
  <2>2. current_process = 2 /\ m.PC \in {3, 5}
    BY <1>4, <2>1
  <2>3. tick' = 0
    BY <1>4, <2>1 DEF Forks
  <2>4. ChildPrints'
    BY <2>1, <2>2, <2>3 DEF Forks, ChildPrints, InTrap, Holds
  <2>5. ParentForks'
    BY <2>1, <2>2 DEF Forks, ParentForks, Context, Asks
  <2>6. Holds(mem, SEGMENT_SIZE, F)'
    BY <2>1 DEF Forks, Holds
  <2>7. process' = process /\ nbr_process' = nbr_process /\ current_process' = current_process
        /\ mode' = "cpu"
    BY <2>1
  <2> QED
    BY <2>4, <2>5, <2>6, <2>7 DEF Forks
<1>9. ~new_thread /\ ~my_getchar
  <2>1. ~Sysc(SYSC_NEW_THREAD) /\ ~Sysc(SYSC_GETCHAR)
    BY <1>4 DEF SYSC_EXIT, SYSC_FORK, SYSC_SLEEP, SYSC_PUTI, SYSC_NEW_THREAD, SYSC_GETCHAR
  <2> QED
    BY <2>1 DEF new_thread, my_getchar
<1> QED
  BY <1>2, <1>3, <1>5, <1>6, <1>7, <1>8, <1>9 DEF systeme, system_SYSC

(* Each instruction of the processes keeps it. *)
LEMMA ForksRuns ==
  ASSUME MAX_PROCESS >= 3, CPU_CLOCK >= 2, SInv, Booted, F \in Programs, Forks, mode = "cpu", cpu
  PROVE  Forks'
<1>1. /\ current_process \in {0, 1, 2} /\ 1 \in Slots /\ m \in PSW /\ Len(F) = 10
  BY ForksFacts, BootedFacts, ForkCode
<1>2. ASSUME UNCHANGED <<process, current_process, nbr_process, mem>>, mode' # "cpu" => tick' = 0,
             ParentForks', current_process' = 2 => ChildPrints'
      PROVE  Forks'
  <2>1. Holds(mem, SEGMENT_SIZE, F)'
    BY <1>2 DEF Forks, Holds
  <2> QED
    BY <1>2, <2>1 DEF Forks
<1>3. CASE current_process = 0
  <2>1. /\ UNCHANGED <<process, current_process, nbr_process, mem>>
        /\ mode' # "cpu" => tick' = 0
    BY <1>3, IdleRuns
  <2>2. ParentForks'
    BY <1>3, <2>1 DEF Forks, ParentForks, Context, Asks
  <2> QED
    BY <1>2, <1>3, <2>1, <2>2
<1>4. CASE current_process = 1
  <2>1. /\ m.SB = SEGMENT_SIZE /\ m.PC \in {0, 1, 6, 7, 8, 9} /\ (m.PC = 1 => m.AC > 0)
        /\ Holds(mem, SEGMENT_SIZE, F)
    BY <1>4 DEF Forks, ParentForks, Context, Asks, InTrap
  <2>2. m.PC \in 0 .. Len(F) - 1
    BY <1>1, <2>1
  <2>3. Tick \/ Executes(F[m.PC + 1])
    BY <2>1, <2>2, Fetches
  <2>4. CASE Tick
    <3>1. m'.SB = m.SB /\ m'.PC = m.PC /\ m'.AC = m.AC /\ m'.INT = INT_CLOCK
      BY <1>1, <2>4 DEF Tick, PSW
    <3>2. UNCHANGED <<process, current_process, nbr_process, mem>> /\ tick' = 0
      BY <2>4 DEF Tick
    <3>3. ParentForks'
      BY <1>4, <2>1, <3>1, <3>2 DEF ParentForks, Context, Asks, INT_CLOCK, INT_SYSC
    <3> QED
      BY <1>2, <1>4, <3>2, <3>3
  <2>5. CASE Executes(F[m.PC + 1])
    <3> DEFINE inst == F[m.PC + 1]
    <3>1. \/ m.PC = 0 /\ inst = F[1]
          \/ m.PC = 1 /\ inst = F[2]
          \/ m.PC = 6 /\ inst = F[7]
          \/ m.PC = 7 /\ inst = F[8]
          \/ m.PC = 8 /\ inst = F[9]
          \/ m.PC = 9 /\ inst = F[10]
      BY <2>1
    <3> HIDE DEF inst
    <3>2. inst.OP \in {INST_SUB, INST_IFGT, INST_NOP, INST_JUMP, INST_HALT, INST_SYSC}
      BY <3>1, ForkCode
    <3>3. Effects(inst)
      BY <1>1, <2>5, <3>2, ExecutedEffects DEF inst
    <3>4. UNCHANGED <<process, current_process, nbr_process, mem>> /\ m'.SB = m.SB
      BY <3>3 DEF Effects
    <3>5. CASE m.PC \in {0, 7}
      <4>1. inst.OP = INST_SYSC /\ (m.PC = 0 => inst = F[1]) /\ (m.PC = 7 => inst = F[8])
        BY <3>1, <3>5, ForkCode
      <4>2. m'.PC = m.PC + 1 /\ m'.INT = INT_SYSC /\ m'.RI = inst /\ mode' = "systeme" /\ tick' = 0
        BY <3>3, <4>1 DEF Effects
      <4>3. Asks(1)' /\ Context(1)' = m'
        BY <1>4, <3>4, <4>2 DEF Asks, InTrap, Context
      <4>4. ParentForks'
        BY <2>1, <3>4, <3>5, <4>1, <4>2, <4>3 DEF ParentForks
      <4> QED
        BY <1>2, <1>4, <3>4, <4>2, <4>4
    <3>6. CASE m.PC \in {1, 6, 8, 9}
      <4>1. mode' = "cpu" /\ m'.PC \in {6, 7, 9, 0}
        BY <2>1, <3>1, <3>3, <3>6, ForkCode
        DEF Effects, INST_SUB, INST_IFGT, INST_NOP, INST_JUMP, INST_HALT, INST_SYSC
      <4>2. ~Asks(1)' /\ Context(1)' = m'
        BY <1>4, <3>4, <4>1 DEF Asks, InTrap, Context
      <4>3. ParentForks'
        BY <2>1, <3>4, <4>1, <4>2 DEF ParentForks
      <4> QED
        BY <1>2, <1>4, <3>4, <4>1, <4>3
    <3> QED
      BY <2>1, <3>5, <3>6
  <2> QED
    BY <2>3, <2>4, <2>5
<1>5. CASE current_process = 2
  <2>1. /\ m.SB = 2 * SEGMENT_SIZE /\ Holds(mem, m.SB, F)
        /\ \/ tick = 0 /\ m.PC \in {1, 3, 5} /\ (m.PC = 1 => m.AC = 0)
           \/ tick = 1 /\ m.PC \in {2, 4}
    BY <1>5 DEF Forks, ChildPrints
  <2>2. m.PC \in 0 .. Len(F) - 1
    BY <1>1, <2>1
  <2>3. ~Tick
    BY <2>1, MachineAssumption DEF Tick
  <2> DEFINE inst == F[m.PC + 1]
  <2>4. Executes(inst)
    BY <2>1, <2>2, <2>3, Fetches
  <2>5. \/ m.PC = 1 /\ inst = F[2]
        \/ m.PC = 2 /\ inst = F[3]
        \/ m.PC = 3 /\ inst = F[4]
        \/ m.PC = 4 /\ inst = F[5]
        \/ m.PC = 5 /\ inst = F[6]
    BY <2>1
  <2> HIDE DEF inst
  <2>6. inst.OP \in {INST_SUB, INST_IFGT, INST_NOP, INST_JUMP, INST_HALT, INST_SYSC}
    BY <2>5, ForkCode
  <2>7. Effects(inst)
    BY <1>1, <2>4, <2>6, ExecutedEffects
  <2>8. UNCHANGED <<process, current_process, nbr_process, mem>> /\ m'.SB = m.SB
    BY <2>7 DEF Effects
  <2>9. ParentForks'
    BY <1>5, <2>8 DEF Forks, ParentForks, Context, Asks
  <2>10. CASE m.PC \in {2, 4, 5}
    <3>1. inst.OP = INST_SYSC /\ inst = F[m.PC + 1]
      BY <2>5, <2>10, ForkCode
    <3>2. m'.PC = m.PC + 1 /\ m'.INT = INT_SYSC /\ m'.RI = inst /\ mode' = "systeme" /\ tick' = 0
      BY <2>7, <3>1 DEF Effects
    <3>3. ChildPrints'
      <4>1. Holds(mem, 2 * SEGMENT_SIZE, F)'
        BY <2>1, <2>8 DEF Holds
      <4>2. m'.PC \in {3, 5, 6} /\ m'.RI = F[m'.PC]
        BY <2>10, <3>1, <3>2
      <4> QED
        BY <2>1, <2>8, <3>2, <4>1, <4>2 DEF ChildPrints
    <3> QED
      BY <1>2, <2>8, <2>9, <3>2, <3>3
  <2>11. CASE m.PC \in {1, 3}
    <3>2. mode' = "cpu" /\ tick' = 1 /\ m'.PC = m.PC + 1
      BY <2>1, <2>5, <2>7, <2>11, ForkCode
      DEF Effects, INST_SUB, INST_IFGT, INST_NOP, INST_HALT, INST_SYSC
    <3>3. ChildPrints'
      <4>1. Holds(mem, 2 * SEGMENT_SIZE, F)'
        BY <2>1, <2>8 DEF Holds
      <4>2. m'.PC \in {2, 4} /\ ~InTrap'
        BY <2>11, <3>2 DEF InTrap
      <4> QED
        BY <2>1, <2>8, <3>2, <4>1, <4>2 DEF ChildPrints
    <3> QED
      BY <1>2, <2>8, <2>9, <3>2, <3>3
  <2> QED
    BY <2>1, <2>10, <2>11
<1> QED
  BY <1>1, <1>3, <1>4, <1>5

-----------------------------------------------------------------------------
(* What systeme_init leaves to the program it loads. *)
LEMMA Boots ==
  ASSUME MAX_PROCESS >= 3, SInv, nbr_process = 0, Demarrage
  PROVE  /\ current_process' = 1 /\ mode' = "cpu" /\ m' = process'[1].cpu
         /\ m'.PC = 0 /\ m'.SB = SEGMENT_SIZE /\ m'.DR = process[1].cpu.DR
         /\ process'[1].state = READY /\ \A i \in Slots : i > 1 => process'[i].state = EMPTY
         /\ nbr_process' = 2 /\ tick' = tick /\ program' = program
         /\ Holds(mem, SEGMENT_SIZE, program)'
<1>1. /\ systeme_init(Image(program)) /\ program \in Programs /\ tick' = tick /\ program' = program
      /\ process \in [Slots -> ProcessEntry]
  BY DEF Demarrage, SInv, IInv, TypeOK
<1>2. 1 \in Slots /\ BootBase(1) = SEGMENT_SIZE
  BY MachineAssumption DEF Slots, BootBase
<1>3. /\ current_process' = 1 /\ mode' = "cpu" /\ m' = process'[1].cpu /\ mem' = Image(program)
      /\ nbr_process' = Count(0 + 2)
      /\ process' = [i \in Slots |->
           IF i <= 1
           THEN [process[i] EXCEPT !.cpu.PC = 0, !.cpu.SB = BootBase(i),
                                   !.cpu.SS = SEGMENT_SIZE, !.state = READY]
           ELSE [process[i] EXCEPT !.state = EMPTY]]
  BY <1>1 DEF systeme_init
<1>4. Count(0 + 2) = 2
  BY NoyauAssumption, MachineAssumption DEF Count
<1>5. /\ process'[1].cpu.PC = 0 /\ process'[1].cpu.SB = SEGMENT_SIZE
      /\ process'[1].cpu.DR = process[1].cpu.DR /\ process'[1].state = READY
  <2>1. ASSUME NEW i \in Slots, i <= 1
        PROVE  /\ process'[i].cpu.PC = 0 /\ process'[i].cpu.SB = BootBase(i)
               /\ process'[i].cpu.DR = process[i].cpu.DR /\ process'[i].state = READY
    <3>1. process[i] \in ProcessEntry
      BY <1>1
    <3> QED
      BY <1>3, <2>1, <3>1 DEF ProcessEntry, PSW
  <2>2. 1 <= 1
    OBVIOUS
  <2> QED
    BY <1>2, <2>1, <2>2
<1>6. ASSUME NEW i \in Slots, i > 1 PROVE process'[i].state = EMPTY
  <2>1. ~(i <= 1)
    BY <1>6, SlotsFinite DEF Slots
  <2>2. process'[i] = [process[i] EXCEPT !.state = EMPTY]
    BY <1>3, <2>1
  <2>3. process[i] \in ProcessEntry
    BY <1>1
  <2> QED
    BY <2>2, <2>3 DEF ProcessEntry
<1>7. Holds(mem, SEGMENT_SIZE, program)'
  <2>1. Holds(Image(program), SEGMENT_SIZE, program)
    BY <1>1, ImageHolds
  <2> QED
    BY <1>1, <1>3, <2>1 DEF Holds
<1> QED
  BY <1>1, <1>3, <1>4, <1>5, <1>6, <1>7

(* Before the boot there is only the boot, and time. *)
LEMMA BeforeBoot ==
  ASSUME SInv, ~Booted, [Next]_vars
  PROVE  \/ Demarrage
         \/ UNCHANGED <<current_process, nbr_process, tick, program, process>>
<1>1. mode = "systeme" /\ m.INT = INT_INIT /\ Live = {}
  BY DEF SInv, IInv, BootState
<1>2. ~systeme /\ ~cpu
  BY <1>1 DEF systeme, Clavier, Arret, Horloge, system_SYSC, my_exit, new_thread, Sysc,
              send_thread_to_sleep, my_getchar, my_fork, Affichage, cpu, HorsSegment, ADD, SUB,
              CMP, JUMP, IFGT, NOP, HALT, SYSC, LOAD, STORE, Inconnue, FinDeTranche, Fetch, InLoop
<1>3. \A i \in Slots : ~Temps(i)
  BY <1>1 DEF Temps, Reveille, Live, SLEEP, EMPTY
<1>4. CASE Frappe
  BY <1>4 DEF Frappe, Touche, counters
<1>5. CASE UNCHANGED vars
  BY <1>5 DEF vars, noyau, counters
<1> QED
  BY <1>1, <1>2, <1>3, <1>4, <1>5 DEF Next, main, Fini

(* After it: a handler, an instruction, or a step of the surroundings. *)
LEMMA AfterBoot ==
  ASSUME SInv, Booted, [Next]_vars
  PROVE  /\ program' = program /\ Booted'
         /\ \/ systeme /\ tick' = tick
            \/ mode = "cpu" /\ cpu
            \/ /\ tick' = tick
               /\ (\E i \in Slots : Reveille(i)) \/ Touche \/ UNCHANGED noyau
<1>1. ~Demarrage
  <2>1. Booted /\ mode = "systeme" => m.INT # INT_INIT
    BY DEF SInv, IInv, TrapState, INT_SEGV, INT_INST, INT_HALT, INT_CLOCK, INT_SYSC, INT_INIT
  <2> QED
    BY <2>1 DEF Demarrage, systeme_init
<1>2. ASSUME NEW psw, NEW table, NEW alive, NEW sleeping, ordonnanceur(psw, table, alive, sleeping)
      PROVE  current_process' # -1
  BY <1>2 DEF ordonnanceur, Slots
<1>3. systeme => Booted'
  BY <1>2 DEF systeme, Clavier, Arret, Horloge, system_SYSC, my_exit, new_thread, Wild,
              send_thread_to_sleep, my_getchar, my_fork, Affichage, Booted
<1>4. cpu => mode = "cpu" /\ program' = program /\ current_process' = current_process
  BY DEF cpu, HorsSegment, ADD, SUB, CMP, JUMP, IFGT, NOP, HALT, SYSC, LOAD, STORE, Inconnue,
         FinDeTranche, Fetch, InLoop, Interrupt, Continue
<1>5. (\E i \in Slots : Temps(i)) \/ Frappe \/ (Fini /\ UNCHANGED <<program, tick>>)
      \/ UNCHANGED vars
        => /\ program' = program /\ tick' = tick /\ current_process' = current_process
           /\ (\E i \in Slots : Reveille(i)) \/ Touche \/ UNCHANGED noyau
  BY DEF Temps, Frappe, Reveille, Touche, Fini, vars, noyau
<1> QED
  BY <1>1, <1>3, <1>4, <1>5 DEF Next, main, Booted

-----------------------------------------------------------------------------
(* While it runs the test of fork, the simulator has at most one child. *)
LEMMA ForksInvariant ==
  ASSUME MAX_PROCESS >= 3, CPU_CLOCK >= 2
  PROVE  Spec => [](SInv /\ OneChild)
<1>1. Init => OneChild
  BY DEF Init, NoyauInit, OneChild, Booted
<1>2. SInv /\ OneChild /\ [Next]_vars => OneChild'
  <2> SUFFICES ASSUME SInv, OneChild, [Next]_vars, program' = F PROVE OneChild'
    BY DEF OneChild
  <2>1. CASE ~Booted
    <3>1. CASE Demarrage
      <4>1. program' = program
        BY <3>1 DEF Demarrage
      <4>2. nbr_process = 0 /\ tick = 0
        BY <2>1, <4>1 DEF OneChild
      <4>3. /\ current_process' = 1 /\ mode' = "cpu" /\ m' = process'[1].cpu
            /\ m'.PC = 0 /\ m'.SB = SEGMENT_SIZE
            /\ process'[1].state = READY /\ \A i \in Slots : i > 1 => process'[i].state = EMPTY
            /\ nbr_process' = 2 /\ Holds(mem, SEGMENT_SIZE, F)'
        BY <3>1, <4>1, <4>2, Boots DEF Holds
      <4>4. ParentForks'
        BY <4>3 DEF ParentForks, Context, Asks, InTrap
      <4>5. 2 \in Slots
        BY MachineAssumption DEF Slots
      <4>6. process'[2].state = EMPTY /\ \A i \in Slots : i > 2 => process'[i].state = EMPTY
        BY <4>3, <4>5, SlotsFinite DEF Slots
      <4>7. Forks'
        BY <4>3, <4>4, <4>6 DEF Forks
      <4> QED
        BY <4>3, <4>7 DEF OneChild, Booted
    <3>2. CASE UNCHANGED <<current_process, nbr_process, tick, program, process>>
      BY <2>1, <3>2 DEF OneChild, Booted
    <3> QED
      BY <2>1, <3>1, <3>2, BeforeBoot
  <2>2. CASE Booted
    <3>1. /\ program' = program /\ Booted'
          /\ \/ systeme /\ tick' = tick
             \/ mode = "cpu" /\ cpu
             \/ /\ tick' = tick
                /\ (\E i \in Slots : Reveille(i)) \/ Touche \/ UNCHANGED noyau
      BY <2>2, AfterBoot
    <3>2. Forks /\ F \in Programs
      BY <2>2, <3>1 DEF OneChild, SInv
    <3>3. CASE systeme /\ tick' = tick
      BY <2>2, <3>1, <3>2, <3>3, ForksHandles DEF OneChild
    <3>4. CASE mode = "cpu" /\ cpu
      BY <2>2, <3>1, <3>2, <3>4, ForksRuns DEF OneChild
    <3>5. CASE tick' = tick /\ ((\E i \in Slots : Reveille(i)) \/ Touche \/ UNCHANGED noyau)
      <4>1. Quiet
        BY <2>2, <3>2, <3>5, ForksFacts, QuietSteps
      <4> QED
        BY <2>2, <3>1, <3>2, <4>1, ForksQuiet DEF OneChild
    <3> QED
      BY <3>1, <3>3, <3>4, <3>5
  <2> QED
    BY <2>1, <2>2
<1>3. SInv /\ [Next]_vars => SInv'
  BY SimulStep
<1> QED
  BY <1>1, <1>2, <1>3, InitSInv, PTL DEF Spec

(* With a third slot and a slice of two instructions (the code has 3 and   *)
(* 3), the fork of the test program is never refused, however long the     *)
(* simulator runs, whatever the clock and the keyboard do.                 *)
THEOREM ForkProgramSafe ==
  ASSUME MAX_PROCESS >= 3, CPU_CLOCK >= 2
  PROVE  Spec => []ForkNeverRefused
<1>1. SInv /\ OneChild => ForkNeverRefused
  <2> SUFFICES ASSUME SInv, OneChild, program = F, Sysc(SYSC_FORK) PROVE nbr_process < MAX_PROCESS
    BY DEF ForkNeverRefused, F
  <2>1. mode = "switch" /\ InTrap /\ m.INT = INT_SYSC /\ m.RI.ARG = SYSC_FORK
    BY DEF Sysc, InTrap
  <2>2. Booted /\ Forks
    BY <2>1 DEF OneChild, SInv, IInv, BootState
  <2>3. current_process # 2
    BY <2>1, <2>2, ForkCode DEF Forks, ChildPrints, SYSC_FORK, SYSC_PUTI, SYSC_EXIT
  <2> QED
    BY <2>2, <2>3, MachineAssumption DEF Forks
<1> QED
  BY <1>1, ForksInvariant, PTL

-----------------------------------------------------------------------------
(* The test of threads: its instructions, *)
T == make_inst_test_thread

(* as make_inst_test_thread writes them, *)
LEMMA ThreadCode ==
  /\ Len(T) = 14
  /\ T[1].OP = INST_SYSC /\ T[1].i = 1 /\ T[1].ARG = SYSC_NEW_THREAD
  /\ T[2].OP = INST_IFGT /\ T[2].ARG = 11
  /\ T[3].OP = INST_SUB /\ T[3].i = 3 /\ T[3].j = 3 /\ T[3].ARG = -4000
  /\ T[4].OP = INST_STORE /\ T[4].i = 3 /\ T[4].j = 0 /\ T[4].ARG = 0
  /\ T[5].OP = INST_NOP /\ T[6].OP = INST_NOP /\ T[7].OP = INST_NOP
  /\ T[8].OP = INST_HALT
  /\ T[12].OP = INST_LOAD /\ T[12].i = 2 /\ T[12].j = 0 /\ T[12].ARG = 0
  /\ T[13].OP = INST_SYSC /\ T[13].ARG = SYSC_PUTI
  /\ T[14].OP = INST_SYSC /\ T[14].ARG = SYSC_EXIT
BY DEF T, make_inst_test_thread, Sysc3, Make, Nop

(* and its three phases.  Before the thread is made only the parent has    *)
(* run. *)
ParentAlone ==
  /\ current_process = 1 /\ process[2].state = EMPTY
  /\ Holds(mem, SEGMENT_SIZE, T)
  /\ m.SB = SEGMENT_SIZE /\ m.DR[0] = 0 /\ m.DR[3] = 0
  /\ mode = "cpu" => tick = 0 /\ m.PC = 0
  /\ InTrap => tick = 0 /\ m.INT = INT_SYSC /\ m.PC = 1 /\ m.RI = T[1]

(* A context that the parent may be resumed with. *)
Loads(psw) ==
  /\ psw.SB = SEGMENT_SIZE /\ psw.DR[0] = 0 /\ psw.PC \in {1, 11, 12, 13}
  /\ psw.PC = 1 => psw.AC > 0
  /\ psw.PC = 12 => psw.DR[2] = 4000

(* The thread is elected at once, and has its first three instructions in  *)
(* its first slice: the third stores 4000. *)
ChildFirst ==
  /\ current_process = 2 /\ mode = "cpu"
  /\ process[1].state = READY /\ process[2].state = READY
  /\ Holds(mem, SEGMENT_SIZE, T)
  /\ m.SB = SEGMENT_SIZE /\ m.DR[0] = 0
  /\ \/ tick = 0 /\ m.PC = 1 /\ m.AC = 0 /\ m.DR[3] = 0
     \/ tick = 1 /\ m.PC = 2 /\ m.DR[3] = 0
     \/ tick = 2 /\ m.PC = 3 /\ m.DR[3] = 4000
  /\ process[1].cpu.PC = 1 /\ Loads(process[1].cpu)

(* Then 4000 is where the first instruction was, which nobody comes back   *)
(* to.                                                                     *)
CodeAfter(memory) == \A k \in 2 .. 14 : Decode(memory[SEGMENT_SIZE + k - 1]) = T[k]

Shared ==
  /\ mem[SEGMENT_SIZE] = 4000 /\ CodeAfter(mem)
  /\ mode # "cpu" => tick = 0
  /\ process[2].state = READY /\ process[1].state \in {READY, EMPTY}
  /\ Context(2).SB = SEGMENT_SIZE /\ Context(2).PC \in 4 .. 7
  /\ current_process = 2 /\ InTrap => m.INT \in {INT_CLOCK, INT_HALT}
  /\ current_process = 1 /\ InTrap => m.INT \in {INT_CLOCK, INT_SYSC}
  /\ Asks(1) => \/ m.PC = 13 /\ m.RI = T[13]
                \/ m.PC = 14 /\ m.RI = T[14]
  /\ process[1].state = READY /\ ~Asks(1) => Loads(Context(1))
  /\ Asks(1) => m.SB = SEGMENT_SIZE /\ m.DR[0] = 0

Threads ==
  /\ process[1].state = READY \/ Shared
  /\ \A i \in Slots : i > 2 => process[i].state = EMPTY
  /\ ParentAlone \/ ChildFirst \/ Shared

OneThread ==
  program = T =>
    IF Booted THEN Threads
    ELSE nbr_process = 0 /\ tick = 0 /\ process[1].cpu.DR = [r \in Registers |-> 0]

(* What is known while the program runs. *)
LEMMA ThreadsFacts ==
  ASSUME MAX_PROCESS >= 3, SInv, Booted, Threads
  PROVE  /\ current_process \in {0, 1, 2} /\ InState(GETCHAR) = {}
         /\ 0 \in Slots /\ 1 \in Slots /\ 2 \in Slots /\ Registers = 0 .. 7
         /\ process[1].state \in {READY, EMPTY} /\ process[2].state \in {READY, EMPTY}
<1>1. \A i \in Slots : i \in {0, 1, 2} \/ i > 2
  BY MachineAssumption DEF Slots
<1>2. 0 \in Slots /\ 1 \in Slots /\ 2 \in Slots
  BY MachineAssumption DEF Slots
<1>3. process[1].state \in {READY, EMPTY} /\ process[2].state \in {READY, EMPTY}
  BY DEF Threads, ParentAlone, ChildFirst, Shared
<1>4. \A i \in Slots : process[i].state # GETCHAR
  BY <1>1, <1>3, BootedFacts DEF Threads, READY, EMPTY, GETCHAR
<1>5. current_process \in {0, 1, 2}
  BY <1>1, BootedFacts DEF Threads, READY, EMPTY
<1> QED
  BY <1>2, <1>3, <1>4, <1>5, SimulAssumption DEF InState

(* Time and keys change nothing of the phase. *)
LEMMA ThreadsQuiet == ASSUME MAX_PROCESS >= 3, SInv, Booted, Threads, Quiet PROVE Threads'
<1>1. 1 \in Slots /\ 2 \in Slots
  BY ThreadsFacts
<1>2. /\ Context(1)' = Context(1) /\ Context(2)' = Context(2)
      /\ m' = m /\ current_process' = current_process /\ mem' = mem /\ tick' = tick
      /\ process'[1].state = process[1].state /\ process'[2].state = process[2].state
      /\ process'[1].cpu = process[1].cpu
  BY <1>1 DEF Context, Quiet
<1>3. (Asks(1)' <=> Asks(1)) /\ (InTrap' => InTrap) /\ (mode' = "cpu" <=> mode = "cpu")
  BY <1>2 DEF Asks, InTrap, Quiet
<1>4. ParentAlone => ParentAlone'
  BY <1>2, <1>3 DEF ParentAlone, Holds
<1>5. ChildFirst => ChildFirst'
  BY <1>2, <1>3 DEF ChildFirst, Holds, Loads
<1>6. Shared => Shared'
  BY <1>2, <1>3 DEF Shared, CodeAfter, Loads
<1>7. \A i \in Slots : i > 2 => process'[i].state = EMPTY
  BY DEF Threads, Quiet
<1>8. process'[1].state = READY \/ Shared'
  BY <1>2, <1>6 DEF Threads
<1>9. ParentAlone' \/ ChildFirst' \/ Shared'
  BY <1>4, <1>5, <1>6 DEF Threads
<1> QED
  BY <1>7, <1>8, <1>9 DEF Threads

(* An election once the store is done. *)
LEMMA ThreadsElects ==
  ASSUME MAX_PROCESS >= 3, SInv, Booted, Threads,
         mem' = mem, mem[SEGMENT_SIZE] = 4000, CodeAfter(mem),
         NEW psw \in PSW, NEW table \in [Slots -> ProcessEntry], NEW alive, NEW sleeping,
         ordonnanceur(psw, table, alive, sleeping),
         table[2].state = READY, table[1].state \in {READY, EMPTY},
         \A i \in Slots : i > 2 => table[i].state = EMPTY,
         NEW p, p = IF current_process = 1 THEN psw ELSE table[1].cpu,
         table[1].state = READY => Loads(p),
         NEW q, q = IF current_process = 2 THEN psw ELSE table[2].cpu,
         q.SB = SEGMENT_SIZE, q.PC \in 4 .. 7
  PROVE  Threads'
<1>1. 1 \in Slots /\ 2 \in Slots /\ current_process \in Slots
  BY ThreadsFacts, BootedFacts
<1>2. /\ current_process' \in Slots /\ mode' = "cpu"
      /\ m' = process'[current_process'].cpu /\ process'[current_process'].state = READY
      /\ \A i \in Slots :
           /\ process'[i].cpu = IF i = current_process THEN psw ELSE table[i].cpu
           /\ \/ process'[i].state = table[i].state
              \/ table[i].state = SLEEP /\ process'[i].state = READY
  BY <1>1, Elects
<1>3. /\ process'[1].state = table[1].state /\ process'[2].state = READY
      /\ \A i \in Slots : i > 2 => process'[i].state = EMPTY
  BY <1>1, <1>2 DEF READY, SLEEP, EMPTY
<1>4. Context(1)' = p /\ Context(2)' = q
  BY <1>1, <1>2 DEF Context
<1>5. ~InTrap' /\ ~Asks(1)'
  BY <1>2 DEF Asks, InTrap
<1>6. Loads(Context(1))' <=> Loads(p)
  BY <1>4 DEF Loads
<1>7. mem'[SEGMENT_SIZE] = 4000 /\ CodeAfter(mem)'
  BY DEF CodeAfter
<1>8. Shared'
  BY <1>2, <1>3, <1>4, <1>5, <1>6, <1>7 DEF Shared
<1> QED
  BY <1>3, <1>8 DEF Threads

(* The thread is made in slot 2, which runs next. *)
LEMMA ThreadMade ==
  ASSUME MAX_PROCESS >= 3, SInv, Booted, Threads, ParentAlone, new_thread, tick' = tick
  PROVE  Threads'
<1>1. mode = "switch" /\ m.RI = T[1] /\ m.RI.i = 1 /\ m.PC = 1 /\ tick = 0 /\ current_process = 1
      /\ m.SB = SEGMENT_SIZE /\ m.DR[0] = 0 /\ m.DR[3] = 0
  <2>1. mode = "switch" /\ InTrap
    BY DEF new_thread, Sysc, InTrap
  <2>2. m.RI = T[1] /\ m.PC = 1 /\ tick = 0
    BY <2>1 DEF ParentAlone
  <2>3. T[1].i = 1
    BY ThreadCode
  <2> QED
    BY <2>1, <2>2, <2>3 DEF ParentAlone
<1>2. /\ 0 \in Slots /\ 1 \in Slots /\ 2 \in Slots /\ Registers = 0 .. 7
      /\ process \in [Slots -> ProcessEntry] /\ m \in PSW
      /\ process[2].state = EMPTY /\ process[1].state = READY /\ process[0].state = READY
  BY <1>1, ThreadsFacts, BootedFacts DEF ParentAlone
<1>3. 2 \in InState(EMPTY) /\ 0 \notin InState(EMPTY) /\ 1 \notin InState(EMPTY)
  BY <1>2 DEF InState, EMPTY, READY
<1>4. ASSUME NEW index \in Slots, Lowest(index, InState(EMPTY)) PROVE index = 2
  <2>1. index <= 2 /\ index # 0 /\ index # 1
    BY <1>3, <1>4 DEF Lowest
  <2> QED
    BY <2>1, MachineAssumption DEF Slots
<1> DEFINE child == [m EXCEPT !.DR[1] = 0, !.AC = 0]
           psw == [m EXCEPT !.DR[1] = 2, !.AC = 2]
           table == [process EXCEPT ![2].cpu = child, ![2].state = READY]
<1>5. ordonnanceur(psw, table, Count(nbr_process_alive + 1), nbr_process_sleeping) /\ mem' = mem
  BY <1>1, <1>3, <1>4 DEF new_thread
<1>6. /\ psw \in PSW /\ psw.SB = m.SB /\ psw.PC = m.PC /\ psw.AC = 2 /\ psw.DR[0] = m.DR[0]
      /\ child \in PSW /\ child.SB = m.SB /\ child.PC = m.PC /\ child.AC = 0
      /\ child.DR[0] = m.DR[0] /\ child.DR[3] = m.DR[3]
  <2>1. 2 \in Word /\ 0 \in Word
    BY <1>2, Sizes, ZeroTyped
  <2>2. 0 \in Registers /\ 1 \in Registers /\ 3 \in Registers /\ m.DR \in [Registers -> Word]
    BY <1>2 DEF PSW
  <2> DEFINE d == [m.DR EXCEPT ![1] = 2]
             e == [m.DR EXCEPT ![1] = 0]
  <2>3. /\ d \in [Registers -> Word] /\ d[0] = m.DR[0]
        /\ e \in [Registers -> Word] /\ e[0] = m.DR[0] /\ e[3] = m.DR[3]
    BY <2>1, <2>2
  <2>4. psw = [m EXCEPT !.DR = d, !.AC = 2] /\ child = [m EXCEPT !.DR = e, !.AC = 0]
    BY <1>2 DEF PSW
  <2> HIDE DEF d, e, psw, child
  <2> QED
    BY <1>2, <2>1, <2>3, <2>4 DEF PSW
<1>7. /\ table \in [Slots -> ProcessEntry] /\ table[2].cpu = child /\ table[2].state = READY
      /\ table[1] = process[1] /\ \A i \in Slots : i > 2 => table[i] = process[i]
  <2> HIDE DEF child
  <2> DEFINE e == [process[2] EXCEPT !.cpu = child, !.state = READY]
  <2>1. table = [process EXCEPT ![2] = e]
    BY <1>2
  <2>2. e \in ProcessEntry /\ e.cpu = child /\ e.state = READY
    <3>1. process[2] \in ProcessEntry /\ child \in PSW
      BY <1>2, <1>6
    <3> QED
      BY <3>1 DEF ProcessEntry
  <2> HIDE DEF table, e
  <2> QED
    BY <1>2, <2>1, <2>2 DEF e
<1> HIDE DEF psw, table, child
<1>8. /\ current_process' = 2 /\ mode' = "cpu" /\ m' = process'[2].cpu
      /\ process'[2].state = READY
      /\ \A i \in Slots :
           /\ process'[i].cpu = IF i = 1 THEN psw ELSE table[i].cpu
           /\ \/ process'[i].state = table[i].state
              \/ table[i].state = SLEEP /\ process'[i].state = READY
  BY <1>1, <1>2, <1>5, <1>6, <1>7, Elects
<1>9. m' = child /\ process'[1].cpu = psw /\ process'[1].state = READY
      /\ \A i \in Slots : i > 2 => process'[i].state = EMPTY
  BY <1>2, <1>7, <1>8 DEF Threads, READY, SLEEP, EMPTY
<1>10. Loads(psw)
  BY <1>1, <1>6 DEF Loads
<1>11. Holds(mem, SEGMENT_SIZE, T)'
  BY <1>5 DEF ParentAlone, Holds
<1>12. ChildFirst'
  BY <1>1, <1>6, <1>8, <1>9, <1>10, <1>11 DEF ChildFirst, Loads
<1> QED
  BY <1>9, <1>12 DEF Threads

(* Each handler of the kernel keeps it. *)
LEMMA ThreadsHandles ==
  ASSUME MAX_PROCESS >= 3, SInv, Booted, Threads, systeme, tick' = tick
  PROVE  Threads'
<1>1. /\ current_process \in {0, 1, 2} /\ InState(GETCHAR) = {}
      /\ 0 \in Slots /\ 1 \in Slots /\ 2 \in Slots
      /\ process \in [Slots -> ProcessEntry] /\ m \in PSW
      /\ process[current_process].state = READY
      /\ InTrap /\ current_process = 0 => m.INT = INT_CLOCK
  BY ThreadsFacts, BootedFacts
<1>2. CASE Clavier \/ Arret
  BY <1>1, <1>2, QuietSteps, ThreadsQuiet
<1>3. CASE ParentAlone /\ ~Clavier /\ ~Arret
  <2>1. mode = "switch" /\ m.INT = INT_SYSC /\ m.RI.ARG = SYSC_NEW_THREAD
    <3>1. mode = "switch"
      BY <1>3 DEF systeme, Clavier, Arret, Horloge, system_SYSC, my_exit, new_thread, Sysc,
             send_thread_to_sleep, my_getchar, my_fork, Affichage
    <3>2. m.INT = INT_SYSC /\ m.RI = T[1]
      BY <1>3, <3>1 DEF ParentAlone, InTrap
    <3> QED
      BY <3>1, <3>2, ThreadCode
  <2>2. new_thread
    BY <1>3, <2>1 DEF systeme, Horloge, system_SYSC, my_exit, Sysc, send_thread_to_sleep,
       my_getchar, my_fork, Affichage, INT_SYSC, INT_CLOCK, SYSC_EXIT, SYSC_NEW_THREAD,
       SYSC_SLEEP, SYSC_GETCHAR, SYSC_FORK
  <2> QED
    BY <1>3, <2>2, ThreadMade
<1>4. CASE ChildFirst
  BY <1>4 DEF ChildFirst, systeme, Clavier, Arret, Horloge, system_SYSC, my_exit, new_thread, Sysc,
              send_thread_to_sleep, my_getchar, my_fork, Affichage
<1>5. CASE Shared /\ ~Clavier /\ ~Arret
  <2> DEFINE p == IF current_process = 1 THEN m ELSE process[1].cpu
             q == IF current_process = 2 THEN m ELSE process[2].cpu
  <2>1. /\ p = Context(1) /\ q = Context(2) /\ q.SB = SEGMENT_SIZE /\ q.PC \in 4 .. 7
        /\ process[1].state = READY /\ ~Asks(1) => Loads(p)
        /\ mem[SEGMENT_SIZE] = 4000 /\ CodeAfter(mem)
        /\ process[2].state = READY /\ process[1].state \in {READY, EMPTY}
        /\ \A i \in Slots : i > 2 => process[i].state = EMPTY
        /\ mode # "cpu" => tick = 0
    BY <1>5 DEF Threads, Shared, Context
  <2> HIDE DEF p, q
  <2>2. CASE Horloge
    <3>1. ordonnanceur(m, process, nbr_process_alive, nbr_process_sleeping) /\ mem' = mem /\ ~Asks(1)
      BY <2>2 DEF Horloge, Asks, INT_CLOCK, INT_SYSC
    <3> QED
      BY <1>1, <2>1, <3>1, ThreadsElects DEF p, q
  <2>3. ASSUME NEW arg, Sysc(arg)
        PROVE  /\ mode = "switch" /\ m.INT = INT_SYSC /\ m.RI.ARG = arg
               /\ current_process = 1 /\ Asks(1)
               /\ \/ m.PC = 13 /\ arg = SYSC_PUTI
                  \/ m.PC = 14 /\ arg = SYSC_EXIT
    <3>1. mode = "switch" /\ m.INT = INT_SYSC /\ m.RI.ARG = arg /\ InTrap
      BY <2>3 DEF Sysc, InTrap
    <3>2. current_process = 1
      BY <1>1, <1>5, <3>1 DEF Shared, INT_CLOCK, INT_SYSC, INT_HALT
    <3>3. Asks(1)
      BY <3>1, <3>2 DEF Asks
    <3> QED
      BY <1>5, <3>1, <3>2, <3>3, ThreadCode DEF Shared
  <2>4. CASE my_exit
    <3>1. current_process = 1 /\ mem' = mem
      BY <2>3, <2>4 DEF my_exit
    <3> DEFINE table == [process EXCEPT ![1].state = EMPTY]
    <3>2. ordonnanceur(m, table, Count(nbr_process_alive - 1), nbr_process_sleeping)
      BY <2>4, <3>1 DEF my_exit
    <3>3. /\ table \in [Slots -> ProcessEntry] /\ table[1].state = EMPTY
          /\ \A i \in Slots : i # 1 => table[i] = process[i]
      BY <1>1 DEF ProcessEntry
    <3> HIDE DEF table
    <3>4. /\ table[2] = process[2] /\ table[1].state # READY
          /\ \A i \in Slots : i > 2 => table[i].state = EMPTY
      BY <1>1, <2>1, <3>3, MachineAssumption DEF Slots, READY, EMPTY
    <3>5. q = (IF current_process = 2 THEN m ELSE table[2].cpu)
          /\ m = (IF current_process = 1 THEN m ELSE table[1].cpu)
      BY <3>1, <3>4 DEF q
    <3> QED
      BY <1>1, <2>1, <3>1, <3>2, <3>3, <3>4, <3>5, ThreadsElects
  <2>5. CASE Affichage
    <3>1. Sysc(m.RI.ARG) /\ m.RI.ARG # SYSC_EXIT
          /\ mode' = "cpu" /\ UNCHANGED <<m, process, current_process, mem>>
      BY <2>5 DEF Affichage, Sysc
    <3>2. current_process = 1 /\ m.PC = 13 /\ tick' = 0 /\ Asks(1)
      BY <2>1, <2>3, <3>1
    <3>3. m.SB = SEGMENT_SIZE /\ m.DR[0] = 0
      BY <1>5, <3>2 DEF Shared
    <3>4. Loads(Context(1))'
      BY <3>1, <3>2, <3>3 DEF Loads, Context
    <3>5. ~InTrap' /\ ~Asks(1)'
      BY <3>1 DEF InTrap, Asks
    <3>6. Context(2)' = Context(2)
      BY <3>1, <3>2 DEF Context
    <3>7. Shared'
      BY <2>1, <3>1, <3>2, <3>4, <3>5, <3>6 DEF Shared, CodeAfter
    <3> QED
      BY <2>1, <3>1, <3>7 DEF Threads
  <2>6. ~new_thread /\ ~my_getchar /\ ~my_fork /\ ~send_thread_to_sleep
    <3>1. ~Sysc(SYSC_NEW_THREAD) /\ ~Sysc(SYSC_GETCHAR) /\ ~Sysc(SYSC_FORK) /\ ~Sysc(SYSC_SLEEP)
      BY <2>3 DEF SYSC_EXIT, SYSC_FORK, SYSC_SLEEP, SYSC_PUTI, SYSC_NEW_THREAD, SYSC_GETCHAR
    <3> QED
      BY <3>1 DEF new_thread, my_getchar, my_fork, send_thread_to_sleep
  <2> QED
    BY <1>5, <2>2, <2>4, <2>5, <2>6 DEF systeme, system_SYSC
<1> QED
  BY <1>2, <1>3, <1>4, <1>5 DEF Threads

(* A process whose PC is at a known instruction. *)
LEMMA FetchesAt ==
  ASSUME SInv, mode = "cpu", cpu, m.PC \in 0 .. SEGMENT_SIZE - 1,
         NEW inst, Decode(mem[m.SB + m.PC]) = inst
  PROVE  Tick \/ Executes(inst)
<1>1. m \in PSW /\ m.SS = SEGMENT_SIZE /\ m.SB \in 0 .. MEM_SIZE - SEGMENT_SIZE
  BY AtCpu
<1>2. SEGMENT_SIZE \in Nat /\ MEM_SIZE \in Nat
  BY MachineAssumption
<1>3. InSegment(m, m.PC)
  BY <1>1, <1>2 DEF InSegment
<1>4. m.SB + m.PC = m.PC + m.SB
  BY <1>1, <1>2
<1> QED
  BY <1>1, <1>3, <1>4, CpuExecutes DEF Tick, Interrupt, counters

(* LOAD and STORE at the first word of the segment. *)
Moves(inst) ==
  /\ UNCHANGED <<process, current_process, nbr_process, mode>> /\ tick' = tick + 1
  /\ m'.SB = m.SB /\ m'.PC = m.PC + 1
  /\ inst.OP = INST_LOAD => mem' = mem /\ m'.DR = [m.DR EXCEPT ![inst.i] = mem[m.SB]]
  /\ inst.OP = INST_STORE => mem' = [mem EXCEPT ![m.SB] = m.DR[inst.i]] /\ m'.DR = m.DR

(* Their effects are these. *)
LEMMA MovesFirst ==
  ASSUME SInv, mode = "cpu", m.PC \in 0 .. SEGMENT_SIZE - 1, m.DR[0] = 0,
         NEW inst, Executes(inst), inst.j = 0, inst.ARG = 0,
         inst.OP \in {INST_LOAD, INST_STORE}
  PROVE  Moves(inst)
<1> USE DEF INST_ADD, INST_SUB, INST_CMP, INST_IFGT, INST_NOP, INST_JUMP, INST_HALT, INST_SYSC,
            INST_LOAD, INST_STORE
<1> DEFINE f == Fetched
<1>1. /\ m \in PSW /\ m.SS = SEGMENT_SIZE /\ m.SB \in 0 .. MEM_SIZE - SEGMENT_SIZE
      /\ SEGMENT_SIZE \in Nat /\ SEGMENT_SIZE >= 5 /\ MEM_SIZE \in Nat /\ m.INT # INT_SEGV
  BY AtCpu, SegmentHoldsIdle, MachineAssumption DEF SInv, NoStaleFault
<1>2. InSegment(m, m.PC)
  BY <1>1 DEF InSegment
<1>3. /\ f \in PSW /\ f.PC = m.PC /\ f.SB = m.SB /\ f.SS = m.SS /\ f.INT = m.INT
      /\ f.DR = m.DR /\ f.RI = inst
  BY <1>2, AtFetch DEF Executes
<1> HIDE DEF f
<1>4. Operand(f) = 0
  <2>1. Wrap(0) = 0
    BY SMT DEF Wrap, MaxWord, MinWord
  <2> HIDE DEF INST_ADD
  <2> QED
    BY <1>3, <2>1 DEF Operand
<1>5. InSegment(f, Operand(f)) /\ f.SB + Operand(f) = m.SB
  BY <1>1, <1>3, <1>4 DEF InSegment
<1>6. CASE inst.OP = INST_LOAD
  <2>1. LOAD
    BY <1>6 DEF Executes, KnownOps
  <2>2. cpu_LOAD(f, mem) = Assign(f, mem[m.SB])
    BY <1>5 DEF cpu_LOAD
  <2>3. /\ Assign(f, mem[m.SB]).INT = m.INT /\ Assign(f, mem[m.SB]).PC = m.PC + 1
        /\ Assign(f, mem[m.SB]).SB = m.SB
        /\ Assign(f, mem[m.SB]).DR = [m.DR EXCEPT ![inst.i] = mem[m.SB]]
    BY <1>3 DEF Assign, PSW
  <2>4. Continue(Assign(f, mem[m.SB]), mem)
    BY <1>1, <2>1, <2>2, <2>3 DEF LOAD, f
  <2> QED
    BY <1>6, <2>3, <2>4 DEF Continue, counters, Moves
<1>7. CASE inst.OP = INST_STORE
  <2>1. STORE
    BY <1>7 DEF Executes, KnownOps
  <2>2. /\ cpu_STORE(f) = [f EXCEPT !.AC = f.DR[f.RI.i], !.PC = @ + 1]
        /\ Stored(f, mem) = [mem EXCEPT ![m.SB] = m.DR[inst.i]]
    BY <1>3, <1>5 DEF cpu_STORE, Stored
  <2>3. /\ cpu_STORE(f).INT = m.INT /\ cpu_STORE(f).PC = m.PC + 1 /\ cpu_STORE(f).SB = m.SB
        /\ cpu_STORE(f).DR = m.DR
    BY <1>3, <2>2 DEF PSW
  <2>4. Continue(cpu_STORE(f), Stored(f, mem))
    BY <1>1, <2>1, <2>3 DEF STORE, f
  <2> QED
    BY <1>7, <2>2, <2>3, <2>4 DEF Continue, counters, Moves
<1> QED
  BY <1>6, <1>7

(* The store leaves the instructions that are still to run. *)
LEMMA StoreKeepsCode ==
  ASSUME SInv, Holds(mem, SEGMENT_SIZE, T), MAX_PROCESS >= 3, T \in Programs,
         mem' = [mem EXCEPT ![SEGMENT_SIZE] = 4000]
  PROVE  mem'[SEGMENT_SIZE] = 4000 /\ CodeAfter(mem')
<1>1. /\ mem \in [Addresses -> Word] /\ SEGMENT_SIZE \in Nat /\ SEGMENT_SIZE >= 14
      /\ Len(T) = 14 /\ MEM_SIZE \in Nat /\ SEGMENT_SIZE <= MEM_SIZE - SEGMENT_SIZE
  <2>1. SEGMENT_SIZE \in 0 .. MEM_SIZE - SEGMENT_SIZE
    BY Sizes, SlotsFinite, MachineAssumption
  <2>2. Len(T) <= SEGMENT_SIZE
    BY SimulAssumption
  <2> QED
    BY <2>1, <2>2, ThreadCode, MachineAssumption DEF SInv, IInv, TypeOK
<1>2. SEGMENT_SIZE \in Addresses
  BY <1>1 DEF Addresses
<1>3. ASSUME NEW k \in 2 .. 14 PROVE Decode(mem'[SEGMENT_SIZE + k - 1]) = T[k]
  <2>1. SEGMENT_SIZE + k - 1 # SEGMENT_SIZE /\ SEGMENT_SIZE + k - 1 \in Addresses /\ k \in 1 .. 14
    BY <1>1 DEF Addresses
  <2> QED
    BY <1>1, <2>1 DEF Holds
<1> QED
  BY <1>1, <1>2, <1>3 DEF CodeAfter

(* Each instruction of the parent before the thread, *)
LEMMA ParentAloneRuns ==
  ASSUME MAX_PROCESS >= 3, SInv, Booted, T \in Programs, Threads, ParentAlone, mode = "cpu", cpu
  PROVE  Threads'
<1>1. m \in PSW /\ Len(T) = 14 /\ 2 \in Slots
  BY ThreadsFacts, BootedFacts, ThreadCode
<1>2. current_process = 1 /\ tick = 0 /\ m.PC = 0 /\ m.SB = SEGMENT_SIZE /\ Holds(mem, m.SB, T)
  BY DEF ParentAlone
<1>3. Executes(T[1])
  <2>1. ~Tick
    BY <1>2, MachineAssumption DEF Tick
  <2>2. 0 \in 0 .. Len(T) - 1 /\ 0 + 1 = 1
    BY <1>1
  <2> QED
    BY <1>2, <2>1, <2>2, Fetches
<1>4. /\ UNCHANGED <<process, current_process, mem>> /\ m'.SB = m.SB /\ m'.DR = m.DR
      /\ m'.PC = 1 /\ m'.INT = INT_SYSC /\ m'.RI = T[1] /\ mode' = "systeme" /\ tick' = 0
  <2>1. Effects(T[1])
    BY <1>1, <1>3, ThreadCode, ExecutedEffects
  <2> QED
    BY <1>2, <2>1, ThreadCode DEF Effects, INST_SYSC, INST_SUB
<1>5. Holds(mem, SEGMENT_SIZE, T)'
  BY <1>2, <1>4 DEF Holds
<1>6. ParentAlone'
  BY <1>2, <1>4, <1>5 DEF ParentAlone
<1>7. process[1].state = READY
  BY <1>2, BootedFacts
<1> QED
  BY <1>4, <1>6, <1>7 DEF Threads

(* of the thread in its first slice, *)
LEMMA ChildFirstRuns ==
  ASSUME MAX_PROCESS >= 3, CPU_CLOCK >= 3, SInv, Booted, T \in Programs, Threads, ChildFirst,
         cpu
  PROVE  Threads'
<1>1. /\ m \in PSW /\ Len(T) = 14 /\ 1 \in Slots /\ 2 \in Slots /\ Registers = 0 .. 7
      /\ \A i \in Slots : i > 2 => process[i].state = EMPTY
  BY ThreadsFacts, BootedFacts, ThreadCode DEF Threads
<1>2. /\ current_process = 2 /\ mode = "cpu" /\ m.SB = SEGMENT_SIZE /\ Holds(mem, m.SB, T)
      /\ m.DR[0] = 0 /\ process[1].state = READY /\ process[2].state = READY
      /\ process[1].cpu.PC = 1 /\ Loads(process[1].cpu)
      /\ \/ tick = 0 /\ m.PC = 1 /\ m.AC = 0 /\ m.DR[3] = 0
         \/ tick = 1 /\ m.PC = 2 /\ m.DR[3] = 0
         \/ tick = 2 /\ m.PC = 3 /\ m.DR[3] = 4000
  BY DEF ChildFirst
<1>3. Executes(T[m.PC + 1])
  <2>1. ~Tick
    BY <1>2, MachineAssumption DEF Tick
  <2>2. m.PC \in 0 .. Len(T) - 1
    BY <1>1, <1>2
  <2> QED
    BY <1>2, <2>1, <2>2, Fetches
<1>4. ASSUME UNCHANGED <<process, current_process, mem, mode>>, m'.SB = m.SB, m'.DR[0] = 0,
             \/ tick' = 1 /\ m'.PC = 2 /\ m'.DR[3] = 0
             \/ tick' = 2 /\ m'.PC = 3 /\ m'.DR[3] = 4000
      PROVE  Threads'
  <2>1. Holds(mem, SEGMENT_SIZE, T)'
    BY <1>2, <1>4 DEF Holds
  <2>2. Loads(process[1].cpu)'
    BY <1>2, <1>4 DEF Loads
  <2>3. ChildFirst'
    BY <1>2, <1>4, <2>1, <2>2 DEF ChildFirst
  <2> QED
    BY <1>1, <1>2, <1>4, <2>3 DEF Threads
<1>5. CASE m.PC = 1
  <2>1. Executes(T[2])
    <3>1. m.PC + 1 = 2
      BY <1>5
    <3> QED
      BY <1>3, <3>1
  <2>2. Effects(T[2])
    BY <1>1, <2>1, ThreadCode, ExecutedEffects
  <2>3. /\ UNCHANGED <<process, current_process, mem, mode>> /\ m'.SB = m.SB /\ m'.DR = m.DR
        /\ m'.PC = 2 /\ tick' = 1
    BY <1>2, <1>5, <2>2, ThreadCode DEF Effects, INST_IFGT, INST_SUB, INST_SYSC, INST_HALT
  <2> QED
    BY <1>2, <1>4, <1>5, <2>3
<1>6. CASE m.PC = 2
  <2>1. Executes(T[3])
    <3>1. m.PC + 1 = 3
      BY <1>6
    <3> QED
      BY <1>3, <3>1
  <2>2. Effects(T[3])
    BY <1>1, <2>1, ThreadCode, ExecutedEffects
  <2>3. /\ UNCHANGED <<process, current_process, mem, mode>> /\ m'.SB = m.SB
        /\ m'.PC = 3 /\ tick' = 2
        /\ m'.DR = [m.DR EXCEPT ![3] = Wrap(m.DR[3] - Wrap(m.DR[3] + -4000))]
    BY <1>2, <1>6, <2>2, ThreadCode DEF Effects, INST_IFGT, INST_SUB, INST_SYSC, INST_HALT
  <2>4. Wrap(0 - Wrap(0 + -4000)) = 4000
    BY SMT DEF Wrap, MaxWord, MinWord
  <2>5. m'.DR[0] = 0 /\ m'.DR[3] = 4000
    <3>1. m.DR \in [Registers -> Word] /\ m.DR[3] = 0
      BY <1>1, <1>2, <1>6 DEF PSW
    <3> HIDE DEF Word
    <3> QED
      BY <1>1, <1>2, <2>3, <2>4, <3>1
  <2> QED
    BY <1>4, <2>3, <2>5
<1>7. CASE m.PC = 3
  <2>1. Executes(T[4])
    <3>1. m.PC + 1 = 4
      BY <1>7
    <3> QED
      BY <1>3, <3>1
  <2>2. m.PC \in 0 .. SEGMENT_SIZE - 1
    <3>1. Len(T) <= SEGMENT_SIZE /\ SEGMENT_SIZE \in Nat
      BY SimulAssumption, MachineAssumption
    <3> QED
      BY <1>1, <1>7, <3>1
  <2>3. /\ UNCHANGED <<process, current_process, mode>> /\ m'.SB = m.SB /\ m'.PC = 4
        /\ mem' = [mem EXCEPT ![SEGMENT_SIZE] = 4000]
    <3>1. m.DR[0] = 0 /\ m.DR[3] = 4000 /\ m.SB = SEGMENT_SIZE /\ mode = "cpu"
      BY <1>2, <1>7
    <3> DEFINE inst == T[4]
    <3>2. inst.OP = INST_STORE /\ inst.i = 3 /\ inst.j = 0 /\ inst.ARG = 0 /\ Executes(inst)
      BY <2>1, ThreadCode
    <3> HIDE DEF inst
    <3>3. /\ UNCHANGED <<process, current_process, mode>> /\ m'.SB = m.SB /\ m'.PC = m.PC + 1
          /\ mem' = [mem EXCEPT ![m.SB] = m.DR[inst.i]]
      <4>1. Moves(inst)
        BY <2>2, <3>1, <3>2, MovesFirst
      <4> QED
        BY <3>2, <4>1 DEF Moves
    <3> QED
      BY <1>7, <3>1, <3>2, <3>3
  <2>4. mem'[SEGMENT_SIZE] = 4000 /\ CodeAfter(mem')
    BY <1>2, <2>3, StoreKeepsCode
  <2>5. ~InTrap' /\ ~Asks(1)' /\ mode' = "cpu"
    BY <1>2, <2>3 DEF InTrap, Asks
  <2>6. Context(1)' = process[1].cpu /\ Context(2)' = m' /\ Loads(Context(1))'
    BY <1>2, <2>3 DEF Context, Loads
  <2>7. CodeAfter(mem)'
    BY <2>4 DEF CodeAfter
  <2>8. Shared'
    BY <1>2, <2>3, <2>4, <2>5, <2>6, <2>7 DEF Shared
  <2> QED
    BY <1>1, <2>3, <2>8 DEF Threads
<1> QED
  BY <1>2, <1>5, <1>6, <1>7

(* and of all three processes once it has stored, keeps it. *)
LEMMA SharedRuns ==
  ASSUME MAX_PROCESS >= 3, SInv, Booted, T \in Programs, Threads, Shared, mode = "cpu", cpu
  PROVE  Threads'
<1>1. /\ current_process \in {0, 1, 2} /\ m \in PSW /\ Registers = 0 .. 7
      /\ \A i \in Slots : i > 2 => process[i].state = EMPTY
      /\ process[current_process].state = READY /\ process[2].state = READY
      /\ process[1].state \in {READY, EMPTY}
  BY ThreadsFacts, BootedFacts DEF Threads, Shared
<1>2. /\ mem[SEGMENT_SIZE] = 4000 /\ CodeAfter(mem)
      /\ Context(2).SB = SEGMENT_SIZE /\ Context(2).PC \in 4 .. 7
      /\ process[1].state = READY => Loads(Context(1))
  BY DEF Shared, Asks, InTrap
<1>3. ASSUME UNCHANGED <<process, current_process, mem>>, mode' # "cpu" => tick' = 0,
             Context(2)'.SB = SEGMENT_SIZE, Context(2)'.PC \in 4 .. 7,
             current_process = 2 /\ InTrap' => m'.INT \in {INT_CLOCK, INT_HALT},
             current_process = 1 /\ InTrap' => m'.INT \in {INT_CLOCK, INT_SYSC},
             \/ ~Asks(1)' /\ (process[1].state = READY => Loads(Context(1))')
             \/ /\ m'.SB = SEGMENT_SIZE /\ m'.DR[0] = 0
                /\ \/ m'.PC = 13 /\ m'.RI = T[13]
                   \/ m'.PC = 14 /\ m'.RI = T[14]
                /\ Asks(1)'
      PROVE  Threads'
  <2>1. mem'[SEGMENT_SIZE] = 4000 /\ CodeAfter(mem)'
    BY <1>2, <1>3 DEF CodeAfter
  <2>2. Shared'
    BY <1>1, <1>3, <2>1 DEF Shared
  <2> QED
    BY <1>1, <1>3, <2>2 DEF Threads
<1>4. ASSUME m.SB = SEGMENT_SIZE, m.PC \in {1, 4, 5, 6, 7, 11, 12, 13}
      PROVE  /\ Tick \/ Executes(T[m.PC + 1])
             /\ m.PC \in 0 .. SEGMENT_SIZE - 1
  <2>1. m.PC \in 0 .. SEGMENT_SIZE - 1
    <3>1. Len(T) <= SEGMENT_SIZE /\ SEGMENT_SIZE \in Nat
      BY SimulAssumption, MachineAssumption
    <3>2. Len(T) = 14
      BY ThreadCode
    <3> QED
      BY <1>4, <3>1, <3>2
  <2>2. Decode(mem[m.SB + m.PC]) = T[m.PC + 1]
    <3>1. m.PC + 1 \in 2 .. 14 /\ SEGMENT_SIZE + (m.PC + 1) - 1 = m.SB + m.PC
      BY <1>4, MachineAssumption
    <3> QED
      BY <1>2, <3>1 DEF CodeAfter
  <2> QED
    BY <2>1, <2>2, FetchesAt
<1>5. ASSUME Tick
      PROVE  /\ UNCHANGED <<process, current_process, mem>> /\ tick' = 0 /\ m'.INT = INT_CLOCK
             /\ m'.PC = m.PC /\ m'.SB = m.SB /\ m'.DR = m.DR /\ m'.AC = m.AC
  BY <1>1, <1>5 DEF Tick, PSW
<1>6. CASE current_process = 0
  <2>1. UNCHANGED <<process, current_process, mem>> /\ (mode' # "cpu" => tick' = 0)
    BY <1>6, IdleRuns
  <2>2. ~Asks(1)' /\ Context(1)' = Context(1) /\ Context(2)' = Context(2)
    BY <1>6, <2>1 DEF Asks, Context
  <2>3. process[1].state = READY => Loads(Context(1))'
    BY <1>2, <2>2 DEF Loads
  <2> QED
    BY <1>2, <1>3, <1>6, <2>1, <2>2, <2>3
<1>7. CASE current_process = 1
  <2>1. /\ m.SB = SEGMENT_SIZE /\ m.DR[0] = 0 /\ m.PC \in {1, 11, 12, 13}
        /\ m.PC = 1 => m.AC > 0
        /\ m.PC = 12 => m.DR[2] = 4000
    BY <1>1, <1>2, <1>7 DEF Context, Loads
  <2>2. Tick \/ Executes(T[m.PC + 1])
    BY <1>4, <2>1
  <2>3. UNCHANGED <<process, current_process>> => Context(1)' = m' /\ Context(2)' = Context(2)
    BY <1>7 DEF Context
  <2>4. CASE Tick
    <3>1. ~Asks(1)'
      BY <1>5, <2>4 DEF Asks, INT_CLOCK, INT_SYSC
    <3>2. Loads(Context(1))'
      BY <1>5, <2>1, <2>3, <2>4 DEF Loads
    <3> QED
      BY <1>2, <1>3, <1>5, <1>7, <2>3, <2>4, <3>1, <3>2
  <2>5. ASSUME UNCHANGED <<process, current_process, mem>>, mode' = "cpu",
               m'.SB = SEGMENT_SIZE, m'.DR[0] = 0,
               m'.PC = 11 \/ (m'.PC = 12 /\ m'.DR[2] = 4000)
        PROVE  Threads'
    <3>1. ~InTrap' /\ ~Asks(1)'
      BY <2>5 DEF InTrap, Asks
    <3>2. Loads(Context(1))'
      BY <2>3, <2>5 DEF Loads
    <3> QED
      BY <1>2, <1>3, <2>3, <2>5, <3>1, <3>2
  <2>6. CASE Executes(T[m.PC + 1]) /\ m.PC = 1
    <3>1. Executes(T[2])
      <4>1. m.PC + 1 = 2
        BY <2>6
      <4> QED
        BY <2>6, <4>1
    <3>2. Effects(T[2])
      BY <1>1, <3>1, ThreadCode, ExecutedEffects
    <3>3. /\ UNCHANGED <<process, current_process, mem, mode>> /\ m'.SB = m.SB /\ m'.DR = m.DR
          /\ m'.PC = 11
      BY <2>1, <2>6, <3>2, ThreadCode DEF Effects, INST_IFGT, INST_SUB, INST_SYSC, INST_HALT
    <3> QED
      BY <2>1, <2>5, <3>3
  <2>7. CASE Executes(T[m.PC + 1]) /\ m.PC = 11
    <3>1. Executes(T[12])
      <4>1. m.PC + 1 = 12
        BY <2>7
      <4> QED
        BY <2>7, <4>1
    <3>2. T[12].OP = INST_LOAD /\ T[12].i = 2 /\ T[12].j = 0 /\ T[12].ARG = 0
      BY ThreadCode
    <3>3. m.PC \in 0 .. SEGMENT_SIZE - 1
      BY <1>4, <2>1
    <3>4. /\ UNCHANGED <<process, current_process, mem, mode>> /\ m'.SB = m.SB /\ m'.PC = m.PC + 1
          /\ m'.DR = [m.DR EXCEPT ![T[12].i] = mem[m.SB]]
      <4>1. Moves(T[12])
        BY <2>1, <3>1, <3>2, <3>3, MovesFirst
      <4> QED
        BY <3>2, <4>1 DEF Moves
    <3>5. m'.DR[0] = 0 /\ m'.DR[2] = 4000
      <4>1. m.DR \in [Registers -> Word] /\ 0 \in Registers /\ 2 \in Registers
        BY <1>1 DEF PSW
      <4> QED
        BY <1>2, <2>1, <3>2, <3>4, <4>1
    <3> QED
      BY <2>1, <2>5, <2>7, <3>4, <3>5
  <2>8. CASE Executes(T[m.PC + 1]) /\ m.PC \in {12, 13}
    <3> DEFINE inst == T[m.PC + 1]
    <3>1. inst.OP = INST_SYSC /\ (m.PC = 12 => inst = T[13]) /\ (m.PC = 13 => inst = T[14])
      BY <2>8, ThreadCode
    <3>2. Executes(inst)
      BY <2>8
    <3> HIDE DEF inst
    <3>3. Effects(inst)
      BY <1>1, <3>1, <3>2, ExecutedEffects
    <3>4. /\ UNCHANGED <<process, current_process, mem>> /\ m'.SB = m.SB /\ m'.DR = m.DR
          /\ m'.PC = m.PC + 1 /\ m'.INT = INT_SYSC /\ m'.RI = inst /\ mode' = "systeme" /\ tick' = 0
      BY <3>1, <3>3 DEF Effects, INST_SYSC, INST_SUB
    <3>5. Asks(1)'
      BY <1>7, <3>4 DEF Asks, InTrap
    <3>6. \/ m'.PC = 13 /\ m'.RI = T[13]
          \/ m'.PC = 14 /\ m'.RI = T[14]
      BY <2>8, <3>1, <3>4
    <3> QED
      BY <1>2, <1>3, <1>7, <2>1, <2>3, <3>4, <3>5, <3>6
  <2> QED
    BY <2>1, <2>2, <2>4, <2>6, <2>7, <2>8
<1>8. CASE current_process = 2
  <2>1. m.SB = SEGMENT_SIZE /\ m.PC \in {4, 5, 6, 7}
    BY <1>2, <1>8 DEF Context
  <2>2. Tick \/ Executes(T[m.PC + 1])
    BY <1>4, <2>1
  <2>3. ASSUME UNCHANGED <<process, current_process, mem>>
        PROVE  /\ Context(1)' = Context(1) /\ Context(2)' = m' /\ ~Asks(1)'
               /\ process[1].state = READY => Loads(Context(1))'
    <3>1. Context(1)' = Context(1) /\ Context(2)' = m' /\ ~Asks(1)'
      BY <1>8, <2>3 DEF Context, Asks
    <3> QED
      BY <1>2, <3>1 DEF Loads
  <2>4. CASE Tick
    BY <1>3, <1>5, <1>8, <2>1, <2>3, <2>4
  <2>5. CASE Executes(T[m.PC + 1])
    <3> DEFINE inst == T[m.PC + 1]
    <3>1. /\ inst.OP \in {INST_NOP, INST_HALT}
          /\ m.PC = 7 <=> inst.OP = INST_HALT
      BY <2>1, ThreadCode DEF INST_NOP, INST_HALT
    <3>2. Executes(inst)
      BY <2>5
    <3> HIDE DEF inst
    <3>3. Effects(inst)
      BY <1>1, <3>1, <3>2, ExecutedEffects
    <3>4. CASE inst.OP = INST_HALT
      <4>1. /\ UNCHANGED <<process, current_process, mem>> /\ m'.SB = m.SB /\ m'.PC = m.PC
            /\ m'.INT = INT_HALT /\ mode' = "systeme" /\ tick' = 0
        BY <3>3, <3>4 DEF Effects
      <4> QED
        BY <1>3, <1>8, <2>1, <2>3, <4>1
    <3>5. CASE inst.OP = INST_NOP
      <4>1. /\ UNCHANGED <<process, current_process, mem, mode>> /\ m'.SB = m.SB
            /\ m'.PC = m.PC + 1
        BY <3>3, <3>5 DEF Effects, INST_NOP, INST_HALT, INST_SYSC
      <4>2. ~InTrap' /\ m'.PC \in 4 .. 7
        BY <2>1, <3>1, <3>5, <4>1 DEF InTrap, INST_NOP, INST_HALT
      <4> QED
        BY <1>3, <1>8, <2>1, <2>3, <4>1, <4>2
    <3> QED
      BY <3>1, <3>4, <3>5
  <2> QED
    BY <2>2, <2>4, <2>5
<1> QED
  BY <1>1, <1>6, <1>7, <1>8

(* While it runs the test of threads, the simulator is in one of the three *)
(* phases.                                                                 *)
LEMMA ThreadsInvariant ==
  ASSUME MAX_PROCESS >= 3, CPU_CLOCK >= 3
  PROVE  Spec => [](SInv /\ OneThread)
<1>1. Init => OneThread
  <2>1. 1 \in Slots
    BY MachineAssumption DEF Slots
  <2> QED
    BY <2>1 DEF Init, NoyauInit, OneThread, Booted, ZeroPSW
<1>2. SInv /\ OneThread /\ [Next]_vars => OneThread'
  <2> SUFFICES ASSUME SInv, OneThread, [Next]_vars, program' = T PROVE OneThread'
    BY DEF OneThread
  <2>1. CASE ~Booted
    <3>1. CASE Demarrage
      <4>1. program' = program
        BY <3>1 DEF Demarrage
      <4>2. nbr_process = 0 /\ tick = 0 /\ process[1].cpu.DR = [r \in Registers |-> 0]
        BY <2>1, <4>1 DEF OneThread
      <4>3. /\ current_process' = 1 /\ mode' = "cpu" /\ m'.PC = 0 /\ m'.SB = SEGMENT_SIZE
            /\ m'.DR = process[1].cpu.DR /\ tick' = tick
            /\ process'[1].state = READY /\ \A i \in Slots : i > 1 => process'[i].state = EMPTY
            /\ Holds(mem, SEGMENT_SIZE, T)'
        BY <3>1, <4>1, <4>2, Boots DEF Holds
      <4>4. m'.DR[0] = 0 /\ m'.DR[3] = 0
        BY <4>2, <4>3, SimulAssumption
      <4>5. process'[2].state = EMPTY /\ \A i \in Slots : i > 2 => process'[i].state = EMPTY
        BY <4>3, MachineAssumption DEF Slots
      <4>6. ParentAlone'
        BY <4>2, <4>3, <4>4, <4>5 DEF ParentAlone, InTrap
      <4>7. Threads'
        BY <4>3, <4>5, <4>6 DEF Threads
      <4> QED
        BY <4>3, <4>7 DEF OneThread, Booted
    <3>2. CASE UNCHANGED <<current_process, nbr_process, tick, program, process>>
      BY <2>1, <3>2 DEF OneThread, Booted
    <3> QED
      BY <2>1, <3>1, <3>2, BeforeBoot
  <2>2. CASE Booted
    <3>1. /\ program' = program /\ Booted'
          /\ \/ systeme /\ tick' = tick
             \/ mode = "cpu" /\ cpu
             \/ /\ tick' = tick
                /\ (\E i \in Slots : Reveille(i)) \/ Touche \/ UNCHANGED noyau
      BY <2>2, AfterBoot
    <3>2. Threads /\ T \in Programs
      BY <2>2, <3>1 DEF OneThread, SInv
    <3>3. CASE systeme /\ tick' = tick
      BY <2>2, <3>1, <3>2, <3>3, ThreadsHandles DEF OneThread
    <3>4. CASE mode = "cpu" /\ cpu
      <4>1. Threads'
        BY <2>2, <3>2, <3>4, ParentAloneRuns, ChildFirstRuns, SharedRuns DEF Threads
      <4> QED
        BY <3>1, <4>1 DEF OneThread
    <3>5. CASE tick' = tick /\ ((\E i \in Slots : Reveille(i)) \/ Touche \/ UNCHANGED noyau)
      <4>1. Quiet
        BY <2>2, <3>2, <3>5, ThreadsFacts, QuietSteps
      <4> QED
        BY <2>2, <3>1, <3>2, <4>1, ThreadsQuiet DEF OneThread
    <3> QED
      BY <3>1, <3>3, <3>4, <3>5
  <2> QED
    BY <2>1, <2>2
<1>3. SInv /\ [Next]_vars => SInv'
  BY SimulStep
<1> QED
  BY <1>1, <1>2, <1>3, InitSInv, PTL DEF Spec

(* With a third slot and a slice of three instructions, the code's values, *)
(* the parent of the test of threads loads what the thread has stored: the *)
(* thread is elected as soon as it is made, and its slice is just long     *)
(* enough for the store.  With a shorter slice it is false.                *)
THEOREM ThreadProgramSafe ==
  ASSUME MAX_PROCESS >= 3, CPU_CLOCK >= 3
  PROVE  Spec => []ParentLoads4000
<1>1. SInv /\ OneThread => ParentLoads4000
  <2> SUFFICES ASSUME SInv, OneThread, program = T, At(1, 12) PROVE m.DR[2] = 4000
    BY DEF ParentLoads4000, T
  <2>1. mode = "cpu" /\ current_process = 1 /\ m.PC = 12
    BY DEF At
  <2>2. Booted /\ Threads
    BY <2>1 DEF OneThread, Booted
  <2>3. process[1].state = READY
    BY <2>1, <2>2, BootedFacts
  <2>4. Shared
    BY <2>1, <2>2 DEF Threads, ParentAlone, ChildFirst
  <2>5. Loads(m)
    BY <2>1, <2>3, <2>4 DEF Shared, Asks, InTrap, Context
  <2> QED
    BY <2>1, <2>5 DEF Loads
<1> QED
  BY <1>1, ThreadsInvariant, PTL
=============================================================================
