------------------------------- MODULE Noyau -------------------------------
(***************************************************************************)
(* The kernel of systeme.c: the process table, its counters, the keyboard, *)
(* and one action per interrupt and system call that systeme() handles.    *)
(* There is no Next here: Systeme composes these actions with arbitrary    *)
(* user programs, Simul with the processor of cpu.c and the programs that  *)
(* systeme.c can load.                                                     *)
(*                                                                         *)
(* One thread runs  while (1) { mep = systeme(mep); mep = cpu(mep); }.     *)
(* mode is where that loop is:                                             *)
(*    "systeme"  entering systeme(), before its keyboard test              *)
(*    "switch"   at its switch on m.IN                                     *)
(*    "cpu"      in cpu()                                                  *)
(*    "arret"    the simulator called exit()                               *)
(*    "wild"     the kernel wrote process[-1] (undefined behaviour): the   *)
(*               states that follow are anything, none is explored         *)
(* Time is kept as what the code asks of it: due is wake_up <= time(NULL)  *)
(* of a sleeping process, frappe is prochain_appel <= time(NULL).          *)
(***************************************************************************)
EXTENDS Machine, FiniteSets

CONSTANT INT_LIMIT   \* the counters are ints, -INT_LIMIT .. INT_LIMIT - 1

ASSUME NoyauAssumption == INT_LIMIT \in Nat /\ INT_LIMIT > MAX_PROCESS

VARIABLES
  mode,                  \* where the main loop is
  m,                     \* its PSW, mep in simul.c and m in systeme() and cpu()
  process,               \* the process table
  current_process,
  nbr_process_alive,
  nbr_process_sleeping,
  nbr_in_getchar,
  nbr_process,
  tampon,                \* the one-character keyboard buffer, 0 when empty
  frappe,                \* a keystroke is due
  mem

counters == <<nbr_process_alive, nbr_process_sleeping, nbr_in_getchar, nbr_process>>
noyau == <<mode, m, process, current_process, counters, tampon, frappe, mem>>

caractere == 97   \* 'a'

Count(n) == IF n >= INT_LIMIT THEN n - 2 * INT_LIMIT
            ELSE IF n < -INT_LIMIT THEN n + 2 * INT_LIMIT
            ELSE n

InState(s) == {i \in Slots : process[i].state = s}

Lowest(i, S) == i \in S /\ \A j \in S : i <= j

(* process, the counters, tampon and mem are zero before main(); of mep    *)
(* only IN is set, the other fields are not read before they are.          *)
NoyauInit ==
  /\ mode = "systeme"
  /\ m = [ZeroPSW EXCEPT !.INT = INT_INIT]
  /\ process = [i \in Slots |-> [cpu |-> ZeroPSW, state |-> EMPTY, due |-> FALSE]]
  /\ current_process = -1
  /\ nbr_process_alive = 0
  /\ nbr_process_sleeping = 0
  /\ nbr_in_getchar = 0
  /\ nbr_process = 0
  /\ tampon = 0
  /\ frappe = FALSE
  /\ mem = [a \in Addresses |-> 0]

-----------------------------------------------------------------------------
(* Mutant: nbr_process is read before it counts idle. *)
BootBaseBefore(i) == 0

(* nbr_process * SEGMENT_SIZE when slot i is filled. *)
BootBase(i) == i * SEGMENT_SIZE

(* Boot: the idle process in slot 0, a program in slot 1; image is what    *)
(* the calls of make_inst leave in memory.                                 *)
systeme_init(image) ==
  /\ mode = "systeme"
  /\ m.INT = INT_INIT
  /\ process' = [i \in Slots |->
       IF i <= 1
       THEN [process[i] EXCEPT !.cpu.PC = 0, !.cpu.SB = BootBase(i),
                               !.cpu.SS = SEGMENT_SIZE, !.state = READY]
       ELSE [process[i] EXCEPT !.state = EMPTY]]
  /\ nbr_process_alive' = Count(nbr_process_alive + 2)
  /\ nbr_process' = Count(nbr_process + 2)
  /\ current_process' = 1
  /\ m' = process'[1].cpu
  /\ mem' = image
  /\ frappe' = FALSE
  /\ mode' = "cpu"
  /\ UNCHANGED <<nbr_process_sleeping, nbr_in_getchar, tampon>>

(* Mutant: the register that the running process names. *)
DeliveredElsewhere(i) ==
  [process EXCEPT ![i].state = READY, ![i].cpu.DR[m.RI.i] = caractere]

(* The character in the register that the waiting call names. *)
Delivered(i) ==
  [process EXCEPT ![i].state = READY, ![i].cpu.DR[process[i].cpu.RI.i] = caractere]

(* Mutant: no return once a waiter is served. *)
frappe_clavier_falls_through ==
  /\ tampon' = caractere
  /\ IF nbr_in_getchar = 0 THEN UNCHANGED <<process, nbr_in_getchar, nbr_process_alive>>
     ELSE /\ \E i \in Slots : Lowest(i, InState(GETCHAR)) /\ process' = Delivered(i)
          /\ nbr_in_getchar' = nbr_in_getchar - 1
          /\ nbr_process_alive' = Count(nbr_process_alive + 1)

(* Mutant: the buffer first, waiters or not. *)
frappe_clavier_buffers ==
  tampon' = caractere /\ UNCHANGED <<process, nbr_in_getchar, nbr_process_alive>>

(* What frappe_clavier() does: the lowest waiting process has its register *)
(* and is ready again, or the character goes to the buffer.                *)
frappe_clavier ==
  \/ /\ nbr_in_getchar # 0
     /\ \E i \in Slots : Lowest(i, InState(GETCHAR)) /\ process' = Delivered(i)
     /\ nbr_in_getchar' = nbr_in_getchar - 1
     /\ nbr_process_alive' = Count(nbr_process_alive + 1)
     /\ UNCHANGED tampon
  \/ /\ nbr_in_getchar = 0 \/ InState(GETCHAR) = {}
     /\ tampon' = caractere
     /\ UNCHANGED <<process, nbr_in_getchar, nbr_process_alive>>

(* Entering systeme(): the keyboard first, then the switch. *)
Clavier ==
  /\ mode = "systeme"
  /\ m.INT # INT_INIT
  /\ mode' = "switch"
  /\ \/ frappe /\ frappe_clavier
     \/ ~frappe /\ UNCHANGED <<process, nbr_in_getchar, nbr_process_alive, tampon>>
  /\ frappe' = FALSE
  /\ UNCHANGED <<m, current_process, nbr_process_sleeping, nbr_process, mem>>

-----------------------------------------------------------------------------
(* ordonnanceur(psw), called with a process table and two counters that    *)
(* the handler has already changed: wake the sleepers whose time has come, *)
(* save psw, pick the next READY slot after the current one, round robin.  *)
\* Mutant: the early return is taken with one sleeper too.
WakeableOffByOne(table, sleeping) ==
  IF sleeping <= 1 THEN {}
  ELSE {i \in Slots : table[i].state = SLEEP /\ table[i].due}

Wakeable(table, sleeping) ==
  IF sleeping = 0 THEN {}
  ELSE {i \in Slots : table[i].state = SLEEP /\ table[i].due}

\* Mutant: counted as awake but left in SLEEP.
reveil_without_ready(table, sleeping) == table

\* Mutant: every sleeper is made ready, the due ones are counted.
reveil_early(table, sleeping) ==
  [i \in Slots |-> IF sleeping # 0 /\ table[i].state = SLEEP
                   THEN [table[i] EXCEPT !.state = READY, !.due = FALSE]
                   ELSE table[i]]

reveil(table, sleeping) ==
  [i \in Slots |-> IF i \in Wakeable(table, sleeping)
                   THEN [table[i] EXCEPT !.state = READY, !.due = FALSE]
                   ELSE table[i]]

(* Mutant: while instead of do-while, the current slot comes first. *)
BeforeCurrentFirst(i) == {(current_process + k) % MAX_PROCESS :
                            k \in 0 .. ((i - current_process) % MAX_PROCESS) - 1}

(* Mutant: every search starts at slot 0. *)
BeforeFromZero(i) == 0 .. i - 1

(* Slots the do-while visits before i. *)
Before(i) == {(current_process + k) % MAX_PROCESS :
                k \in 1 .. (i - current_process - 1) % MAX_PROCESS}

ordonnanceur(psw, table, alive, sleeping) ==
  LET woken == Cardinality(Wakeable(table, sleeping))
  IN  /\ process' = [reveil(table, sleeping) EXCEPT ![current_process].cpu = psw]
      /\ nbr_process_alive' = Count(alive + woken)
      /\ nbr_process_sleeping' = sleeping - woken
      /\ \E next \in Slots :
           /\ process'[next].state = READY
           /\ \A i \in Before(next) : process'[i].state # READY
           /\ current_process' = next
           /\ m' = process'[next].cpu
      /\ mode' = "cpu"

-----------------------------------------------------------------------------
(* INT_SEGV, INT_INST and INT_HALT end the simulator. *)
Arret ==
  /\ mode = "switch"
  /\ m.INT \in {INT_SEGV, INT_INST, INT_HALT}
  /\ mode' = "arret"
  /\ UNCHANGED <<m, process, current_process, counters, tampon, frappe, mem>>

Horloge ==
  /\ mode = "switch"
  /\ m.INT = INT_CLOCK
  /\ ordonnanceur(m, process, nbr_process_alive, nbr_process_sleeping)
  /\ UNCHANGED <<nbr_in_getchar, nbr_process, tampon, frappe, mem>>

Sysc(arg) == mode = "switch" /\ m.INT = INT_SYSC /\ m.RI.ARG = arg

(* find_first_empty() gave -1 and process[-1] is written. *)
Wild ==
  /\ mode' = "wild"
  /\ UNCHANGED <<m, process, current_process, counters, tampon, frappe, mem>>

\* Mutant: the slot is freed, the process still counted.
my_exit_uncounted ==
  /\ Sysc(SYSC_EXIT)
  /\ ordonnanceur(m, [process EXCEPT ![current_process].state = EMPTY],
                  Count(nbr_process_alive - 1), nbr_process_sleeping)
  /\ UNCHANGED <<nbr_in_getchar, nbr_process, tampon, frappe, mem>>

my_exit ==
  /\ Sysc(SYSC_EXIT)
  /\ ordonnanceur(m, [process EXCEPT ![current_process].state = EMPTY],
                  Count(nbr_process_alive - 1), nbr_process_sleeping)
  /\ nbr_process' = Count(nbr_process - 1)
  /\ UNCHANGED <<nbr_in_getchar, tampon, frappe, mem>>

(* The child shares the segment of its parent. *)
new_thread ==
  /\ Sysc(SYSC_NEW_THREAD)
  /\ \/ /\ InState(EMPTY) = {}
        /\ Wild
     \/ \E index \in Slots :
          LET i      == m.RI.i
              parent == [m EXCEPT !.DR[i] = index, !.AC = index]
              child  == [m EXCEPT !.DR[i] = 0, !.AC = 0]
          IN  /\ Lowest(index, InState(EMPTY))
              /\ ordonnanceur(parent,
                   [process EXCEPT ![index].cpu = child, ![index].state = READY],
                   Count(nbr_process_alive + 1), nbr_process_sleeping)
              /\ UNCHANGED <<nbr_in_getchar, nbr_process, tampon, frappe, mem>>

(* Mutant: the caller is marked asleep and goes on running. *)
send_thread_to_sleep_returns ==
  /\ Sysc(SYSC_SLEEP)
  /\ process' = [process EXCEPT ![current_process].state = SLEEP]
  /\ nbr_process_alive' = Count(nbr_process_alive - 1)
  /\ nbr_process_sleeping' = nbr_process_sleeping + 1
  /\ mode' = "cpu"
  /\ UNCHANGED <<m, current_process, nbr_in_getchar, nbr_process, tampon, frappe, mem>>

(* A delay of zero or less is over at once; any other may be over by the   *)
(* time reveil() looks.                                                    *)
send_thread_to_sleep ==
  /\ Sysc(SYSC_SLEEP)
  /\ \E due \in BOOLEAN :
       /\ m.DR[m.RI.i] <= 0 => due
       /\ ordonnanceur(m,
            [process EXCEPT ![current_process].state = SLEEP, ![current_process].due = due],
            Count(nbr_process_alive - 1), nbr_process_sleeping + 1)
  /\ UNCHANGED <<nbr_in_getchar, nbr_process, tampon, frappe, mem>>

my_getchar ==
  /\ Sysc(SYSC_GETCHAR)
  /\ \/ /\ tampon = 0
        /\ ordonnanceur(m, [process EXCEPT ![current_process].state = GETCHAR],
                        nbr_process_alive, nbr_process_sleeping)
        /\ nbr_in_getchar' = nbr_in_getchar + 1
        /\ UNCHANGED tampon
     \/ /\ tampon # 0
        /\ m' = [m EXCEPT !.DR[m.RI.i] = tampon]
        /\ tampon' = 0
        /\ mode' = "cpu"
        /\ UNCHANGED <<process, current_process, nbr_process_alive,
                       nbr_process_sleeping, nbr_in_getchar>>
  /\ UNCHANGED <<nbr_process, frappe, mem>>

(* Mutant: source and destination exchanged. *)
CopiedBack(base) ==
  [a \in Addresses |-> IF a \in Segment(m.SB) THEN mem[a - m.SB + base] ELSE mem[a]]

(* The memory after the loop that copies the segment of m to base. *)
Copied(base) ==
  [a \in Addresses |-> IF a \in base .. base + m.SS - 1
                       THEN mem[a - base + m.SB] ELSE mem[a]]

(* Mutant: one process too many. *)
FullOffByOne == nbr_process > MAX_PROCESS

(* my_fork is refused. *)
Full == nbr_process >= MAX_PROCESS

(* Mutant: the segment after those in use. *)
ForkBaseByCount(index) == nbr_process * SEGMENT_SIZE

ForkBase(index) == index * SEGMENT_SIZE

(* A refused fork leaves AC as it was. *)
my_fork ==
  /\ Sysc(SYSC_FORK)
  /\ \/ /\ Full
        /\ ordonnanceur(m, process, nbr_process_alive, nbr_process_sleeping)
        /\ UNCHANGED <<nbr_in_getchar, nbr_process, tampon, frappe, mem>>
     \/ /\ ~Full
        /\ InState(EMPTY) = {}
        /\ Wild
     \/ /\ ~Full
        /\ \E index \in Slots :
             LET base  == ForkBase(index)
                 child == [m EXCEPT !.SB = base, !.AC = 0]
             IN  /\ Lowest(index, InState(EMPTY))
                 /\ ordonnanceur([m EXCEPT !.AC = index],
                      [process EXCEPT ![index].cpu = child,
                                      ![index].state = process[current_process].state],
                      nbr_process_alive, nbr_process_sleeping)
                 /\ mem' = Copied(base)
        /\ nbr_process' = Count(nbr_process + 1)
        /\ UNCHANGED <<nbr_in_getchar, tampon, frappe>>

(* SYSC_PUTI, SYSC_IDLE and unknown calls only print: m is returned as is. *)
Affichage ==
  /\ mode = "switch"
  /\ m.INT = INT_SYSC
  /\ m.RI.ARG \notin {SYSC_EXIT, SYSC_NEW_THREAD, SYSC_SLEEP, SYSC_GETCHAR, SYSC_FORK}
  /\ mode' = "cpu"
  /\ UNCHANGED <<m, process, current_process, counters, tampon, frappe, mem>>

system_SYSC ==
  my_exit \/ new_thread \/ send_thread_to_sleep \/ my_getchar \/ my_fork \/ Affichage

systeme == Clavier \/ Arret \/ Horloge \/ system_SYSC

-----------------------------------------------------------------------------
(* The clock goes on whatever the simulator does. *)
Running == mode \in {"systeme", "switch", "cpu"}

Reveille(i) ==
  /\ Running
  /\ process[i].state = SLEEP
  /\ ~process[i].due
  /\ process' = [process EXCEPT ![i].due = TRUE]
  /\ UNCHANGED <<mode, m, current_process, counters, tampon, frappe, mem>>

Touche ==
  /\ Running
  /\ ~frappe
  /\ frappe' = TRUE
  /\ UNCHANGED <<mode, m, process, current_process, counters, tampon, mem>>

(* The simulator has ended: nothing runs any more. *)
Fini == mode \in {"arret", "wild"} /\ UNCHANGED noyau

-----------------------------------------------------------------------------
ProcessEntry == [cpu : PSW, state : {EMPTY, READY, SLEEP, GETCHAR}, due : BOOLEAN]

TypeOK ==
  /\ mode \in {"systeme", "switch", "cpu", "arret", "wild"}
  /\ m \in PSW
  /\ process \in [Slots -> ProcessEntry]
  /\ current_process \in Slots \cup {-1}
  /\ nbr_process_alive \in -INT_LIMIT .. INT_LIMIT - 1
  /\ nbr_process_sleeping \in 0 .. MAX_PROCESS
  /\ nbr_in_getchar \in 0 .. MAX_PROCESS
  /\ nbr_process \in -INT_LIMIT .. INT_LIMIT - 1
  /\ tampon \in {0, caractere}
  /\ frappe \in BOOLEAN
  /\ mem \in [Addresses -> Word]

-----------------------------------------------------------------------------
Booted == current_process # -1
Live == {i \in Slots : process[i].state # EMPTY}
Bases == {i * SEGMENT_SIZE : i \in Slots}

(* The context of a slot: the running process is in m, the others saved. *)
Context(i) == IF i = current_process THEN m ELSE process[i].cpu

HasSegment(psw, i) ==
  /\ psw.SB \in Bases
  /\ psw.SS = SEGMENT_SIZE
  /\ psw.SB = 0 <=> i = 0

(* The counters that reveil() and frappe_clavier() test before they look   *)
(* for a sleeper or a waiter are the numbers of sleepers and waiters: at   *)
(* zero they would hide a process for ever.                                *)
CountersAgree ==
  /\ nbr_process_sleeping = Cardinality(InState(SLEEP))
  /\ nbr_in_getchar = Cardinality(InState(GETCHAR))

(* A character never sits in the buffer while a process waits for one:     *)
(* my_getchar and frappe_clavier between them lose no wake-up.             *)
NoWaiterWhileBuffered == tampon # 0 => InState(GETCHAR) = {}

(* The do-while of ordonnanceur() ends: idle can always be picked, and the *)
(* process the simulator runs is one that may run.                         *)
SchedulerNeverSpins ==
  Booted => process[0].state = READY /\ process[current_process].state = READY

(* Every live process keeps a whole segment of a slot, and nobody but idle *)
(* has the segment of idle, which idle executes for ever.                  *)
IdleSegmentPrivate == Booted => \A i \in Live : HasSegment(Context(i), i)

(* Where the main loop may be before the boot, and after it in systeme():  *)
(* only a trap leads there, and idle has but one.                          *)
BootState ==
  ~Booted => mode = "systeme" /\ m.INT = INT_INIT /\ Live = {} /\ tampon = 0

TrapState ==
  Booted /\ mode \in {"systeme", "switch"} =>
    /\ m.INT \in {INT_SEGV, INT_INST, INT_HALT, INT_CLOCK, INT_SYSC}
    /\ current_process = 0 => m.INT = INT_CLOCK

(* The inductive invariant of the proofs: no handler breaks it, nor does   *)
(* whatever runs on the processor, as long as it keeps to its segment.     *)
IInv == /\ TypeOK /\ BootState /\ TrapState /\ CountersAgree
        /\ NoWaiterWhileBuffered /\ SchedulerNeverSpins /\ IdleSegmentPrivate
=============================================================================
