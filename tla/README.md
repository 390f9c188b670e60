# SimulationCPU in TLA+

The repository holds the exercises of an operating-systems course: a simulated
machine with its kernel (`TP2-3-4`), two pthread programs (`TP6`), a memory-map
demonstration (`TP7`) and a small file system on a virtual disk (`TP9-10`).
This directory models them in TLA+, checks the models with TLC on small
instances and proves their main invariants with TLAPS for every instance.

## The system

| component | state | operations | what makes it correct |
|---|---|---|---|
| processor, `cpu.c` | the PSW passed by value, `mem` | ten instructions, the loop of `cpu()` | a program reads and writes its segment only, and never SB, SS or the kernel |
| kernel, `systeme.c` | process table, four counters, current process, key buffer | boot, clock, seven system calls, the simulated keystroke | no process is forgotten, none is run that may not be, contexts and segments survive suspension |
| main loop and test programs, `simul.c`, `systeme.c` | the program booted | kernel and processor in turn | the programs show what they were written to show |
| philosophers, `TP6/philo.c` | forks, a mutex, a condition | take two forks, eat, put them back | no fork shared or lost, nobody sleeps for ever |
| turn-taking threads, `TP6/main.c` | `tour`, a mutex, a condition | wait, print, pass the turn | turns in order, also where `tour` is read unlocked |
| disk and FAT, `sgf-disk.c`, `sgf-fat.c` | blocks, the FAT in memory and on disk, a bit per FAT block to save | format, mount, read, write, allocate, chain | memory and disk agree, chains end, a disk that mounts is whole |
| directory and files, `sgf-dir.c`, `sgf-io.c` | directory blocks, inodes, open files | open, put, get, write, seek, remove, close | a file reads as it was written, blocks belong to one file, a killed program harms the file it writes only |
| demonstration, `TP9-10/main.c` | none but the disk | the calls above in a fixed order | it ends and shows what it wrote |
| memory map, `TP7/main.c` | none | prints addresses | nothing to check |

Kernel and processor are one thread: `while (1) { mep = systeme(mep); mep =
cpu(mep); }`. What is concurrent is the machine they simulate: processes that
the clock interrupts, sleep delays and keystrokes that come at any time. The
kernel tests the keyboard each time it is entered (every four seconds a key is
due) and the sleepers each time it schedules. The threads of TP6 are
concurrent with each other and meet at one mutex and one condition each. The file
system is sequential; what is hard in it is state kept twice (the length and the last
block in memory, in the inode and in the chain; the block in the buffer and the
one that `ptr` implies), a disk that fills up in the middle of a call, return
values that are not looked at, and the order of its block writes if it is killed.

## Modules

| module | models | state | actions |
|---|---|---|---|
| `Machine` | `cpu.h`, `make_inst`, `decode_instruction` | - | - |
| `Cpu` | the `cpu_XXX` functions | - | operators from PSW to PSW |
| `Noyau` | `systeme.c` | `mode` (where the main loop is), `m` (its PSW), the table, the counters, `tampon`, `frappe`, `mem` | one per interrupt and system call, named as in the code; `Reveille` and `Touche` are the clock of the host |
| `Systeme` | the kernel under any programs | that of `Noyau` | `systeme`, and `UserStep`, `UserClock`, `UserTrap`, `UserFetchFault`, `UserDataFault` for whatever a program can do |
| `Simul` | `simul.c`: kernel and processor | and the program, `tick` (`i` of the loop of `cpu()`) | `systeme`, and one per case of the switch in `cpu()` |
| `Programmes` | the four test programs | - | - |
| `Moniteur` | the mutex and condition of pthread (external) | `pc`, `mutex`, `spurious` | lock, unlock, wait, broadcast, spurious wake-up |
| `Philo`, `Tours` | `philo.c`, `main.c` of TP6 | forks or `tour`, loop counters | one per stretch of code between two pthread calls |
| `Disque` | `sgf-disk.c`, `sgf-fat.c` | - | operators on a volume: blocks, FAT, chains |
| `Repertoire` | `sgf-dir.c` | `fat`, `disk` | operators: `find_inode`, `add_inode`, `delete_inode` |
| `Montage` | `sgf-fat.c`, block by block | and `super`, the FAT in memory (`tab`, `modif`), the writes to come (`todo`) | format, mount, calls of the directory, one per block write, `Kill` |
| `SgfIo` | `sgf-io.c`: its functions | - | operators from a volume and an `OFILE` to both |
| `Sgf` | `sgf-io.c`: programs that call them | and `mode`, `file` (the `OFILE`), `appel` (a loop of `sgf_puts` or `sgf_write`), `ret` (the last request that was answered, with its answer), `perte` | one per call, one per turn of those loops |
| `SgfPanne` | programs killed between two block writes | and `tues` (how often), `abime` | those of `Sgf`, `Kill` |
| `Demo` | `TP9-10/main.c` | and `pas` (the call that is next), `i`, what it printed, what it found | one per call of `main`, `Kill` |
| `Fichiers` | what `sgf-io.h` offers: files as texts | `contenu`, `ouvert`, `reste`, `ret`, `sain`, `tues` | open, read, seek, write, close, fail, be killed |
| `MCSysteme`, `MCSimul`, `MCMontage`, `MCSgf`, `MCPanne` | small programs, texts and views for TLC | - | - |
| `NoyauProofs`, `SystemeProofs`, `SimulProofs`, `PhiloProofs`, `ToursProofs`, `VolumeProofs`, `MontageProofs`, `SgfProofs` | proofs | - | - |

Three layers share `Noyau`. `Systeme` is the specification of the kernel:
programs are left open, so its invariants hold whatever is run. `Simul` is the
program of the repository, bit for bit: words are 32 bits and instructions are
encoded and decoded as the C union does. `Simul` is checked to implement
`Systeme` (`KernelSpec`), which is where the segment tests of LOAD, STORE and
the fetch are used, and the signed fields of an instruction.

The file system has two stacks on `Disque` and `Repertoire`. `Montage` has the
FAT twice and writes block after block; it shows that one function may stand for
both FATs. `Sgf`, with one FAT, has the files, with the functions of `SgfIo`; `SgfPanne` adds kills to it and
`Demo` the program of the repository. Both implement `Fichiers`.

How the code is translated:

* `systeme()` is two steps, the keyboard test (`Clavier`) and the switch, so
  that a delivery just before any handler is explored. Each handler is one step
  with its call of `ordonnanceur()`, which is an operator on the table and the
  counters the handler has already changed.
* Time is what the code asks of it: `due` is `wake_up <= time(NULL)`, `frappe`
  is `prochain_appel <= time(NULL)`. A delay of zero or less is over at once,
  any other ends at any moment after. The four seconds between two keys and the
  lengths of delays are abstracted.
* INT_HALT and the faults call `exit()`: mode `arret`, in which nothing follows. That
  HALT ends all processes and not its own only (its comment, `cpu.c:107`, says "la fin du
  processus") is in the model and no run is about it.
* `process[-1]`, written when `find_first_empty()` finds nothing, is undefined
  behaviour: the model stops in mode `wild` and says nothing of what follows.
* The disk is a function from block addresses to contents and the FAT another
  one. `set_fat()` writes to the disk before it returns, so the FAT in memory and
  the one on disk do not differ between calls (`MountedAsOnDisk`); in `Sgf` one
  variable is both. A block is read as what it was written as, which `BlocksOwned`
  justifies. What a free block holds is not known (`Blank`): read as data it
  gives `Junk`.
* The unit of failure is `write_block()`: `fwrite` and `fflush` of 128 bytes. A
  program is killed between two of them. The operators on a volume record in
  `passe` what was on the disk before each write of a call, in their order; a kill
  in a call leaves one of those. A killed host, which may lose or reorder what
  was flushed, is not modelled.
* The program `format` is a binary of the repository. It calls
  `create_empty_fat()` and `create_empty_directory()`, which are in `src/`.
* `malloc()` leaves the buffer of an `OFILE` undefined: it holds `Junk`, which is
  no character. A program that follows a chain off its end is stopped by `panic()` or by the assert of the walk: mode
  `panique`. One that calls what the file's mode forbids (`WrongMode`), or opens a file to
  write when no block is free, is stopped by the assert at the head of the function: mode `abandon`. Either
  may be started again on the same disk, with what is there.
* `perte` is not in the code. It becomes true when a failure goes unnoticed: the
  -1 of `sgf_append_block()` that `sgf_putc()` and `sgf_write()` ignore, a name
  that `add_inode()` could not enter, or the text in the buffer when an assert ends the
  program. Properties say which of them hold after.
* A direct call of `sgf_putc()` is `sgf_puts` of a text of one character.
* The field `IN` of the PSW is `INT` here, since `IN` is reserved in TLA+.
* Counters are ints; the model gives them `INT_LIMIT` and the same wrapping, so
  that counters which drift stay in a finite model.

## Runs

| run | module, cfg | question |
|---|---|---|
| `systeme` | `MCSysteme`, `MCSysteme.cfg` | the kernel under any mix of system calls |
| `systeme_fork` | `MCSysteme`, `MCSystemeFork.cfg` | what fork promises when nobody starts threads |
| `simul` | `MCSimul`, `MCSimul.cfg` | the test programs, the processor, fairness |
| `philo` | `Philo`, `MCPhilo.cfg` | the philosophers |
| `tours` | `Tours`, `MCTours.cfg` | the turns |
| `repertoire` | `MCMontage`, `MCMontage.cfg` | format, mount, and the directory under any additions and deletions, by block write |
| `sgf` | `MCSgf`, `MCSgf.cfg` | files on a disk that fills up |
| `sgf_panne` | `MCPanne`, `MCPanne.cfg` | killed programs, and `main.c` of TP9-10 |
| `alive`, `full` | `MCSysteme`, `MCSystemeAlive.cfg`, `MCSystemeFull.cfg` | two places where the code and what it says of itself disagree |
| `sgf_name`, `sgf_full` | `MCSgf`, `MCSgfName.cfg`, `MCSgfFull.cfg` | two more |

**`systeme`.** Three slots as in the code (idle and two others, enough for a
waiter, a sleeper and a runner to meet, for a full table, and for a thread and
its parent), segments of one word, two registers so that the register of a
waiting call differs from that of others. Checked: the two counters are exact
(`CountersAgree`); no process waits while a character is buffered
(`NoWaiterWhileBuffered`); the scheduler's loop ends and what runs is ready
(`SchedulerNeverSpins`); nobody but idle has idle's segment
(`IdleSegmentPrivate`); a suspended context changes only by the awaited
keystroke (`SuspendedUntouched`). The view `LiveView` merges states that differ
only in what no later step reads before it is overwritten; its comment in
`MCSysteme` gives the argument. The type invariant of the fields it hides is
proved.

**`systeme_fork`.** The same without NEW_THREAD, with memory words of two values so
that a copy is seen. Each process has the segment of its slot
(`ForkIsolation`), `nbr_process` is exact (`NbrProcessExact`), the kernel never
writes `process[-1]` (`NoWildWrite`), and a process's memory changes only while
it runs (`PrivateMemory`). With threads all four fail: see the findings.

**`simul`.** Real opcodes, encoding, CPU_CLOCK and table size; segments of 14
words, the longest program. The four test programs and four short ones for the
paths they leave out. Besides the refinement: the thread test always loads 4000
though nothing but the round robin orders it (`ParentLoads4000`); the fork test
is never refused, which matters because a refusal would send the parent to EXIT
(`ForkNeverRefused`); sleepers wake, waiters are served, ready processes run.

*Fairness.* Weak fairness of `main` (the host runs the simulator), of the clock
passing each wake-up time, and of the keystroke coming due (`prochain_appel`
passes). Nothing is assumed of the processes: that they run is a property.

**`philo`, `tours`.** Four threads (as `main.c` starts), two rounds, one
spurious wake-up. Four philosophers sit with each pair of opposite ones wanting
the same two forks, so there is contention and independence; two rounds make a
thread meet the traces of its own former round. Fairness is weak, per thread:
a thread that can run does, but the mutex promises nothing about who gets it.
Termination still holds, because each waits only on events that are certain.

**`repertoire`.** Four names, one too long, in blocks of two entries, so that the
directory grows and holes appear in its first and later blocks; two other
blocks, so that the disk fills. Four entries in a FAT block, so that the FAT has
two and a link goes from one to the other. The disk comes from `dd` as zeroes, is
formatted, mounted and used, and killed and formatted again at any time. The FAT
in memory and the one on disk differ by the entry being saved at most
(`MountedAsOnDisk`); once there is a signature the directory is a chain of its
own blocks and a name has one entry, also after a format that was killed
(`DirectoryWhole`); a call changes what `find_inode()` says of one name, and on the
disk it does so in one block write (`OneNameAtATime`). Symmetry of the three short
names: no action tells them apart and the properties are safety.

**`sgf`.** Two names, blocks of two characters and one entry, five blocks for
inodes, data and the growth of the directory, files of at most five characters
(three blocks, so that a seek goes back and forth past more than one). Texts of
one and of three characters start and end at each place of a block and cross
one. The disk fills in every way: at an inode, at a data block, at the
directory. Blocks have one owner (`BlocksOwned`), also after ignored failures;
names and inodes correspond (`InodesListed`); length, chain and last block agree
(`LengthsAgree`), which appending relies on; `current` and `buffer` stand where
`sgf_read_bloc()` infers from `ptr` (`ReadPosition`); reading, and closing what
was read, leave the disk alone though `sgf_close()` writes in every mode
(`ReadingChangesNothing`); a call touches the blocks of the open file only, also
when it ignores that the disk is full and overwrites the block in `current`
(`OthersUntouched`); no chain is followed off its end until something was lost, by
a full disk or a program that asserts in the middle of a block (`PanicOnlyAfterLoss`).
Programs may call anything at any time, seek to one before and one past the
positions of a file, and open in a mode that does not exist. `FilesSpec` is the
refinement: until a failure is ignored, the calls do what `Fichiers` says. `Fichiers`
answers a request: `ret` has both, so that a seek goes to the position asked for and is
refused for exactly those that the file does not have. The view of `MCSgf` drops what is not read
again (free blocks, bytes past the end of a file or of the buffer, former
results) and, after an ignored failure, the characters, on which no step depends.

**`sgf_panne`.** Two kinds of behaviours. In the first any program uses two
files, on a disk of eight blocks that fills up, with one text of three characters
in blocks of two; in the second the program is `main`. Either may be killed once,
between two calls or two block writes, and the next program mounts what is there.
One kill is what the run can afford (what does a kill leave, and does it stay
so); the theorem `KillSafe` covers any number of them. `KillHarmsOne`: one file at
most is damaged by each kill, namely the one being written; all others keep their
blocks to themselves and chains that fit their lengths, whatever is written after.
`FilesSurvive`: `Sgf` with kills implements `Fichiers` with kills, where a killed
program loses what it wrote last, less than a block of it or the whole of a
shorter file, may leave one byte nobody wrote at the end, and changes no other file.
`DemoEnds`: `main` ends and has shown the file it found, every eighth character
(every other one in the model, where blocks are of two) and each text as it wrote it. On a disk
without `essai.txt` it stops at its first call, with the NULL it does not test.

What a kill can cost is what the property leaves out, and it is stated there:
blocks may stay allocated that nobody uses; and a damaged file, whose chain ends
in a free block or is longer than its length, must not be written again. If it
is, `sgf_remove()` runs into a free block, which another file may have taken by
then, and frees what it finds or panics. Behaviours of the free program end at that
point (`abime`: the call has returned, or was killed on the way), those of `main`
go on and may panic.

*Fairness.* `main` goes on as long as it can (`Fairness`); nobody has to kill it
or start it again. It is weak fairness of its steps, with the condition under
which one is possible (it is running) in the place of ENABLED, which TLC evaluates
slowly here. That a step is then possible is the absence of deadlock, which the
run checks: where `main` has been killed once, nothing else can go on.

One file is open at a time, as in `main.c`. Two open files are not modelled: the
library has no notion of sharing, and opening a file to write while another
`OFILE` has it frees the blocks the other one uses.

**Violations.** `alive`: `nbr_process_alive` is not the number of READY
processes (`cpu.h:94`), as fork and getchar leave it alone; nothing reads it. `full`:
`nbr_process` leaves threads out, so with idle, one process and its thread in the three
slots a fork passes its guard (2 < 3) and writes `process[-1]`, where `my_fork` means to
answer that the table is full. `sgf_name`: `sgf_open()` is to answer NULL when it
fails (`sgf-io.c:207`); for a name that the directory refuses it gives an open file
that no name leads to. `sgf_full`: without a free block it does not answer but ends the
program (the assert of `sgf-io.c:217`), where that comment and the one at
`sgf-io.c:317` promise NULL.

## Proofs

**The kernel.** `IInv` of `Noyau` is an invariant of `Systeme` for every number of
slots, segment and memory size, and every set of programs. It is the type
invariant, the four properties of the run `systeme` and two facts they need:
`BootState` (before boot the table is empty) and `TrapState` (in `systeme()` the
interrupt is one the processor can raise, and idle has none but the clock's, so
idle never leaves READY). In `NoyauProofs`, the lemmas `Schedule` and `Dispatch` say
once what any handler that ends in `ordonnanceur()` leaves; each handler then
shows that the table and counters it hands over are right. Counting uses the
library's theorems on finite sets. `SystemeProofs` adds the steps of programs.

It also proves the properties of the run `systeme_fork`, assuming `NoThreads`. Its
invariant `FInv` is `IInv` with `ForkIsolation`, `NbrProcessExact`, `NoWildWrite` and
`TrapInst`: a system call comes from an instruction of the program, so that none
is NEW_THREAD. The three properties need each other: an exact count makes the
guard of `my_fork` see a full table, so a slot is found, so the child has the
segment of an empty slot. `PrivateMemory` then follows from the disjointness of
segments of different slots. `SuspendedUntouched` needs `IInv` only and holds for
any programs: the lemma `ScheduleKeeps` says that `ordonnanceur()` saves one
context, the running one.

**The simulator.** `SimulProofs` proves `KernelSpec`, the refinement of `Systeme` by
`Simul`, for every memory, table and slice and every set of programs: each case of
the switch in `cpu()` is one of the `User` steps, and the other steps are the
kernel's own. What `Systeme` rules out of its programs has to be shown: idle
neither calls nor faults, since its five instructions are in memory
(`IdleCode`) and it goes round in them (`IdleInside`); no process is resumed with an
old INT_SEGV, which `cpu()` would read after a LOAD that succeeds
(`NoStaleFault`). Idle's code stays because no segment but idle's own overlaps it,
which is `IdlePrivate` of the kernel: so kernel and processor are proved in one
invariant, `SInv`.

The module also proves what two test programs show. `ForkNeverRefused` holds for
every table of three slots and slice of two instructions, or more: `OneChild` says
that no slot past 2 is used and that `nbr_process` is 3 only while the child runs, so
that the parent forks with two processes alive; this needs the child to reach EXIT in
the slice it is elected for. `ParentLoads4000` holds from three slots and
three instructions on: `OneThread` has three phases, the parent alone, the thread
before its STORE (elected first, so the parent is suspended at its own next
instruction) and both past it, sharing a segment where word 0 is 4000. Each
instruction goes through the real coding (`DecodeEncode`, `ImageHolds`,
`CpuExecutes`), which is why the words must be in memory unchanged. TLC finds
`ParentLoads4000` violated with a slice of two instructions, and `OneChild` with one, so the bounds on the
slice are needed; the code has three slots and a slice of three.

**Threads.** `PhiloProofs` and `ToursProofs` do the same for any number of threads and
rounds. `IInv` adds to the properties that the mutex holder is the thread between
lock and unlock (`MutexHeld`). For `Tours` the heart is `TurnOfOne`: `tour` lies
within one lap after each thread's own count, so only the thread whose turn it
is can be past its test; uniqueness of quotient and rest gives the rest.

**Chains and the directory.** `VolumeProofs` has what the proofs about the disk
share, of `Disque`, `Repertoire` and `SgfIo`. A chain is a sequence of distinct blocks, each the FAT entry of the one
before, the last one marked (`IsChain`); a directory is a chain of directory
blocks where a used name has one entry (`IsDirectory`). Its lemmas say that the recursive functions of the
model compute what they should on a chain (`Walk`, `ChainBlocks`, `find_inode`), and
what each operation of `sgf-fat.c` and `sgf-dir.c` leaves of chains, entries and
listings. The library's induction theorems have an operator as a parameter,
which the provers cannot instantiate; the lemmas about recursion use instead
that a set of naturals that has 0 and every successor is all of them, which
is proved from the least element of its complement and applied to sets. The second half
is about the functions of `SgfIo`; `MontageProofs` uses none of it.

**Mounting.** `MontageProofs` proves the three properties of the run `repertoire` for
every disk, FAT and block size and every set of names. `MInv` says of the disk
that it is sound as soon as it has the signature, at whatever write a program
was killed; of the writes to come, that each leads from a sound disk to a sound
one and that at most one of them changes a name (`Path`); of the FAT in memory,
that it is ahead of the disk by the entry being saved at most (`Saving`); and of a format,
that the blocks of the FAT before `k` are those of an empty disk (`Formatting`).

**Files.** `SgfProofs` proves the six invariants and the two action properties of `Sgf` for
every disk, block size, set of names and of texts. The inductive invariant
`SInv` has two layers.

* Always: the blocks have one owner each (`Owned`: every inode has a chain, chains
  are disjoint from each other and from the directory and cover what is not
  free, and what is free is forgotten), and names lead to inodes, no two names to
  one (`Leading`). The open file's inode is one of them and its current block one
  of its chain.
* While no failure was dropped (`~perte`): every inode has a name (`AllNamed`) and
  is `Complete`: the chain has as many blocks as the length asks for, and they
  hold data. The file being written is `InProgress`: that is so of the length in
  memory, the length on the disk is behind by less than a block, and the block
  that `current` names may hold nothing yet. A reader is where `ptr` says, with
  that block in its buffer (`ReadAt`).

Each function of `sgf-io.c` keeps this as an operator on a volume and an `OFILE`
(in `VolumeProofs`: `Flushed`, `BlockAppended`, `Removed`, `NewFileMade`, `ReadStep`, `SeekStep`, the lemmas on
a character and on a piece of `sgf_write`), whatever is allocated and wherever it
fails; the actions follow. Before it was proved, the invariant was model-checked
on disks of seven and eight blocks.

`OthersStayUntouched` needs the first layer only, so it holds after dropped failures too: each
operator of `SgfIo` writes the inode and the chain of the open file and blocks that were
free, and chains are disjoint (`Spares`, `Beside`: what a call leaves of the files beside one).

The theorem `FilesRefined` then shows that `Sgf` implements `Fichiers` (`FilesSpec`): `SInv` says
where the blocks of a file are, so the text of each is a function of its chain and of the
buffer. Each call is shown to be a step of `Fichiers` with the same name, or to
fail as `Fichiers` allows, and to leave the texts of all other files, whose blocks are not
written, as they were.

**Kills.** `KillSafe`, the end of `SgfProofs`, proves `KillHarmsOne` for every disk,
block size, set of names and texts, and any number of kills. `SInv` is of no use
here: after a kill blocks are marked that no chain has, inodes exist that no name leads to,
and a chain may run into a free block. What stays true is weaker and about named
files only (`Kept`): the blocks that the length of such a file asks for are the
first ones of its chain, they belong to it and to no other, nor to the directory, and after
them the chain ends or, if the file is damaged, goes on in a block that is not one of them.
All the rest of the disk is scrap, which any call may write (`ScrapKept`). The invariant
`PInv` says that this is so and that at most `tues` files are damaged, that the file
open for writing is not one of them, and that a loop of `sgf_puts()` or
`sgf_write()` stops between two such disks. The other half is about the
disk in the middle of a call: each operator is shown to leave in `passe` only
disks where `Kept` holds with one damaged file more at most (`PastFine`, in the
lemmas `AppendKept`, `ChunkKept`, `NewFileKept` and their like), because of the order of the
writes: the entries of the FAT come before the inode with its length, and the name of a
new file before the removal of the old one.

The attempt found the model wrong where the run could not: with two kills or more,
a call that overwrites a damaged file may be killed in its turn, after it has freed blocks
of another file. `abime` was set when such a call returned only; it is now set
at that kill too.

Assumptions: those named in the modules (sizes positive, the table's segments
fit in memory, addresses are ints, programs are made of words and instructions,
idle fits a segment; the FAT and one more block fit on the disk, a block has
two characters at least, no text is empty). Four of them are about the model
only: `Blank`, what a free block holds, is neither a directory block nor a buffer nor a
text nor an inode, `Junk` is no character, `NULL` is no `OFILE` and no open file of `Fichiers`.

**Only model-checked.** All liveness (out of the reach of TLAPS, as is ENABLED), so
also that `main` ends (`DemoEnds`) and what the runs `simul`, `philo` and `tours` say of
progress. Of the files with kills, `FilesSurvive`, that they keep their texts: `Kept`
says which blocks a file has and not yet what is in them. The properties of all other
runs that are not liveness are theorems.

## Not modelled

Output (prints); INT_TRACE, which nothing in `src/` raises; `TP7`; build files and
binaries; which of the files `disk0` to `disk3` is the disk (`test_disk()`, which
asks the host), and a host read or write that fails; a failing `malloc()`;
two keys between two `getchar` (every key is the same character, so the loss
cannot be told). `travail()` of `TP6/main.c` is
`my_job()` with two threads; that file uses `FALSE`, which it does not define, so as
it stands it does not compile, and `Tours` models its text.

## Plan

1. `FilesSurvive` for every disk, from `PInv`, with the contents of the blocks, and the
   lemmas of `FilesRefined`.
2. Two open files in `Sgf`, for the uses the library supports.
