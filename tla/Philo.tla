------------------------------- MODULE Philo -------------------------------
(***************************************************************************)
(* The philosophers of TP6/philo.c: N threads, N forks under one mutex,    *)
(* each philosopher taking at once the two forks its number gives it.      *)
(***************************************************************************)
EXTENDS Moniteur

CONSTANT ROUNDS   \* meals of each philosopher (10 in the code)

ASSUME PhiloAssumption == ROUNDS \in Nat

VARIABLES
  fourchettes,   \* fourchettes[f]: fork f is free
  i              \* i[p]: the loop counter of philosopher p

vars == <<moniteur, fourchettes, i>>

fgauche(p) == IF p - 1 < 0 THEN N - 1 ELSE p - 1
fdroite(p) == IF p + 1 = N THEN 0 ELSE p + 1
Forks(p) == {fgauche(p), fdroite(p)}

Init == /\ MoniteurInit
        /\ fourchettes = [f \in Threads |-> TRUE]
        /\ i = [p \in Threads |-> 0]

isFree(fourchette) == fourchettes[fourchette]

(* Mutant: the right fork is forgotten. *)
SetLeftFork(p, free) == fourchettes' = [fourchettes EXCEPT ![fgauche(p)] = free]

SetForks(p, free) ==
  fourchettes' = [f \in Threads |-> IF f \in Forks(p) THEN free ELSE fourchettes[f]]

-----------------------------------------------------------------------------
(* Mutant: one meal too many. *)
AttendreEncore(p) == i[p] <= ROUNDS /\ Lock(p, "lock", "test") /\ UNCHANGED <<fourchettes, i>>

(* for (i=0; i < ROUNDS; i++): lock, or return. *)
Attendre(p) == i[p] < ROUNDS /\ Lock(p, "lock", "test") /\ UNCHANGED <<fourchettes, i>>

Finir(p) == /\ pc[p] = "lock" /\ i[p] >= ROUNDS /\ Goto(p, "done")
            /\ UNCHANGED <<mutex, spurious, fourchettes, i>>

(* Mutant: if instead of while, the forks are not tested again. *)
ReprendreSansTest(p) ==
  Lock(p, "woken", "unlock") /\ SetForks(p, FALSE) /\ UNCHANGED i

(* Woken, and the mutex is held again. *)
Reprendre(p) == Lock(p, "woken", "test") /\ UNCHANGED <<fourchettes, i>>

Tester(p) ==
  /\ pc[p] = "test"
  /\ \/ /\ isFree(fgauche(p)) /\ isFree(fdroite(p))
        /\ SetForks(p, FALSE)
        /\ Goto(p, "unlock")
        /\ UNCHANGED <<mutex, spurious, i>>
     \/ /\ ~(isFree(fgauche(p)) /\ isFree(fdroite(p)))
        /\ CondWait(p)
        /\ UNCHANGED <<fourchettes, i>>

Liberer(p) == Unlock(p, "unlock", "manger") /\ UNCHANGED <<fourchettes, i>>

(* The meal is over: the mutex again, to put the forks back. *)
Manger(p) == Lock(p, "manger", "reposer") /\ UNCHANGED <<fourchettes, i>>

Reposer(p) ==
  /\ pc[p] = "reposer"
  /\ SetForks(p, TRUE)
  /\ BroadcastFrom(p, "mediter")
  /\ UNCHANGED i

Mediter(p) ==
  /\ Unlock(p, "mediter", "lock")
  /\ i' = [i EXCEPT ![p] = @ + 1]
  /\ UNCHANGED fourchettes

travail(p) == \/ Attendre(p) \/ Finir(p) \/ Reprendre(p) \/ Tester(p)
              \/ Liberer(p) \/ Manger(p) \/ Reposer(p) \/ Mediter(p)

Fin == /\ \A p \in Threads : pc[p] = "done"
       /\ UNCHANGED vars

Next == \/ \E p \in Threads : travail(p) \/ (Spurious(p) /\ UNCHANGED <<fourchettes, i>>)
        \/ Fin

Spec == Init /\ [][Next]_vars

(* Threads that can run do; the mutex need not be fair. *)
FairSpec == Spec /\ \A p \in Threads : WF_vars(travail(p))

-----------------------------------------------------------------------------
Labels == {"lock", "woken", "test", "waiting", "unlock", "manger", "reposer",
           "mediter", "done"}
WithMutex == {"test", "unlock", "reposer", "mediter"}
WithForks == {"unlock", "manger", "reposer"}

TypeOK ==
  /\ pc \in [Threads -> Labels]
  /\ mutex \in Threads \cup {Personne}
  /\ spurious \in 0 .. SPURIOUS
  /\ fourchettes \in [Threads -> BOOLEAN]
  /\ i \in [Threads -> 0 .. ROUNDS]

(* Two philosophers who hold forks hold different ones. *)
ForkExclusion ==
  \A p, q \in Threads :
    p # q /\ pc[p] \in WithForks /\ pc[q] \in WithForks => Forks(p) \cap Forks(q) = {}

(* A fork is off the table exactly while some philosopher has it: none is  *)
(* lost, none is put back by another than its holder.                      *)
ForksAccounted ==
  \A f \in Threads : ~fourchettes[f] <=> \E p \in Threads : pc[p] \in WithForks /\ f \in Forks(p)

(* A philosopher sleeps on the condition only while a fork of his is held, *)
(* so a broadcast is still to come: no wake-up is lost.                    *)
NoLostWakeup ==
  \A p \in Threads : pc[p] = "waiting" => \E f \in Forks(p) : ~fourchettes[f]

(* The holder of the mutex is the thread between lock and unlock. *)
MutexHeld == \A p \in Threads : pc[p] \in WithMutex <=> mutex = p

InLoop == \A p \in Threads : pc[p] \notin {"lock", "done"} => i[p] < ROUNDS

(* The inductive invariant of the proofs. *)
IInv == /\ TypeOK /\ MutexHeld /\ InLoop
        /\ ForkExclusion /\ ForksAccounted /\ NoLostWakeup

(* Every philosopher ends his meals and main() its joins, with a mutex     *)
(* that promises nothing about who gets it next.                           *)
Termination == <>(\A p \in Threads : pc[p] = "done")
=============================================================================
