------------------------------- MODULE Tours -------------------------------
(***************************************************************************)
(* The turn-taking threads of TP6/main.c: my_job with N = 4 (travail, the  *)
(* version main() keeps in a comment, is the same with N = 2).  Each       *)
(* thread waits for its turn under the mutex, but prints and sleeps, and   *)
(* reads tour to print it, without.                                        *)
(***************************************************************************)
EXTENDS Moniteur

CONSTANT ROUNDS   \* turns of each thread (10 in the code)

ASSUME ToursAssumption == ROUNDS \in Nat

VARIABLES
  tour,
  i,         \* i[p]: the loop counter of thread p
  affiche    \* affiche[p]: the tour that p printed last, -1 before

vars == <<moniteur, tour, i, affiche>>

Init == /\ MoniteurInit
        /\ tour = 0
        /\ i = [p \in Threads |-> 0]
        /\ affiche = [p \in Threads |-> -1]

-----------------------------------------------------------------------------
Attendre(p) == i[p] < ROUNDS /\ Lock(p, "lock", "test") /\ UNCHANGED <<tour, i, affiche>>

Finir(p) == /\ pc[p] = "lock" /\ i[p] >= ROUNDS /\ Goto(p, "done")
            /\ UNCHANGED <<mutex, spurious, tour, i, affiche>>

(* Mutant: if instead of while, tour is not tested again. *)
ReprendreSansTest(p) == Lock(p, "woken", "unlock") /\ UNCHANGED <<tour, i, affiche>>

Reprendre(p) == Lock(p, "woken", "test") /\ UNCHANGED <<tour, i, affiche>>

Tester(p) ==
  /\ pc[p] = "test"
  /\ \/ tour % N = p /\ Goto(p, "unlock") /\ UNCHANGED <<mutex, spurious>>
     \/ tour % N # p /\ CondWait(p)
  /\ UNCHANGED <<tour, i, affiche>>

Liberer(p) == Unlock(p, "unlock", "afficher") /\ UNCHANGED <<tour, i, affiche>>

(* printf and sleep, the mutex free. *)
Afficher(p) ==
  /\ pc[p] = "afficher"
  /\ affiche' = [affiche EXCEPT ![p] = tour]
  /\ Goto(p, "relock")
  /\ UNCHANGED <<mutex, spurious, tour, i>>

Relock(p) == Lock(p, "relock", "passer") /\ UNCHANGED <<tour, i, affiche>>

(* Mutant: the next thread is not woken. *)
PasserSansBroadcast(p) ==
  /\ pc[p] = "passer"
  /\ tour' = tour + 1
  /\ Goto(p, "fin")
  /\ UNCHANGED <<mutex, spurious, i, affiche>>

Passer(p) ==
  /\ pc[p] = "passer"
  /\ tour' = tour + 1
  /\ BroadcastFrom(p, "fin")
  /\ UNCHANGED <<i, affiche>>

Terminer(p) ==
  /\ Unlock(p, "fin", "lock")
  /\ i' = [i EXCEPT ![p] = @ + 1]
  /\ UNCHANGED <<tour, affiche>>

my_job(p) == \/ Attendre(p) \/ Finir(p) \/ Reprendre(p) \/ Tester(p) \/ Liberer(p)
             \/ Afficher(p) \/ Relock(p) \/ Passer(p) \/ Terminer(p)

Fin == /\ \A p \in Threads : pc[p] = "done"
       /\ UNCHANGED vars

Next == \/ \E p \in Threads : my_job(p) \/ (Spurious(p) /\ UNCHANGED <<tour, i, affiche>>)
        \/ Fin

Spec == Init /\ [][Next]_vars

(* Threads that can run do; the mutex need not be fair. *)
FairSpec == Spec /\ \A p \in Threads : WF_vars(my_job(p))

-----------------------------------------------------------------------------
Labels == {"lock", "woken", "test", "waiting", "unlock", "afficher", "relock",
           "passer", "fin", "done"}
WithMutex == {"test", "unlock", "passer", "fin"}
InTurn == {"unlock", "afficher", "relock", "passer"}

TypeOK ==
  /\ pc \in [Threads -> Labels]
  /\ mutex \in Threads \cup {Personne}
  /\ spurious \in 0 .. SPURIOUS
  /\ tour \in Nat
  /\ i \in [Threads -> 0 .. ROUNDS]
  /\ affiche \in [Threads -> Nat \cup {-1}]

(* Turns done by p: i lags behind tour between tour++ and i++. *)
Done(p) == IF pc[p] = "fin" THEN i[p] + 1 ELSE i[p]

(* Nobody else moves the turn while p prints without the mutex, and the    *)
(* turns go round: p has had tour / N turns, one more if p < tour mod N.   *)
TurnOfOne ==
  \A p \in Threads :
    /\ pc[p] \in InTurn => tour = N * i[p] + p
    /\ N * (Done(p) - 1) + p < tour /\ tour <= N * Done(p) + p

(* What p printed is the number of its own latest turn, though it read     *)
(* tour without the mutex.                                                 *)
Printed(p) == IF pc[p] \in {"relock", "passer", "fin"} THEN i[p] + 1 ELSE i[p]

PrintsItsTurn ==
  \A p \in Threads :
    affiche[p] = IF Printed(p) = 0 THEN -1 ELSE N * (Printed(p) - 1) + p

(* Nobody sleeps on the condition through its own turn. *)
NoLostWakeup == \A p \in Threads : pc[p] = "waiting" => tour % N # p

(* The holder of the mutex is the thread between lock and unlock. *)
MutexHeld == \A p \in Threads : pc[p] \in WithMutex <=> mutex = p

InLoop == \A p \in Threads : pc[p] \notin {"lock", "done"} => i[p] < ROUNDS

(* The inductive invariant of the proofs. *)
IInv == TypeOK /\ MutexHeld /\ InLoop /\ TurnOfOne /\ PrintsItsTurn /\ NoLostWakeup

(* All turns are taken and main() gets its joins. *)
Termination == <>(tour = N * ROUNDS /\ \A p \in Threads : pc[p] = "done")
=============================================================================
