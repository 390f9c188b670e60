---------------------------- MODULE PhiloProofs ----------------------------
(***************************************************************************)
(* The invariants of Philo, for any number of philosophers and of meals.   *)
(***************************************************************************)
EXTENDS Philo, TLAPS

(* The left fork of a philosopher is a fork of the table. *)
LEMMA ForksTyped == \A p \in Threads : fgauche(p) \in Threads /\ fdroite(p) \in Threads
BY MoniteurAssumption DEF Threads, fgauche, fdroite

(* The invariant holds before any thread has run. *)
LEMMA PhiloInit == Init => IInv
BY MoniteurAssumption, PhiloAssumption
   DEF Init, MoniteurInit, IInv, TypeOK, MutexHeld, InLoop, ForkExclusion, ForksAccounted,
       NoLostWakeup, Labels, WithMutex, WithForks, Threads, Personne

(* Steps that leave the forks alone and move p outside of the meal, or     *)
(* inside of it, and not to sleep.                                         *)
LEMMA MoveInv ==
  ASSUME IInv, NEW p \in Threads, NEW to \in Labels, pc' = [pc EXCEPT ![p] = to],
         to # "waiting",
         to \in WithForks <=> pc[p] \in WithForks,
         mutex' \in Threads \cup {Personne}, spurious' \in 0 .. SPURIOUS,
         MutexHeld',
         i' \in [Threads -> 0 .. ROUNDS], InLoop',
         UNCHANGED fourchettes
  PROVE  IInv'
<1>1. TypeOK'
  BY DEF IInv, TypeOK
<1>2. \A q \in Threads : pc'[q] \in WithForks <=> pc[q] \in WithForks
  BY DEF IInv, TypeOK
<1>3. \A q \in Threads : pc'[q] = "waiting" => pc[q] = "waiting"
  BY DEF IInv, TypeOK
<1>4. ForkExclusion'
  BY <1>2 DEF IInv, ForkExclusion
<1>5. ForksAccounted'
  BY <1>2 DEF IInv, ForksAccounted
<1>6. NoLostWakeup'
  BY <1>3 DEF IInv, NoLostWakeup
<1> QED
  BY <1>1, <1>4, <1>5, <1>6 DEF IInv

(* Each step of a philosopher keeps it. *)
LEMMA PhiloNext == IInv /\ [Next]_vars => IInv'
<1> SUFFICES ASSUME IInv, [Next]_vars PROVE IInv'
  OBVIOUS
<1> USE DEF Goto
<1>1. ASSUME NEW p \in Threads, Attendre(p) \/ Reprendre(p) \/ Manger(p)
      PROVE  IInv'
  <2>1. PICK from \in Labels, to \in Labels :
          /\ pc[p] = from /\ mutex = Personne /\ mutex' = p /\ pc' = [pc EXCEPT ![p] = to]
          /\ to \in WithMutex /\ to # "waiting" /\ (to \in WithForks <=> from \in WithForks)
          /\ from = "lock" => i[p] < ROUNDS
          /\ from # "done" /\ to # "lock" /\ to # "done"
          /\ UNCHANGED <<spurious, fourchettes, i>>
    BY <1>1 DEF Attendre, Reprendre, Manger, Lock, Labels, WithMutex, WithForks
  <2>2. MutexHeld'
    BY <2>1 DEF IInv, TypeOK, MutexHeld, Threads, Personne
  <2>3. InLoop'
    BY <2>1 DEF IInv, TypeOK, InLoop
  <2> QED
    BY <2>1, <2>2, <2>3, MoveInv DEF IInv, TypeOK
<1>2. ASSUME NEW p \in Threads, Liberer(p) PROVE IInv'
  <2>1. /\ pc[p] = "unlock" /\ mutex = p /\ mutex' = Personne
        /\ pc' = [pc EXCEPT ![p] = "manger"]
        /\ UNCHANGED <<spurious, fourchettes, i>>
    BY <1>2 DEF Liberer, Unlock
  <2>2. MutexHeld' /\ InLoop'
    BY <2>1 DEF IInv, TypeOK, MutexHeld, InLoop, Threads, Personne, WithMutex
  <2> QED
    BY <2>1, <2>2, MoveInv DEF IInv, TypeOK, Labels, WithForks
<1>3. ASSUME NEW p \in Threads, Finir(p) PROVE IInv'
  <2>1. /\ pc[p] = "lock" /\ pc' = [pc EXCEPT ![p] = "done"]
        /\ UNCHANGED <<mutex, spurious, fourchettes, i>>
    BY <1>3 DEF Finir
  <2>2. MutexHeld' /\ InLoop'
    BY <2>1 DEF IInv, TypeOK, MutexHeld, InLoop, WithMutex
  <2> QED
    BY <2>1, <2>2, MoveInv DEF IInv, TypeOK, Labels, WithForks
<1>4. ASSUME NEW p \in Threads, Spurious(p), UNCHANGED <<fourchettes, i>> PROVE IInv'
  <2>1. /\ pc[p] = "waiting" /\ pc' = [pc EXCEPT ![p] = "woken"]
        /\ spurious' \in 0 .. SPURIOUS
        /\ UNCHANGED <<mutex, fourchettes, i>>
    BY <1>4, MoniteurAssumption DEF Spurious, IInv, TypeOK
  <2>2. MutexHeld' /\ InLoop'
    BY <2>1 DEF IInv, TypeOK, MutexHeld, InLoop, WithMutex
  <2> QED
    BY <2>1, <2>2, MoveInv DEF IInv, TypeOK, Labels, WithForks
<1>5. ASSUME NEW p \in Threads, Mediter(p) PROVE IInv'
  <2>1. /\ pc[p] = "mediter" /\ mutex = p /\ mutex' = Personne
        /\ pc' = [pc EXCEPT ![p] = "lock"]
        /\ i' = [i EXCEPT ![p] = @ + 1]
        /\ UNCHANGED <<spurious, fourchettes>>
    BY <1>5 DEF Mediter, Unlock
  <2>2. MutexHeld'
    BY <2>1 DEF IInv, TypeOK, MutexHeld, Threads, Personne, WithMutex
  <2>3. i[p] < ROUNDS
    BY <2>1 DEF IInv, InLoop
  <2>4. i' \in [Threads -> 0 .. ROUNDS] /\ InLoop'
    BY <2>1, <2>3, PhiloAssumption DEF IInv, TypeOK, InLoop
  <2> QED
    BY <2>1, <2>2, <2>4, MoveInv DEF IInv, TypeOK, Labels, WithForks
<1>6. ASSUME NEW p \in Threads, Tester(p) PROVE IInv'
  <2>1. CASE /\ pc[p] = "test" /\ isFree(fgauche(p)) /\ isFree(fdroite(p))
             /\ SetForks(p, FALSE) /\ pc' = [pc EXCEPT ![p] = "unlock"]
             /\ UNCHANGED <<mutex, spurious, i>>
    <3>1. \A f \in Forks(p) : f \in Threads /\ fourchettes[f]
      BY <2>1, ForksTyped DEF isFree, Forks
    <3>2. \A f \in Threads : fourchettes'[f] = IF f \in Forks(p) THEN FALSE ELSE fourchettes[f]
      BY <2>1 DEF SetForks
    <3>3. TypeOK' /\ MutexHeld' /\ InLoop'
      BY <2>1 DEF IInv, TypeOK, MutexHeld, InLoop, WithMutex, Labels, SetForks
    <3>4. \A q \in Threads : pc'[q] \in WithForks <=> q = p \/ pc[q] \in WithForks
      BY <2>1 DEF IInv, TypeOK, WithForks
    <3>5. \A q \in Threads : pc[q] \in WithForks => Forks(p) \cap Forks(q) = {}
      BY <3>1 DEF IInv, ForksAccounted
    <3>6. ForkExclusion'
      BY <3>4, <3>5 DEF IInv, ForkExclusion
    <3>7. ForksAccounted'
      BY <3>2, <3>4 DEF IInv, ForksAccounted
    <3>8. NoLostWakeup'
      <4>1. \A q \in Threads : pc'[q] = "waiting" => pc[q] = "waiting"
        BY <2>1 DEF IInv, TypeOK
      <4> QED
        BY <3>2, <4>1, ForksTyped DEF IInv, NoLostWakeup, Forks
    <3> QED
      BY <3>3, <3>6, <3>7, <3>8 DEF IInv
  <2>2. CASE /\ pc[p] = "test" /\ ~(isFree(fgauche(p)) /\ isFree(fdroite(p)))
             /\ mutex' = Personne /\ pc' = [pc EXCEPT ![p] = "waiting"]
             /\ UNCHANGED <<spurious, fourchettes, i>>
    <3>1. \E f \in Forks(p) : ~fourchettes[f]
      BY <2>2 DEF isFree, Forks
    <3>2. TypeOK' /\ InLoop'
      BY <2>2 DEF IInv, TypeOK, InLoop, Labels
    <3>3. MutexHeld'
      BY <2>2 DEF IInv, TypeOK, MutexHeld, WithMutex, Threads, Personne
    <3>4. \A q \in Threads : pc'[q] \in WithForks <=> pc[q] \in WithForks
      BY <2>2 DEF IInv, TypeOK, WithForks
    <3>5. ForkExclusion' /\ ForksAccounted'
      BY <2>2, <3>4 DEF IInv, ForkExclusion, ForksAccounted
    <3>6. NoLostWakeup'
      BY <2>2, <3>1 DEF IInv, TypeOK, NoLostWakeup
    <3> QED
      BY <3>2, <3>3, <3>5, <3>6 DEF IInv
  <2> QED
    BY <1>6, <2>1, <2>2 DEF Tester, CondWait
<1>7. ASSUME NEW p \in Threads, Reposer(p) PROVE IInv'
  <2>1. /\ pc[p] = "reposer" /\ SetForks(p, TRUE)
        /\ pc' = [q \in Threads |-> IF q = p THEN "mediter"
                                    ELSE IF pc[q] = "waiting" THEN "woken" ELSE pc[q]]
        /\ UNCHANGED <<mutex, spurious, i>>
    BY <1>7 DEF Reposer, BroadcastFrom
  <2>2. \A f \in Threads : fourchettes'[f] = IF f \in Forks(p) THEN TRUE ELSE fourchettes[f]
    BY <2>1 DEF SetForks
  <2>3. \A q \in Threads : pc'[q] # "waiting"
    BY <2>1
  <2>4. TypeOK'
    BY <2>1 DEF IInv, TypeOK, Labels, SetForks
  <2>5. MutexHeld' /\ InLoop'
    BY <2>1 DEF IInv, MutexHeld, InLoop, WithMutex
  <2>6. \A q \in Threads : pc'[q] \in WithForks <=> q # p /\ pc[q] \in WithForks
    BY <2>1 DEF WithForks
  <2>7. \A q \in Threads : q # p /\ pc[q] \in WithForks => Forks(p) \cap Forks(q) = {}
    BY <2>1 DEF IInv, ForkExclusion, WithForks
  <2>8. ForkExclusion'
    BY <2>6 DEF IInv, ForkExclusion
  <2>9. ForksAccounted'
    BY <2>1, <2>2, <2>6, <2>7 DEF IInv, ForksAccounted
  <2>10. NoLostWakeup'
    BY <2>3 DEF NoLostWakeup
  <2> QED
    BY <2>4, <2>5, <2>8, <2>9, <2>10 DEF IInv
<1>8. CASE UNCHANGED vars
  BY <1>8 DEF IInv, TypeOK, MutexHeld, InLoop, ForkExclusion, ForksAccounted, NoLostWakeup,
              vars, moniteur
<1> QED
  BY <1>1, <1>2, <1>3, <1>4, <1>5, <1>6, <1>7, <1>8 DEF Next, travail, Fin

(* It holds in every state. *)
LEMMA PhiloIInv == Spec => []IInv
BY PhiloInit, PhiloNext, PTL DEF Spec

(* The types of the state of philo.c. *)
THEOREM PhiloTypes == Spec => []TypeOK
BY PhiloIInv, PTL DEF IInv

(* However many philosophers there are, two who eat share no fork. *)
THEOREM PhiloExclusion == Spec => []ForkExclusion
BY PhiloIInv, PTL DEF IInv

(* The array fourchettes tells the truth in every state. *)
THEOREM PhiloAccounting == Spec => []ForksAccounted
BY PhiloIInv, PTL DEF IInv

(* Whoever sleeps in pthread_cond_wait still has a broadcast to come. *)
THEOREM PhiloNoLostWakeup == Spec => []NoLostWakeup
BY PhiloIInv, PTL DEF IInv
=============================================================================
