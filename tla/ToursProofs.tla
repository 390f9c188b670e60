---------------------------- MODULE ToursProofs ----------------------------
(***************************************************************************)
(* The invariants of Tours, for any number of threads and of turns.        *)
(***************************************************************************)
EXTENDS Tours, TLAPS

(* Arithmetic of the turns: quotient and rest are unique. *)
LEMMA Multiple ==
  ASSUME NEW a \in Int, NEW b \in Int, a < b
  PROVE  N * a + N <= N * b
<1>1. N \in Nat /\ N > 0
  BY MoniteurAssumption
<1>2. PICK k \in Nat : b = a + 1 + k
  <2>1. b - a - 1 \in Nat /\ b = a + 1 + (b - a - 1)
    OBVIOUS
  <2> QED
    BY <2>1
<1>3. N * b = N * a + N + N * k
  BY <1>1, <1>2
<1>4. N * k >= 0
  BY <1>1
<1> QED
  BY <1>1, <1>3, <1>4

(* A number has one quotient and one remainder. *)
LEMMA Unique ==
  ASSUME NEW a \in Int, NEW b \in Int, NEW p \in Threads, NEW q \in Threads,
         N * a + p = N * b + q
  PROVE  p = q /\ a = b
<1>1. N \in Nat /\ p \in 0 .. N - 1 /\ q \in 0 .. N - 1 /\ N * a \in Int /\ N * b \in Int
  BY MoniteurAssumption DEF Threads
<1>2. ~(a < b) /\ ~(b < a)
  BY <1>1, Multiple
<1> QED
  BY <1>1, <1>2

(* The only t for p in the N turns that end with N * d + p. *)
LEMMA Turn ==
  ASSUME NEW t \in Nat, NEW d \in Int, NEW p \in Threads, t % N = p,
         N * (d - 1) + p < t, t <= N * d + p
  PROVE  t = N * d + p
<1>1. N \in Nat /\ N > 0 /\ p \in 0 .. N - 1
  BY MoniteurAssumption DEF Threads
<1>2. PICK k \in Int : t = N * k + p
  <2>1. t \div N \in Int /\ t = N * (t \div N) + (t % N)
    BY <1>1, SMTT(30)
  <2> QED
    BY <2>1
<1>3. N * k \in Int /\ N * d \in Int /\ N * (d - 1) \in Int /\ N * (d - 1) = N * d - N
  BY <1>1
<1>4. ~(k < d)
  BY <1>1, <1>2, <1>3, Multiple
<1>5. ~(d < k)
  BY <1>1, <1>2, <1>3, Multiple
<1> QED
  BY <1>2, <1>4, <1>5

-----------------------------------------------------------------------------
(* The invariant holds before any thread has run. *)
LEMMA ToursInit == Init => IInv
<1> SUFFICES ASSUME Init PROVE IInv
  OBVIOUS
<1>1. N \in Nat /\ N > 0 /\ ROUNDS \in Nat /\ SPURIOUS \in Nat
  BY MoniteurAssumption, ToursAssumption
<1>2. \A p \in Threads : pc[p] = "lock" /\ i[p] = 0 /\ affiche[p] = -1 /\ p \in 0 .. N - 1
  BY DEF Init, MoniteurInit, Threads
<1>3. TypeOK
  BY <1>1 DEF Init, MoniteurInit, TypeOK, Labels
<1>4. MutexHeld /\ InLoop /\ NoLostWakeup
  BY <1>2 DEF Init, MoniteurInit, MutexHeld, InLoop, NoLostWakeup, WithMutex, Threads, Personne
<1>5. TurnOfOne
  BY <1>1, <1>2 DEF Init, TurnOfOne, InTurn, Done
<1>6. PrintsItsTurn
  BY <1>2 DEF PrintsItsTurn, Printed
<1> QED
  BY <1>3, <1>4, <1>5, <1>6 DEF IInv

(* Steps that move p without changing its turns, nor tour. *)
LEMMA MoveInv ==
  ASSUME IInv, NEW p \in Threads, NEW to \in Labels, pc' = [pc EXCEPT ![p] = to],
         to = "waiting" => tour % N # p,
         to \in InTurn => tour = N * i[p] + p,
         to # "fin" /\ pc[p] # "fin",
         to \in {"relock", "passer"} <=> pc[p] \in {"relock", "passer"},
         mutex' \in Threads \cup {Personne}, spurious' \in 0 .. SPURIOUS,
         MutexHeld', InLoop',
         UNCHANGED <<tour, i, affiche>>
  PROVE  IInv'
<1>1. TypeOK'
  BY DEF IInv, TypeOK
<1>2. \A q \in Threads : pc'[q] = IF q = p THEN to ELSE pc[q]
  BY DEF IInv, TypeOK
<1>3. \A q \in Threads : Done(q)' = Done(q) /\ Printed(q)' = Printed(q)
  BY <1>2 DEF Done, Printed
<1>4. TurnOfOne'
  BY <1>2, <1>3 DEF IInv, TurnOfOne
<1>5. PrintsItsTurn'
  BY <1>3 DEF IInv, PrintsItsTurn
<1>6. NoLostWakeup'
  BY <1>2 DEF IInv, NoLostWakeup
<1> QED
  BY <1>1, <1>4, <1>5, <1>6 DEF IInv

(* Each step of a thread keeps it. *)
LEMMA ToursNext == IInv /\ [Next]_vars => IInv'
<1> SUFFICES ASSUME IInv, [Next]_vars PROVE IInv'
  OBVIOUS
<1> USE DEF Goto
<1>1. ASSUME NEW p \in Threads, Attendre(p) \/ Reprendre(p) \/ Relock(p)
      PROVE  IInv'
  <2>1. PICK from \in Labels, to \in Labels :
          /\ pc[p] = from /\ mutex = Personne /\ mutex' = p /\ pc' = [pc EXCEPT ![p] = to]
          /\ to \in WithMutex /\ to # "waiting" /\ to # "fin" /\ from # "fin"
          /\ to \in {"relock", "passer"} <=> from \in {"relock", "passer"}
          /\ to \in InTurn => from \in InTurn
          /\ from = "lock" => i[p] < ROUNDS
          /\ from # "done" /\ to # "lock" /\ to # "done"
          /\ UNCHANGED <<spurious, tour, i, affiche>>
    BY <1>1 DEF Attendre, Reprendre, Relock, Lock, Labels, WithMutex, InTurn
  <2>2. MutexHeld'
    BY <2>1 DEF IInv, TypeOK, MutexHeld, Threads, Personne
  <2>3. InLoop'
    BY <2>1 DEF IInv, TypeOK, InLoop
  <2>4. to \in InTurn => tour = N * i[p] + p
    BY <2>1 DEF IInv, TurnOfOne
  <2> QED
    BY <2>1, <2>2, <2>3, <2>4, MoveInv DEF IInv, TypeOK
<1>2. ASSUME NEW p \in Threads, Liberer(p) PROVE IInv'
  <2>1. /\ pc[p] = "unlock" /\ mutex = p /\ mutex' = Personne
        /\ pc' = [pc EXCEPT ![p] = "afficher"]
        /\ UNCHANGED <<spurious, tour, i, affiche>>
    BY <1>2 DEF Liberer, Unlock
  <2>2. MutexHeld' /\ InLoop'
    BY <2>1 DEF IInv, TypeOK, MutexHeld, InLoop, Threads, Personne, WithMutex
  <2>3. tour = N * i[p] + p
    BY <2>1 DEF IInv, TurnOfOne, InTurn
  <2> QED
    BY <2>1, <2>2, <2>3, MoveInv DEF IInv, TypeOK, Labels
<1>3. ASSUME NEW p \in Threads, Finir(p) PROVE IInv'
  <2>1. /\ pc[p] = "lock" /\ pc' = [pc EXCEPT ![p] = "done"]
        /\ UNCHANGED <<mutex, spurious, tour, i, affiche>>
    BY <1>3 DEF Finir
  <2>2. MutexHeld' /\ InLoop'
    BY <2>1 DEF IInv, TypeOK, MutexHeld, InLoop, WithMutex
  <2> QED
    BY <2>1, <2>2, MoveInv DEF IInv, TypeOK, Labels, InTurn
<1>4. ASSUME NEW p \in Threads, Spurious(p), UNCHANGED <<tour, i, affiche>> PROVE IInv'
  <2>1. /\ pc[p] = "waiting" /\ pc' = [pc EXCEPT ![p] = "woken"]
        /\ spurious' \in 0 .. SPURIOUS
        /\ UNCHANGED <<mutex, tour, i, affiche>>
    BY <1>4, MoniteurAssumption DEF Spurious, IInv, TypeOK
  <2>2. MutexHeld' /\ InLoop'
    BY <2>1 DEF IInv, TypeOK, MutexHeld, InLoop, WithMutex
  <2> QED
    BY <2>1, <2>2, MoveInv DEF IInv, TypeOK, Labels, InTurn
<1>5. ASSUME NEW p \in Threads, Tester(p) PROVE IInv'
  <2>1. CASE /\ pc[p] = "test" /\ tour % N = p /\ pc' = [pc EXCEPT ![p] = "unlock"]
             /\ UNCHANGED <<mutex, spurious, tour, i, affiche>>
    <3>1. MutexHeld' /\ InLoop'
      BY <2>1 DEF IInv, TypeOK, MutexHeld, InLoop, WithMutex
    <3>2. tour = N * i[p] + p
      <4>1. N * (i[p] - 1) + p < tour /\ tour <= N * i[p] + p
        BY <2>1 DEF IInv, TurnOfOne, Done
      <4> QED
        BY <2>1, <4>1, Turn DEF IInv, TypeOK
    <3> QED
      BY <2>1, <3>1, <3>2, MoveInv DEF IInv, TypeOK, Labels
  <2>2. CASE /\ pc[p] = "test" /\ tour % N # p /\ mutex' = Personne
             /\ pc' = [pc EXCEPT ![p] = "waiting"]
             /\ UNCHANGED <<spurious, tour, i, affiche>>
    <3>1. InLoop'
      BY <2>2 DEF IInv, TypeOK, InLoop
    <3>2. MutexHeld'
      BY <2>2 DEF IInv, TypeOK, MutexHeld, WithMutex, Threads, Personne
    <3> QED
      BY <2>2, <3>1, <3>2, MoveInv DEF IInv, TypeOK, Labels, InTurn
  <2> QED
    BY <1>5, <2>1, <2>2 DEF Tester, CondWait
<1>6. ASSUME NEW p \in Threads, Afficher(p) PROVE IInv'
  <2>1. /\ pc[p] = "afficher" /\ pc' = [pc EXCEPT ![p] = "relock"]
        /\ affiche' = [affiche EXCEPT ![p] = tour]
        /\ UNCHANGED <<mutex, spurious, tour, i>>
    BY <1>6 DEF Afficher
  <2>2. TypeOK' /\ MutexHeld' /\ InLoop'
    BY <2>1 DEF IInv, TypeOK, MutexHeld, InLoop, WithMutex, Labels
  <2>3. \A q \in Threads : pc'[q] = IF q = p THEN "relock" ELSE pc[q]
    BY <2>1 DEF IInv, TypeOK
  <2>4. tour = N * i[p] + p
    BY <2>1 DEF IInv, TurnOfOne, InTurn
  <2>5. TurnOfOne'
    BY <2>1, <2>3, <2>4 DEF IInv, TurnOfOne, Done, InTurn
  <2>6. PrintsItsTurn'
    <3>1. ASSUME NEW q \in Threads, q # p
          PROVE  affiche'[q] = affiche[q] /\ Printed(q)' = Printed(q)
      BY <2>1, <2>3, <3>1 DEF IInv, TypeOK, Printed
    <3>2. affiche'[p] = tour /\ Printed(p)' = i[p] + 1 /\ i[p] \in Nat
      BY <2>1, <2>3 DEF IInv, TypeOK, Printed
    <3> QED
      BY <2>4, <3>1, <3>2 DEF IInv, PrintsItsTurn
  <2>7. NoLostWakeup'
    BY <2>1, <2>3 DEF IInv, NoLostWakeup
  <2> QED
    BY <2>2, <2>5, <2>6, <2>7 DEF IInv
<1>7. ASSUME NEW p \in Threads, Passer(p) PROVE IInv'
  <2>1. /\ pc[p] = "passer" /\ tour' = tour + 1
        /\ pc' = [q \in Threads |-> IF q = p THEN "fin"
                                    ELSE IF pc[q] = "waiting" THEN "woken" ELSE pc[q]]
        /\ UNCHANGED <<mutex, spurious, i, affiche>>
    BY <1>7 DEF Passer, BroadcastFrom
  <2>2. TypeOK' /\ MutexHeld' /\ InLoop'
    BY <2>1 DEF IInv, TypeOK, MutexHeld, InLoop, WithMutex, Labels
  <2>3. tour = N * i[p] + p /\ i[p] \in Nat /\ tour \in Nat
    BY <2>1 DEF IInv, TypeOK, TurnOfOne, InTurn
  <2>4. NoLostWakeup'
    BY <2>1 DEF NoLostWakeup
  <2>5. PrintsItsTurn'
    <3>1. \A q \in Threads : Printed(q)' = Printed(q)
      BY <2>1 DEF Printed
    <3> QED
      BY <2>1, <3>1 DEF IInv, PrintsItsTurn
  <2>6. ASSUME NEW q \in Threads
        PROVE  /\ pc'[q] \in InTurn => tour' = N * i'[q] + q
               /\ N * (Done(q)' - 1) + q < tour' /\ tour' <= N * Done(q)' + q
    <3>1. CASE q = p
      <4>1. pc'[p] = "fin" /\ Done(p)' = i[p] + 1
        BY <2>1 DEF Done
      <4>2. N * (i[p] + 1) = N * i[p] + N /\ N * i[p] \in Nat /\ N \in Nat /\ N > 0 /\ p \in Nat
        BY <2>3, MoniteurAssumption DEF Threads
      <4> QED
        BY <2>1, <2>3, <3>1, <4>1, <4>2 DEF InTurn
    <3>2. CASE q # p
      <4>1. i[q] \in Nat /\ Done(q) \in Nat
        BY DEF IInv, TypeOK, Done
      <4>2. tour # N * i[q] + q /\ tour # N * Done(q) + q
        BY <2>3, <3>2, <4>1, Unique
      <4>3. pc[q] \notin InTurn
        BY <4>2 DEF IInv, TurnOfOne
      <4>4. pc'[q] \notin InTurn /\ Done(q)' = Done(q)
        BY <2>1, <3>2, <4>3 DEF InTurn, Done
      <4>5. N * (Done(q) - 1) + q < tour /\ tour <= N * Done(q) + q
        BY DEF IInv, TurnOfOne
      <4>6. N * (Done(q) - 1) + q \in Int /\ N * Done(q) + q \in Int
        BY <4>1, MoniteurAssumption DEF Threads
      <4> QED
        BY <2>1, <2>3, <4>2, <4>4, <4>5, <4>6
    <3> QED
      BY <3>1, <3>2
  <2>7. TurnOfOne'
    BY <2>6 DEF TurnOfOne
  <2> QED
    BY <2>2, <2>4, <2>5, <2>7 DEF IInv
<1>8. ASSUME NEW p \in Threads, Terminer(p) PROVE IInv'
  <2>1. /\ pc[p] = "fin" /\ mutex = p /\ mutex' = Personne
        /\ pc' = [pc EXCEPT ![p] = "lock"]
        /\ i' = [i EXCEPT ![p] = @ + 1]
        /\ UNCHANGED <<spurious, tour, affiche>>
    BY <1>8 DEF Terminer, Unlock
  <2>2. i[p] < ROUNDS
    BY <2>1 DEF IInv, InLoop
  <2>3. TypeOK'
    BY <2>1, <2>2, ToursAssumption DEF IInv, TypeOK, Labels
  <2>4. MutexHeld' /\ InLoop'
    BY <2>1 DEF IInv, TypeOK, MutexHeld, InLoop, Threads, Personne, WithMutex
  <2>5. \A q \in Threads : /\ pc'[q] = IF q = p THEN "lock" ELSE pc[q]
                           /\ i'[q] = IF q = p THEN i[q] + 1 ELSE i[q]
    BY <2>1 DEF IInv, TypeOK
  <2>6. \A q \in Threads : Done(q)' = Done(q) /\ Printed(q)' = Printed(q)
    BY <2>1, <2>5 DEF Done, Printed
  <2>7. TurnOfOne'
    BY <2>1, <2>5, <2>6 DEF IInv, TurnOfOne, InTurn
  <2>8. PrintsItsTurn' /\ NoLostWakeup'
    BY <2>1, <2>5, <2>6 DEF IInv, PrintsItsTurn, NoLostWakeup
  <2> QED
    BY <2>3, <2>4, <2>7, <2>8 DEF IInv
<1>9. CASE UNCHANGED vars
  BY <1>9 DEF IInv, TypeOK, MutexHeld, InLoop, TurnOfOne, PrintsItsTurn, NoLostWakeup,
              Done, Printed, vars, moniteur
<1> QED
  BY <1>1, <1>2, <1>3, <1>4, <1>5, <1>6, <1>7, <1>8, <1>9 DEF Next, my_job, Fin

(* It holds in every state. *)
LEMMA ToursIInv == Spec => []IInv
BY ToursInit, ToursNext, PTL DEF Spec

(* The types of the state of main.c. *)
THEOREM ToursTypes == Spec => []TypeOK
BY ToursIInv, PTL DEF IInv

(* The turns go round in order, one thread at a time. *)
THEOREM ToursOrder == Spec => []TurnOfOne
BY ToursIInv, PTL DEF IInv

(* The unlocked read of tour gives a thread the number of its own turn. *)
THEOREM ToursPrint == Spec => []PrintsItsTurn
BY ToursIInv, PTL DEF IInv

(* Nobody sleeps in pthread_cond_wait while it is its turn. *)
THEOREM ToursNoLostWakeup == Spec => []NoLostWakeup
BY ToursIInv, PTL DEF IInv
=============================================================================
