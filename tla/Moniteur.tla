------------------------------ MODULE Moniteur ------------------------------
(***************************************************************************)
(* The pthread mutex and condition variable of the TP6 programs, as these  *)
(* use them: a global mutex, pthread_cond_wait in a while loop, and        *)
(* pthread_cond_broadcast with the mutex held.  The libc is outside the    *)
(* repository; this is what POSIX lets it do, spurious wake-ups included.  *)
(***************************************************************************)
EXTENDS Integers

CONSTANTS
  N,          \* threads
  SPURIOUS    \* bound on the wake-ups nobody sent

ASSUME MoniteurAssumption == N \in Nat \ {0} /\ SPURIOUS \in Nat

VARIABLES
  pc,         \* where each thread is
  mutex,      \* the thread that holds the mutex, or Personne
  spurious    \* spurious wake-ups so far

Threads == 0 .. N - 1
Personne == -1

moniteur == <<pc, mutex, spurious>>

MoniteurInit == /\ pc = [p \in Threads |-> "lock"]
                /\ mutex = Personne
                /\ spurious = 0

Goto(p, label) == pc' = [pc EXCEPT ![p] = label]

Lock(p, from, to) ==
  /\ pc[p] = from
  /\ mutex = Personne
  /\ mutex' = p
  /\ Goto(p, to)
  /\ UNCHANGED spurious

Unlock(p, from, to) ==
  /\ pc[p] = from
  /\ mutex = p
  /\ mutex' = Personne
  /\ Goto(p, to)
  /\ UNCHANGED spurious

(* Go to sleep and free the mutex in one step. *)
CondWait(p) == mutex' = Personne /\ Goto(p, "waiting") /\ UNCHANGED spurious

Waiting == {w \in Threads : pc[w] = "waiting"}

(* Mutant: pthread_cond_signal, which wakes one of those that wait. *)
SignalFrom(p, to) ==
  /\ \/ \E w \in Waiting : pc' = [pc EXCEPT ![p] = to, ![w] = "woken"]
     \/ Waiting = {} /\ Goto(p, to)
  /\ UNCHANGED <<mutex, spurious>>

(* Mutant: the broadcast is forgotten. *)
BroadcastForgotten(p, to) == Goto(p, to) /\ UNCHANGED <<mutex, spurious>>

(* p wakes every waiting thread and goes on. *)
BroadcastFrom(p, to) ==
  /\ pc' = [q \in Threads |-> IF q = p THEN to
                              ELSE IF pc[q] = "waiting" THEN "woken" ELSE pc[q]]
  /\ UNCHANGED <<mutex, spurious>>

Spurious(p) ==
  /\ pc[p] = "waiting"
  /\ spurious < SPURIOUS
  /\ spurious' = spurious + 1
  /\ Goto(p, "woken")
  /\ UNCHANGED mutex
=============================================================================
