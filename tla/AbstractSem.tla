---------------------------- MODULE AbstractSem ----------------------------
(***************************************************************************)
(* What counting semaphores promise: a number of units and a set of tasks  *)
(* that wait for one.  A unit goes to a waiter if there is one.            *)
(***************************************************************************)
EXTENDS Naturals, FiniteSets

CONSTANTS Sem, Task, SemMax

VARIABLES
  avail,    \* the units nobody has taken
  waiting   \* who waits for a unit

svars == <<avail, waiting>>

SemInit == avail = [s \in Sem |-> 0] /\ waiting = [s \in Sem |-> {}]

Take(s) ==
  /\ avail[s] > 0
  /\ avail' = [avail EXCEPT ![s] = @ - 1]
  /\ UNCHANGED waiting

\* A task waits for one semaphore at a time, and only when there is no unit.
Join(s, t) ==
  /\ avail[s] = 0
  /\ \A r \in Sem : t \notin waiting[r]
  /\ waiting' = [waiting EXCEPT ![s] = @ \cup {t}]
  /\ UNCHANGED avail

Give(s) ==
  \/ /\ waiting[s] = {} /\ avail[s] < SemMax
     /\ avail' = [avail EXCEPT ![s] = @ + 1]
     /\ UNCHANGED waiting
  \/ /\ \E t \in waiting[s] : waiting' = [waiting EXCEPT ![s] = @ \ {t}]
     /\ UNCHANGED avail

\* Timeout, signal, restart or deletion: the unit the task waited for stays
\* with the semaphore.
Leave(s, t) ==
  /\ t \in waiting[s]
  /\ waiting' = [waiting EXCEPT ![s] = @ \ {t}]
  /\ UNCHANGED avail

\* n units, to waiters first; they are what is left, if anybody got one
Reset(s, n) ==
  \E served \in SUBSET waiting[s] :
    /\ IF Cardinality(waiting[s]) <= n THEN served = waiting[s] ELSE Cardinality(served) = n
    /\ waiting' = [waiting EXCEPT ![s] = @ \ served]
    /\ avail' = [avail EXCEPT ![s] = n - Cardinality(served)]

Destroy(s) ==
  /\ waiting[s] = {}
  /\ avail' = [avail EXCEPT ![s] = 1]
  /\ UNCHANGED waiting

SemNext ==
  \E s \in Sem :
    \/ Take(s) \/ Give(s) \/ Destroy(s)
    \/ \E n \in 0..SemMax : Reset(s, n)
    \/ \E t \in Task : Join(s, t) \/ Leave(s, t)

SemSpec == SemInit /\ [][SemNext]_svars
=============================================================================
