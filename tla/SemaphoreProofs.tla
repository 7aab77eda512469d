--------------------------- MODULE SemaphoreProofs ---------------------------
(***************************************************************************)
(* Semaphore, for every set of tasks and semaphores.  The invariant says   *)
(* of the record Kernel, which nxsem_post and nxsem_wait_irq work on, that *)
(* the scheduler's lists are in order, that waitsem is set exactly for the *)
(* tasks on g_waitingforsemaphore (but for the ones being deleted), and    *)
(* that a count is at least as far below zero as there are tasks blocked.  *)
(* Without deletion it is exactly that far, which is the mapping to        *)
(* AbstractSem.  Of the watchdogs it says what tcb->waitdog is at each     *)
(* place of a call, and that the pool, the calls and the leaks add up.     *)
(***************************************************************************)
EXTENDS Semaphore, NxSchedLemmas, FiniteSetTheorems

Errcode == {"OK", "EINTR", "ETIMEDOUT"}

KState ==
  [sched : SchedState, count : [Sem -> (-CountFloor)..SemMax],
   waitsem : [Task -> Sem \cup {None}], errcode : [Task -> Errcode]]

\* Who is on g_waitingforsemaphore for sem.
Blocked(k, sem) == {t \in Task : k.sched.tstate[t] = "WAIT_SEM" /\ k.waitsem[t] = sem}

\* A count with tasks blocked on it is at least that far below zero: the units
\* that tasks deleted during their wait had asked for stay missing.
Counted(k) ==
  \A sem \in Sem :
    LET n == Cardinality(Blocked(k, sem))
    IN  /\ n > 0 => k.count[sem] <= -n
        /\ Deletable = {} /\ k.count[sem] < 0 => k.count[sem] = -n

Agree(k, gone) ==
  \A t \in Task : /\ t \notin gone => (k.waitsem[t] # None <=> k.sched.tstate[t] = "WAIT_SEM")
                  /\ t \in gone => k.sched.tstate[t] = "INVALID"

\* nxsem_wait cleared the errcode of a task that is blocked.
Cleared(k) == \A t \in Task : k.sched.tstate[t] = "WAIT_SEM" => k.errcode[t] = "OK"

KInv(k, gone) ==
  /\ k \in KState /\ Safe(k.sched) /\ Ordered(k.sched)
  /\ Agree(k, gone) /\ Counted(k) /\ Cleared(k)

Victims == {t \in Task : Victim(t)}

Dog == {"none", "created", "active", "stale"}
Place == InWait \cup {"run", "creating", "create", "cleanup", "deleted", "reset", "unlock",
                      "terminate"}

CallTypes ==
  /\ waitdog \in [Task -> Dog]
  /\ pc \in [Task -> Place]
  /\ victim \in [Task -> Task \cup {None}]

\* A task inside nxtask_terminate is deleting one that may be deleted and that
\* is not itself deleting anybody.
Deleting ==
  /\ \A d \in Task : pc[d] = "terminate" <=> victim[d] # None
  /\ \A d, t \in Task : victim[d] = t => t \in Deletable /\ pc[t] # "terminate"

\* tcb->waitdog points to a watchdog from its store to wd_delete, and to a
\* deleted one until it is cleared.
DogPlace == {"create", "timed", "tick", "cleanup"}
DogAt(place, dog) ==
  /\ dog \in {"created", "active"} <=> place \in DogPlace
  /\ dog = "stale" <=> place = "deleted"
DogPointer == \A t \in Task : DogAt(pc[t], waitdog[t])

PoolInv ==
  /\ wdnfree \in Nat /\ leaked \in 0..Prealloc /\ corrupt \in BOOLEAN
  /\ DogsConserved

SemInv ==
  /\ KInv(Kernel, Victims) /\ CallTypes /\ Deleting
  /\ NoStrayTimeout /\ DogPointer /\ PoolInv

(***************************************************************************)
(* Sets of blocked tasks.                                                  *)
(***************************************************************************)
\* The tasks are finitely many, so that sets of waiters can be counted.
LEMMA BlockedFinite ==
  ASSUME NEW k, NEW sem
  PROVE  /\ IsFiniteSet(Blocked(k, sem)) /\ Cardinality(Blocked(k, sem)) \in Nat
         /\ Cardinality(Blocked(k, sem)) = 0 <=> Blocked(k, sem) = {}
<1>1. Blocked(k, sem) \in SUBSET Task
  BY DEF Blocked
<1>2. IsFiniteSet(Blocked(k, sem))
  BY <1>1, TasksFinite, FS_Subset
<1>. QED  BY <1>2, FS_CardinalityType, FS_EmptySet

\* Nobody is blocked on a semaphore whose count is not negative.
LEMMA FreeSemaphore ==
  ASSUME NEW k, NEW gone, KInv(k, gone), NEW sem \in Sem, k.count[sem] >= 0
  PROVE  Blocked(k, sem) = {}
<1>. DEFINE n == Cardinality(Blocked(k, sem))
<1>1. n \in Nat /\ (n = 0 <=> Blocked(k, sem) = {})
  BY BlockedFinite
<1>2. n > 0 => k.count[sem] <= -n
  BY DEF KInv, Counted
<1>3. k.count[sem] \in Int
  BY CountFloorNat, SemMaxPositive DEF KInv, KState
<1>. HIDE DEF n
<1>. QED  BY <1>1, <1>2, <1>3

\* The invariant speaks only of who is blocked on what: a step of the scheduler
\* that leaves the blocked tasks alone keeps it.
LEMMA KFrame ==
  ASSUME NEW k, NEW gone, KInv(k, gone), NEW r \in KState, Safe(r.sched), Ordered(r.sched),
         r.waitsem = k.waitsem, r.count = k.count, NEW gone2,
         \A t \in Task : r.sched.tstate[t] = "WAIT_SEM" <=> k.sched.tstate[t] = "WAIT_SEM",
         \A t \in Task : r.sched.tstate[t] = "WAIT_SEM" => r.errcode[t] = k.errcode[t],
         \A t \in Task : t \in gone => t \in gone2,
         \A t \in Task : t \in gone2 => r.sched.tstate[t] = "INVALID"
  PROVE  KInv(r, gone2)
<1>1. \A sem \in Sem : Blocked(r, sem) = Blocked(k, sem)
  BY DEF Blocked
<1>2. Counted(r)
  BY <1>1 DEF KInv, Counted
<1>3. Agree(r, gone2)
  BY DEF KInv, Agree
<1>4. Cleared(r)
  BY DEF KInv, Cleared
<1>. QED  BY <1>2, <1>3, <1>4 DEF KInv

\* Nobody is blocked on sem: its count may become anything that is in range and
\* does not pretend that somebody is.
LEMMA KCount ==
  ASSUME NEW k, NEW gone, KInv(k, gone), NEW sem \in Sem, Blocked(k, sem) = {},
         NEW v \in (-CountFloor)..SemMax, Deletable = {} => v >= 0,
         NEW r \in KState, r.sched = k.sched, r.waitsem = k.waitsem, r.errcode = k.errcode,
         r.count = [k.count EXCEPT ![sem] = v]
  PROVE  KInv(r, gone)
<1>1. k.count \in [Sem -> (-CountFloor)..SemMax]
  BY DEF KInv, KState
<1>2. \A s \in Sem : Blocked(r, s) = Blocked(k, s)
  BY DEF Blocked
<1>3. ASSUME NEW s \in Sem
      PROVE  LET n == Cardinality(Blocked(r, s))
             IN  /\ n > 0 => r.count[s] <= -n
                 /\ Deletable = {} /\ r.count[s] < 0 => r.count[s] = -n
  <2>1. CASE s = sem
    <3>1. Cardinality(Blocked(r, s)) = 0
      BY <1>2, <2>1, BlockedFinite
    <3>2. r.count[s] = v /\ v \in Int
      BY <1>1, <2>1, CountFloorNat, SemMaxPositive
    <3>. QED  BY <3>1, <3>2
  <2>2. CASE s # sem
    <3>1. r.count[s] = k.count[s]
      BY <1>1, <2>2
    <3>. QED  BY <1>2, <3>1 DEF KInv, Counted
  <2>. QED  BY <2>1, <2>2
<1>4. Counted(r)
  BY <1>3 DEF Counted
<1>5. Agree(r, gone)
  BY DEF KInv, Agree
<1>6. Safe(r.sched) /\ Ordered(r.sched) /\ Cleared(r)
  BY DEF KInv, Cleared
<1>. QED  BY <1>4, <1>5, <1>6 DEF KInv

\* A blocked task leaves: the count goes up by one and the blocked tasks are one
\* fewer.  What else becomes of the task is the scheduler's affair.
LEMMA KLeave ==
  ASSUME NEW k, NEW gone, KInv(k, gone), NEW t \in Task, k.sched.tstate[t] = "WAIT_SEM",
         NEW r, r.errcode \in [Task -> Errcode],
         r = [sched |-> r.sched, count |-> r.count, waitsem |-> r.waitsem, errcode |-> r.errcode],
         Safe(r.sched), Ordered(r.sched),
         r.count = [k.count EXCEPT ![k.waitsem[t]] = @ + 1],
         r.waitsem = [k.waitsem EXCEPT ![t] = None],
         r.sched.tstate[t] # "WAIT_SEM",
         \A x \in Task : x # t =>
           /\ r.sched.tstate[x] = "WAIT_SEM" <=> k.sched.tstate[x] = "WAIT_SEM"
           /\ r.sched.tstate[x] = "INVALID" <=> k.sched.tstate[x] = "INVALID"
           /\ r.errcode[x] = k.errcode[x]
  PROVE  /\ KInv(r, gone)
         /\ k.waitsem[t] \in Sem /\ k.count[k.waitsem[t]] < 0
         /\ t \in Blocked(k, k.waitsem[t])
         /\ \A s \in Sem : Blocked(r, s) = Blocked(k, s) \ {t}
<1>. DEFINE sem == k.waitsem[t]
            n == Cardinality(Blocked(k, sem))
<1>1. /\ k.count \in [Sem -> (-CountFloor)..SemMax] /\ k.waitsem \in [Task -> Sem \cup {None}]
      /\ Agree(k, gone) /\ Counted(k)
  BY DEF KInv, KState
<1>2. t \notin gone /\ sem \in Sem /\ t \in Blocked(k, sem)
  BY <1>1 DEF Agree, Blocked
<1>3. \A s \in Sem : Blocked(r, s) = Blocked(k, s) \ {t}
  BY <1>1, NoneIsNull DEF Blocked
<1>4. /\ n \in Nat /\ n > 0
      /\ \A s \in Sem : s # sem => Blocked(k, s) \ {t} = Blocked(k, s)
      /\ Cardinality(Blocked(k, sem) \ {t}) = n - 1
  <2>1. IsFiniteSet(Blocked(k, sem)) /\ n \in Nat /\ (n = 0 <=> Blocked(k, sem) = {})
    BY BlockedFinite
  <2>2. Cardinality(Blocked(k, sem) \ {t}) = n - 1
    BY <1>2, <2>1, FS_RemoveElement
  <2>3. \A s \in Sem : s # sem => t \notin Blocked(k, s)
    BY DEF Blocked
  <2>. HIDE DEF n, sem
  <2>. QED  BY <1>2, <2>1, <2>2, <2>3
<1>5. /\ k.count[sem] <= -n
      /\ Deletable = {} /\ k.count[sem] < 0 => k.count[sem] = -n
  BY <1>1, <1>2, <1>4 DEF Counted
<1>. HIDE DEF n, sem
<1>6. k.count[sem] \in (-CountFloor)..SemMax /\ k.count[sem] < 0
  BY <1>1, <1>2, <1>4, <1>5, CountFloorNat, SemMaxPositive
<1>7. r.count = [k.count EXCEPT ![sem] = k.count[sem] + 1]
  BY DEF sem
<1>8. k.count[sem] + 1 \in (-CountFloor)..SemMax
  BY <1>6, CountFloorNat, SemMaxPositive
<1>9. r \in KState
  <2>1. r.sched \in SchedState
    BY DEF Safe, Core
  <2>2. r.count \in [Sem -> (-CountFloor)..SemMax]
    BY <1>1, <1>2, <1>7, <1>8
  <2>3. r.waitsem \in [Task -> Sem \cup {None}]
    BY <1>1
  <2>. QED  BY <2>1, <2>2, <2>3 DEF KState
<1>10. ASSUME NEW s \in Sem
       PROVE  LET m == Cardinality(Blocked(r, s))
              IN  /\ m > 0 => r.count[s] <= -m
                  /\ Deletable = {} /\ r.count[s] < 0 => r.count[s] = -m
  <2>1. CASE s = sem
    <3>1. Cardinality(Blocked(r, s)) = n - 1
      BY <1>3, <1>4, <2>1
    <3>2. r.count[s] = k.count[sem] + 1 /\ k.count[sem] \in Int
      BY <1>1, <1>6, <1>7, <2>1, CountFloorNat, SemMaxPositive
    <3>. QED  BY <1>4, <1>5, <1>6, <3>1, <3>2
  <2>2. CASE s # sem
    <3>1. r.count[s] = k.count[s] /\ Blocked(r, s) = Blocked(k, s)
      BY <1>1, <1>3, <1>4, <1>7, <2>2
    <3>. QED  BY <1>1, <3>1 DEF Counted
  <2>. QED  BY <2>1, <2>2
<1>11. Counted(r)
  BY <1>10 DEF Counted
<1>12. Agree(r, gone)
  BY <1>1, <1>2 DEF Agree
<1>13. Cleared(r)
  BY DEF KInv, Cleared
<1>. QED  BY <1>2, <1>3, <1>6, <1>9, <1>11, <1>12, <1>13 DEF KInv, sem

(***************************************************************************)
(* The end of a wait: nxsem_post and nxsem_wait_irq.                       *)
(***************************************************************************)
\* What the phase of a task says of its state.
LEMMA PhaseTells ==
  ASSUME NEW s, NEW x \in Task
  PROVE  /\ Phase(s)[x] = "WAIT_SEM" <=> s.tstate[x] = "WAIT_SEM"
         /\ Phase(s)[x] = "INVALID" <=> s.tstate[x] = "INVALID"
         /\ Phase(s)[x] = "INACTIVE" <=> s.tstate[x] = "INACTIVE"
BY DEF Phase, BlockedState, WaitState

\* up_unblock_task of a task that waits for a semaphore
LEMMA UnblockWaiter ==
  ASSUME NEW s, Safe(s), Ordered(s), NEW t \in Task, s.tstate[t] = "WAIT_SEM"
  PROVE  LET r == UnblockTask(s, t)
         IN  /\ Safe(r) /\ Ordered(r)
             /\ r.tstate[t] # "WAIT_SEM" /\ r.tstate[t] # "INVALID"
             /\ \A x \in Task : x # t =>
                  /\ r.tstate[x] = "WAIT_SEM" <=> s.tstate[x] = "WAIT_SEM"
                  /\ r.tstate[x] = "INVALID" <=> s.tstate[x] = "INVALID"
<1>. DEFINE r == UnblockTask(s, t)
<1>1. s.tstate[t] \in BlockedState /\ Core(s)
  BY DEF BlockedState, WaitState, Safe
<1>2. Phase(r) = [Phase(s) EXCEPT ![t] = "READY"] /\ Safe(r) /\ Ordered(r)
  BY <1>1, UnblockTaskPhase, UnblockTaskSafe, UnblockTaskOrdered
<1>3. Phase(s) \in [Task -> BlockedState \cup {"INVALID", "READY"}]
  BY PhaseType
<1>. HIDE DEF r
<1>4. Phase(r)[t] = "READY" /\ \A x \in Task : x # t => Phase(r)[x] = Phase(s)[x]
  BY <1>2, <1>3
<1>5. \A x \in Task : /\ Phase(r)[x] = "WAIT_SEM" <=> r.tstate[x] = "WAIT_SEM"
                      /\ Phase(r)[x] = "INVALID" <=> r.tstate[x] = "INVALID"
  BY PhaseTells
<1>6. \A x \in Task : /\ Phase(s)[x] = "WAIT_SEM" <=> s.tstate[x] = "WAIT_SEM"
                      /\ Phase(s)[x] = "INVALID" <=> s.tstate[x] = "INVALID"
  BY PhaseTells
<1>7. r.tstate[t] # "WAIT_SEM" /\ r.tstate[t] # "INVALID"
  BY <1>4, <1>5
<1>8. ASSUME NEW x \in Task, x # t
      PROVE  /\ r.tstate[x] = "WAIT_SEM" <=> s.tstate[x] = "WAIT_SEM"
             /\ r.tstate[x] = "INVALID" <=> s.tstate[x] = "INVALID"
  BY <1>4, <1>5, <1>6, <1>8
<1>. QED  BY <1>2, <1>7, <1>8 DEF r

\* nxsem_post finds a waiter exactly if one is blocked on the semaphore, and the
\* one it finds has the highest priority of them all.
LEMMA FirstWaiterIs ==
  ASSUME NEW k, NEW gone, KInv(k, gone), NEW sem \in Sem
  PROVE  /\ FirstWaiter(k, sem) = {} => Blocked(k, sem) = {}
         /\ \A t \in FirstWaiter(k, sem) :
              /\ t \in Blocked(k, sem)
              /\ \A u \in Blocked(k, sem) : k.sched.prio[u] <= k.sched.prio[t]
<1>. DEFINE s == k.sched
            list == s.blk["WAIT_SEM"]
            At(j) == k.waitsem[list[j]] = sem
            First(j) == At(j) /\ \A h \in 1..(j - 1) : ~At(h)
<1>1. /\ "WAIT_SEM" \in BlockedState /\ "WAIT_SEM" \in Prioritized
      /\ Core(s) /\ Sorted(s)
  BY DEF KInv, Safe, Ordered, BlockedState, WaitState, Prioritized
<1>2. /\ list \in Seq(Task) /\ Descending(list, s.prio) /\ s.prio \in [Task -> Nat]
      /\ \A x \in Task : OnList(list, x) <=> s.tstate[x] = "WAIT_SEM"
  <2>1. s.prio \in [Task -> Nat] /\ s \in SchedState /\ \A x \in Task : PlacedAt(s, x)
    BY <1>1, CoreFacts, CoreParts
  <2>2. list \in Seq(Task)
    BY <1>1, <2>1 DEF SchedState
  <2>. HIDE DEF s
  <2>3. Descending(list, s.prio)
    BY <1>1 DEF Sorted
  <2>4. \A x \in Task : OnList(list, x) <=> s.tstate[x] = "WAIT_SEM"
    BY <1>1, <2>1 DEF PlacedAt
  <2>. QED  BY <2>1, <2>2, <2>3, <2>4
<1>3. FirstWaiter(k, sem) = {list[j] : j \in {h \in 1..Len(list) : First(h)}}
  BY DEF FirstWaiter
<1>. HIDE DEF list, s
<1>4. \A u \in Blocked(k, sem) : u \in Task /\ \E i \in 1..Len(list) : list[i] = u /\ At(i)
  BY <1>2 DEF Blocked, OnList, s
<1>5. ASSUME NEW u \in Blocked(k, sem)
      PROVE  FirstWaiter(k, sem) # {}
  <2>. DEFINE B == {i \in 1..Len(list) : At(i)}
  <2>1. B \in SUBSET Nat /\ B # {}
    BY <1>4
  <2>2. PICK m \in B : \A i \in B : m <= i
    <3>. HIDE DEF B
    <3>. QED  BY <2>1, LeastNat
  <2>3. m \in 1..Len(list) /\ First(m)
    BY <2>2
  <2>. QED  BY <1>3, <2>3
<1>6. ASSUME NEW j \in 1..Len(list), First(j)
      PROVE  /\ list[j] \in Blocked(k, sem)
             /\ \A u \in Blocked(k, sem) : s.prio[u] <= s.prio[list[j]]
  <2>1. list[j] \in Task /\ OnList(list, list[j])
    BY <1>2 DEF OnList
  <2>2. list[j] \in Blocked(k, sem)
    BY <1>2, <1>6, <2>1 DEF Blocked, s
  <2>3. ASSUME NEW u \in Blocked(k, sem) PROVE s.prio[u] <= s.prio[list[j]]
    <3>1. PICK i \in 1..Len(list) : list[i] = u /\ At(i)
      BY <1>4
    <3>2. j <= i
      BY <1>6, <3>1
    <3>3. CASE j = i
      BY <1>2, <2>1, <3>1, <3>3
    <3>4. CASE j < i
      BY <1>2, <3>1, <3>4 DEF Descending
    <3>. QED  BY <3>2, <3>3, <3>4
  <2>. QED  BY <2>2, <2>3
<1>. QED  BY <1>3, <1>5, <1>6 DEF s

\* nxsem_post does nothing, adds a unit because nobody is blocked, or hands the
\* unit to the blocked task of the highest priority.
LEMMA PostKeeps ==
  ASSUME NEW k, NEW gone, KInv(k, gone), NEW sem \in Sem
  PROVE  LET r == nxsem_post(k, sem)
         IN  /\ KInv(r, gone) /\ r.errcode = k.errcode
             /\ \A x \in Task : r.sched.tstate[x] = "INVALID" <=> k.sched.tstate[x] = "INVALID"
             /\ \/ r = k /\ k.count[sem] >= SemMax
                \/ /\ Blocked(k, sem) = {} /\ k.count[sem] < SemMax
                   /\ r.count = [k.count EXCEPT ![sem] = k.count[sem] + 1]
                   /\ r.waitsem = k.waitsem /\ r.sched = k.sched
                \/ /\ k.count[sem] < 0
                   /\ r.count = [k.count EXCEPT ![sem] = k.count[sem] + 1]
                   /\ \E t \in Blocked(k, sem) :
                        /\ r.waitsem = [k.waitsem EXCEPT ![t] = None]
                        /\ \A s \in Sem : Blocked(r, s) = Blocked(k, s) \ {t}
                        /\ \A u \in Blocked(k, sem) : k.sched.prio[u] <= k.sched.prio[t]
<1>. DEFINE r == nxsem_post(k, sem)
            c == [k.count EXCEPT ![sem] = k.count[sem] + 1]
            woken == FirstWaiter(k, sem)
            t == CHOOSE x \in woken : TRUE
            w == [k.waitsem EXCEPT ![t] = None]
            b == UnblockTask(k.sched, t)
<1>1. /\ k = [sched |-> k.sched, count |-> k.count, waitsem |-> k.waitsem, errcode |-> k.errcode]
      /\ k.sched \in SchedState /\ k.count \in [Sem -> (-CountFloor)..SemMax]
      /\ k.waitsem \in [Task -> Sem \cup {None}] /\ k.errcode \in [Task -> Errcode]
      /\ Safe(k.sched) /\ Ordered(k.sched)
  BY DEF KInv, KState
<1>2. k.count[sem] \in (-CountFloor)..SemMax /\ k.count[sem] \in Int /\ SemMax \in Int /\ SemMax > 0
      /\ CountFloor \in Nat
  BY <1>1, CountFloorNat, SemMaxPositive
<1>3. CASE k.count[sem] >= SemMax
  <2>1. r = k
    BY <1>3 DEF nxsem_post
  <2>. QED  BY <1>3, <2>1
<1>4. CASE k.count[sem] < SemMax /\ Blocked(k, sem) = {}
  <2>1. woken = {}
    BY FirstWaiterIs, <1>4
  <2>2. r = [sched |-> k.sched, count |-> c, waitsem |-> k.waitsem, errcode |-> k.errcode]
    BY <1>1, <1>2, <1>4, <2>1 DEF nxsem_post
  <2>3. k.count[sem] + 1 \in (-CountFloor)..SemMax
    BY <1>2, <1>4
  <2>4. c \in [Sem -> (-CountFloor)..SemMax]
    BY <1>1, <2>3
  <2>5. r \in KState
    BY <1>1, <2>2, <2>4 DEF KState
  <2>6. Deletable = {} => k.count[sem] + 1 >= 0
    <3>1. Cardinality(Blocked(k, sem)) = 0
      BY <1>4, BlockedFinite
    <3>. QED  BY <1>2, <3>1 DEF KInv, Counted
  <2>. HIDE DEF r
  <2>7. KInv(r, gone)
    BY <1>4, <2>2, <2>3, <2>5, <2>6, KCount
  <2>. QED  BY <1>4, <2>2, <2>7 DEF r
<1>5. CASE k.count[sem] < SemMax /\ Blocked(k, sem) # {}
  <2>1. k.count[sem] < 0
    BY <1>2, <1>5, FreeSemaphore
  <2>2. woken # {}
    BY <1>5, FirstWaiterIs
  <2>3. /\ t \in Blocked(k, sem)
        /\ \A u \in Blocked(k, sem) : k.sched.prio[u] <= k.sched.prio[t]
    <3>1. t \in woken
      BY <2>2
    <3>. HIDE DEF t
    <3>. QED  BY <3>1, FirstWaiterIs
  <2>4. r = [sched |-> b, count |-> c, waitsem |-> w, errcode |-> k.errcode]
    <3>1. ~(c[sem] > 0)
      BY <1>1, <1>2, <2>1
    <3>2. r = [[k EXCEPT !.count[sem] = @ + 1] EXCEPT !.waitsem[t] = None, !.sched = b]
      <4>1. ~(k.count[sem] >= SemMax) /\ ~([k EXCEPT !.count[sem] = @ + 1].count[sem] > 0)
        BY <1>1, <1>2, <1>5, <3>1
      <4>. QED  BY <2>2, <4>1 DEF nxsem_post
    <3>. HIDE DEF t, b, r
    <3>. QED  BY <1>1, <3>2
  <2>. HIDE DEF t, woken, r
  <2>5. t \in Task /\ k.sched.tstate[t] = "WAIT_SEM" /\ k.waitsem[t] = sem
    BY <2>3 DEF Blocked
  <2>6. /\ Safe(b) /\ Ordered(b)
        /\ b.tstate[t] # "WAIT_SEM" /\ b.tstate[t] # "INVALID"
        /\ \A x \in Task : x # t =>
             /\ b.tstate[x] = "WAIT_SEM" <=> k.sched.tstate[x] = "WAIT_SEM"
             /\ b.tstate[x] = "INVALID" <=> k.sched.tstate[x] = "INVALID"
    BY <1>1, <2>5, UnblockWaiter
  <2>7. \A x \in Task : b.tstate[x] = "INVALID" <=> k.sched.tstate[x] = "INVALID"
    BY <2>5, <2>6
  <2>. HIDE DEF b
  <2>8. /\ r.sched = b /\ r.count = c /\ r.waitsem = w /\ r.errcode = k.errcode
        /\ r = [sched |-> r.sched, count |-> r.count, waitsem |-> r.waitsem,
                errcode |-> r.errcode]
    BY <2>4
  <2>9. r.count = [k.count EXCEPT ![k.waitsem[t]] = @ + 1]
    BY <2>5, <2>8
  <2>10. KInv(r, gone) /\ \A s \in Sem : Blocked(r, s) = Blocked(k, s) \ {t}
    BY <1>1, <2>5, <2>6, <2>8, <2>9, KLeave
  <2>. QED  BY <2>1, <2>3, <2>7, <2>8, <2>10 DEF r
<1>6. \/ k.count[sem] >= SemMax
      \/ k.count[sem] < SemMax /\ Blocked(k, sem) = {}
      \/ k.count[sem] < SemMax /\ Blocked(k, sem) # {}
  BY <1>2
<1>. HIDE DEF r
<1>. QED  BY <1>3, <1>4, <1>5, <1>6 DEF r

\* The wait of t has ended and the unit it asked for is given back.
Left(k, r, t) ==
  /\ k.waitsem[t] \in Sem /\ k.count[k.waitsem[t]] < 0 /\ t \in Blocked(k, k.waitsem[t])
  /\ r.count = [k.count EXCEPT ![k.waitsem[t]] = k.count[k.waitsem[t]] + 1]
  /\ r.waitsem = [k.waitsem EXCEPT ![t] = None]
  /\ \A sem \in Sem : Blocked(r, sem) = Blocked(k, sem) \ {t}

\* A signal or a timeout ends one wait and gives back the unit it asked for.
LEMMA WaitIrqKeeps ==
  ASSUME NEW k, NEW gone, KInv(k, gone), NEW t \in Task, k.sched.tstate[t] = "WAIT_SEM",
         NEW err \in Errcode
  PROVE  LET r == nxsem_wait_irq(k, t, err)
         IN  /\ KInv(r, gone) /\ r.errcode = [k.errcode EXCEPT ![t] = err] /\ Left(k, r, t)
             /\ \A x \in Task : r.sched.tstate[x] = "INVALID" <=> k.sched.tstate[x] = "INVALID"
<1>. DEFINE r == nxsem_wait_irq(k, t, err)
            sem == k.waitsem[t]
            b == UnblockTask(k.sched, t)
            c == [k.count EXCEPT ![sem] = k.count[sem] + 1]
            w == [k.waitsem EXCEPT ![t] = None]
            e == [k.errcode EXCEPT ![t] = err]
<1>1. /\ k = [sched |-> k.sched, count |-> k.count, waitsem |-> k.waitsem, errcode |-> k.errcode]
      /\ k.errcode \in [Task -> Errcode] /\ Safe(k.sched) /\ Ordered(k.sched)
  BY DEF KInv, KState
<1>2. r = [sched |-> b, count |-> c, waitsem |-> w, errcode |-> e]
  BY <1>1 DEF nxsem_wait_irq
<1>3. e \in [Task -> Errcode]
  BY <1>1
<1>4. /\ Safe(b) /\ Ordered(b)
      /\ b.tstate[t] # "WAIT_SEM" /\ b.tstate[t] # "INVALID"
      /\ \A x \in Task : x # t =>
           /\ b.tstate[x] = "WAIT_SEM" <=> k.sched.tstate[x] = "WAIT_SEM"
           /\ b.tstate[x] = "INVALID" <=> k.sched.tstate[x] = "INVALID"
  BY <1>1, UnblockWaiter
<1>. HIDE DEF b, r
<1>5. /\ r.sched = b /\ r.count = c /\ r.waitsem = w /\ r.errcode = e
      /\ r = [sched |-> r.sched, count |-> r.count, waitsem |-> r.waitsem,
              errcode |-> r.errcode]
  BY <1>2
<1>6. r.count = [k.count EXCEPT ![k.waitsem[t]] = @ + 1]
  BY <1>5
<1>7. /\ KInv(r, gone) /\ \A s \in Sem : Blocked(r, s) = Blocked(k, s) \ {t}
      /\ sem \in Sem /\ k.count[sem] < 0 /\ t \in Blocked(k, sem)
  <2>1. \A x \in Task : x # t => r.errcode[x] = k.errcode[x]
    BY <1>1, <1>5
  <2>. QED  BY <1>1, <1>3, <1>4, <1>5, <1>6, <2>1, KLeave
<1>8. \A x \in Task : r.sched.tstate[x] = "INVALID" <=> k.sched.tstate[x] = "INVALID"
  BY <1>4, <1>5
<1>9. Left(k, r, t)
  BY <1>5, <1>7 DEF Left
<1>. QED  BY <1>5, <1>7, <1>8, <1>9 DEF r

(***************************************************************************)
(* nxsem_reset                                                             *)
(***************************************************************************)
ResetStep(v, sem) ==
  IF v.k.count[sem] < 0 THEN [k |-> nxsem_post(v.k, sem), left |-> v.left - 1] ELSE v

ResetState(gone) == {v \in [k : KState, left : Int] : KInv(v.k, gone)}

\* The loop of nxsem_reset is a sequence of posts, one per unit and only while
\* the count is negative.
LEMMA ResetUnfold ==
  ASSUME NEW k, NEW gone, KInv(k, gone), NEW sem \in Sem, NEW n \in Nat
  PROVE  \E loop \in [0..n -> ResetState(gone)] :
           /\ loop[0] = [k |-> k, left |-> n]
           /\ \A i \in 1..n : loop[i] = ResetStep(loop[i - 1], sem)
           /\ ResetSteps(k, sem, n) = loop[n]
<1>. DEFINE V == ResetState(gone)
            v0 == [k |-> k, left |-> n]
            F == [i \in Nat |-> [v \in V |-> ResetStep(v, sem)]]
            D(f) == [i \in 0..n |->
                       IF i = 0 THEN v0
                       ELSE IF f[i - 1].k.count[sem] < 0
                            THEN [k |-> nxsem_post(f[i - 1].k, sem), left |-> f[i - 1].left - 1]
                            ELSE f[i - 1]]
<1>1. v0 \in V
  BY DEF ResetState, KInv
<1>2. F \in [Nat -> [V -> V]]
  <2>1. ASSUME NEW v \in V PROVE ResetStep(v, sem) \in V
    <3>1. v \in [k : KState, left : Int] /\ KInv(v.k, gone)
      BY DEF ResetState
    <3>2. KInv(nxsem_post(v.k, sem), gone)
      BY <3>1, PostKeeps
    <3>3. nxsem_post(v.k, sem) \in KState
      BY <3>2 DEF KInv
    <3>4. [k |-> nxsem_post(v.k, sem), left |-> v.left - 1] \in V
      BY <3>1, <3>2, <3>3 DEF ResetState
    <3>. QED  BY <3>4 DEF ResetStep
  <2>. HIDE DEF V
  <2>. QED  BY <2>1
<1>3. PICK g : Iterates(g, n, V, v0, F)
  <2>. HIDE DEF F, v0, V
  <2>. QED  BY <1>1, <1>2, RecursionExists
<1>4. /\ g \in [0..n -> V] /\ g[0] = v0
      /\ \A i \in 1..n : g[i] = ResetStep(g[i - 1], sem)
  <2>1. \A v \in V, i \in 1..n : F[i][v] = ResetStep(v, sem)
    <3>. HIDE DEF V
    <3>. QED  OBVIOUS
  <2>. HIDE DEF F, v0, V
  <2>2. g \in [0..n -> V] /\ g[0] = v0
    BY <1>3 DEF Iterates
  <2>3. ASSUME NEW i \in 1..n
        PROVE  g[i] = ResetStep(g[i - 1], sem)
    <3>1. g[i] = F[i][g[i - 1]]
      BY <1>3 DEF Iterates
    <3>2. g[i - 1] \in V
      <4>1. i - 1 \in 0..n
        OBVIOUS
      <4>. QED  BY <2>2, <4>1
    <3>. QED  BY <2>1, <3>1, <3>2
  <2>. QED  BY <2>2, <2>3
<1>5. \A f : /\ D(f)[0] = v0
             /\ \A i \in 1..n : D(f)[i] = ResetStep(f[i - 1], sem)
  <2>. HIDE DEF v0
  <2>. QED  BY DEF ResetStep
<1>6. g = D(g)
  <2>1. \A i \in 0..n : g[i] = D(g)[i]
    <3>1. \A i \in 0..n : i = 0 \/ i \in 1..n
      OBVIOUS
    <3>. HIDE DEF D, v0
    <3>. QED  BY <1>4, <1>5, <3>1
  <2>2. D(g) = [i \in 0..n |-> D(g)[i]]
    OBVIOUS
  <2>. HIDE DEF D, v0, V
  <2>. QED  BY <1>4, <2>1, <2>2
<1>. DEFINE m == CHOOSE f : f = D(f)
<1>7. ResetSteps(k, sem, n) = m[n]
  BY DEF ResetSteps
<1>8. m = D(m)
  BY <1>6
<1>9. m[0] = v0 /\ \A i \in 1..n : m[i] = ResetStep(m[i - 1], sem)
  <2>. HIDE DEF m, D, v0
  <2>. QED  BY <1>5, <1>8
<1>. DEFINE S == {i \in Nat : i <= n => m[i] = g[i]}
<1>10. Nat \subseteq S
  <2>. HIDE DEF m, v0
  <2>1. 0 \in S
    BY <1>4, <1>9
  <2>2. ASSUME NEW i \in Nat, i \in S PROVE i + 1 \in S
    <3>. SUFFICES ASSUME i + 1 <= n PROVE m[i + 1] = g[i + 1]
      OBVIOUS
    <3>1. i + 1 \in 1..n /\ (i + 1) - 1 = i /\ m[i] = g[i]
      BY <2>2
    <3>. QED  BY <1>4, <1>9, <3>1
  <2>. HIDE DEF S
  <2>. QED  BY <2>1, <2>2, InductionOnSet
<1>11. m[n] = g[n]
  <2>. HIDE DEF m
  <2>. QED  BY <1>10
<1>. HIDE DEF m, v0, V
<1>. QED  BY <1>4, <1>7, <1>11 DEF v0, V

\* After some posts of the loop: what happened to k so far, with `served' the
\* tasks that got a unit.
Served(k, v, sem, n, served) ==
  /\ v.k.waitsem = [x \in Task |-> IF x \in served THEN None ELSE k.waitsem[x]]
  /\ \A s \in Sem : Blocked(v.k, s) = Blocked(k, s) \ served
  /\ Deletable = {} => Cardinality(served) = n - v.left

Progress(k, v, sem, n, i) ==
  /\ v.left \in 0..n /\ (v.k.count[sem] >= 0 \/ v.left = n - i) /\ v.left >= n - i
  /\ v.k.count = [k.count EXCEPT ![sem] = k.count[sem] + (n - v.left)]
  /\ v.k.errcode = k.errcode
  /\ \A x \in Task : v.k.sched.tstate[x] = "INVALID" <=> k.sched.tstate[x] = "INVALID"
  /\ \E served \in SUBSET Blocked(k, sem) : Served(k, v, sem, n, served)

\* One post of the loop.
LEMMA ResetProgress ==
  ASSUME NEW k, NEW gone, KInv(k, gone), NEW sem \in Sem, NEW n \in Nat,
         NEW v \in ResetState(gone), NEW i \in 1..n, Progress(k, v, sem, n, i - 1)
  PROVE  Progress(k, ResetStep(v, sem), sem, n, i)
<1>. DEFINE r == nxsem_post(v.k, sem)
            q == [k |-> r, left |-> v.left - 1]
<1>1. /\ v.left \in 0..n /\ (v.k.count[sem] >= 0 \/ v.left = n - (i - 1)) /\ v.left >= n - (i - 1)
      /\ v.k.count = [k.count EXCEPT ![sem] = k.count[sem] + (n - v.left)]
      /\ v.k.errcode = k.errcode
      /\ \A x \in Task : v.k.sched.tstate[x] = "INVALID" <=> k.sched.tstate[x] = "INVALID"
  BY DEF Progress
<1>2. PICK served \in SUBSET Blocked(k, sem) : Served(k, v, sem, n, served)
  BY DEF Progress
<1>3. /\ KInv(v.k, gone) /\ k.count \in [Sem -> (-CountFloor)..SemMax]
      /\ v.k.count \in [Sem -> (-CountFloor)..SemMax]
      /\ k.waitsem \in [Task -> Sem \cup {None}] /\ v.k.waitsem \in [Task -> Sem \cup {None}]
  BY DEF ResetState, KInv, KState
<1>4. k.count[sem] \in Int /\ v.k.count[sem] \in Int /\ SemMax \in Nat /\ SemMax > 0
  BY <1>3, CountFloorNat, SemMaxPositive
<1>5. CASE v.k.count[sem] >= 0
  <2>1. ResetStep(v, sem) = v
    BY <1>4, <1>5 DEF ResetStep
  <2>2. v.left >= n - i
    BY <1>1
  <2>. QED  BY <1>1, <1>2, <1>5, <2>1, <2>2 DEF Progress
<1>6. CASE v.k.count[sem] < 0
  <2>1. ResetStep(v, sem) = q
    BY <1>6 DEF ResetStep
  <2>2. v.left = n - (i - 1) /\ v.left - 1 \in 0..n
    BY <1>1, <1>4, <1>6
  <2>3. /\ r.errcode = v.k.errcode
        /\ \A x \in Task : r.sched.tstate[x] = "INVALID" <=> v.k.sched.tstate[x] = "INVALID"
        /\ r.count = [v.k.count EXCEPT ![sem] = v.k.count[sem] + 1]
        /\ \/ Blocked(v.k, sem) = {} /\ r.waitsem = v.k.waitsem /\ r.sched = v.k.sched
           \/ \E t \in Blocked(v.k, sem) :
                /\ r.waitsem = [v.k.waitsem EXCEPT ![t] = None]
                /\ \A s \in Sem : Blocked(r, s) = Blocked(v.k, s) \ {t}
    <3>1. ~(v.k.count[sem] >= SemMax)
      BY <1>4, <1>6
    <3>2. /\ r.errcode = v.k.errcode
          /\ \A x \in Task : r.sched.tstate[x] = "INVALID" <=> v.k.sched.tstate[x] = "INVALID"
          /\ \/ r = v.k /\ v.k.count[sem] >= SemMax
             \/ /\ Blocked(v.k, sem) = {} /\ v.k.count[sem] < SemMax
                /\ r.count = [v.k.count EXCEPT ![sem] = v.k.count[sem] + 1]
                /\ r.waitsem = v.k.waitsem /\ r.sched = v.k.sched
             \/ /\ v.k.count[sem] < 0
                /\ r.count = [v.k.count EXCEPT ![sem] = v.k.count[sem] + 1]
                /\ \E t \in Blocked(v.k, sem) :
                     /\ r.waitsem = [v.k.waitsem EXCEPT ![t] = None]
                     /\ \A s \in Sem : Blocked(r, s) = Blocked(v.k, s) \ {t}
                     /\ \A u \in Blocked(v.k, sem) :
                          v.k.sched.prio[u] <= v.k.sched.prio[t]
      BY <1>3, PostKeeps
    <3>. HIDE DEF r
    <3>. QED  BY <3>1, <3>2
  <2>. HIDE DEF r
  <2>4. q.k = r /\ q.left = v.left - 1
    OBVIOUS
  <2>5. r.count = [k.count EXCEPT ![sem] = k.count[sem] + (n - q.left)]
    <3>1. v.k.count[sem] = k.count[sem] + (n - v.left)
      BY <1>1, <1>3
    <3>2. v.k.count[sem] + 1 = k.count[sem] + (n - q.left)
      BY <1>1, <1>4, <2>4, <3>1
    <3>. QED  BY <1>1, <1>3, <2>3, <3>2
  <2>6. \E srv \in SUBSET Blocked(k, sem) : Served(k, q, sem, n, srv)
    <3>1. CASE Blocked(v.k, sem) = {} /\ r.waitsem = v.k.waitsem /\ r.sched = v.k.sched
      <4>1. \A s \in Sem : Blocked(r, s) = Blocked(v.k, s)
        BY <3>1 DEF Blocked
      <4>2. Deletable = {} => FALSE
        <5>1. Cardinality(Blocked(v.k, sem)) = 0
          BY <3>1, BlockedFinite
        <5>. QED  BY <1>3, <1>4, <1>6, <5>1 DEF KInv, Counted
      <4>. QED  BY <1>2, <2>4, <3>1, <4>1, <4>2 DEF Served
    <3>2. ASSUME NEW t \in Blocked(v.k, sem),
                 r.waitsem = [v.k.waitsem EXCEPT ![t] = None],
                 \A s \in Sem : Blocked(r, s) = Blocked(v.k, s) \ {t}
          PROVE  Served(k, q, sem, n, served \cup {t}) /\ t \in Blocked(k, sem)
      <4>1. t \in Task /\ t \in Blocked(k, sem) /\ t \notin served
        BY <1>2 DEF Served, Blocked
      <4>2. r.waitsem = [x \in Task |-> IF x \in served \cup {t} THEN None ELSE k.waitsem[x]]
        BY <1>2, <1>3, <3>2, <4>1 DEF Served
      <4>3. \A s \in Sem : Blocked(r, s) = Blocked(k, s) \ (served \cup {t})
        BY <1>2, <3>2 DEF Served
      <4>4. IsFiniteSet(served) /\ Cardinality(served) \in Nat
        BY BlockedFinite, FS_Subset, FS_CardinalityType
      <4>5. Cardinality(served \cup {t}) = Cardinality(served) + 1
        BY <4>1, <4>4, FS_AddElement
      <4>6. Deletable = {} => Cardinality(served \cup {t}) = n - q.left
        BY <1>1, <1>2, <2>4, <4>4, <4>5 DEF Served
      <4>. QED  BY <2>4, <4>1, <4>2, <4>3, <4>6 DEF Served
    <3>. QED  BY <2>3, <3>1, <3>2
  <2>7. \A x \in Task : r.sched.tstate[x] = "INVALID" <=> k.sched.tstate[x] = "INVALID"
    BY <1>1, <2>3
  <2>8. q.left \in 0..n /\ q.left = n - i /\ q.left >= n - i
    BY <2>2, <2>4
  <2>. HIDE DEF q
  <2>. QED  BY <1>1, <2>1, <2>3, <2>4, <2>5, <2>6, <2>7, <2>8 DEF Progress
<1>. QED  BY <1>4, <1>5, <1>6

\* nxsem_reset serves waiters first, in the order of posts, and keeps the rest
\* of the units if nobody is left.
AfterReset(k, r, sem, n, served) ==
  /\ r.waitsem = [x \in Task |-> IF x \in served THEN None ELSE k.waitsem[x]]
  /\ \A s \in Sem : s # sem => r.count[s] = k.count[s]
  /\ \A s \in Sem : Blocked(r, s) = Blocked(k, s) \ served
  /\ Deletable = {} =>
       \/ /\ Cardinality(served) = n
          /\ r.count[sem] = k.count[sem] + n /\ r.count[sem] < 0
          /\ n = 1 => r = nxsem_post(k, sem)
       \/ /\ served = Blocked(k, sem) /\ Cardinality(served) <= n
          /\ r.count[sem] = n - Cardinality(served)

\* The whole of nxsem_reset keeps the invariant and does what AfterReset says.
LEMMA ResetKeeps ==
  ASSUME NEW k, NEW gone, KInv(k, gone), NEW sem \in Sem, NEW n \in 0..SemMax
  PROVE  LET r == ResetCount(k, sem, n)
         IN  /\ KInv(r, gone) /\ r.errcode = k.errcode
             /\ \A x \in Task : r.sched.tstate[x] = "INVALID" <=> k.sched.tstate[x] = "INVALID"
             /\ \E served \in SUBSET Blocked(k, sem) : AfterReset(k, r, sem, n, served)
<1>1. n \in Nat /\ SemMax \in Nat /\ CountFloor \in Nat
  BY CountFloorNat, SemMaxPositive
<1>2. PICK loop \in [0..n -> ResetState(gone)] :
           /\ loop[0] = [k |-> k, left |-> n]
           /\ \A i \in 1..n : loop[i] = ResetStep(loop[i - 1], sem)
           /\ ResetSteps(k, sem, n) = loop[n]
  BY <1>1, ResetUnfold
<1>3. /\ k.count \in [Sem -> (-CountFloor)..SemMax] /\ k.waitsem \in [Task -> Sem \cup {None}]
  BY DEF KInv, KState
<1>. DEFINE S == {i \in Nat : i <= n => Progress(k, loop[i], sem, n, i)}
<1>4. Progress(k, loop[0], sem, n, 0)
  <2>. DEFINE v == loop[0]
  <2>1. v.k = k /\ v.left = n
    BY <1>2
  <2>. HIDE DEF v
  <2>2. v.k.count = [k.count EXCEPT ![sem] = k.count[sem] + (n - v.left)]
    <3>1. k.count[sem] + (n - n) = k.count[sem]
      BY <1>1, <1>3
    <3>. QED  BY <1>3, <2>1, <3>1
  <2>3. Served(k, v, sem, n, {})
    <3>1. Cardinality({}) = 0
      BY FS_EmptySet
    <3>. QED  BY <1>1, <1>3, <2>1, <3>1 DEF Served
  <2>. QED  BY <1>1, <2>1, <2>2, <2>3 DEF Progress, v
<1>5. Progress(k, loop[n], sem, n, n)
  <2>1. 0 \in S
    BY <1>4
  <2>2. ASSUME NEW i \in Nat, i \in S PROVE i + 1 \in S
    <3>. SUFFICES ASSUME i + 1 <= n PROVE Progress(k, loop[i + 1], sem, n, i + 1)
      OBVIOUS
    <3>1. /\ i + 1 \in 1..n /\ (i + 1) - 1 = i /\ i \in 0..n /\ Progress(k, loop[i], sem, n, i)
      BY <1>1, <2>2
    <3>2. loop[i] \in ResetState(gone)
      BY <1>2, <3>1
    <3>3. Progress(k, ResetStep(loop[i], sem), sem, n, i + 1)
      BY <1>1, <3>1, <3>2, ResetProgress
    <3>. QED  BY <1>2, <3>1, <3>3
  <2>3. Nat \subseteq S
    <3>. HIDE DEF S
    <3>. QED  BY <2>1, <2>2, InductionOnSet
  <2>. QED  BY <1>1, <2>3
<1>. DEFINE v == loop[n]
            r == ResetCount(k, sem, n)
<1>6. v \in ResetState(gone)
  BY <1>1, <1>2
<1>7. r = IF v.k.count[sem] >= 0 THEN [v.k EXCEPT !.count[sem] = v.left] ELSE v.k
  BY <1>2 DEF ResetCount
<1>8. n = 1 /\ k.count[sem] < 0 => v.k = nxsem_post(k, sem)
  <2>1. CASE n = 1 /\ k.count[sem] < 0
    <3>1. v = ResetStep([k |-> k, left |-> n], sem)
      BY <1>2, <2>1
    <3>. QED  BY <2>1, <3>1 DEF ResetStep
  <2>. QED  BY <2>1
<1>. HIDE DEF v, r
<1>9. /\ v.left \in 0..n /\ (v.k.count[sem] >= 0 \/ v.left = n - n)
      /\ v.k.count = [k.count EXCEPT ![sem] = k.count[sem] + (n - v.left)]
      /\ v.k.errcode = k.errcode
      /\ \A x \in Task : v.k.sched.tstate[x] = "INVALID" <=> k.sched.tstate[x] = "INVALID"
  BY <1>5 DEF Progress, v
<1>10. PICK served \in SUBSET Blocked(k, sem) : Served(k, v, sem, n, served)
  BY <1>5 DEF Progress, v
<1>11. /\ KInv(v.k, gone) /\ v.k.count \in [Sem -> (-CountFloor)..SemMax] /\ v.k \in KState
  BY <1>6 DEF ResetState, KInv, KState
<1>12. /\ v.k.count[sem] \in Int /\ k.count[sem] \in Int
       /\ v.k.count[sem] = k.count[sem] + (n - v.left)
       /\ \A s \in Sem : s # sem => v.k.count[s] = k.count[s]
  BY <1>1, <1>3, <1>9, <1>11
<1>13. IsFiniteSet(served) /\ Cardinality(served) \in Nat
  BY BlockedFinite, FS_Subset, FS_CardinalityType
<1>14. CASE v.k.count[sem] >= 0
  <2>1. /\ r.sched = v.k.sched /\ r.waitsem = v.k.waitsem /\ r.errcode = v.k.errcode
        /\ r.count = [v.k.count EXCEPT ![sem] = v.left]
        /\ r = [sched |-> r.sched, count |-> r.count, waitsem |-> r.waitsem,
                errcode |-> r.errcode]
    BY <1>7, <1>11, <1>14 DEF KState
  <2>2. v.left \in (-CountFloor)..SemMax /\ v.left >= 0
    BY <1>1, <1>9
  <2>3. r.count \in [Sem -> (-CountFloor)..SemMax] /\ r \in KState
    BY <1>11, <2>1, <2>2 DEF KState
  <2>4. Blocked(v.k, sem) = {}
    BY <1>11, <1>14, FreeSemaphore
  <2>5. KInv(r, gone)
    BY <1>11, <2>1, <2>2, <2>3, <2>4, KCount
  <2>6. served = Blocked(k, sem)
    BY <1>10, <2>4 DEF Served
  <2>7. \A s \in Sem : Blocked(r, s) = Blocked(k, s) \ served
    BY <1>10, <2>1 DEF Served, Blocked
  <2>8. r.count[sem] = v.left /\ \A s \in Sem : s # sem => r.count[s] = k.count[s]
    BY <1>11, <1>12, <2>1
  <2>9. Deletable = {} => Cardinality(served) <= n /\ r.count[sem] = n - Cardinality(served)
    BY <1>1, <1>9, <1>10, <1>13, <2>8 DEF Served
  <2>10. /\ r.waitsem = [x \in Task |-> IF x \in served THEN None ELSE k.waitsem[x]]
         /\ r.errcode = k.errcode
         /\ \A x \in Task : r.sched.tstate[x] = "INVALID" <=> k.sched.tstate[x] = "INVALID"
    BY <1>9, <1>10, <2>1 DEF Served
  <2>11. AfterReset(k, r, sem, n, served)
    BY <2>6, <2>7, <2>8, <2>9, <2>10 DEF AfterReset
  <2>. QED  BY <2>5, <2>10, <2>11 DEF r
<1>15. CASE v.k.count[sem] < 0
  <2>1. r = v.k /\ v.left = 0
    BY <1>1, <1>7, <1>9, <1>12, <1>15
  <2>2. k.count[sem] < 0 /\ r.count[sem] = k.count[sem] + n /\ r.count[sem] < 0
    BY <1>1, <1>12, <1>15, <2>1
  <2>3. Deletable = {} => Cardinality(served) = n
    BY <1>1, <1>10, <2>1 DEF Served
  <2>4. /\ r.waitsem = [x \in Task |-> IF x \in served THEN None ELSE k.waitsem[x]]
        /\ \A s \in Sem : Blocked(r, s) = Blocked(k, s) \ served
    BY <1>10, <2>1 DEF Served
  <2>5. n = 1 => r = nxsem_post(k, sem)
    BY <1>8, <2>1, <2>2
  <2>6. \A s \in Sem : s # sem => r.count[s] = k.count[s]
    BY <1>12, <2>1
  <2>7. KInv(r, gone) /\ r.errcode = k.errcode
    BY <1>9, <1>11, <2>1
  <2>8. \A x \in Task : r.sched.tstate[x] = "INVALID" <=> k.sched.tstate[x] = "INVALID"
    BY <1>9, <2>1
  <2>9. AfterReset(k, r, sem, n, served)
    BY <2>2, <2>3, <2>4, <2>5, <2>6 DEF AfterReset
  <2>. QED  BY <2>7, <2>8, <2>9 DEF r
<1>16. v.k.count[sem] >= 0 \/ v.k.count[sem] < 0
  BY <1>12
<1>. QED  BY <1>14, <1>15, <1>16

(***************************************************************************)
(* The beginning of a wait, deletion and restart.                          *)
(***************************************************************************)
\* The running task blocks: the count goes down by one and the blocked tasks
\* are one more.
LEMMA KJoin ==
  ASSUME NEW k, NEW gone, KInv(k, gone), NEW t, t = ThisTask(k.sched), t # Idle,
         NEW sem \in Sem, k.count[sem] <= 0, k.count[sem] > -CountFloor, NEW r,
         r = [sched |-> BlockTask(k.sched, t, "WAIT_SEM"),
              count |-> [k.count EXCEPT ![sem] = k.count[sem] - 1],
              waitsem |-> [k.waitsem EXCEPT ![t] = sem],
              errcode |-> [k.errcode EXCEPT ![t] = "OK"]]
  PROVE  /\ KInv(r, gone) /\ t \in Task
         /\ \A x \in Task : r.sched.tstate[x] = "INVALID" <=> k.sched.tstate[x] = "INVALID"
         /\ \A s \in Sem : t \notin Blocked(k, s)
         /\ \A s \in Sem : Blocked(r, s) = IF s = sem THEN Blocked(k, s) \cup {t} ELSE Blocked(k, s)
<1>. DEFINE b == BlockTask(k.sched, t, "WAIT_SEM")
            n == Cardinality(Blocked(k, sem))
<1>1. /\ k.count \in [Sem -> (-CountFloor)..SemMax] /\ k.waitsem \in [Task -> Sem \cup {None}]
      /\ k.errcode \in [Task -> Errcode] /\ Agree(k, gone) /\ Counted(k) /\ Cleared(k)
      /\ Safe(k.sched) /\ Ordered(k.sched) /\ Core(k.sched)
  BY DEF KInv, KState, Safe
<1>2. t \in Task /\ k.sched.tstate[t] = "RUNNING" /\ "WAIT_SEM" \in BlockedState
  BY <1>1, CoreFacts DEF BlockedState, WaitState
<1>3. Safe(b) /\ Ordered(b) /\ Phase(b) = [Phase(k.sched) EXCEPT ![t] = "WAIT_SEM"]
  BY <1>1, <1>2, BlockTaskSafe, BlockTaskOrdered, BlockTaskPhase
<1>4. /\ r.sched = b /\ r.count = [k.count EXCEPT ![sem] = k.count[sem] - 1]
      /\ r.waitsem = [k.waitsem EXCEPT ![t] = sem]
      /\ r.errcode = [k.errcode EXCEPT ![t] = "OK"]
      /\ r = [sched |-> r.sched, count |-> r.count, waitsem |-> r.waitsem, errcode |-> r.errcode]
  BY DEF b
<1>. HIDE DEF b
<1>5. /\ b.tstate[t] = "WAIT_SEM"
      /\ \A x \in Task : x # t =>
           /\ b.tstate[x] = "WAIT_SEM" <=> k.sched.tstate[x] = "WAIT_SEM"
           /\ b.tstate[x] = "INVALID" <=> k.sched.tstate[x] = "INVALID"
  <2>1. Phase(k.sched) \in [Task -> BlockedState \cup {"INVALID", "READY"}]
    BY PhaseType
  <2>2. Phase(b)[t] = "WAIT_SEM" /\ \A x \in Task : x # t => Phase(b)[x] = Phase(k.sched)[x]
    BY <1>2, <1>3, <2>1
  <2>3. \A x \in Task : /\ Phase(b)[x] = "WAIT_SEM" <=> b.tstate[x] = "WAIT_SEM"
                        /\ Phase(b)[x] = "INVALID" <=> b.tstate[x] = "INVALID"
    BY PhaseTells
  <2>4. \A x \in Task : /\ Phase(k.sched)[x] = "WAIT_SEM" <=> k.sched.tstate[x] = "WAIT_SEM"
                        /\ Phase(k.sched)[x] = "INVALID" <=> k.sched.tstate[x] = "INVALID"
    BY PhaseTells
  <2>5. b.tstate[t] = "WAIT_SEM"
    BY <1>2, <2>2, <2>3
  <2>6. ASSUME NEW x \in Task, x # t
        PROVE  /\ b.tstate[x] = "WAIT_SEM" <=> k.sched.tstate[x] = "WAIT_SEM"
               /\ b.tstate[x] = "INVALID" <=> k.sched.tstate[x] = "INVALID"
    BY <2>2, <2>3, <2>4, <2>6
  <2>. QED  BY <2>5, <2>6
<1>6. \A s \in Sem : t \notin Blocked(k, s)
  BY <1>2 DEF Blocked
<1>7. \A s \in Sem : Blocked(r, s) = IF s = sem THEN Blocked(k, s) \cup {t} ELSE Blocked(k, s)
  BY <1>1, <1>2, <1>4, <1>5 DEF Blocked
<1>8. /\ n \in Nat /\ Cardinality(Blocked(k, sem) \cup {t}) = n + 1
      /\ n = 0 <=> Blocked(k, sem) = {}
  BY <1>6, BlockedFinite, FS_AddElement
<1>9. /\ n > 0 => k.count[sem] <= -n
      /\ Deletable = {} /\ k.count[sem] < 0 => k.count[sem] = -n
  BY <1>1 DEF Counted
<1>10. k.count[sem] >= 0 => n = 0
  BY <1>8, FreeSemaphore
<1>. HIDE DEF n
<1>11. /\ k.count[sem] \in Int /\ k.count[sem] - 1 \in (-CountFloor)..SemMax
  BY <1>1, CountFloorNat, SemMaxPositive
<1>12. r \in KState
  <2>1. r.sched \in SchedState
    BY <1>3, <1>4 DEF Safe, Core
  <2>2. r.count \in [Sem -> (-CountFloor)..SemMax]
    BY <1>1, <1>4, <1>11
  <2>3. r.waitsem \in [Task -> Sem \cup {None}] /\ r.errcode \in [Task -> Errcode]
    BY <1>1, <1>2, <1>4 DEF Errcode
  <2>. QED  BY <1>4, <2>1, <2>2, <2>3 DEF KState
<1>13. ASSUME NEW s \in Sem
       PROVE  LET m == Cardinality(Blocked(r, s))
              IN  /\ m > 0 => r.count[s] <= -m
                  /\ Deletable = {} /\ r.count[s] < 0 => r.count[s] = -m
  <2>1. CASE s = sem
    <3>1. Cardinality(Blocked(r, s)) = n + 1 /\ r.count[s] = k.count[sem] - 1
      BY <1>1, <1>4, <1>7, <1>8, <2>1
    <3>. QED  BY <1>8, <1>9, <1>10, <1>11, <3>1
  <2>2. CASE s # sem
    <3>1. r.count[s] = k.count[s] /\ Blocked(r, s) = Blocked(k, s)
      BY <1>1, <1>4, <1>7, <2>2
    <3>. QED  BY <1>1, <3>1 DEF Counted
  <2>. QED  BY <2>1, <2>2
<1>14. Counted(r)
  BY <1>13 DEF Counted
<1>15. Agree(r, gone)
  <2>1. t \notin gone
    BY <1>1, <1>2 DEF Agree
  <2>2. sem # None
    BY NoneIsNull
  <2>. QED  BY <1>1, <1>2, <1>4, <1>5, <2>1, <2>2 DEF Agree
<1>16. Cleared(r)
  BY <1>1, <1>2, <1>4, <1>5 DEF Cleared
<1>17. \A x \in Task : r.sched.tstate[x] = "INVALID" <=> k.sched.tstate[x] = "INVALID"
  BY <1>2, <1>4, <1>5
<1>. QED  BY <1>2, <1>3, <1>4, <1>6, <1>7, <1>12, <1>14, <1>15, <1>16, <1>17 DEF KInv

\* s after t went to g_inactivetasks with these values in its TCB.
InactiveState(s, t, p, i, l) ==
  [s EXCEPT !.prio = [s.prio EXCEPT ![t] = p], !.init = [s.init EXCEPT ![t] = i],
            !.lock = [s.lock EXCEPT ![t] = l],
            !.tstate = [s.tstate EXCEPT ![t] = "INACTIVE"],
            !.blk = [s.blk EXCEPT !["INACTIVE"] = AddFirst(@, t)]]

\* A task that is not on any list goes to g_inactivetasks.
LEMMA PutInactive ==
  ASSUME NEW s, Safe(s), Ordered(s), NEW t \in Task \ {Idle}, s.tstate[t] = "INVALID",
         NEW p \in Priority, NEW i \in Priority, NEW l \in Nat
  PROVE  LET r == InactiveState(s, t, p, i, l)
         IN  /\ Safe(r) /\ Ordered(r) /\ r.tstate = [s.tstate EXCEPT ![t] = "INACTIVE"]
             /\ s.tstate \in [Task -> TState]
<1>. DEFINE r == InactiveState(s, t, p, i, l)
            q == [s.prio EXCEPT ![t] = p]
            j == [s.init EXCEPT ![t] = i]
            k == [s.lock EXCEPT ![t] = l]
            ts == [s.tstate EXCEPT ![t] = "INACTIVE"]
            b == [s.blk EXCEPT !["INACTIVE"] = AddFirst(s.blk["INACTIVE"], t)]
<1>1. /\ s \in SchedState /\ Core(s) /\ s.policy[Idle] = "FIFO"
      /\ s.prio \in [Task -> 0..MaxPrio] /\ s.init \in [Task -> 0..MaxPrio]
      /\ s.lock \in [Task -> Nat] /\ s.tstate \in [Task -> TState]
      /\ s.blk \in [BlockedState -> Seq(Task)]
  BY DEF Safe, Core, SchedState
<1>2. p \in 0..MaxPrio /\ i \in 0..MaxPrio /\ p > 0 /\ i > 0
  BY MaxPrioPositive DEF Priority
<1>3. q \in [Task -> 0..MaxPrio] /\ j \in [Task -> 0..MaxPrio] /\ k \in [Task -> Nat]
  BY <1>1, <1>2
<1>4. ts \in [Task -> TState]
  BY <1>1 DEF TState, BlockedState
<1>5. b \in [BlockedState -> Seq(Task)]
  <2>. DEFINE old == s.blk["INACTIVE"]
  <2>1. old \in Seq(Task)
    BY <1>1 DEF BlockedState
  <2>. HIDE DEF old
  <2>2. AddFirst(old, t) \in Seq(Task)
    <3>1. t \in Task /\ 1 \in 1..(Len(old) + 1)
      BY <2>1
    <3>. QED  BY <2>1, <3>1, InsertAtPosType DEF AddFirst
  <2>. QED  BY <1>1, <2>2 DEF old
<1>6. /\ \A x \in Task : x # t => k[x] = s.lock[x] /\ q[x] = s.prio[x] /\ j[x] = s.init[x]
      /\ q[t] > 0 /\ j[t] > 0
  BY <1>1, <1>2
<1>7. r = [s EXCEPT !.prio = q, !.init = j, !.lock = k, !.tstate = ts, !.blk = b]
  BY DEF InactiveState
<1>. HIDE DEF q, j, k, ts, b, r
<1>8. /\ r \in SchedState /\ r.rtr = s.rtr /\ r.pend = s.pend /\ r.blk = b /\ r.tstate = ts
      /\ r.lock = k /\ r.prio = q /\ r.init = j /\ r.policy = s.policy
  BY <1>1, <1>3, <1>4, <1>5, <1>7 DEF SchedState
<1>9. /\ r.blk = [s.blk EXCEPT !["INACTIVE"] = AddFirst(s.blk["INACTIVE"], t)]
      /\ r.tstate = [s.tstate EXCEPT ![t] = "INACTIVE"] /\ r.policy[Idle] = "FIFO"
  BY <1>1, <1>8 DEF ts, b
<1>10. /\ \A x \in Task : x # t => r.lock[x] = s.lock[x]
       /\ \A x \in Task : x # t => r.prio[x] = s.prio[x] /\ r.init[x] = s.init[x]
       /\ r.prio[t] > 0 /\ r.init[t] > 0 /\ t \in Task
  BY <1>6, <1>8
<1>11. Safe(r)
  BY <1>8, <1>9, <1>10, AddInactiveSafe
<1>12. Ordered(r)
  <2>1. Core(s) /\ r.rtr = s.rtr /\ r.pend = s.pend
    BY <1>1, <1>8
  <2>2. /\ \A x \in Task : x # t => r.prio[x] = s.prio[x] /\ r.init[x] = s.init[x]
        /\ r.prio[t] > 0 /\ r.init[t] > 0
    BY <1>10
  <2>. QED  BY <1>9, <2>1, <2>2, AddInactiveOrdered
<1>. QED  BY <1>1, <1>9, <1>11, <1>12 DEF r

\* A task goes off its list, as in nxtask_terminate and task_restart.
LEMMA TakeOff ==
  ASSUME NEW s, Safe(s), Ordered(s), NEW t \in Task \ {Idle}, t # ThisTask(s),
         s.tstate[t] # "INVALID"
  PROVE  LET r == RemoveFromList(s, t)
         IN  /\ Safe(r) /\ Ordered(r) /\ r.tstate[t] = "INVALID" /\ ThisTask(r) = ThisTask(s)
             /\ r.init = s.init
             /\ \A x \in Task : x # t =>
                  /\ r.tstate[x] = "WAIT_SEM" <=> s.tstate[x] = "WAIT_SEM"
                  /\ r.tstate[x] = "INVALID" <=> s.tstate[x] = "INVALID"
<1>. DEFINE r == RemoveFromList(s, t)
<1>1. /\ Safe(r) /\ Ordered(r) /\ r.tstate[t] = "INVALID" /\ ThisTask(r) = ThisTask(s)
      /\ r.init = s.init
  BY RemoveFromListSafe, RemoveFromListOrdered DEF Safe
<1>2. Phase(r) = [Phase(s) EXCEPT ![t] = "INVALID"]
  BY RemoveFromListPhase DEF Safe
<1>. HIDE DEF r
<1>3. Phase(s) \in [Task -> BlockedState \cup {"INVALID", "READY"}]
  BY PhaseType
<1>4. \A x \in Task : x # t => Phase(r)[x] = Phase(s)[x]
  BY <1>2, <1>3
<1>5. \A x \in Task : /\ Phase(r)[x] = "WAIT_SEM" <=> r.tstate[x] = "WAIT_SEM"
                      /\ Phase(r)[x] = "INVALID" <=> r.tstate[x] = "INVALID"
  BY PhaseTells
<1>6. \A x \in Task : /\ Phase(s)[x] = "WAIT_SEM" <=> s.tstate[x] = "WAIT_SEM"
                      /\ Phase(s)[x] = "INVALID" <=> s.tstate[x] = "INVALID"
  BY PhaseTells
<1>7. ASSUME NEW x \in Task, x # t
      PROVE  /\ r.tstate[x] = "WAIT_SEM" <=> s.tstate[x] = "WAIT_SEM"
             /\ r.tstate[x] = "INVALID" <=> s.tstate[x] = "INVALID"
  BY <1>4, <1>5, <1>6, <1>7
<1>. QED  BY <1>1, <1>7 DEF r

\* nxtask_terminate takes a task off its list and leaves waitsem and the count
\* as they are: the task may have been blocked on a semaphore.
LEMMA KTerminate ==
  ASSUME NEW k, NEW gone, KInv(k, gone), NEW t \in Deletable, t # ThisTask(k.sched),
         k.sched.tstate[t] # "INVALID", NEW gone2,
         \A x \in Task : x \in gone2 <=> x \in gone \/ x = t,
         NEW r, r = [sched |-> RemoveFromList(k.sched, t), count |-> k.count,
                     waitsem |-> k.waitsem, errcode |-> k.errcode]
  PROVE  /\ KInv(r, gone2)
         /\ \A x \in Task : x # t =>
              (r.sched.tstate[x] = "INVALID" <=> k.sched.tstate[x] = "INVALID")
<1>. DEFINE b == RemoveFromList(k.sched, t)
<1>1. /\ k.count \in [Sem -> (-CountFloor)..SemMax] /\ k.waitsem \in [Task -> Sem \cup {None}]
      /\ k.errcode \in [Task -> Errcode] /\ Agree(k, gone) /\ Counted(k) /\ Cleared(k)
      /\ Safe(k.sched) /\ Ordered(k.sched) /\ t \in Task \ {Idle}
  BY DeletableAreTasks DEF KInv, KState
<1>2. /\ Safe(b) /\ Ordered(b) /\ b.tstate[t] = "INVALID"
      /\ \A x \in Task : x # t =>
           /\ b.tstate[x] = "WAIT_SEM" <=> k.sched.tstate[x] = "WAIT_SEM"
           /\ b.tstate[x] = "INVALID" <=> k.sched.tstate[x] = "INVALID"
  BY <1>1, TakeOff
<1>3. r.sched = b /\ r.count = k.count /\ r.waitsem = k.waitsem /\ r.errcode = k.errcode
  BY DEF b
<1>. HIDE DEF b
<1>4. r \in KState
  <2>1. b \in SchedState
    BY <1>2 DEF Safe, Core
  <2>. QED  BY <1>1, <2>1 DEF KState, b
<1>5. ASSUME NEW s \in Sem
      PROVE  LET m == Cardinality(Blocked(r, s))
             IN  /\ m > 0 => r.count[s] <= -m
                 /\ Deletable = {} /\ r.count[s] < 0 => r.count[s] = -m
  <2>. DEFINE m == Cardinality(Blocked(r, s))
              n == Cardinality(Blocked(k, s))
  <2>1. Blocked(r, s) \subseteq Blocked(k, s)
    BY <1>2, <1>3 DEF Blocked
  <2>2. m \in Nat /\ n \in Nat /\ m <= n
    BY <2>1, BlockedFinite, FS_Subset
  <2>3. n > 0 => k.count[s] <= -n
    BY <1>1 DEF Counted
  <2>4. r.count[s] = k.count[s] /\ k.count[s] \in Int
    BY <1>1, <1>3, CountFloorNat, SemMaxPositive
  <2>. HIDE DEF m, n
  <2>5. m > 0 => r.count[s] <= -m
    BY <2>2, <2>3, <2>4
  <2>6. Deletable # {}
    OBVIOUS
  <2>. QED  BY <2>5, <2>6 DEF m
<1>6. Counted(r)
  BY <1>5 DEF Counted
<1>7. Agree(r, gone2)
  BY <1>1, <1>2, <1>3 DEF Agree
<1>8. Cleared(r)
  BY <1>1, <1>2, <1>3 DEF Cleared
<1>9. \A x \in Task : x # t =>
        (r.sched.tstate[x] = "INVALID" <=> k.sched.tstate[x] = "INVALID")
  BY <1>2, <1>3
<1>10. Safe(r.sched) /\ Ordered(r.sched)
  BY <1>2, <1>3
<1>. QED  BY <1>4, <1>6, <1>7, <1>8, <1>9, <1>10 DEF KInv

\* nxtask_exithook and nxsched_release_tcb: nxsem_recover sees a task that is no
\* longer in TSTATE_WAIT_SEM and gives nothing back.
LEMMA KExit ==
  ASSUME NEW k, NEW gone, KInv(k, gone), NEW t \in Task \ {Idle}, k.sched.tstate[t] = "INVALID",
         NEW gone2, \A x \in Task : x \in gone2 => x \in gone,
         \A x \in Task : x \in gone /\ x # t => x \in gone2
  PROVE  LET m == nxsem_recover(k, t)
             r == [m EXCEPT !.waitsem[t] = None, !.errcode[t] = "OK",
                            !.sched = [m.sched EXCEPT !.prio[t] = 0, !.init[t] = 0,
                                                      !.lock[t] = 0]]
         IN  KInv(r, gone2) /\ r.sched.tstate = k.sched.tstate
<1>. DEFINE m == nxsem_recover(k, t)
            r == [m EXCEPT !.waitsem[t] = None, !.errcode[t] = "OK",
                           !.sched = [m.sched EXCEPT !.prio[t] = 0, !.init[t] = 0,
                                                     !.lock[t] = 0]]
            s == k.sched
            q == [s.prio EXCEPT ![t] = 0]
            i == [s.init EXCEPT ![t] = 0]
            l == [s.lock EXCEPT ![t] = 0]
            b == [s EXCEPT !.prio = q, !.init = i, !.lock = l]
            w == [k.waitsem EXCEPT ![t] = None]
            e == [k.errcode EXCEPT ![t] = "OK"]
<1>1. /\ k = [sched |-> k.sched, count |-> k.count, waitsem |-> k.waitsem, errcode |-> k.errcode]
      /\ k.count \in [Sem -> (-CountFloor)..SemMax] /\ k.waitsem \in [Task -> Sem \cup {None}]
      /\ k.errcode \in [Task -> Errcode] /\ Agree(k, gone) /\ Counted(k) /\ Cleared(k)
      /\ Safe(s) /\ Ordered(s) /\ Core(s) /\ s \in SchedState
  BY DEF KInv, KState, Safe, Core
<1>2. nxsem_recover(k, t) = k
  BY DEF nxsem_recover
<1>3. /\ r.sched = b /\ r.count = k.count /\ r.waitsem = w /\ r.errcode = e
      /\ r = [sched |-> r.sched, count |-> r.count, waitsem |-> r.waitsem, errcode |-> r.errcode]
  <2>1. r = [k EXCEPT !.waitsem[t] = None, !.errcode[t] = "OK",
                      !.sched = [k.sched EXCEPT !.prio[t] = 0, !.init[t] = 0, !.lock[t] = 0]]
    BY <1>2
  <2>2. r = [sched |-> [s EXCEPT !.prio[t] = 0, !.init[t] = 0, !.lock[t] = 0],
             count |-> k.count, waitsem |-> w, errcode |-> e]
    <3>. DEFINE z == [k.sched EXCEPT !.prio[t] = 0, !.init[t] = 0, !.lock[t] = 0]
    <3>1. r = [k EXCEPT !.waitsem[t] = None, !.errcode[t] = "OK", !.sched = z]
      BY <2>1
    <3>2. k = [sched |-> k.sched, count |-> k.count, waitsem |-> k.waitsem,
               errcode |-> k.errcode]
      BY <1>1
    <3>. HIDE DEF z, r
    <3>3. r = [sched |-> z, count |-> k.count, waitsem |-> w, errcode |-> e]
      BY <3>1, <3>2
    <3>. QED  BY <3>3 DEF z
  <2>3. [s EXCEPT !.prio[t] = 0, !.init[t] = 0, !.lock[t] = 0] = b
    BY <1>1 DEF SchedState
  <2>. HIDE DEF b, r
  <2>. QED  BY <2>2, <2>3
<1>4. w \in [Task -> Sem \cup {None}] /\ e \in [Task -> Errcode]
  BY <1>1 DEF Errcode
<1>5. /\ q \in [Task -> 0..MaxPrio] /\ i \in [Task -> 0..MaxPrio] /\ l \in [Task -> Nat]
      /\ \A x \in Task : x # t => q[x] = s.prio[x] /\ i[x] = s.init[x] /\ l[x] = s.lock[x]
  BY <1>1, MaxPrioPositive, SMTT(30) DEF SchedState
<1>. HIDE DEF q, i, l
<1>6. /\ b \in SchedState /\ b.rtr = s.rtr /\ b.pend = s.pend /\ b.blk = s.blk
      /\ b.tstate = s.tstate /\ b.prio = q /\ b.init = i /\ b.lock = l /\ b.policy = s.policy
  BY <1>1, <1>5 DEF SchedState
<1>. HIDE DEF b, r, s
<1>7. Safe(b)
  <2>1. Core(b) /\ ThisTask(b) = ThisTask(s)
    <3>1. b.policy[Idle] = "FIFO"
      BY <1>1, <1>6 DEF Core
    <3>. QED  BY <1>1, <1>6, <3>1, CoreFrame
  <2>2. ThisTask(s) \in Task /\ ThisTask(s) # t
    <3>1. s.tstate[t] = "INVALID"
      BY DEF s
    <3>. QED  BY <1>1, <3>1, CoreFacts, InvalidOnNoList
  <2>3. b.lock[ThisTask(b)] = s.lock[ThisTask(s)]
    BY <1>5, <1>6, <2>1, <2>2
  <2>. QED  BY <1>1, <1>6, <2>1, <2>3 DEF Safe, PendingNeedsLock
<1>8. Ordered(b)
  <2>1. \A x \in Task : x # t => b.prio[x] = s.prio[x] /\ b.init[x] = s.init[x]
    BY <1>5, <1>6
  <2>2. s.tstate[t] = "INVALID"
    BY DEF s
  <2>. QED  BY <1>1, <1>6, <2>1, <2>2, FreePrioOrdered
<1>9. r \in KState
  BY <1>1, <1>3, <1>4, <1>6 DEF KState
<1>10. r.sched.tstate = k.sched.tstate /\ Safe(r.sched) /\ Ordered(r.sched)
  BY <1>3, <1>6, <1>7, <1>8 DEF s
<1>11. \A sem \in Sem : Blocked(r, sem) = Blocked(k, sem)
  BY <1>1, <1>3, <1>10 DEF Blocked
<1>12. Counted(r)
  BY <1>1, <1>3, <1>11 DEF Counted
<1>13. Agree(r, gone2)
  BY <1>1, <1>3, <1>10 DEF Agree
<1>14. Cleared(r)
  BY <1>1, <1>3, <1>10 DEF Cleared
<1>. QED  BY <1>9, <1>10, <1>12, <1>13, <1>14 DEF KInv, r

RestartState(k, t) ==
  LET m == nxsem_recover(k, t)
      s == RemoveFromList(m.sched, t)
  IN  [m EXCEPT !.sched = [s EXCEPT !.prio[t] = s.init[t], !.lock[t] = 0,
                                    !.tstate[t] = "INACTIVE",
                                    !.blk["INACTIVE"] = AddFirst(@, t)]]

\* task_restart: nxsem_recover gives the unit back while the task is still in
\* TSTATE_WAIT_SEM, and the task goes from its list to g_inactivetasks.
LEMMA KRestart ==
  ASSUME NEW k, NEW gone, KInv(k, gone), NEW t \in Task \ {Idle}, t # ThisTask(k.sched),
         k.sched.tstate[t] # "INVALID"
  PROVE  LET r == RestartState(k, t)
         IN  /\ KInv(r, gone) /\ r.errcode = k.errcode
             /\ r.sched.tstate[t] = "INACTIVE"
             /\ \A x \in Task : r.sched.tstate[x] = "INVALID" <=> k.sched.tstate[x] = "INVALID"
             /\ \/ /\ r.count = k.count /\ r.waitsem = k.waitsem
                   /\ \A sem \in Sem : Blocked(r, sem) = Blocked(k, sem)
                \/ Left(k, r, t)
<1>. DEFINE m == nxsem_recover(k, t)
            s == RemoveFromList(m.sched, t)
            b == [s EXCEPT !.prio[t] = s.init[t], !.lock[t] = 0, !.tstate[t] = "INACTIVE",
                           !.blk["INACTIVE"] = AddFirst(@, t)]
            r == [m EXCEPT !.sched = b]
            c == [k.count EXCEPT ![k.waitsem[t]] = k.count[k.waitsem[t]] + 1]
            w == [k.waitsem EXCEPT ![t] = None]
<1>1. k = [sched |-> k.sched, count |-> k.count, waitsem |-> k.waitsem, errcode |-> k.errcode]
  BY DEF KInv, KState
<1>2. /\ k.count \in [Sem -> (-CountFloor)..SemMax] /\ k.waitsem \in [Task -> Sem \cup {None}]
      /\ k.errcode \in [Task -> Errcode] /\ Agree(k, gone)
      /\ Safe(k.sched) /\ Ordered(k.sched)
  BY DEF KInv, KState
<1>3. IF k.sched.tstate[t] = "WAIT_SEM"
      THEN m = [sched |-> k.sched, count |-> c, waitsem |-> w, errcode |-> k.errcode]
      ELSE m = k
  BY <1>1 DEF nxsem_recover
<1>. HIDE DEF m
<1>4. m.sched = k.sched
  BY <1>1, <1>3
<1>5. /\ Safe(s) /\ Ordered(s) /\ s.tstate[t] = "INVALID" /\ s.init = k.sched.init
      /\ \A x \in Task : x # t =>
           /\ s.tstate[x] = "WAIT_SEM" <=> k.sched.tstate[x] = "WAIT_SEM"
           /\ s.tstate[x] = "INVALID" <=> k.sched.tstate[x] = "INVALID"
  BY <1>2, <1>4, TakeOff
<1>. HIDE DEF s
<1>6. s.init[t] \in Priority
  <2>1. k.sched.init[t] > 0
    BY <1>2 DEF Ordered, Ranked
  <2>2. s.init \in [Task -> 0..MaxPrio]
    BY <1>5 DEF Safe, Core, SchedState
  <2>. QED  BY <1>5, <2>1, <2>2, MaxPrioPositive DEF Priority
<1>7. /\ Safe(b) /\ Ordered(b) /\ b.tstate = [s.tstate EXCEPT ![t] = "INACTIVE"]
      /\ s.tstate \in [Task -> TState]
  <2>. DEFINE z == InactiveState(s, t, s.init[t], s.init[t], 0)
  <2>1. /\ Safe(z) /\ Ordered(z) /\ z.tstate = [s.tstate EXCEPT ![t] = "INACTIVE"]
        /\ s.tstate \in [Task -> TState]
    BY <1>5, <1>6, PutInactive
  <2>2. b = z
    <3>1. s \in SchedState
      BY <1>5 DEF Safe, Core
    <3>2. [s.init EXCEPT ![t] = s.init[t]] = s.init
      BY <3>1 DEF SchedState
    <3>. QED  BY <3>1, <3>2 DEF SchedState, InactiveState
  <2>. HIDE DEF z, b
  <2>. QED  BY <2>1, <2>2
<1>8. /\ b.tstate[t] = "INACTIVE"
      /\ \A x \in Task : x # t =>
           /\ b.tstate[x] = "WAIT_SEM" <=> k.sched.tstate[x] = "WAIT_SEM"
           /\ b.tstate[x] = "INVALID" <=> k.sched.tstate[x] = "INVALID"
  <2>. HIDE DEF b
  <2>. QED  BY <1>5, <1>7
<1>. HIDE DEF b
<1>9. \A x \in Task : b.tstate[x] = "INVALID" <=> k.sched.tstate[x] = "INVALID"
  BY <1>8
<1>10. RestartState(k, t) = r
  BY DEF RestartState, r, b, s, m
<1>11. CASE k.sched.tstate[t] = "WAIT_SEM"
  <2>1. m = [sched |-> k.sched, count |-> c, waitsem |-> w, errcode |-> k.errcode]
    BY <1>3, <1>11
  <2>2. /\ r.sched = b /\ r.count = c /\ r.waitsem = w /\ r.errcode = k.errcode
        /\ r = [sched |-> r.sched, count |-> r.count, waitsem |-> r.waitsem,
                errcode |-> r.errcode]
    BY <2>1
  <2>. HIDE DEF r
  <2>3. r.count = [k.count EXCEPT ![k.waitsem[t]] = @ + 1]
    BY <2>2
  <2>4. r.sched.tstate[t] # "WAIT_SEM"
    BY <1>8, <2>2
  <2>5. \A x \in Task : x # t =>
           /\ r.sched.tstate[x] = "WAIT_SEM" <=> k.sched.tstate[x] = "WAIT_SEM"
           /\ r.sched.tstate[x] = "INVALID" <=> k.sched.tstate[x] = "INVALID"
           /\ r.errcode[x] = k.errcode[x]
    BY <1>8, <2>2
  <2>6. Safe(r.sched) /\ Ordered(r.sched) /\ r.errcode \in [Task -> Errcode]
    BY <1>2, <1>7, <2>2
  <2>7. /\ KInv(r, gone) /\ k.waitsem[t] \in Sem /\ k.count[k.waitsem[t]] < 0
        /\ t \in Blocked(k, k.waitsem[t])
        /\ \A x \in Sem : Blocked(r, x) = Blocked(k, x) \ {t}
    BY <1>11, <2>2, <2>3, <2>4, <2>5, <2>6, KLeave
  <2>8. r.sched.tstate[t] = "INACTIVE" /\ r.errcode = k.errcode
    BY <1>8, <2>2
  <2>9. \A x \in Task : r.sched.tstate[x] = "INVALID" <=> k.sched.tstate[x] = "INVALID"
    BY <1>9, <2>2
  <2>10. Left(k, r, t)
    BY <2>2, <2>7 DEF Left
  <2>. QED  BY <1>10, <2>7, <2>8, <2>9, <2>10
<1>12. CASE k.sched.tstate[t] # "WAIT_SEM"
  <2>1. m = k
    BY <1>3, <1>12
  <2>2. /\ r.sched = b /\ r.count = k.count /\ r.waitsem = k.waitsem /\ r.errcode = k.errcode
        /\ r = [sched |-> r.sched, count |-> r.count, waitsem |-> r.waitsem,
                errcode |-> r.errcode]
    BY <1>1, <2>1
  <2>. HIDE DEF r
  <2>3. r \in KState /\ Safe(r.sched) /\ Ordered(r.sched)
    <3>1. b \in SchedState
      BY <1>7 DEF Safe, Core
    <3>. QED  BY <1>2, <1>7, <2>2, <3>1 DEF KState
  <2>4. \A x \in Task : r.sched.tstate[x] = "WAIT_SEM" <=> k.sched.tstate[x] = "WAIT_SEM"
    BY <1>8, <1>12, <2>2
  <2>5. \A x \in Task : r.sched.tstate[x] = "INVALID" <=> k.sched.tstate[x] = "INVALID"
    BY <1>9, <2>2
  <2>6. \A x \in Task : x \in gone => r.sched.tstate[x] = "INVALID"
    BY <1>2, <2>5 DEF Agree
  <2>7. KInv(r, gone)
    BY <2>2, <2>3, <2>4, <2>6, KFrame
  <2>8. \A sem \in Sem : Blocked(r, sem) = Blocked(k, sem)
    BY <2>2, <2>4 DEF Blocked
  <2>9. r.sched.tstate[t] = "INACTIVE" /\ r.errcode = k.errcode
    BY <1>8, <2>2
  <2>. QED  BY <1>10, <2>2, <2>5, <2>7, <2>8, <2>9
<1>. QED  BY <1>11, <1>12

(***************************************************************************)
(* Every step.                                                             *)
(***************************************************************************)
\* The parts of Kernel, and the running task.
LEMMA KernelParts ==
  ASSUME SemInv
  PROVE  /\ Kernel.sched = sched /\ Kernel.count = count /\ Kernel.waitsem = waitsem
         /\ Kernel.errcode = errcode /\ Safe(sched) /\ Ordered(sched) /\ Core(sched)
         /\ self \in Task /\ self = ThisTask(sched) /\ sched.tstate[self] = "RUNNING"
         /\ sched.tstate \in [Task -> TState] /\ count \in [Sem -> (-CountFloor)..SemMax]
         /\ waitsem \in [Task -> Sem \cup {None}] /\ errcode \in [Task -> Errcode]
         /\ \A x \in Task : x \in Victims => sched.tstate[x] = "INVALID"
         /\ \A x \in Task : x \in Victims <=> Victim(x)
<1>1. Kernel.sched = sched /\ Kernel.count = count /\ Kernel.waitsem = waitsem
      /\ Kernel.errcode = errcode
  BY DEF Kernel
<1>2. KInv(Kernel, Victims)
  BY DEF SemInv
<1>3. /\ Safe(sched) /\ Ordered(sched) /\ Core(sched) /\ count \in [Sem -> (-CountFloor)..SemMax]
      /\ waitsem \in [Task -> Sem \cup {None}] /\ errcode \in [Task -> Errcode]
      /\ \A x \in Task : x \in Victims => sched.tstate[x] = "INVALID"
  BY <1>1, <1>2 DEF KInv, KState, Safe, Agree
<1>4. self \in Task /\ self = ThisTask(sched) /\ sched.tstate[self] = "RUNNING"
  BY <1>3, CoreFacts DEF self
<1>5. sched.tstate \in [Task -> TState]
  BY <1>3 DEF Core, SchedState
<1>. QED  BY <1>1, <1>3, <1>4, <1>5 DEF Victims

\* The step calls one of the operators on Kernel.
LEMMA BecomesIs ==
  ASSUME NEW r \in KState, Becomes(r)
  PROVE  Kernel' = r /\ sched' = r.sched /\ errcode' = r.errcode
BY DEF Becomes, Kernel, KState

\* What the rest of the invariant wants to know of a step: whose errcode says
\* ETIMEDOUT.
Gentle ==
  \A x \in Task :
    errcode'[x] = "ETIMEDOUT" => errcode[x] = "ETIMEDOUT" \/ waitdog[x] = "active" \/ corrupt

\* A step of the scheduler alone that changes no task's phase but for t, which
\* neither starts nor ends a wait.
LEMMA SchedStep ==
  ASSUME SemInv, UNCHANGED <<count, waitsem, errcode, victim>>,
         Safe(sched'), Ordered(sched'),
         \A x \in Task : sched'.tstate[x] = "WAIT_SEM" <=> sched.tstate[x] = "WAIT_SEM",
         \A x \in Task : sched'.tstate[x] = "INVALID" => sched.tstate[x] = "INVALID",
         \A x \in Task : x \in Victims => sched'.tstate[x] = "INVALID"
  PROVE  KInv(Kernel', Victims') /\ Gentle
<1>1. /\ Kernel' = [sched |-> sched', count |-> count, waitsem |-> waitsem, errcode |-> errcode]
      /\ Victims' = Victims
  BY DEF Kernel, Victims, Victim
<1>2. KInv(Kernel, Victims) /\ sched' \in SchedState
  BY DEF SemInv, Safe, Core
<1>. DEFINE r == Kernel'
<1>3. /\ r.sched = sched' /\ r.count = count /\ r.waitsem = waitsem /\ r.errcode = errcode
      /\ r \in KState
  BY <1>1, <1>2, KernelParts DEF KState
<1>. HIDE DEF r
<1>4. KInv(r, Victims)
  BY <1>2, <1>3, KernelParts, KFrame
<1>5. Gentle
  BY DEF Gentle
<1>. QED  BY <1>1, <1>4, <1>5 DEF r

\* nxsem_wait up to its end or to the context switch
LEMMA WaitFromKeeps ==
  ASSUME SemInv, NEW sem \in Sem, NEW place, NEW done, self # Idle,
         WaitFrom(sem, place, done), UNCHANGED victim
  PROVE  KInv(Kernel', Victims') /\ Gentle
<1>1. Kernel' = [sched |-> sched', count |-> count', waitsem |-> waitsem', errcode |-> errcode']
      /\ Victims' = Victims
  BY DEF Kernel, Victims, Victim
<1>2. KInv(Kernel, Victims)
  BY DEF SemInv
<1>. DEFINE r == Kernel'
<1>3. count[sem] \in Int /\ count[sem] \in (-CountFloor)..SemMax
  BY KernelParts, CountFloorNat, SemMaxPositive
<1>4. CASE count[sem] > 0
  <2>1. /\ count' = [count EXCEPT ![sem] = count[sem] - 1]
        /\ UNCHANGED <<sched, waitsem, errcode>>
    BY <1>4 DEF WaitFrom
  <2>2. Blocked(Kernel, sem) = {}
    BY <1>2, <1>3, <1>4, KernelParts, FreeSemaphore
  <2>3. count[sem] - 1 \in (-CountFloor)..SemMax /\ count[sem] - 1 >= 0
    BY <1>3, <1>4, CountFloorNat, SemMaxPositive
  <2>4. /\ r.sched = sched /\ r.count = [Kernel.count EXCEPT ![sem] = count[sem] - 1]
        /\ r.waitsem = waitsem /\ r.errcode = errcode
    BY <1>1, <2>1, KernelParts
  <2>5. r \in KState
    <3>1. [count EXCEPT ![sem] = count[sem] - 1] \in [Sem -> (-CountFloor)..SemMax]
      BY <2>3, KernelParts
    <3>2. sched \in SchedState
      BY KernelParts DEF Core
    <3>. QED  BY <1>1, <2>1, <3>1, <3>2, KernelParts DEF KState
  <2>. HIDE DEF r
  <2>6. KInv(r, Victims)
    BY <1>2, <2>2, <2>3, <2>4, <2>5, KernelParts, KCount
  <2>. QED  BY <1>1, <2>1, <2>6 DEF r, Gentle
<1>5. CASE count[sem] <= 0
  <2>1. /\ count[sem] > -CountFloor
        /\ count' = [count EXCEPT ![sem] = count[sem] - 1]
        /\ waitsem' = [waitsem EXCEPT ![self] = sem]
        /\ errcode' = [errcode EXCEPT ![self] = "OK"]
        /\ sched' = BlockTask(sched, self, "WAIT_SEM")
    BY <1>3, <1>5 DEF WaitFrom
  <2>2. r = [sched |-> BlockTask(Kernel.sched, self, "WAIT_SEM"),
             count |-> [Kernel.count EXCEPT ![sem] = Kernel.count[sem] - 1],
             waitsem |-> [Kernel.waitsem EXCEPT ![self] = sem],
             errcode |-> [Kernel.errcode EXCEPT ![self] = "OK"]]
    BY <1>1, <2>1, KernelParts
  <2>3. r.sched = sched' /\ r.errcode = errcode'
    BY <1>1
  <2>. HIDE DEF r
  <2>4. /\ KInv(r, Victims)
        /\ \A x \in Task : r.sched.tstate[x] = "INVALID" <=> sched.tstate[x] = "INVALID"
    BY <1>2, <1>5, <2>1, <2>2, KernelParts, KJoin
  <2>5. \A x \in Task : errcode'[x] = "ETIMEDOUT" => errcode[x] = "ETIMEDOUT"
    BY <2>1, KernelParts
  <2>. QED  BY <1>1, <2>3, <2>4, <2>5 DEF r, Gentle
<1>. QED  BY <1>3, <1>4, <1>5

\* The steps that change a count or end a wait.
LEMMA CountingKeeps ==
  ASSUME SemInv, NEW sem \in Sem,
         \/ TryWait(sem) \/ TimedAtOnce(sem) \/ Destroy(sem) \/ Post(sem)
         \/ \E n \in 0..SemMax : Reset(sem, n)
  PROVE  KInv(Kernel', Victims') /\ Gentle
<1>1. /\ Kernel' = [sched |-> sched', count |-> count', waitsem |-> waitsem', errcode |-> errcode']
      /\ Victims' = Victims
  <2>1. victim' = victim
    BY DEF TryWait, TimedAtOnce, Destroy, Post, Reset
  <2>. QED  BY <2>1 DEF Kernel, Victims, Victim
<1>2. KInv(Kernel, Victims)
  BY DEF SemInv
<1>3. count[sem] \in Int /\ count[sem] \in (-CountFloor)..SemMax /\ SemMax \in Nat
      /\ SemMax > 0 /\ CountFloor \in Nat
  BY KernelParts, CountFloorNat, SemMaxPositive
<1>. DEFINE r == Kernel'
<1>4. ASSUME NEW v \in (-CountFloor)..SemMax, v >= 0 \/ v = count[sem], count[sem] >= 0 \/ v = count[sem],
             count' = [count EXCEPT ![sem] = v], UNCHANGED <<sched, waitsem, errcode>>
      PROVE  KInv(r, Victims) /\ Gentle
  <2>1. Gentle
    BY <1>4 DEF Gentle
  <2>2. /\ r.sched = sched /\ r.count = [Kernel.count EXCEPT ![sem] = v]
        /\ r.waitsem = waitsem /\ r.errcode = errcode
    BY <1>1, <1>4, KernelParts
  <2>3. r \in KState
    <3>1. [count EXCEPT ![sem] = v] \in [Sem -> (-CountFloor)..SemMax]
      BY KernelParts
    <3>2. sched \in SchedState
      BY KernelParts DEF Core
    <3>. QED  BY <1>1, <1>4, <3>1, <3>2, KernelParts DEF KState
  <2>4. CASE v = count[sem]
    <3>1. r = Kernel
      BY <1>1, <1>4, <2>4, KernelParts DEF Kernel
    <3>. QED  BY <1>2, <2>1, <3>1
  <2>5. CASE v >= 0 /\ count[sem] >= 0
    <3>1. Blocked(Kernel, sem) = {}
      BY <1>2, <2>5, KernelParts, FreeSemaphore
    <3>. HIDE DEF r
    <3>2. KInv(r, Victims)
      BY <1>2, <2>2, <2>3, <2>5, <3>1, KernelParts, KCount
    <3>. QED  BY <2>1, <3>2
  <2>. QED  BY <1>4, <2>4, <2>5
<1>5. CASE TryWait(sem)
  <2>1. /\ count' = [count EXCEPT ![sem] = count[sem] - 1] /\ count[sem] > 0
        /\ UNCHANGED <<sched, waitsem, errcode>>
    BY <1>5 DEF TryWait
  <2>2. count[sem] - 1 \in (-CountFloor)..SemMax /\ count[sem] - 1 >= 0 /\ count[sem] >= 0
    BY <1>3, <2>1
  <2>. HIDE DEF r
  <2>. QED  BY <1>1, <1>4, <2>1, <2>2 DEF r
<1>6. CASE TimedAtOnce(sem)
  <2>. DEFINE v == IF count[sem] > 0 THEN count[sem] - 1 ELSE count[sem]
  <2>1. count' = [count EXCEPT ![sem] = v] /\ UNCHANGED <<sched, waitsem, errcode>>
    BY <1>6 DEF TimedAtOnce
  <2>2. /\ v \in (-CountFloor)..SemMax /\ (v >= 0 \/ v = count[sem])
        /\ (count[sem] >= 0 \/ v = count[sem])
    BY <1>3
  <2>. HIDE DEF r, v
  <2>. QED  BY <1>1, <1>4, <2>1, <2>2 DEF r
<1>7. CASE Destroy(sem)
  <2>. DEFINE v == IF count[sem] >= 0 THEN 1 ELSE count[sem]
  <2>1. count' = [count EXCEPT ![sem] = v] /\ UNCHANGED <<sched, waitsem, errcode>>
    BY <1>7 DEF Destroy
  <2>2. /\ v \in (-CountFloor)..SemMax /\ (v >= 0 \/ v = count[sem])
        /\ (count[sem] >= 0 \/ v = count[sem])
    BY <1>3
  <2>. HIDE DEF r, v
  <2>. QED  BY <1>1, <1>4, <2>1, <2>2 DEF r
<1>8. ASSUME NEW q, Becomes(q), KInv(q, Victims), q.errcode = errcode,
             \A x \in Task : q.sched.tstate[x] = "INVALID" <=> sched.tstate[x] = "INVALID"
      PROVE  KInv(r, Victims) /\ Gentle
  <2>1. q \in KState
    BY <1>8 DEF KInv
  <2>2. Kernel' = q /\ sched' = q.sched /\ errcode' = q.errcode
    BY <1>8, <2>1, BecomesIs
  <2>. QED  BY <1>8, <2>2 DEF Gentle
<1>. HIDE DEF r
<1>9. CASE Post(sem)
  <2>. DEFINE q == nxsem_post(Kernel, sem)
  <2>1. Becomes(q)
    BY <1>9 DEF Post
  <2>2. /\ KInv(q, Victims) /\ q.errcode = Kernel.errcode
        /\ \A x \in Task : q.sched.tstate[x] = "INVALID" <=> Kernel.sched.tstate[x] = "INVALID"
    BY <1>2, PostKeeps
  <2>. HIDE DEF q
  <2>3. /\ q.errcode = errcode
        /\ \A x \in Task : q.sched.tstate[x] = "INVALID" <=> sched.tstate[x] = "INVALID"
    BY <2>2, KernelParts
  <2>. QED  BY <1>1, <1>8, <2>1, <2>2, <2>3 DEF r
<1>10. ASSUME NEW n \in 0..SemMax, Reset(sem, n) PROVE KInv(r, Victims) /\ Gentle
  <2>. DEFINE q == ResetCount(Kernel, sem, n)
  <2>1. Becomes(q)
    BY <1>10 DEF Reset
  <2>2. /\ KInv(q, Victims) /\ q.errcode = Kernel.errcode
        /\ \A x \in Task : q.sched.tstate[x] = "INVALID" <=> Kernel.sched.tstate[x] = "INVALID"
    BY <1>2, ResetKeeps
  <2>. HIDE DEF q
  <2>3. /\ q.errcode = errcode
        /\ \A x \in Task : q.sched.tstate[x] = "INVALID" <=> sched.tstate[x] = "INVALID"
    BY <2>2, KernelParts
  <2>. QED  BY <1>8, <2>1, <2>2, <2>3
<1>. QED  BY <1>1, <1>5, <1>6, <1>7, <1>9, <1>10 DEF r

\* Signal and timeout.
LEMMA EndingKeeps ==
  ASSUME SemInv, NEW t \in Task, Signal(t) \/ Timeout(t)
  PROVE  KInv(Kernel', Victims') /\ Gentle
<1>1. Victims' = Victims
  <2>1. victim' = victim
    BY DEF Signal, Timeout
  <2>. QED  BY <2>1 DEF Victims, Victim
<1>2. KInv(Kernel, Victims) /\ Kernel \in KState
  BY DEF SemInv, KInv
<1>3. PICK err \in Errcode : /\ Becomes(nxsem_wait_irq(Kernel, t, err))
                             /\ err = "ETIMEDOUT" => waitdog[t] = "active" \/ corrupt
  BY DEF Signal, Timeout, Errcode
<1>. DEFINE q == nxsem_wait_irq(Kernel, t, err)
<1>4. CASE sched.tstate[t] = "WAIT_SEM"
  <2>1. /\ KInv(q, Victims) /\ q.errcode = [Kernel.errcode EXCEPT ![t] = err]
        /\ \A x \in Task : q.sched.tstate[x] = "INVALID" <=> Kernel.sched.tstate[x] = "INVALID"
    <3>1. Kernel.sched.tstate[t] = "WAIT_SEM"
      BY <1>4, KernelParts
    <3>. QED  BY <1>2, <3>1, WaitIrqKeeps
  <2>. HIDE DEF q
  <2>2. q \in KState
    BY <2>1 DEF KInv
  <2>3. Kernel' = q /\ sched' = q.sched /\ errcode' = q.errcode
    BY <1>3, <2>2, BecomesIs DEF q
  <2>4. Gentle
    BY <1>3, <2>1, <2>3, KernelParts DEF Gentle
  <2>. QED  BY <1>1, <2>1, <2>3, <2>4
<1>5. CASE sched.tstate[t] # "WAIT_SEM"
  <2>1. q = Kernel
    BY <1>5, KernelParts DEF nxsem_wait_irq
  <2>. HIDE DEF q
  <2>2. Kernel' = Kernel /\ sched' = sched /\ errcode' = errcode
    BY <1>2, <1>3, <2>1, KernelParts, BecomesIs DEF q
  <2>. QED  BY <1>1, <1>2, <2>2 DEF Gentle
<1>. QED  BY <1>4, <1>5

\* The scheduler's own operations leave waits alone.
LEMMA SchedulingKeeps ==
  ASSUME SemInv,
         \/ ResetLock \/ ResetUnlock
         \/ \E t \in Task : Create(t) \/ Activate(t) \/ \E p \in Priority : SetPriorityOf(t, p)
  PROVE  KInv(Kernel', Victims') /\ Gentle
<1>1. Safe(sched) /\ Ordered(sched) /\ Core(sched)
  BY KernelParts
<1>2. ASSUME Safe(sched'), Ordered(sched'), Phase(sched') = Phase(sched),
             UNCHANGED <<count, waitsem, errcode, victim>>
      PROVE  KInv(Kernel', Victims') /\ Gentle
  <2>1. \A x \in Task : /\ Phase(sched)[x] = "WAIT_SEM" <=> sched.tstate[x] = "WAIT_SEM"
                        /\ Phase(sched)[x] = "INVALID" <=> sched.tstate[x] = "INVALID"
    BY PhaseTells
  <2>2. \A x \in Task : /\ Phase(sched')[x] = "WAIT_SEM" <=> sched'.tstate[x] = "WAIT_SEM"
                        /\ Phase(sched')[x] = "INVALID" <=> sched'.tstate[x] = "INVALID"
    BY PhaseTells
  <2>3. \A x \in Task : /\ sched'.tstate[x] = "WAIT_SEM" <=> sched.tstate[x] = "WAIT_SEM"
                        /\ sched'.tstate[x] = "INVALID" <=> sched.tstate[x] = "INVALID"
    BY <1>2, <2>1, <2>2
  <2>. QED  BY <1>2, <2>3, KernelParts, SchedStep
<1>3. CASE ResetLock
  <2>1. sched' = LockOp(sched) /\ UNCHANGED <<count, waitsem, errcode, victim>>
    BY <1>3 DEF ResetLock
  <2>2. Safe(sched') /\ Ordered(sched') /\ Phase(sched') = Phase(sched)
    BY <1>1, <2>1, LockOpSafe, LockOpOrdered, LockPhase
  <2>. QED  BY <1>2, <2>1, <2>2
<1>4. CASE ResetUnlock
  <2>1. sched' = UnlockOp(sched) /\ UNCHANGED <<count, waitsem, errcode, victim>>
    BY <1>4 DEF ResetUnlock
  <2>2. Safe(sched') /\ Ordered(sched') /\ Phase(sched') = Phase(sched)
    BY <1>1, <2>1, UnlockOpSafe, UnlockOpOrdered, LockPhase
  <2>. QED  BY <1>2, <2>1, <2>2
<1>5. ASSUME NEW t \in Task, NEW p \in Priority, SetPriorityOf(t, p)
      PROVE  KInv(Kernel', Victims') /\ Gentle
  <2>1. /\ sched' = SetPriority(sched, t, p) /\ UNCHANGED <<count, waitsem, errcode, victim>>
        /\ t \in Task \ {Idle}
    BY <1>5 DEF SetPriorityOf
  <2>2. p \in 0..MaxPrio /\ p \in 1..MaxPrio
    BY MaxPrioPositive DEF Priority
  <2>3. Safe(sched') /\ Ordered(sched') /\ Phase(sched') = Phase(sched)
    BY <1>1, <2>1, <2>2, SetPrioritySafe, SetPriorityOrdered, SetPriorityPhase
  <2>. QED  BY <1>2, <2>1, <2>3
<1>6. ASSUME NEW t \in Task, Activate(t)
      PROVE  KInv(Kernel', Victims') /\ Gentle
  <2>1. /\ sched' = UnblockTask(sched, t) /\ UNCHANGED <<count, waitsem, errcode, victim>>
        /\ sched.tstate[t] = "INACTIVE" /\ sched.tstate[t] \in BlockedState
    BY <1>6 DEF Activate, BlockedState
  <2>2. Safe(sched') /\ Ordered(sched') /\ Phase(sched') = [Phase(sched) EXCEPT ![t] = "READY"]
    BY <1>1, <2>1, UnblockTaskSafe, UnblockTaskOrdered, UnblockTaskPhase
  <2>3. Phase(sched) \in [Task -> BlockedState \cup {"INVALID", "READY"}]
    BY PhaseType
  <2>4. \A x \in Task : /\ Phase(sched)[x] = "WAIT_SEM" <=> sched.tstate[x] = "WAIT_SEM"
                        /\ Phase(sched)[x] = "INVALID" <=> sched.tstate[x] = "INVALID"
    BY PhaseTells
  <2>5. \A x \in Task : /\ Phase(sched')[x] = "WAIT_SEM" <=> sched'.tstate[x] = "WAIT_SEM"
                        /\ Phase(sched')[x] = "INVALID" <=> sched'.tstate[x] = "INVALID"
    BY PhaseTells
  <2>6. Phase(sched')[t] = "READY" /\ \A x \in Task : x # t => Phase(sched')[x] = Phase(sched)[x]
    BY <2>2, <2>3
  <2>7. \A x \in Task : /\ sched'.tstate[x] = "WAIT_SEM" <=> sched.tstate[x] = "WAIT_SEM"
                        /\ sched'.tstate[x] = "INVALID" <=> sched.tstate[x] = "INVALID"
    BY <2>1, <2>4, <2>5, <2>6
  <2>. QED  BY <2>1, <2>2, <2>7, KernelParts, SchedStep
<1>7. ASSUME NEW t \in Task, Create(t)
      PROVE  KInv(Kernel', Victims') /\ Gentle
  <2>. DEFINE p == BasePrio[t]
              z == InactiveState(sched, t, p, p, sched.lock[t])
  <2>1. /\ t \in Task \ {Idle} /\ sched.tstate[t] = "INVALID" /\ t \notin Victims
        /\ UNCHANGED <<count, waitsem, errcode, victim>>
        /\ sched' = [sched EXCEPT !.prio[t] = p, !.init[t] = p, !.tstate[t] = "INACTIVE",
                                  !.blk["INACTIVE"] = AddFirst(@, t)]
    <3>1. /\ t # Idle /\ sched.tstate[t] = "INVALID" /\ ~Victim(t)
          /\ UNCHANGED <<count, waitsem, errcode, victim>>
          /\ sched' = [sched EXCEPT !.prio[t] = p, !.init[t] = p, !.tstate[t] = "INACTIVE",
                                    !.blk["INACTIVE"] = AddFirst(@, t)]
      BY <1>7 DEF Create
    <3>. QED  BY <3>1 DEF Victims
  <2>2. p \in Priority /\ sched \in SchedState /\ sched.lock[t] \in Nat
    BY <1>1, <2>1, BasePrioTyped DEF Core, SchedState
  <2>. HIDE DEF p
  <2>3. /\ Safe(z) /\ Ordered(z) /\ z.tstate = [sched.tstate EXCEPT ![t] = "INACTIVE"]
    BY <1>1, <2>1, <2>2, PutInactive
  <2>4. sched' = z
    <3>1. [sched.lock EXCEPT ![t] = sched.lock[t]] = sched.lock
      BY <2>2 DEF SchedState
    <3>. QED  BY <2>1, <2>2, <3>1 DEF SchedState, InactiveState
  <2>. HIDE DEF z
  <2>5. /\ \A x \in Task : sched'.tstate[x] = "WAIT_SEM" <=> sched.tstate[x] = "WAIT_SEM"
        /\ \A x \in Task : sched'.tstate[x] = "INVALID" => sched.tstate[x] = "INVALID"
        /\ \A x \in Task : x \in Victims => sched'.tstate[x] = "INVALID"
    BY <2>1, <2>3, <2>4, KernelParts
  <2>. QED  BY <2>1, <2>3, <2>4, <2>5, SchedStep
<1>. QED  BY <1>3, <1>4, <1>5, <1>6, <1>7

\* Deletion and restart.
LEMMA DeletionKeeps ==
  ASSUME SemInv, ExitHook \/ \E t \in Task : Terminate(t) \/ Restart(t)
  PROVE  KInv(Kernel', Victims') /\ Gentle
<1>1. KInv(Kernel, Victims) /\ Kernel.sched = sched /\ CallTypes /\ Deleting
  BY KernelParts DEF SemInv
<1>2. ASSUME NEW t \in Task, Restart(t)
      PROVE  KInv(Kernel', Victims') /\ Gentle
  <2>. DEFINE r == RestartState(Kernel, t)
  <2>1. /\ t \in Task \ {Idle} /\ t # ThisTask(sched) /\ sched.tstate[t] # "INVALID"
        /\ Becomes(r) /\ victim' = victim
    <3>1. /\ t \in Restartable \ {self} /\ sched.tstate[t] # "INVALID" /\ victim' = victim
      BY <1>2 DEF Restart
    <3>2. Becomes(r)
      BY <1>2 DEF Restart, RestartState
    <3>. QED  BY <3>1, <3>2, RestartableAreTasks DEF self
  <2>2. /\ KInv(r, Victims) /\ r.errcode = Kernel.errcode
        /\ \A x \in Task : r.sched.tstate[x] = "INVALID" <=> Kernel.sched.tstate[x] = "INVALID"
    BY <1>1, <2>1, KRestart
  <2>. HIDE DEF r
  <2>3. r \in KState
    BY <2>2 DEF KInv
  <2>4. Kernel' = r /\ sched' = r.sched /\ errcode' = r.errcode
    BY <2>1, <2>3, BecomesIs
  <2>5. Victims' = Victims
    BY <2>1 DEF Victims, Victim
  <2>6. Gentle
    BY <1>1, <2>2, <2>4, KernelParts DEF Gentle
  <2>. QED  BY <2>2, <2>4, <2>5, <2>6
<1>3. ASSUME NEW t \in Task, Terminate(t)
      PROVE  KInv(Kernel', Victims') /\ Gentle
  <2>. DEFINE r == Kernel'
  <2>1. /\ t \in Deletable /\ t # ThisTask(sched) /\ sched.tstate[t] # "INVALID"
        /\ sched' = RemoveFromList(sched, t) /\ UNCHANGED <<count, waitsem, errcode>>
        /\ victim' = [victim EXCEPT ![self] = t] /\ pc[self] = "run"
    BY <1>3 DEF Terminate, Running, self
  <2>2. r = [sched |-> RemoveFromList(Kernel.sched, t), count |-> Kernel.count,
             waitsem |-> Kernel.waitsem, errcode |-> Kernel.errcode] /\ r.sched = sched'
    BY <2>1, KernelParts DEF Kernel
  <2>3. self \in Task /\ victim \in [Task -> Task \cup {None}] /\ victim[self] = None
    BY <1>1, <2>1, KernelParts DEF CallTypes, Deleting
  <2>4. \A x \in Task : x \in Victims' <=> x \in Victims \/ x = t
    <3>1. \A x \in Task : x \in Victims' <=> \E d \in Task : victim'[d] = x
      BY DEF Victims, Victim
    <3>2. \A x \in Task : x \in Victims <=> \E d \in Task : victim[d] = x
      BY DEF Victims, Victim
    <3>3. ASSUME NEW x \in Task, NEW d \in Task, victim[d] = x PROVE \E e \in Task : victim'[e] = x
      <4>1. d # self
        BY <2>3, <3>3, NoneIsNull
      <4>. QED  BY <2>1, <2>3, <3>3, <4>1
    <3>4. ASSUME NEW x \in Task, NEW d \in Task, victim'[d] = x PROVE x = t \/ victim[d] = x
      BY <2>1, <2>3, <3>4
    <3>5. victim'[self] = t
      BY <2>1, <2>3
    <3>. QED  BY <2>3, <3>1, <3>2, <3>3, <3>4, <3>5
  <2>. HIDE DEF r
  <2>5. /\ KInv(r, Victims')
        /\ \A x \in Task : x # t =>
             (r.sched.tstate[x] = "INVALID" <=> Kernel.sched.tstate[x] = "INVALID")
    BY <1>1, <2>1, <2>2, <2>4, KTerminate
  <2>6. Gentle
    <3>1. Victim(t)'
      BY <2>1, <2>3 DEF Victim
    <3>. QED  BY <1>1, <2>1, <2>2, <2>5, <3>1 DEF Gentle
  <2>. QED  BY <2>5, <2>6 DEF r
<1>4. CASE ExitHook
  <2>. DEFINE t == victim[self]
              m == nxsem_recover(Kernel, t)
              r == [m EXCEPT !.waitsem[t] = None, !.errcode[t] = "OK",
                             !.sched = [m.sched EXCEPT !.prio[t] = 0, !.init[t] = 0,
                                                       !.lock[t] = 0]]
  <2>1. /\ pc[self] = "terminate" /\ Becomes(r) /\ victim' = [victim EXCEPT ![self] = None]
    BY <1>4 DEF ExitHook, Running
  <2>2. self \in Task /\ victim \in [Task -> Task \cup {None}] /\ t # None
    BY <1>1, <2>1, KernelParts DEF CallTypes, Deleting
  <2>3. t \in Task /\ t \in Deletable /\ t \in Victims
    BY <1>1, <2>2 DEF Deleting, Victims, Victim
  <2>4. t \in Task \ {Idle} /\ sched.tstate[t] = "INVALID"
    BY <2>3, KernelParts, DeletableAreTasks
  <2>. HIDE DEF t
  <2>5. /\ \A x \in Task : x \in Victims' => x \in Victims
        /\ \A x \in Task : x \in Victims /\ x # t => x \in Victims'
    <3>1. \A x \in Task : x \in Victims' <=> \E d \in Task : victim'[d] = x
      BY DEF Victims, Victim
    <3>2. \A x \in Task : x \in Victims <=> \E d \in Task : victim[d] = x
      BY DEF Victims, Victim
    <3>3. ASSUME NEW x \in Task, NEW d \in Task, victim'[d] = x PROVE victim[d] = x
      BY <2>1, <2>2, <3>3, NoneIsNull
    <3>4. ASSUME NEW x \in Task, x # t, NEW d \in Task, victim[d] = x PROVE victim'[d] = x
      BY <2>1, <2>2, <3>4 DEF t
    <3>. QED  BY <3>1, <3>2, <3>3, <3>4
  <2>6. KInv(r, Victims') /\ r.sched.tstate = Kernel.sched.tstate
    BY <1>1, <2>4, <2>5, KExit
  <2>7. r.errcode = [errcode EXCEPT ![t] = "OK"]
    <3>1. m = Kernel
      BY <2>4, KernelParts DEF nxsem_recover
    <3>. QED  BY <3>1 DEF Kernel
  <2>. HIDE DEF r
  <2>8. r \in KState
    BY <2>6 DEF KInv
  <2>9. Kernel' = r /\ sched' = r.sched /\ errcode' = r.errcode
    BY <2>1, <2>8, BecomesIs
  <2>10. Gentle
    BY <1>1, <2>6, <2>7, <2>9, KernelParts DEF Gentle
  <2>. QED  BY <2>6, <2>9, <2>10
<1>. QED  BY <1>2, <1>3, <1>4

\* Every step keeps the scheduler, the counts and the waits in agreement.
LEMMA NextKernel ==
  ASSUME SemInv, [Next]_vars
  PROVE  KInv(Kernel', Victims') /\ Gentle
<1>1. ASSUME UNCHANGED <<sched, count, waitsem, errcode, victim>>
      PROVE  KInv(Kernel', Victims') /\ Gentle
  BY <1>1, KernelParts, SchedStep
<1>2. CASE \/ WaitReturns \/ CreateDog \/ StoreDog \/ DeleteDog \/ ForgetDog \/ UNCHANGED vars
           \/ \E t \in Task : OtherUserCancels(t)
  BY <1>1, <1>2 DEF WaitReturns, CreateDog, StoreDog, DeleteDog, ForgetDog, OtherUserCancels, vars
<1>3. ASSUME NEW place \in {"timed", "tick"}, TimedReturns(place)
      PROVE  KInv(Kernel', Victims') /\ Gentle
  BY <1>1, <1>3 DEF TimedReturns
<1>4. ASSUME NEW sem \in Sem, Wait(sem) PROVE KInv(Kernel', Victims') /\ Gentle
  BY <1>4, WaitFromKeeps DEF Wait, Running
<1>5. ASSUME NEW sem \in Sem, NEW place \in {"timed", "tick"}, TimedWait(sem, place)
      PROVE  KInv(Kernel', Victims') /\ Gentle
  BY <1>5, WaitFromKeeps DEF TimedWait, Running
<1>6. ASSUME NEW sem \in Sem,
             \/ TryWait(sem) \/ TimedAtOnce(sem) \/ Destroy(sem) \/ Post(sem)
             \/ \E n \in 0..SemMax : Reset(sem, n)
      PROVE  KInv(Kernel', Victims') /\ Gentle
  BY <1>6, CountingKeeps
<1>7. ASSUME NEW t \in Task, Signal(t) \/ Timeout(t)
      PROVE  KInv(Kernel', Victims') /\ Gentle
  BY <1>7, EndingKeeps
<1>8. CASE \/ ResetLock \/ ResetUnlock
           \/ \E t \in Task : Create(t) \/ Activate(t) \/ \E p \in Priority : SetPriorityOf(t, p)
  BY <1>8, SchedulingKeeps
<1>9. CASE ExitHook \/ \E t \in Task : Terminate(t) \/ Restart(t)
  BY <1>9, DeletionKeeps
<1>. QED  BY <1>2, <1>3, <1>4, <1>5, <1>6, <1>7, <1>8, <1>9 DEF Next

(***************************************************************************)
(* The pool of watchdogs.                                                  *)
(***************************************************************************)
HolderPlace == {"creating", "create", "timed", "tick", "cleanup"}

\* The tasks are finitely many, so that the watchdogs they hold can be counted.
LEMMA HoldersFinite ==
  /\ IsFiniteSet(Holders) /\ Cardinality(Holders) \in Nat
  /\ \A t \in Holders : Cardinality(Holders \ {t}) = Cardinality(Holders) - 1
  /\ \A t \in Task : t \notin Holders => Cardinality(Holders \cup {t}) = Cardinality(Holders) + 1
<1>1. Holders \in SUBSET Task
  BY DEF Holders
<1>2. IsFiniteSet(Holders)
  BY <1>1, TasksFinite, FS_Subset
<1>. QED  BY <1>2, FS_CardinalityType, FS_AddElement, FS_RemoveElement

\* A step that takes nothing from the pool and gives nothing back.
LEMMA PoolFrame ==
  ASSUME SemInv, UNCHANGED poolvars,
         \A t \in Task : pc'[t] \in HolderPlace <=> pc[t] \in HolderPlace
  PROVE  PoolInv' /\ (corrupt => corrupt')
<1>1. UNCHANGED <<wdnfree, leaked, corrupt>> /\ PoolInv
  BY DEF poolvars, SemInv
<1>2. Holders' = Holders
  BY DEF Holders, HolderPlace
<1>. QED  BY <1>1, <1>2 DEF PoolInv, DogsConserved

\* wd_recover of a task that then is in no call any more.
LEMMA PoolRecover ==
  ASSUME SemInv, NEW t \in Task, wd_recover(t), Holders' = Holders \ {t}
  PROVE  PoolInv' /\ (corrupt => corrupt')
<1>1. /\ wdnfree \in Nat /\ leaked \in 0..Prealloc /\ corrupt \in BOOLEAN
      /\ corrupt \/ wdnfree + Cardinality(Holders) + leaked = Prealloc
      /\ waitdog[t] \in Dog /\ DogAt(pc[t], waitdog[t])
  BY DEF SemInv, PoolInv, DogsConserved, CallTypes, DogPointer
<1>2. t \in Holders <=> pc[t] \in HolderPlace
  BY DEF Holders, HolderPlace
<1>. DEFINE n == Cardinality(Holders)
            m == Cardinality(Holders')
<1>3. n \in Nat /\ m \in Nat /\ (t \in Holders => m = n - 1) /\ (t \notin Holders => m = n)
  <2>1. t \notin Holders => Holders' = Holders
    OBVIOUS
  <2>2. IsFiniteSet(Holders')
    BY HoldersFinite, FS_Subset
  <2>. QED  BY <2>1, <2>2, HoldersFinite, FS_CardinalityType
<1>. HIDE DEF n, m
<1>4. CASE corrupt
  <2>1. wdnfree' = wdnfree /\ leaked' = leaked /\ corrupt' = TRUE
    BY <1>4 DEF wd_recover
  <2>. QED  BY <1>1, <2>1 DEF PoolInv, DogsConserved
<1>5. CASE ~corrupt /\ waitdog[t] = "stale"
  <2>1. pc[t] = "deleted"
    BY <1>1, <1>5 DEF DogAt
  <2>2. wdnfree' = wdnfree + 1 /\ leaked' = leaked /\ corrupt' = TRUE
    BY <1>5, <2>1 DEF wd_recover
  <2>. QED  BY <1>1, <2>2 DEF PoolInv, DogsConserved
<1>6. CASE ~corrupt /\ waitdog[t] \in {"created", "active"}
  <2>1. pc[t] \in DogPlace
    BY <1>1, <1>6 DEF DogAt
  <2>2. pc[t] # "creating" /\ t \in Holders
    BY <1>2, <2>1 DEF DogPlace, HolderPlace
  <2>3. wdnfree' = wdnfree + 1 /\ leaked' = leaked /\ corrupt' = FALSE
    BY <1>6, <2>2 DEF wd_recover
  <2>4. wdnfree' \in Nat /\ wdnfree' + m + leaked' = Prealloc
    BY <1>1, <1>3, <1>6, <2>2, <2>3 DEF n
  <2>. QED  BY <1>1, <1>6, <2>3, <2>4 DEF PoolInv, DogsConserved, m
<1>7. CASE ~corrupt /\ waitdog[t] = "none" /\ pc[t] = "creating"
  <2>1. t \in Holders
    BY <1>2, <1>7 DEF HolderPlace
  <2>2. wdnfree' = wdnfree /\ leaked' = leaked + 1 /\ corrupt' = FALSE
    BY <1>7 DEF wd_recover
  <2>3. leaked' \in 0..Prealloc /\ wdnfree' + m + leaked' = Prealloc
    BY <1>1, <1>3, <1>7, <2>1, <2>2, PreallocNat DEF n
  <2>. QED  BY <1>1, <1>7, <2>2, <2>3 DEF PoolInv, DogsConserved, m
<1>8. CASE ~corrupt /\ waitdog[t] = "none" /\ pc[t] # "creating"
  <2>1. pc[t] \notin DogPlace
    BY <1>1, <1>8 DEF DogAt
  <2>2. t \notin Holders
    BY <1>2, <1>8, <2>1 DEF DogPlace, HolderPlace
  <2>3. wdnfree' = wdnfree /\ leaked' = leaked /\ corrupt' = FALSE
    BY <1>8 DEF wd_recover
  <2>4. wdnfree' + m + leaked' = Prealloc
    BY <1>1, <1>3, <1>8, <2>2, <2>3 DEF n
  <2>. QED  BY <1>1, <1>8, <2>3, <2>4 DEF PoolInv, DogsConserved, m
<1>. QED  BY <1>1, <1>4, <1>5, <1>6, <1>7, <1>8 DEF Dog

\* wd_create takes a watchdog from the pool and wd_delete gives it back.
LEMMA PoolSteps ==
  ASSUME SemInv, CreateDog \/ DeleteDog
  PROVE  PoolInv' /\ (corrupt => corrupt')
<1>1. /\ wdnfree \in Nat /\ leaked \in 0..Prealloc /\ corrupt \in BOOLEAN
      /\ corrupt \/ wdnfree + Cardinality(Holders) + leaked = Prealloc
      /\ pc \in [Task -> Place] /\ self \in Task
  BY KernelParts DEF SemInv, PoolInv, DogsConserved, CallTypes
<1>2. PICK me \in Task : me = self
  BY <1>1
<1>3. UNCHANGED <<leaked, corrupt>>
  BY DEF CreateDog, DeleteDog
<1>. DEFINE n == Cardinality(Holders)
            m == Cardinality(Holders')
<1>4. CASE CreateDog
  <2>1. /\ pc[me] = "run" /\ pc' = [pc EXCEPT ![me] = "creating"] /\ wdnfree > 0
        /\ wdnfree' = IF corrupt THEN wdnfree ELSE wdnfree - 1
    BY <1>2, <1>4 DEF CreateDog, Running
  <2>2. Holders' = Holders \cup {me} /\ me \notin Holders
    BY <1>1, <2>1 DEF Holders
  <2>3. n \in Nat /\ m = n + 1
    BY <2>2, HoldersFinite
  <2>. HIDE DEF n, m
  <2>4. wdnfree' \in Nat /\ (corrupt \/ wdnfree' + m + leaked = Prealloc)
    BY <1>1, <2>1, <2>3 DEF n
  <2>. QED  BY <1>1, <1>3, <2>4 DEF PoolInv, DogsConserved, m
<1>5. CASE DeleteDog
  <2>1. /\ pc[me] = "cleanup" /\ pc' = [pc EXCEPT ![me] = "deleted"]
        /\ wdnfree' = IF corrupt THEN wdnfree ELSE wdnfree + 1
    BY <1>2, <1>5 DEF DeleteDog, Running
  <2>2. Holders' = Holders \ {me} /\ me \in Holders
    BY <1>1, <2>1 DEF Holders
  <2>3. n \in Nat /\ m = n - 1
    BY <2>2, HoldersFinite
  <2>. HIDE DEF n, m
  <2>4. wdnfree' \in Nat /\ (corrupt \/ wdnfree' + m + leaked = Prealloc)
    BY <1>1, <2>1, <2>3 DEF n
  <2>. QED  BY <1>1, <1>3, <2>4 DEF PoolInv, DogsConserved, m
<1>. QED  BY <1>4, <1>5

\* Every step keeps the count of the pool, and a corrupt free list stays corrupt.
LEMMA NextPool ==
  ASSUME SemInv, [Next]_vars
  PROVE  PoolInv' /\ (corrupt => corrupt')
<1>. DEFINE Pool == PoolInv' /\ (corrupt => corrupt')
<1>1. self \in Task /\ pc \in [Task -> Place]
  BY KernelParts DEF SemInv, CallTypes
<1>2. PICK me \in Task : me = self
  BY <1>1
<1>3. ASSUME UNCHANGED <<poolvars, pc>> PROVE Pool
  BY <1>3, PoolFrame
<1>4. ASSUME NEW to, pc' = [pc EXCEPT ![me] = to], UNCHANGED poolvars,
             to \in HolderPlace <=> pc[me] \in HolderPlace
      PROVE  Pool
  <2>1. \A t \in Task : pc'[t] \in HolderPlace <=> pc[t] \in HolderPlace
    BY <1>1, <1>4
  <2>. QED  BY <1>4, <2>1, PoolFrame
<1>5. CASE CreateDog \/ DeleteDog
  BY <1>5, PoolSteps
<1>6. CASE WaitReturns \/ ResetLock \/ ResetUnlock
  BY <1>2, <1>4, <1>6 DEF WaitReturns, ResetLock, ResetUnlock, Running, dogvars, HolderPlace
<1>7. CASE StoreDog \/ ForgetDog
  BY <1>2, <1>4, <1>7 DEF StoreDog, ForgetDog, Running, HolderPlace
<1>8. ASSUME NEW place \in {"timed", "tick"}, TimedReturns(place) PROVE Pool
  BY <1>2, <1>4, <1>8 DEF TimedReturns, Running, HolderPlace
<1>9. ASSUME NEW sem \in Sem, Wait(sem) PROVE Pool
  <2>1. /\ pc[me] = "run" /\ UNCHANGED poolvars
        /\ pc' = [pc EXCEPT ![me] = "run"] \/ pc' = [pc EXCEPT ![me] = "wait"]
    BY <1>2, <1>9 DEF Wait, WaitFrom, Running, dogvars
  <2>. QED  BY <1>4, <2>1 DEF HolderPlace
<1>10. ASSUME NEW sem \in Sem, NEW place \in {"timed", "tick"}, TimedWait(sem, place) PROVE Pool
  <2>1. /\ pc[me] = "create" /\ UNCHANGED poolvars
        /\ pc' = [pc EXCEPT ![me] = "cleanup"] \/ pc' = [pc EXCEPT ![me] = place]
    BY <1>2, <1>10 DEF TimedWait, WaitFrom, Running
  <2>. QED  BY <1>4, <2>1 DEF HolderPlace
<1>11. ASSUME NEW sem \in Sem, TimedAtOnce(sem) PROVE Pool
  BY <1>2, <1>4, <1>11 DEF TimedAtOnce, Running, dogvars, HolderPlace
<1>12. ASSUME NEW sem \in Sem, NEW n \in 0..SemMax, Reset(sem, n) PROVE Pool
  BY <1>2, <1>4, <1>12 DEF Reset, Running, dogvars, HolderPlace
<1>13. ASSUME NEW sem \in Sem, TryWait(sem) \/ Post(sem) \/ Destroy(sem) PROVE Pool
  BY <1>3, <1>13 DEF TryWait, Post, Destroy, dogvars
<1>14. ASSUME NEW t \in Task,
              \/ Signal(t) \/ Timeout(t) \/ OtherUserCancels(t) \/ Create(t) \/ Activate(t)
              \/ \E p \in Priority : SetPriorityOf(t, p)
       PROVE  Pool
  BY <1>3, <1>14 DEF Signal, Timeout, OtherUserCancels, Create, Activate, SetPriorityOf, dogvars
<1>15. ASSUME NEW t \in Task, Terminate(t) PROVE Pool
  BY <1>2, <1>4, <1>15 DEF Terminate, Running, dogvars, HolderPlace
<1>16. ASSUME NEW t \in Task, Restart(t) PROVE Pool
  <2>1. pc' = [pc EXCEPT ![t] = "run"] /\ wd_recover(t)
    BY <1>16 DEF Restart
  <2>2. Holders' = Holders \ {t}
    BY <1>1, <2>1 DEF Holders
  <2>. QED  BY <2>1, <2>2, PoolRecover
<1>17. CASE ExitHook
  <2>. DEFINE t == victim[me]
  <2>1. /\ pc[me] = "terminate" /\ wd_recover(t)
        /\ pc' = [pc EXCEPT ![me] = "run", ![t] = "run"]
    BY <1>2, <1>17 DEF ExitHook, Running
  <2>2. t \in Task
    BY <2>1 DEF SemInv, CallTypes, Deleting
  <2>. HIDE DEF t
  <2>3. Holders' = Holders \ {t}
    BY <1>1, <2>1, <2>2 DEF Holders
  <2>. QED  BY <2>1, <2>2, <2>3, PoolRecover
<1>18. CASE UNCHANGED vars
  BY <1>3, <1>18 DEF vars, dogvars
<1>. QED  BY <1>5, <1>6, <1>7, <1>8, <1>9, <1>10, <1>11, <1>12, <1>13, <1>14, <1>15, <1>16,
             <1>17, <1>18 DEF Next

(***************************************************************************)
(* The places of the calls.                                                *)
(***************************************************************************)
\* The steps that move no call from one place to another.
LEMMA CallsFrame ==
  ASSUME SemInv, Gentle, corrupt => corrupt', UNCHANGED <<pc, victim>>,
         \/ waitdog' = waitdog
         \/ \E t \in Task : waitdog[t] = "active" /\ waitdog' = [waitdog EXCEPT ![t] = "created"]
  PROVE  CallTypes' /\ Deleting' /\ NoStrayTimeout' /\ DogPointer'
<1>1. CallTypes /\ Deleting /\ NoStrayTimeout /\ DogPointer
  BY DEF SemInv
<1>2. CallTypes' /\ Deleting'
  BY <1>1 DEF CallTypes, Deleting, Dog
<1>3. \A x \in Task : waitdog'[x] = waitdog[x] \/ (waitdog[x] = "active" /\ waitdog'[x] = "created")
  BY <1>1 DEF CallTypes
<1>4. NoStrayTimeout'
  BY <1>1 DEF NoStrayTimeout, Gentle, DogPointer, DogAt, DogPlace
<1>5. DogPointer'
  BY <1>1, <1>3 DEF DogPointer, DogAt
<1>. QED  BY <1>2, <1>4, <1>5

\* The running task moves from one place of a call to another.
LEMMA CallsMove ==
  ASSUME SemInv, Gentle, corrupt => corrupt', victim' = victim,
         NEW place \in Place \ {"terminate"},
         pc[self] # "terminate", pc' = [pc EXCEPT ![self] = place],
         place = "wait" => errcode'[self] # "ETIMEDOUT",
         NEW dog \in Dog, waitdog' = [waitdog EXCEPT ![self] = dog], DogAt(place, dog)
  PROVE  CallTypes' /\ Deleting' /\ NoStrayTimeout' /\ DogPointer'
<1>1. CallTypes /\ Deleting /\ NoStrayTimeout /\ DogPointer
  BY DEF SemInv
<1>2. /\ self \in Task /\ pc \in [Task -> Place] /\ waitdog \in [Task -> Dog]
      /\ victim \in [Task -> Task \cup {None}]
  BY <1>1, KernelParts DEF CallTypes
<1>3. CallTypes'
  BY <1>2 DEF CallTypes
<1>4. Deleting'
  <2>1. victim[self] = None
    BY <1>1, <1>2 DEF Deleting
  <2>2. \A d \in Task : pc'[d] = "terminate" <=> pc[d] = "terminate"
    BY <1>2
  <2>. QED  BY <1>1, <1>2, <2>1, <2>2 DEF Deleting
<1>5. \A x \in Task : x # self => pc'[x] = pc[x] /\ waitdog'[x] = waitdog[x]
  BY <1>2
<1>6. pc'[self] = place /\ waitdog'[self] = dog
  BY <1>2
<1>7. NoStrayTimeout'
  <2>. SUFFICES ASSUME ~corrupt', NEW x \in Task, pc'[x] = "wait" PROVE errcode'[x] # "ETIMEDOUT"
    BY DEF NoStrayTimeout
  <2>1. CASE x = self
    BY <1>6, <2>1
  <2>2. CASE x # self
    BY <1>1, <1>5, <2>2 DEF NoStrayTimeout, Gentle, DogPointer, DogAt, DogPlace
  <2>. QED  BY <2>1, <2>2
<1>8. DogPointer'
  <2>. SUFFICES ASSUME NEW x \in Task PROVE DogAt(pc'[x], waitdog'[x])
    BY DEF DogPointer
  <2>. QED  BY <1>1, <1>5, <1>6 DEF DogPointer
<1>. QED  BY <1>3, <1>4, <1>7, <1>8

\* The calls that the running task makes step by step.
LEMMA CallSteps ==
  ASSUME SemInv, Gentle, corrupt => corrupt',
         \/ WaitReturns \/ CreateDog \/ StoreDog \/ DeleteDog \/ ForgetDog
         \/ ResetLock \/ ResetUnlock
         \/ \E place \in {"timed", "tick"} : TimedReturns(place)
         \/ \E sem \in Sem :
              \/ Wait(sem) \/ TimedAtOnce(sem)
              \/ \E place \in {"timed", "tick"} : TimedWait(sem, place)
              \/ \E n \in 0..SemMax : Reset(sem, n)
  PROVE  CallTypes' /\ Deleting' /\ NoStrayTimeout' /\ DogPointer'
<1>. DEFINE Calls == CallTypes' /\ Deleting' /\ NoStrayTimeout' /\ DogPointer'
<1>1. /\ self \in Task /\ waitdog \in [Task -> Dog] /\ waitdog[self] \in Dog
      /\ waitdog = [waitdog EXCEPT ![self] = waitdog[self]]
      /\ DogAt(pc[self], waitdog[self])
  BY KernelParts DEF SemInv, CallTypes, DogPointer
<1>. DEFINE Places == {"run", "wait", "creating", "create", "cleanup", "deleted", "reset",
                       "unlock", "timed", "tick"}
<1>2. Places = Place \ {"terminate"}
  BY DEF Place, InWait
<1>. HIDE DEF Places
<1>3. ASSUME NEW from \in Places, NEW to \in Places, pc[self] = from,
             pc' = [pc EXCEPT ![self] = to], UNCHANGED <<waitdog, victim>>,
             from \in DogPlace <=> to \in DogPlace, from = "deleted" <=> to = "deleted",
             to = "wait" => errcode'[self] # "ETIMEDOUT"
      PROVE  Calls
  <2>1. pc[self] # "terminate" /\ to \in Place \ {"terminate"}
    BY <1>2, <1>3
  <2>2. waitdog' = [waitdog EXCEPT ![self] = waitdog[self]]
    BY <1>1, <1>3
  <2>3. DogAt(to, waitdog[self])
    BY <1>1, <1>3 DEF DogAt
  <2>. QED  BY <1>1, <1>3, <2>1, <2>2, <2>3, CallsMove
<1>4. CASE WaitReturns
  <2>1. "wait" \in Places /\ "run" \in Places
    BY DEF Places
  <2>. QED  BY <1>3, <1>4, <2>1 DEF WaitReturns, Running, dogvars, DogPlace
<1>5. CASE ResetLock
  <2>1. "reset" \in Places /\ "run" \in Places
    BY DEF Places
  <2>. QED  BY <1>3, <1>5, <2>1 DEF ResetLock, Running, dogvars, DogPlace
<1>6. CASE ResetUnlock
  <2>1. "unlock" \in Places /\ "run" \in Places
    BY DEF Places
  <2>. QED  BY <1>3, <1>6, <2>1 DEF ResetUnlock, Running, dogvars, DogPlace
<1>7. ASSUME NEW sem \in Sem, NEW n \in 0..SemMax, Reset(sem, n) PROVE Calls
  <2>1. "reset" \in Places /\ "unlock" \in Places
    BY DEF Places
  <2>. QED  BY <1>3, <1>7, <2>1 DEF Reset, Running, dogvars, DogPlace
<1>8. ASSUME NEW sem \in Sem, TimedAtOnce(sem) PROVE Calls
  <2>1. "create" \in Places /\ "cleanup" \in Places
    BY DEF Places
  <2>. QED  BY <1>3, <1>8, <2>1 DEF TimedAtOnce, Running, dogvars, DogPlace
<1>9. ASSUME NEW sem \in Sem, Wait(sem) PROVE Calls
  <2>1. "wait" \in Places /\ "run" \in Places
    BY DEF Places
  <2>2. /\ pc[self] = "run" /\ UNCHANGED <<waitdog, victim>>
        /\ \/ pc' = [pc EXCEPT ![self] = "run"]
           \/ /\ pc' = [pc EXCEPT ![self] = "wait"]
              /\ errcode' = [errcode EXCEPT ![self] = "OK"]
    BY <1>9 DEF Wait, WaitFrom, Running, dogvars
  <2>3. CASE pc' = [pc EXCEPT ![self] = "run"]
    BY <1>3, <2>1, <2>2, <2>3
  <2>4. CASE pc' = [pc EXCEPT ![self] = "wait"] /\ errcode' = [errcode EXCEPT ![self] = "OK"]
    <3>1. errcode'[self] = "OK"
      BY <2>4, KernelParts
    <3>. QED  BY <1>3, <2>1, <2>2, <2>4, <3>1 DEF DogPlace
  <2>. QED  BY <2>2, <2>3, <2>4
<1>10. CASE CreateDog
  <2>1. "run" \in Places /\ "creating" \in Places
    BY DEF Places
  <2>. QED  BY <1>3, <1>10, <2>1 DEF CreateDog, Running, DogPlace
<1>11. ASSUME NEW to \in Places, NEW dog \in Dog, pc[self] # "terminate", to # "wait",
              pc' = [pc EXCEPT ![self] = to], victim' = victim,
              waitdog' = [waitdog EXCEPT ![self] = dog], DogAt(to, dog)
       PROVE  Calls
  BY <1>2, <1>11, CallsMove
<1>12. CASE StoreDog
  <2>1. "create" \in Places /\ "created" \in Dog /\ DogAt("create", "created")
    BY DEF Places, Dog, DogAt, DogPlace
  <2>. QED  BY <1>11, <1>12, <2>1 DEF StoreDog, Running
<1>13. CASE DeleteDog
  <2>1. "deleted" \in Places /\ "stale" \in Dog /\ DogAt("deleted", "stale")
    BY DEF Places, Dog, DogAt, DogPlace
  <2>. QED  BY <1>11, <1>13, <2>1 DEF DeleteDog, Running
<1>14. CASE ForgetDog
  <2>1. "run" \in Places /\ "none" \in Dog /\ DogAt("run", "none")
    BY DEF Places, Dog, DogAt, DogPlace
  <2>. QED  BY <1>11, <1>14, <2>1 DEF ForgetDog, Running
<1>15. ASSUME NEW place \in {"timed", "tick"}, TimedReturns(place) PROVE Calls
  <2>1. /\ "cleanup" \in Places /\ place \in Places /\ place # "terminate"
        /\ "created" \in Dog /\ DogAt("cleanup", "created")
    BY DEF Places, Dog, DogAt, DogPlace
  <2>2. /\ pc[self] = place /\ pc' = [pc EXCEPT ![self] = "cleanup"] /\ victim' = victim
        /\ waitdog' = waitdog \/ waitdog' = [waitdog EXCEPT ![self] = "created"]
    BY <1>15 DEF TimedReturns, Running
  <2>3. CASE waitdog' = waitdog
    BY <1>3, <2>1, <2>2, <2>3 DEF DogPlace
  <2>4. CASE waitdog' = [waitdog EXCEPT ![self] = "created"]
    BY <1>11, <2>1, <2>2, <2>4
  <2>. QED  BY <2>2, <2>3, <2>4
<1>16. ASSUME NEW sem \in Sem, NEW place \in {"timed", "tick"}, TimedWait(sem, place) PROVE Calls
  <2>1. /\ "cleanup" \in Places /\ place \in Places /\ place # "wait" /\ "active" \in Dog
        /\ DogAt("cleanup", "active") /\ DogAt(place, "active")
    BY DEF Places, Dog, DogAt, DogPlace
  <2>2. /\ pc[self] = "create" /\ victim' = victim
        /\ pc' = [pc EXCEPT ![self] = "cleanup"] \/ pc' = [pc EXCEPT ![self] = place]
        /\ waitdog' = [waitdog EXCEPT ![self] = "active"]
    BY <1>16 DEF TimedWait, WaitFrom, Running
  <2>. QED  BY <1>11, <2>1, <2>2
<1>. QED  BY <1>4, <1>5, <1>6, <1>7, <1>8, <1>9, <1>10, <1>12, <1>13, <1>14, <1>15, <1>16

\* Deletion and restart reset the call that the task was in.
LEMMA CallsReset ==
  ASSUME SemInv, Gentle, corrupt => corrupt', ExitHook \/ \E t \in Task : Terminate(t) \/ Restart(t)
  PROVE  CallTypes' /\ Deleting' /\ NoStrayTimeout' /\ DogPointer'
<1>. DEFINE Calls == CallTypes' /\ Deleting' /\ NoStrayTimeout' /\ DogPointer'
<1>1. CallTypes /\ Deleting /\ NoStrayTimeout /\ DogPointer
  BY DEF SemInv
<1>2. /\ self \in Task /\ pc \in [Task -> Place] /\ waitdog \in [Task -> Dog]
      /\ victim \in [Task -> Task \cup {None}] /\ "run" \in Place /\ "terminate" \in Place
      /\ "none" \in Dog
  BY <1>1, KernelParts DEF CallTypes, Place, Dog
<1>3. ASSUME \A x \in Task : pc'[x] = "wait" => pc[x] = "wait" PROVE NoStrayTimeout'
  BY <1>1, <1>3 DEF NoStrayTimeout, Gentle, DogPointer, DogAt, DogPlace
<1>4. ASSUME NEW t \in Task, Restart(t) PROVE Calls
  <2>1. /\ pc' = [pc EXCEPT ![t] = "run"] /\ waitdog' = [waitdog EXCEPT ![t] = "none"]
        /\ victim' = victim /\ pc[t] # "terminate"
    <3>1. pc' = [pc EXCEPT ![t] = "run"] /\ wd_recover(t) /\ victim' = victim /\ pc[t] # "terminate"
      BY <1>4 DEF Restart
    <3>. QED  BY <3>1 DEF wd_recover
  <2>2. CallTypes' /\ NoStrayTimeout'
    BY <1>2, <1>3, <2>1 DEF CallTypes
  <2>3. Deleting'
    <3>1. \A d \in Task : pc'[d] = "terminate" <=> pc[d] = "terminate"
      BY <1>2, <2>1
    <3>. QED  BY <1>1, <2>1, <3>1 DEF Deleting
  <2>4. \A x \in Task : \/ pc'[x] = pc[x] /\ waitdog'[x] = waitdog[x]
                        \/ pc'[x] = "run" /\ waitdog'[x] = "none"
    BY <1>2, <2>1
  <2>5. DogPointer'
    BY <1>1, <2>4 DEF DogPointer, DogAt, DogPlace
  <2>. QED  BY <2>2, <2>3, <2>5
<1>5. ASSUME NEW t \in Task, Terminate(t) PROVE Calls
  <2>1. /\ pc[self] = "run" /\ t \in Deletable \ {self} /\ pc[t] # "terminate"
        /\ victim' = [victim EXCEPT ![self] = t] /\ pc' = [pc EXCEPT ![self] = "terminate"]
        /\ waitdog' = waitdog
    BY <1>5 DEF Terminate, Running, dogvars
  <2>2. CallTypes' /\ NoStrayTimeout'
    BY <1>2, <1>3, <2>1 DEF CallTypes
  <2>3. t # None /\ victim[self] = None
    BY <1>1, <1>2, <2>1, NoneIsNull DEF Deleting
  <2>4. Deleting'
    <3>1. \A d \in Task : pc'[d] = "terminate" <=> victim'[d] # None
      BY <1>1, <1>2, <2>1, <2>3 DEF Deleting
    <3>2. ASSUME NEW d \in Task, NEW x \in Task, victim'[d] = x
          PROVE  x \in Deletable /\ pc'[x] # "terminate"
      <4>1. CASE d = self
        <5>1. x = t
          BY <1>2, <2>1, <3>2, <4>1
        <5>. QED  BY <1>2, <2>1, <5>1
      <4>2. CASE d # self
        <5>1. victim[d] = x
          BY <1>2, <2>1, <3>2, <4>2
        <5>2. x \in Deletable /\ pc[x] # "terminate"
          BY <1>1, <5>1 DEF Deleting
        <5>3. x # self
          <6>1. x \in Victims /\ sched.tstate[self] = "RUNNING"
            BY <5>1, KernelParts DEF Victims, Victim
          <6>2. sched.tstate[x] = "INVALID"
            BY <6>1, KernelParts
          <6>. QED  BY <6>1, <6>2
        <5>. QED  BY <1>2, <2>1, <5>2, <5>3
      <4>. QED  BY <4>1, <4>2
    <3>. QED  BY <3>1, <3>2 DEF Deleting
  <2>5. \A x \in Task : \/ pc'[x] = pc[x]
                        \/ pc[x] = "run" /\ pc'[x] = "terminate"
    BY <1>2, <2>1
  <2>6. DogPointer'
    BY <1>1, <2>1, <2>5 DEF DogPointer, DogAt, DogPlace
  <2>. QED  BY <2>2, <2>4, <2>6
<1>6. CASE ExitHook
  <2>. DEFINE t == victim[self]
  <2>1. /\ pc[self] = "terminate" /\ victim' = [victim EXCEPT ![self] = None]
        /\ waitdog' = [waitdog EXCEPT ![t] = "none"]
        /\ pc' = [pc EXCEPT ![self] = "run", ![t] = "run"]
    BY <1>6 DEF ExitHook, Running, wd_recover
  <2>2. t # None /\ t \in Task /\ pc[t] # "terminate"
    BY <1>1, <1>2, <2>1 DEF Deleting
  <2>3. victim[self] = t
    OBVIOUS
  <2>. HIDE DEF t
  <2>4. CallTypes' /\ NoStrayTimeout'
    BY <1>2, <1>3, <2>1, <2>2 DEF CallTypes
  <2>5. Deleting'
    <3>1. \A d \in Task : pc'[d] = "terminate" <=> pc[d] = "terminate" /\ d # self
      BY <1>2, <2>1, <2>2
    <3>2. \A d \in Task : victim'[d] = IF d = self THEN None ELSE victim[d]
      BY <1>2, <2>1
    <3>3. \A d \in Task : pc'[d] = "terminate" <=> victim'[d] # None
      BY <1>1, <3>1, <3>2 DEF Deleting
    <3>4. ASSUME NEW d \in Task, NEW x \in Task, victim'[d] = x
          PROVE  x \in Deletable /\ pc'[x] # "terminate"
      <4>1. victim[d] = x
        BY <3>2, <3>4, NoneIsNull
      <4>. QED  BY <1>1, <3>1, <4>1 DEF Deleting
    <3>. QED  BY <3>3, <3>4 DEF Deleting
  <2>6. \A x \in Task : \/ pc'[x] = pc[x] /\ waitdog'[x] = waitdog[x]
                        \/ pc'[x] = "run" /\ waitdog'[x] = "none"
                        \/ pc[x] = "terminate" /\ pc'[x] = "run" /\ waitdog'[x] = waitdog[x]
    BY <1>2, <2>1, <2>2
  <2>7. DogPointer'
    BY <1>1, <2>6 DEF DogPointer, DogAt, DogPlace
  <2>. QED  BY <2>4, <2>5, <2>7
<1>. QED  BY <1>4, <1>5, <1>6

\* Every step keeps the places of the calls and the watchdogs in agreement.
LEMMA NextCalls ==
  ASSUME SemInv, Gentle, corrupt => corrupt', [Next]_vars
  PROVE  CallTypes' /\ Deleting' /\ NoStrayTimeout' /\ DogPointer'
<1>. DEFINE Calls == CallTypes' /\ Deleting' /\ NoStrayTimeout' /\ DogPointer'
<1>1. CASE \/ WaitReturns \/ CreateDog \/ StoreDog \/ DeleteDog \/ ForgetDog
           \/ ResetLock \/ ResetUnlock
           \/ \E place \in {"timed", "tick"} : TimedReturns(place)
           \/ \E sem \in Sem :
                \/ Wait(sem) \/ TimedAtOnce(sem)
                \/ \E place \in {"timed", "tick"} : TimedWait(sem, place)
                \/ \E n \in 0..SemMax : Reset(sem, n)
  BY <1>1, CallSteps
<1>2. CASE ExitHook \/ \E t \in Task : Terminate(t) \/ Restart(t)
  BY <1>2, CallsReset
<1>3. ASSUME NEW sem \in Sem, TryWait(sem) \/ Post(sem) \/ Destroy(sem) PROVE Calls
  BY <1>3, CallsFrame DEF TryWait, Post, Destroy, dogvars
<1>4. ASSUME NEW t \in Task, \/ Signal(t) \/ Create(t) \/ Activate(t)
                             \/ \E p \in Priority : SetPriorityOf(t, p)
      PROVE  Calls
  BY <1>4, CallsFrame DEF Signal, Create, Activate, SetPriorityOf, dogvars
<1>5. ASSUME NEW t \in Task, Timeout(t) \/ OtherUserCancels(t) PROVE Calls
  <2>1. waitdog \in [Task -> Dog]
    BY DEF SemInv, CallTypes
  <2>2. UNCHANGED <<pc, victim>>
    BY <1>5 DEF Timeout, OtherUserCancels
  <2>3. \/ waitdog[t] = "active" /\ waitdog' = [waitdog EXCEPT ![t] = "created"]
        \/ waitdog' = waitdog
    BY <1>5, <2>1 DEF Timeout, OtherUserCancels
  <2>. QED  BY <2>2, <2>3, CallsFrame
<1>6. CASE UNCHANGED vars
  BY <1>6, CallsFrame DEF vars, dogvars
<1>. QED  BY <1>1, <1>2, <1>3, <1>4, <1>5, <1>6 DEF Next

(***************************************************************************)
(* The theorems.                                                           *)
(***************************************************************************)
\* nx_start leaves nobody waiting.
LEMMA InitInv == Init => SemInv
<1>. SUFFICES ASSUME Init PROVE SemInv
  OBVIOUS
<1>1. Safe(sched) /\ Ordered(sched) /\ sched \in SchedState
  BY InitSafe, InitOrdered DEF Init, Safe, Core
<1>2. \A t \in Task : sched.tstate[t] # "WAIT_SEM"
  BY DEF Init, SchedInit
<1>3. /\ Kernel.sched = sched /\ Kernel.count = count /\ Kernel.waitsem = waitsem
      /\ Kernel.errcode = errcode
      /\ Kernel = [sched |-> sched, count |-> count, waitsem |-> waitsem, errcode |-> errcode]
  BY DEF Kernel
<1>4. Kernel \in KState
  <2>1. 0 \in (-CountFloor)..SemMax
    BY CountFloorNat, SemMaxPositive
  <2>. QED  BY <1>1, <1>3, <2>1 DEF Init, KState, Errcode
<1>5. Victims = {}
  BY NoneIsNull DEF Init, Victims, Victim
<1>6. \A sem \in Sem : Blocked(Kernel, sem) = {} /\ Kernel.count[sem] = 0
  BY <1>2, <1>3 DEF Blocked, Init
<1>7. Counted(Kernel)
  <2>1. \A sem \in Sem : Cardinality(Blocked(Kernel, sem)) = 0
    BY <1>6, BlockedFinite
  <2>. QED  BY <1>6, <2>1 DEF Counted
<1>8. Agree(Kernel, Victims) /\ Cleared(Kernel)
  BY <1>2, <1>3, <1>5 DEF Agree, Cleared, Init
<1>9. CallTypes /\ Deleting /\ NoStrayTimeout
  BY NoneIsNull DEF Init, CallTypes, Deleting, NoStrayTimeout, Place, Dog
<1>10. DogPointer
  BY DEF Init, DogPointer, DogAt, DogPlace
<1>11. PoolInv
  <2>1. Holders = {}
    BY DEF Init, Holders
  <2>2. Cardinality(Holders) = 0
    BY <2>1, FS_EmptySet
  <2>3. wdnfree = Prealloc /\ leaked = 0 /\ corrupt = FALSE
    BY DEF Init
  <2>4. wdnfree \in Nat /\ leaked \in 0..Prealloc /\ wdnfree + 0 + leaked = Prealloc
    BY <2>3, PreallocNat
  <2>. QED  BY <2>2, <2>3, <2>4 DEF PoolInv, DogsConserved
<1>. QED  BY <1>1, <1>3, <1>4, <1>7, <1>8, <1>9, <1>10, <1>11 DEF SemInv, KInv

\* The scheduler's lists, the counts, the waits, the watchdogs and the places of
\* the calls agree in every reachable state, for every set of tasks and
\* semaphores and whoever is deleted or restarted.
THEOREM InvAlways == Spec => []SemInv
<1>1. SemInv /\ [Next]_vars => SemInv'
  <2>. SUFFICES ASSUME SemInv, [Next]_vars PROVE SemInv'
    OBVIOUS
  <2>1. KInv(Kernel', Victims') /\ Gentle
    BY NextKernel
  <2>2. PoolInv' /\ (corrupt => corrupt')
    BY NextPool
  <2>3. CallTypes' /\ Deleting' /\ NoStrayTimeout' /\ DogPointer'
    BY <2>1, <2>2, NextCalls
  <2>. QED  BY <2>1, <2>2, <2>3 DEF SemInv
<1>. QED  BY <1>1, InitInv, PTL DEF Spec

\* The state keeps its types, and the task lists agree with task_state, through
\* every wait, post, timeout, reset, deletion and restart.
THEOREM TypeCorrect == Spec => []TypeOK
<1>1. ASSUME SemInv PROVE TypeOK
  <2>1. sched \in SchedState /\ Placed(sched)
    BY <1>1, KernelParts DEF Core
  <2>2. CallTypes /\ PoolInv
    BY <1>1 DEF SemInv
  <2>. QED  BY <1>1, <2>1, <2>2, KernelParts DEF TypeOK, CallTypes, PoolInv, Place, Dog, Errcode
<1>. QED  BY <1>1, InvAlways, PTL

\* waitsem is set exactly while the task is on g_waitingforsemaphore, unless the
\* task is being deleted.
THEOREM WaitsemAlwaysAgrees == Spec => []WaitsemAgrees
<1>1. ASSUME SemInv PROVE WaitsemAgrees
  BY <1>1, KernelParts DEF SemInv, KInv, Agree, WaitsemAgrees
<1>. QED  BY <1>1, InvAlways, PTL

\* A plain wait is never ended by the watchdog of an earlier timed wait.
THEOREM NeverStrayTimeout == Spec => []NoStrayTimeout
<1>1. SemInv => NoStrayTimeout
  BY DEF SemInv
<1>. QED  BY <1>1, InvAlways, PTL

\* The free watchdogs, the ones that timed waits hold and the ones lost between
\* wd_create and the store to waitdog make up the pool, whoever is deleted or
\* restarted and wherever in its wait, until a task ends between wd_delete and
\* the store of NULL.
THEOREM DogsAlwaysConserved == Spec => []DogsConserved
<1>1. SemInv => DogsConserved
  BY DEF SemInv, PoolInv
<1>. QED  BY <1>1, InvAlways, PTL

\* Without deletion the tasks blocked on a semaphore are the ones whose waitsem
\* names it.
LEMMA WaitersAreBlocked ==
  ASSUME SemInv, Deletable = {}
  PROVE  \A sem \in Sem : Waiters(sem) = Blocked(Kernel, sem)
<1>1. Victims = {}
  BY DEF SemInv, Deleting, Victims, Victim
<1>2. \A t \in Task : waitsem[t] # None <=> sched.tstate[t] = "WAIT_SEM"
  BY <1>1, KernelParts DEF SemInv, KInv, Agree
<1>3. \A sem \in Sem : sem # None
  BY NoneIsNull
<1>. QED  BY <1>2, <1>3, KernelParts DEF Waiters, Blocked

\* If no task is deleted during a wait, a negative count is minus the number of
\* waiters, and a count that is not negative has none: whichever of post, signal,
\* timeout, reset and restart ends a wait, no unit is lost and none invented.
THEOREM CountAlwaysMatches ==
  ASSUME Deletable = {}
  PROVE  Spec => []CountMatchesWaiters
<1>1. ASSUME SemInv PROVE CountMatchesWaiters
  <2>. SUFFICES ASSUME NEW sem \in Sem
                PROVE  Cardinality(Waiters(sem)) = IF count[sem] < 0 THEN -count[sem] ELSE 0
    BY DEF CountMatchesWaiters
  <2>. DEFINE n == Cardinality(Blocked(Kernel, sem))
  <2>1. Cardinality(Waiters(sem)) = n
    BY <1>1, WaitersAreBlocked
  <2>2. KInv(Kernel, Victims) /\ Kernel.count = count /\ count[sem] \in Int
    BY <1>1, KernelParts, CountFloorNat, SemMaxPositive DEF SemInv
  <2>3. count[sem] < 0 => count[sem] = -n
    BY <2>2 DEF KInv, Counted
  <2>4. count[sem] >= 0 => n = 0
    BY <2>2, FreeSemaphore, BlockedFinite
  <2>5. n \in Nat
    BY BlockedFinite
  <2>. HIDE DEF n
  <2>. QED  BY <2>1, <2>2, <2>3, <2>4, <2>5
<1>. QED  BY <1>1, InvAlways, PTL

(***************************************************************************)
(* Which waiter is served.                                                 *)
(***************************************************************************)
\* The condition of HighestWaiterFirst: t got a unit of sem, u did not.
Overtaken(t, u, sem) ==
  /\ waitsem'[t] = None /\ waitsem'[u] = sem
  /\ count'[sem] = count[sem] + 1 /\ errcode' = errcode
  /\ sched'.tstate[t] \in {"RUNNING", "READYTORUN", "PENDING"}

\* A post serves the waiter of the highest priority.
LEMMA PostServesHighest ==
  ASSUME SemInv, NEW s \in Sem, NEW q, q = nxsem_post(Kernel, s), waitsem' = q.waitsem,
         NEW sem \in Sem, NEW t \in Blocked(Kernel, sem), NEW u \in Blocked(Kernel, sem),
         waitsem'[t] = None
  PROVE  sched.prio[u] <= sched.prio[t]
<1>1. KInv(Kernel, Victims) /\ Kernel.waitsem = waitsem /\ Kernel.sched = sched
      /\ waitsem \in [Task -> Sem \cup {None}]
  BY KernelParts DEF SemInv
<1>2. \/ q = Kernel
      \/ q.waitsem = Kernel.waitsem
      \/ \E w \in Blocked(Kernel, s) :
           /\ q.waitsem = [Kernel.waitsem EXCEPT ![w] = None]
           /\ \A x \in Blocked(Kernel, s) : Kernel.sched.prio[x] <= Kernel.sched.prio[w]
  BY <1>1, PostKeeps
<1>3. t \in Task /\ waitsem[t] = sem /\ sem # None
  BY <1>1, NoneIsNull DEF Blocked
<1>4. PICK w \in Blocked(Kernel, s) :
           /\ q.waitsem = [Kernel.waitsem EXCEPT ![w] = None]
           /\ \A x \in Blocked(Kernel, s) : Kernel.sched.prio[x] <= Kernel.sched.prio[w]
  BY <1>1, <1>2, <1>3
<1>5. w = t
  BY <1>1, <1>3, <1>4
<1>6. s = sem
  BY <1>1, <1>3, <1>5 DEF Blocked
<1>. QED  BY <1>1, <1>4, <1>5, <1>6

\* One step of the specification.
LEMMA NobodyOvertaken ==
  ASSUME SemInv, Deletable = {}, Next, NEW sem \in Sem,
         NEW t \in Waiters(sem), NEW u \in Waiters(sem), Overtaken(t, u, sem)
  PROVE  sched.prio[u] <= sched.prio[t]
<1>1. /\ t \in Blocked(Kernel, sem) /\ u \in Blocked(Kernel, sem)
      /\ t \in Task /\ u \in Task /\ waitsem[t] = sem /\ waitsem[u] = sem
      /\ sched.tstate[t] = "WAIT_SEM" /\ sem # None
  BY KernelParts, WaitersAreBlocked, NoneIsNull DEF Blocked
<1>2. KInv(Kernel, Victims) /\ Kernel \in KState /\ Cleared(Kernel)
      /\ Kernel.waitsem = waitsem /\ Kernel.sched = sched /\ Kernel.count = count
      /\ Kernel.errcode = errcode
  BY KernelParts DEF SemInv, KInv
<1>3. waitsem'[t] # waitsem[t]
  BY <1>1 DEF Overtaken
<1>4. ASSUME NEW s \in Sem, NEW place, NEW done, WaitFrom(s, place, done) PROVE FALSE
  <2>1. waitsem' = waitsem \/ waitsem' = [waitsem EXCEPT ![self] = s]
    BY <1>4 DEF WaitFrom
  <2>2. t # self
    BY <1>1, KernelParts
  <2>. QED  BY <1>1, <1>3, <2>1, <2>2, KernelParts
<1>5. ASSUME NEW s \in Sem, Post(s) PROVE sched.prio[u] <= sched.prio[t]
  <2>1. waitsem' = nxsem_post(Kernel, s).waitsem
    BY <1>5 DEF Post, Becomes
  <2>. QED  BY <1>1, <2>1, PostServesHighest DEF Overtaken
<1>6. ASSUME NEW s \in Sem, NEW n \in 0..SemMax, Reset(s, n)
      PROVE  sched.prio[u] <= sched.prio[t]
  <2>. DEFINE q == ResetCount(Kernel, s, n)
  <2>1. waitsem' = q.waitsem /\ count' = q.count
    BY <1>6 DEF Reset, Becomes
  <2>2. PICK served \in SUBSET Blocked(Kernel, s) : AfterReset(Kernel, q, s, n, served)
    BY <1>2, ResetKeeps
  <2>. HIDE DEF q
  <2>3. t \in served /\ s = sem
    <3>1. t \in served
      BY <1>1, <1>2, <1>3, <2>1, <2>2 DEF AfterReset
    <3>. QED  BY <1>1, <1>2, <2>2, <3>1 DEF Blocked
  <2>4. u \notin served
    BY <1>1, <2>1, <2>2 DEF Overtaken, AfterReset
  <2>5. q.count[s] = Kernel.count[s] + n /\ (n = 1 => q = nxsem_post(Kernel, s))
    BY <1>1, <2>2, <2>3, <2>4 DEF AfterReset
  <2>6. n = 1
    <3>1. count[s] \in Int /\ n \in Nat
      BY KernelParts, CountFloorNat, SemMaxPositive
    <3>. QED  BY <1>2, <2>1, <2>3, <2>5, <3>1 DEF Overtaken
  <2>. QED  BY <1>1, <2>1, <2>5, <2>6, PostServesHighest DEF Overtaken
<1>7. ASSUME NEW x \in Task, Signal(x) \/ Timeout(x) PROVE FALSE
  <2>1. PICK err \in {"EINTR", "ETIMEDOUT"} : Becomes(nxsem_wait_irq(Kernel, x, err))
    BY <1>7 DEF Signal, Timeout
  <2>. DEFINE q == nxsem_wait_irq(Kernel, x, err)
  <2>2. waitsem' = q.waitsem /\ errcode' = q.errcode
    BY <2>1 DEF Becomes
  <2>3. CASE sched.tstate[x] # "WAIT_SEM"
    <3>1. q = Kernel
      BY <1>2, <2>3 DEF nxsem_wait_irq
    <3>. QED  BY <1>2, <1>3, <2>2, <3>1
  <2>4. CASE sched.tstate[x] = "WAIT_SEM"
    <3>1. Kernel.sched.tstate[x] = "WAIT_SEM" /\ err \in Errcode
      BY <1>2, <2>4 DEF Errcode
    <3>2. q.errcode = [Kernel.errcode EXCEPT ![x] = err] /\ Left(Kernel, q, x)
      BY <1>2, <3>1, WaitIrqKeeps
    <3>. HIDE DEF q
    <3>3. x = t
      BY <1>1, <1>2, <1>3, <2>2, <3>2, KernelParts DEF Left
    <3>4. errcode'[t] = err /\ errcode[t] = "OK"
      BY <1>1, <1>2, <2>2, <3>2, <3>3, KernelParts DEF Cleared
    <3>. QED  BY <2>1, <3>4 DEF Overtaken
  <2>. QED  BY <2>3, <2>4
<1>8. ASSUME NEW x \in Task, Restart(x) PROVE FALSE
  <2>. DEFINE q == RestartState(Kernel, x)
  <2>1. /\ x \in Task \ {Idle} /\ x # ThisTask(Kernel.sched)
        /\ Kernel.sched.tstate[x] # "INVALID" /\ Becomes(q)
    BY <1>2, <1>8, RestartableAreTasks DEF Restart, self, RestartState
  <2>2. /\ q.sched.tstate[x] = "INACTIVE"
        /\ q.waitsem = Kernel.waitsem \/ Left(Kernel, q, x)
    BY <1>2, <2>1, KRestart
  <2>. HIDE DEF q
  <2>3. waitsem' = q.waitsem /\ sched' = q.sched
    BY <2>1 DEF Becomes
  <2>4. x = t
    BY <1>1, <1>2, <1>3, <2>2, <2>3, KernelParts DEF Left
  <2>. QED  BY <2>2, <2>3, <2>4 DEF Overtaken
<1>9. ~ExitHook /\ \A x \in Task : ~Terminate(x)
  BY KernelParts DEF ExitHook, Terminate, Running, SemInv, Deleting, CallTypes
<1>10. ASSUME NEW s \in Sem,
              TryWait(s) \/ TimedAtOnce(s) \/ Destroy(s) \/ Wait(s)
              \/ \E place \in {"timed", "tick"} : TimedWait(s, place)
       PROVE  FALSE
  BY <1>3, <1>4, <1>10 DEF TryWait, TimedAtOnce, Destroy, Wait, TimedWait
<1>11. ASSUME \/ WaitReturns \/ CreateDog \/ StoreDog \/ DeleteDog \/ ForgetDog
              \/ ResetLock \/ ResetUnlock
              \/ \E place \in {"timed", "tick"} : TimedReturns(place)
              \/ \E x \in Task : \/ Create(x) \/ Activate(x) \/ OtherUserCancels(x)
                                 \/ \E p \in Priority : SetPriorityOf(x, p)
       PROVE  FALSE
  BY <1>3, <1>11 DEF WaitReturns, CreateDog, StoreDog, DeleteDog, ForgetDog, ResetLock,
                    ResetUnlock, TimedReturns, OtherUserCancels, Create, Activate, SetPriorityOf
<1>. QED  BY <1>5, <1>6, <1>7, <1>8, <1>9, <1>10, <1>11 DEF Next

\* A unit goes to the waiter of the highest priority at the time of the post,
\* also when priorities changed while the tasks were waiting, and also when it
\* comes from nxsem_reset.
THEOREM HighestWaiterAlwaysFirst ==
  ASSUME Deletable = {}
  PROVE  Spec => HighestWaiterFirst
<1>1. SemInv /\ [Next]_vars =>
        [\A sem \in Sem : \A t, u \in Waiters(sem) :
           /\ waitsem'[t] = None /\ waitsem'[u] = sem
           /\ count'[sem] = count[sem] + 1 /\ errcode' = errcode
           /\ sched'.tstate[t] \in {"RUNNING", "READYTORUN", "PENDING"}
           => sched.prio[u] <= sched.prio[t]]_vars
  BY NobodyOvertaken DEF Overtaken
<1>. QED  BY <1>1, InvAlways, PTL DEF Spec, HighestWaiterFirst

(***************************************************************************)
(* The refinement of AbstractSem: one lemma per abstract step, on the two  *)
(* variables of the mapping, and then the steps of the specification.      *)
(***************************************************************************)
\* The variables of the mapping have their types before and after the step.
Mapped ==
  /\ count \in [Sem -> Int] /\ count' \in [Sem -> Int]
  /\ waitsem \in [Task -> Sem \cup {None}] /\ waitsem' \in [Task -> Sem \cup {None}]

\* The units nobody has taken are the same after the step.
SameUnits == \A s \in Sem : count'[s] = count[s] \/ (count'[s] <= 0 /\ count[s] <= 0)

\* A step that keeps the units and the waiters is no step of AbstractSem.
LEMMA NoAbstractStep ==
  ASSUME Mapped, SameUnits, waitsem' = waitsem
  PROVE  UNCHANGED Abstract!svars
<1>1. [s \in Sem |-> IF count[s] > 0 THEN count[s] ELSE 0]' =
        [s \in Sem |-> IF count[s] > 0 THEN count[s] ELSE 0]
  BY DEF Mapped, SameUnits
<1>2. [s \in Sem |-> Waiters(s)]' = [s \in Sem |-> Waiters(s)]
  BY DEF Waiters
<1>. QED  BY <1>1, <1>2 DEF Abstract!svars

\* A count above zero that goes down by one is a unit taken.
LEMMA AbstractTake ==
  ASSUME Mapped, NEW s \in Sem, count[s] > 0, waitsem' = waitsem,
         count'[s] = count[s] - 1, \A x \in Sem : x # s => count'[x] = count[x]
  PROVE  Abstract!Take(s)
<1>. DEFINE v == count[s] - 1
<1>0. v = (IF count'[s] > 0 THEN count'[s] ELSE 0) /\ [x \in Sem |-> IF count[x] > 0 THEN count[x] ELSE 0][s] - 1 = v
  BY DEF Mapped
<1>. HIDE DEF v
<1>1. [x \in Sem |-> IF count[x] > 0 THEN count[x] ELSE 0]' =
        [[x \in Sem |-> IF count[x] > 0 THEN count[x] ELSE 0] EXCEPT ![s] = @ - 1]
  BY <1>0 DEF Mapped
<1>2. [x \in Sem |-> Waiters(x)]' = [x \in Sem |-> Waiters(x)]
  BY DEF Waiters
<1>. QED  BY <1>1, <1>2 DEF Abstract!Take

\* A task that starts to wait finds no unit, and waits for nothing else.
LEMMA AbstractJoin ==
  ASSUME Mapped, SameUnits, NEW s \in Sem, NEW t \in Task, count[s] <= 0,
         waitsem[t] = None, waitsem' = [waitsem EXCEPT ![t] = s]
  PROVE  Abstract!Join(s, t)
<1>1. [x \in Sem |-> IF count[x] > 0 THEN count[x] ELSE 0]' =
        [x \in Sem |-> IF count[x] > 0 THEN count[x] ELSE 0]
  BY DEF Mapped, SameUnits
<1>2. ASSUME NEW x \in Sem
      PROVE  Waiters(x)' = IF x = s THEN Waiters(x) \cup {t} ELSE Waiters(x)
  BY NoneIsNull DEF Waiters, Mapped
<1>3. [x \in Sem |-> Waiters(x)]' = [[x \in Sem |-> Waiters(x)] EXCEPT ![s] = @ \cup {t}]
  BY <1>2
<1>4. \A r \in Sem : t \notin Waiters(r)
  BY NoneIsNull DEF Waiters
<1>. QED  BY <1>1, <1>3, <1>4 DEF Abstract!Join, Mapped

\* A waiter that is no longer one, and no unit more or less: it was given a
\* unit at once, or it gave up.
LEMMA AbstractLeave ==
  ASSUME Mapped, SameUnits, NEW s \in Sem, NEW t \in Task, waitsem[t] = s,
         waitsem' = [waitsem EXCEPT ![t] = None]
  PROVE  Abstract!Leave(s, t)
<1>1. [x \in Sem |-> IF count[x] > 0 THEN count[x] ELSE 0]' =
        [x \in Sem |-> IF count[x] > 0 THEN count[x] ELSE 0]
  BY DEF Mapped, SameUnits
<1>2. ASSUME NEW x \in Sem
      PROVE  Waiters(x)' = IF x = s THEN Waiters(x) \ {t} ELSE Waiters(x)
  BY NoneIsNull DEF Waiters, Mapped
<1>3. [x \in Sem |-> Waiters(x)]' = [[x \in Sem |-> Waiters(x)] EXCEPT ![s] = @ \ {t}]
  BY <1>2
<1>4. t \in Waiters(s)
  BY DEF Waiters
<1>. QED  BY <1>1, <1>3, <1>4 DEF Abstract!Leave

\* A unit given where nobody waits is kept.
LEMMA AbstractKeep ==
  ASSUME Mapped, NEW s \in Sem, Waiters(s) = {}, count[s] \in 0..(SemMax - 1),
         waitsem' = waitsem, count'[s] = count[s] + 1, \A x \in Sem : x # s => count'[x] = count[x]
  PROVE  Abstract!Give(s)
<1>. DEFINE v == count[s] + 1
<1>0. v = (IF count'[s] > 0 THEN count'[s] ELSE 0) /\ [x \in Sem |-> IF count[x] > 0 THEN count[x] ELSE 0][s] + 1 = v
  BY SemMaxPositive DEF Mapped
<1>. HIDE DEF v
<1>1. [x \in Sem |-> IF count[x] > 0 THEN count[x] ELSE 0]' =
        [[x \in Sem |-> IF count[x] > 0 THEN count[x] ELSE 0] EXCEPT ![s] = @ + 1]
  BY <1>0 DEF Mapped
<1>2. [x \in Sem |-> Waiters(x)]' = [x \in Sem |-> Waiters(x)]
  BY DEF Waiters
<1>. QED  BY <1>1, <1>2, SemMaxPositive DEF Abstract!Give

\* A semaphore without waiters is destroyed.
LEMMA AbstractDestroy ==
  ASSUME Mapped, NEW s \in Sem, Waiters(s) = {}, waitsem' = waitsem,
         count'[s] = 1, \A x \in Sem : x # s => count'[x] = count[x]
  PROVE  Abstract!Destroy(s)
<1>1. [x \in Sem |-> IF count[x] > 0 THEN count[x] ELSE 0]' =
        [[x \in Sem |-> IF count[x] > 0 THEN count[x] ELSE 0] EXCEPT ![s] = 1]
  <2>1. 1 = IF count'[s] > 0 THEN count'[s] ELSE 0
    OBVIOUS
  <2>. QED  BY <2>1 DEF Mapped
<1>2. [x \in Sem |-> Waiters(x)]' = [x \in Sem |-> Waiters(x)]
  BY DEF Waiters
<1>. QED  BY <1>1, <1>2 DEF Abstract!Destroy

\* Some of the waiters are served, or all and the rest of the units is kept.
LEMMA AbstractReset ==
  ASSUME Mapped, NEW s \in Sem, NEW n \in 0..SemMax, IsFiniteSet(Waiters(s)),
         NEW served \in SUBSET Waiters(s),
         waitsem' = [x \in Task |-> IF x \in served THEN None ELSE waitsem[x]],
         \A x \in Sem : x # s => count'[x] = count[x],
         \/ Cardinality(served) = n /\ count'[s] <= 0
         \/ /\ served = Waiters(s) /\ Cardinality(served) <= n
            /\ count'[s] = n - Cardinality(served)
  PROVE  Abstract!Reset(s, n)
<1>. DEFINE c == Cardinality(served)
<1>1. c \in Nat /\ Cardinality(Waiters(s)) \in Nat /\ n \in Nat
  BY FS_Subset, FS_CardinalityType, SemMaxPositive
<1>2. Cardinality(Waiters(s)) <= n => served = Waiters(s)
  BY <1>1, FS_Subset
<1>3. ~(Cardinality(Waiters(s)) <= n) => c = n
  BY <1>1
<1>. HIDE DEF c
<1>4. n - c = IF count'[s] > 0 THEN count'[s] ELSE 0
  BY <1>1 DEF c, Mapped
<1>5. [x \in Sem |-> IF count[x] > 0 THEN count[x] ELSE 0]' =
        [[x \in Sem |-> IF count[x] > 0 THEN count[x] ELSE 0] EXCEPT ![s] = n - c]
  BY <1>4 DEF Mapped
<1>6. ASSUME NEW x \in Sem
      PROVE  Waiters(x)' = IF x = s THEN Waiters(x) \ served ELSE Waiters(x)
  BY NoneIsNull DEF Waiters, Mapped
<1>7. [x \in Sem |-> Waiters(x)]' = [[x \in Sem |-> Waiters(x)] EXCEPT ![s] = @ \ served]
  BY <1>6
<1>8. served \in SUBSET [x \in Sem |-> Waiters(x)][s] /\ [x \in Sem |-> Waiters(x)][s] = Waiters(s)
  OBVIOUS
<1>9. IF Cardinality([x \in Sem |-> Waiters(x)][s]) <= n
      THEN served = [x \in Sem |-> Waiters(x)][s] ELSE Cardinality(served) = n
  BY <1>2, <1>3, <1>8 DEF c
<1>10. \A S : Abstract!Cardinality(S) = Cardinality(S)
  BY DEF Abstract!Cardinality, Cardinality
<1>. QED  BY <1>5, <1>7, <1>8, <1>9, <1>10 DEF Abstract!Reset, c

\* Every step of AbstractSem, by name.
LEMMA AbstractNext ==
  ASSUME NEW s \in Sem,
         \/ Abstract!Take(s) \/ Abstract!Give(s) \/ Abstract!Destroy(s)
         \/ \E n \in 0..SemMax : Abstract!Reset(s, n)
         \/ \E t \in Task : Abstract!Join(s, t) \/ Abstract!Leave(s, t)
  PROVE  Abstract!SemNext
BY DEF Abstract!SemNext

\* What the invariant says of the mapping: nobody waits where there are units,
\* and where the count is negative somebody does.
LEMMA MappingParts ==
  ASSUME SemInv, Deletable = {}, [Next]_vars
  PROVE  /\ Mapped
         /\ \A s \in Sem : /\ Waiters(s) = Blocked(Kernel, s) /\ IsFiniteSet(Waiters(s))
                           /\ Waiters(s) = {} <=> count[s] >= 0
<1>1. Mapped
  <2>1. Kernel' \in KState
    BY NextKernel DEF KInv
  <2>2. count' \in [Sem -> (-CountFloor)..SemMax] /\ waitsem' \in [Task -> Sem \cup {None}]
    BY <2>1 DEF KState, Kernel
  <2>3. (-CountFloor)..SemMax \subseteq Int
    BY CountFloorNat, SemMaxPositive
  <2>. QED  BY <2>2, <2>3, KernelParts DEF Mapped
<1>2. \A s \in Sem : Waiters(s) = Blocked(Kernel, s) /\ IsFiniteSet(Waiters(s))
  <2>1. \A s \in Sem : Waiters(s) \subseteq Task
    BY DEF Waiters
  <2>. QED  BY <2>1, WaitersAreBlocked, TasksFinite, FS_Subset
<1>3. ASSUME NEW s \in Sem PROVE Waiters(s) = {} <=> count[s] >= 0
  <2>. DEFINE n == Cardinality(Blocked(Kernel, s))
  <2>1. n \in Nat /\ (n = 0 <=> Waiters(s) = {})
    BY <1>2, FS_CardinalityType, FS_EmptySet
  <2>2. (n > 0 => count[s] <= -n) /\ (count[s] < 0 => count[s] = -n)
    BY KernelParts DEF SemInv, KInv, Counted
  <2>3. count[s] \in Int
    BY <1>1 DEF Mapped
  <2>. HIDE DEF n
  <2>. QED  BY <2>1, <2>2, <2>3
<1>. QED  BY <1>1, <1>2, <1>3

\* nxsem_wait takes a unit, or joins the waiters.
LEMMA WaitFromRefines ==
  ASSUME SemInv, Deletable = {}, Next, NEW s \in Sem, NEW place, NEW done,
         WaitFrom(s, place, done)
  PROVE  Abstract!SemNext
<1>1. Mapped /\ self \in Task /\ sched.tstate[self] = "RUNNING"
  BY MappingParts, KernelParts
<1>2. count[s] \in Int /\ count' = [count EXCEPT ![s] = count[s] - 1]
  BY <1>1 DEF WaitFrom, Mapped
<1>3. count'[s] = count[s] - 1 /\ \A x \in Sem : x # s => count'[x] = count[x]
  BY <1>1, <1>2 DEF Mapped
<1>4. CASE count[s] > 0
  <2>1. waitsem' = waitsem
    BY <1>4 DEF WaitFrom
  <2>. QED  BY <1>1, <1>3, <1>4, <2>1, AbstractTake, AbstractNext
<1>5. CASE count[s] <= 0
  <2>1. waitsem' = [waitsem EXCEPT ![self] = s]
    BY <1>2, <1>5 DEF WaitFrom
  <2>2. SameUnits
    BY <1>2, <1>3, <1>5 DEF SameUnits
  <2>3. waitsem[self] = None
    <3>1. Waiters(waitsem[self]) = Blocked(Kernel, waitsem[self]) \/ waitsem[self] = None
      BY <1>1, MappingParts DEF Mapped
    <3>2. waitsem[self] \in Sem => self \in Waiters(waitsem[self])
      BY <1>1 DEF Waiters
    <3>. QED  BY <1>1, <3>1, <3>2, KernelParts DEF Blocked, Mapped
  <2>. QED  BY <1>1, <1>5, <2>1, <2>2, <2>3, AbstractJoin, AbstractNext
<1>. QED  BY <1>2, <1>4, <1>5

\* nxsem_post keeps the unit, or hands it to a waiter.
LEMMA PostRefines ==
  ASSUME SemInv, Deletable = {}, Next, NEW s \in Sem, Post(s)
  PROVE  Abstract!SemNext \/ UNCHANGED Abstract!svars
<1>. DEFINE q == nxsem_post(Kernel, s)
<1>1. waitsem' = q.waitsem /\ count' = q.count
  BY DEF Post, Becomes
<1>2. KInv(Kernel, Victims) /\ Kernel.waitsem = waitsem /\ Kernel.count = count
  BY KernelParts DEF SemInv
<1>3. \/ q = Kernel
      \/ /\ Blocked(Kernel, s) = {} /\ Kernel.count[s] < SemMax
         /\ q.count = [Kernel.count EXCEPT ![s] = Kernel.count[s] + 1]
         /\ q.waitsem = Kernel.waitsem
      \/ /\ Kernel.count[s] < 0
         /\ q.count = [Kernel.count EXCEPT ![s] = Kernel.count[s] + 1]
         /\ \E t \in Blocked(Kernel, s) : q.waitsem = [Kernel.waitsem EXCEPT ![t] = None]
  BY <1>2, PostKeeps
<1>4. Mapped /\ count[s] \in Int
  BY MappingParts DEF Mapped
<1>. HIDE DEF q
<1>5. CASE q = Kernel
  BY <1>1, <1>2, <1>4, <1>5, NoAbstractStep DEF SameUnits
<1>6. CASE /\ Blocked(Kernel, s) = {} /\ Kernel.count[s] < SemMax
           /\ q.count = [Kernel.count EXCEPT ![s] = Kernel.count[s] + 1]
           /\ q.waitsem = Kernel.waitsem
  <2>1. count'[s] = count[s] + 1 /\ \A x \in Sem : x # s => count'[x] = count[x]
    BY <1>1, <1>2, <1>4, <1>6 DEF Mapped
  <2>2. Waiters(s) = {} /\ count[s] >= 0
    BY <1>6, MappingParts
  <2>3. count[s] \in 0..(SemMax - 1)
    BY <1>2, <1>4, <1>6, <2>2, SemMaxPositive
  <2>. QED  BY <1>1, <1>2, <1>4, <1>6, <2>1, <2>2, <2>3, AbstractKeep, AbstractNext
<1>7. ASSUME Kernel.count[s] < 0, q.count = [Kernel.count EXCEPT ![s] = Kernel.count[s] + 1],
             NEW t \in Blocked(Kernel, s), q.waitsem = [Kernel.waitsem EXCEPT ![t] = None]
      PROVE  Abstract!SemNext
  <2>1. count'[s] = count[s] + 1 /\ \A x \in Sem : x # s => count'[x] = count[x]
    BY <1>1, <1>2, <1>4, <1>7 DEF Mapped
  <2>2. SameUnits
    BY <1>2, <1>4, <1>7, <2>1 DEF SameUnits
  <2>3. t \in Task /\ waitsem[t] = s /\ waitsem' = [waitsem EXCEPT ![t] = None]
    BY <1>1, <1>2, <1>7 DEF Blocked
  <2>. QED  BY <1>4, <2>2, <2>3, AbstractLeave, AbstractNext
<1>. QED  BY <1>3, <1>5, <1>6, <1>7

\* A wait that ends without a unit leaves the waiters.
LEMMA LeftRefines ==
  ASSUME SemInv, Deletable = {}, Next, NEW t \in Task, NEW q, Becomes(q), Left(Kernel, q, t)
  PROVE  Abstract!SemNext
<1>1. /\ waitsem' = [waitsem EXCEPT ![t] = None] /\ waitsem[t] \in Sem /\ count[waitsem[t]] < 0
      /\ count' = [count EXCEPT ![waitsem[t]] = count[waitsem[t]] + 1]
  BY KernelParts DEF Becomes, Left
<1>2. Mapped
  BY MappingParts
<1>3. SameUnits
  BY <1>1, <1>2 DEF SameUnits, Mapped
<1>. QED  BY <1>1, <1>2, <1>3, AbstractLeave, AbstractNext

\* A signal or a timeout; the timeout of a task that no longer waits is nothing.
LEMMA WaitIrqRefines ==
  ASSUME SemInv, Deletable = {}, Next, NEW t \in Task, NEW err \in Errcode,
         Becomes(nxsem_wait_irq(Kernel, t, err))
  PROVE  Abstract!SemNext \/ UNCHANGED Abstract!svars
<1>1. KInv(Kernel, Victims) /\ Kernel.waitsem = waitsem /\ Kernel.count = count
  BY KernelParts DEF SemInv
<1>2. CASE Kernel.sched.tstate[t] # "WAIT_SEM"
  <2>1. nxsem_wait_irq(Kernel, t, err) = Kernel
    BY <1>2 DEF nxsem_wait_irq
  <2>. QED  BY <1>1, <2>1, MappingParts, NoAbstractStep DEF Becomes, SameUnits
<1>3. CASE Kernel.sched.tstate[t] = "WAIT_SEM"
  <2>. DEFINE q == nxsem_wait_irq(Kernel, t, err)
  <2>1. Left(Kernel, q, t) /\ Becomes(q)
    BY <1>1, <1>3, WaitIrqKeeps
  <2>. HIDE DEF q
  <2>. QED  BY <2>1, LeftRefines
<1>. QED  BY <1>2, <1>3

\* task_restart of a task that waits, or of one that does not.
LEMMA RestartRefines ==
  ASSUME SemInv, Deletable = {}, Next, NEW t \in Task, Restart(t)
  PROVE  Abstract!SemNext \/ UNCHANGED Abstract!svars
<1>. DEFINE q == RestartState(Kernel, t)
<1>1. KInv(Kernel, Victims) /\ Kernel.waitsem = waitsem /\ Kernel.count = count
      /\ Kernel.sched = sched
  BY KernelParts DEF SemInv
<1>2. /\ t \in Task \ {Idle} /\ t # ThisTask(Kernel.sched)
      /\ Kernel.sched.tstate[t] # "INVALID" /\ Becomes(q)
  BY <1>1, RestartableAreTasks DEF Restart, self, RestartState
<1>3. (q.count = Kernel.count /\ q.waitsem = Kernel.waitsem) \/ Left(Kernel, q, t)
  BY <1>1, <1>2, KRestart
<1>. HIDE DEF q
<1>4. CASE q.count = Kernel.count /\ q.waitsem = Kernel.waitsem
  BY <1>1, <1>2, <1>4, MappingParts, NoAbstractStep DEF Becomes, SameUnits
<1>5. CASE Left(Kernel, q, t)
  BY <1>2, <1>5, LeftRefines
<1>. QED  BY <1>3, <1>4, <1>5

\* nxsem_reset serves as many waiters as it has units, and keeps the rest.
LEMMA ResetRefines ==
  ASSUME SemInv, Deletable = {}, Next, NEW s \in Sem, NEW n \in 0..SemMax, Reset(s, n)
  PROVE  Abstract!SemNext
<1>. DEFINE q == ResetCount(Kernel, s, n)
<1>1. KInv(Kernel, Victims) /\ Kernel.waitsem = waitsem /\ Kernel.count = count
  BY KernelParts DEF SemInv
<1>2. waitsem' = q.waitsem /\ count' = q.count
  BY DEF Reset, Becomes
<1>3. PICK served \in SUBSET Blocked(Kernel, s) : AfterReset(Kernel, q, s, n, served)
  BY <1>1, ResetKeeps
<1>. HIDE DEF q
<1>4. Mapped /\ Waiters(s) = Blocked(Kernel, s) /\ IsFiniteSet(Waiters(s))
      /\ count'[s] \in Int
  BY MappingParts DEF Mapped
<1>5. count'[s] < 0 => count'[s] <= 0
  BY <1>4
<1>6. Abstract!Reset(s, n)
  BY <1>1, <1>2, <1>3, <1>4, <1>5, AbstractReset DEF AfterReset
<1>. QED  BY <1>6, AbstractNext

\* Every step of the specification is a step of AbstractSem, or none.
LEMMA StepRefines ==
  ASSUME SemInv, Deletable = {}, [Next]_vars
  PROVE  Abstract!SemNext \/ UNCHANGED Abstract!svars
<1>1. Mapped
  BY MappingParts
<1>2. ASSUME UNCHANGED <<count, waitsem>> PROVE UNCHANGED Abstract!svars
  BY <1>1, <1>2, NoAbstractStep DEF SameUnits
<1>3. CASE UNCHANGED vars
  BY <1>2, <1>3 DEF vars
<1>4. ASSUME Next, NEW s \in Sem,
             \/ Wait(s) \/ Post(s) \/ \E place \in {"timed", "tick"} : TimedWait(s, place)
             \/ \E n \in 0..SemMax : Reset(s, n)
      PROVE  Abstract!SemNext \/ UNCHANGED Abstract!svars
  BY <1>4, WaitFromRefines, PostRefines, ResetRefines DEF Wait, TimedWait
<1>5. ASSUME NEW s \in Sem, count[s] > 0, count' = [count EXCEPT ![s] = count[s] - 1],
             waitsem' = waitsem
      PROVE  Abstract!SemNext
  <2>1. count'[s] = count[s] - 1 /\ \A x \in Sem : x # s => count'[x] = count[x]
    BY <1>1, <1>5 DEF Mapped
  <2>. QED  BY <1>1, <1>5, <2>1, AbstractTake, AbstractNext
<1>6. ASSUME NEW s \in Sem, TryWait(s) \/ TimedAtOnce(s)
      PROVE  Abstract!SemNext \/ UNCHANGED Abstract!svars
  <2>1. CASE count[s] > 0
    <3>1. count' = [count EXCEPT ![s] = count[s] - 1] /\ waitsem' = waitsem
      BY <1>6, <2>1 DEF TryWait, TimedAtOnce
    <3>. QED  BY <1>5, <2>1, <3>1
  <2>2. CASE ~(count[s] > 0)
    <3>1. count' = [count EXCEPT ![s] = count[s]] /\ waitsem' = waitsem
      BY <1>6, <2>2 DEF TryWait, TimedAtOnce
    <3>2. count' = count
      BY <1>1, <3>1 DEF Mapped
    <3>. QED  BY <1>2, <3>1, <3>2
  <2>. QED  BY <2>1, <2>2
<1>7. ASSUME NEW s \in Sem, Destroy(s)
      PROVE  Abstract!SemNext \/ UNCHANGED Abstract!svars
  <2>1. CASE count[s] >= 0
    <3>1. count' = [count EXCEPT ![s] = 1] /\ waitsem' = waitsem
      BY <1>7, <2>1 DEF Destroy
    <3>2. count'[s] = 1 /\ \A x \in Sem : x # s => count'[x] = count[x]
      BY <1>1, <3>1 DEF Mapped
    <3>3. Waiters(s) = {}
      BY <2>1, MappingParts
    <3>. QED  BY <1>1, <3>1, <3>2, <3>3, AbstractDestroy, AbstractNext
  <2>2. CASE ~(count[s] >= 0)
    <3>1. count' = [count EXCEPT ![s] = count[s]] /\ waitsem' = waitsem
      BY <1>7, <2>2 DEF Destroy
    <3>2. count' = count
      BY <1>1, <3>1 DEF Mapped
    <3>. QED  BY <1>2, <3>1, <3>2
  <2>. QED  BY <2>1, <2>2
<1>8. ASSUME Next, NEW t \in Task, Signal(t) \/ Timeout(t) \/ Restart(t)
      PROVE  Abstract!SemNext \/ UNCHANGED Abstract!svars
  <2>1. CASE Signal(t)
    BY <1>8, <2>1, WaitIrqRefines DEF Signal, Errcode
  <2>2. CASE Timeout(t)
    BY <1>8, <2>2, WaitIrqRefines DEF Timeout, Errcode
  <2>. QED  BY <1>8, <2>1, <2>2, RestartRefines
<1>9. ~ExitHook /\ \A t \in Task : ~Terminate(t)
  BY KernelParts DEF ExitHook, Terminate, Running, SemInv, Deleting, CallTypes
<1>10. ASSUME \/ WaitReturns \/ CreateDog \/ StoreDog \/ DeleteDog \/ ForgetDog
              \/ ResetLock \/ ResetUnlock
              \/ \E place \in {"timed", "tick"} : TimedReturns(place)
              \/ \E t \in Task : \/ Create(t) \/ Activate(t) \/ OtherUserCancels(t)
                                 \/ \E p \in Priority : SetPriorityOf(t, p)
       PROVE  UNCHANGED Abstract!svars
  BY <1>2, <1>10 DEF WaitReturns, CreateDog, StoreDog, DeleteDog, ForgetDog, ResetLock,
                    ResetUnlock, TimedReturns, OtherUserCancels, Create, Activate, SetPriorityOf
<1>. QED  BY <1>3, <1>4, <1>6, <1>7, <1>8, <1>9, <1>10 DEF Next

\* If no task is deleted during a wait, the semaphores are the ones AbstractSem
\* describes: units are taken, handed over, given up and reset as it allows,
\* whatever lists, watchdogs and context switches do behind them.
THEOREM SemaphoreRefinesAbstract ==
  ASSUME Deletable = {}
  PROVE  Spec => ImplementsAbstractSem
<1>1. Init => Abstract!SemInit
  <2>1. Init => [s \in Sem |-> IF count[s] > 0 THEN count[s] ELSE 0] = [s \in Sem |-> 0]
    BY DEF Init
  <2>2. Init => [s \in Sem |-> Waiters(s)] = [s \in Sem |-> {}]
    BY NoneIsNull DEF Init, Waiters
  <2>. QED  BY <2>1, <2>2 DEF Abstract!SemInit
<1>2. SemInv /\ [Next]_vars => [Abstract!SemNext]_(Abstract!svars)
  BY StepRefines
<1>. QED  BY <1>1, <1>2, InvAlways, PTL DEF Spec, ImplementsAbstractSem, Abstract!SemSpec
=============================================================================
