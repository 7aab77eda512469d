---------------------------- MODULE PthreadMutex ----------------------------
(***************************************************************************)
(* Robust mutexes (sched/pthread/pthread_mutex*.c, built with              *)
(* CONFIG_PTHREAD_MUTEX_ROBUST and without mutex types) on a kernel        *)
(* semaphore: threads lock, try, unlock and repair mutexes, exit while     *)
(* they hold one, and get signals while they wait; a timeout of            *)
(* pthread_mutex_timedlock ends a wait like a signal, with another errno.  *)
(* pthread_cancel is not modelled.                                         *)
(*                                                                         *)
(* Every function runs under sched_lock, so that it is one step up to the  *)
(* point where it blocks; a thread that was woken finishes its call in one *)
(* step too, but other threads may run before it does.  Which waiter of    *)
(* the semaphore is woken is left open.                                    *)
(***************************************************************************)
EXTENDS Integers, FiniteSets

CONSTANTS
  Thread,  \* the pthreads; their ids are not reused
  Mutex,
  Mortal,  \* the threads that may call pthread_exit
  None     \* no thread (mutex->pid is -1), no mutex

ASSUME ThreadFinite == IsFiniteSet(Thread)
ASSUME MortalAreThreads == Mortal \subseteq Thread
ASSUME NoneIsNobody == None \notin Thread \cup Mutex

VARIABLES
  semcount,     \* mutex->sem.semcount
  waiting,      \* who is blocked on the semaphore
  pid,          \* mutex->pid
  inconsistent, \* _PTHREAD_MFLAGS_INCONSISTENT
  mhead,        \* the mutexes on the list of a thread
  call,         \* the mutex whose lock call a thread has not returned from
  intr,         \* a signal ended the wait of that call
  ret,          \* what the last call of a thread returned
  state,        \* of a thread: live, exiting, gone (no TCB)
  owns,         \* auxiliary: the locks a thread was granted and has not returned
  dirty,        \* auxiliary: an owner died, and no thread repaired its data
  spoiled       \* auxiliary: a repair met a thread that was about to own

semvars == <<semcount, waiting>>
vars == <<semcount, waiting, pid, inconsistent, mhead, call, intr, ret, state, owns, dirty,
          spoiled>>

Init ==
  /\ semcount = [m \in Mutex |-> 1] /\ waiting = [m \in Mutex |-> {}]
  /\ pid = [m \in Mutex |-> None] /\ inconsistent = [m \in Mutex |-> FALSE]
  /\ mhead = [t \in Thread |-> {}] /\ call = [t \in Thread |-> None]
  /\ intr = [t \in Thread |-> FALSE] /\ ret = [t \in Thread |-> "none"]
  /\ state = [t \in Thread |-> "live"] /\ owns = [t \in Thread |-> {}]
  /\ dirty = [m \in Mutex |-> FALSE] /\ spoiled = [m \in Mutex |-> FALSE]

Idle(t) == state[t] = "live" /\ call[t] = None

\* nxsched_get_tcb(mutex->pid) == NULL for a mutex that has an owner
OwnerGone(m) == pid[m] # None /\ state[pid[m]] = "gone"

Returns(t, code) == ret' = [ret EXCEPT ![t] = code]

(***************************************************************************)
(* The semaphore of a mutex.                                               *)
(***************************************************************************)
\* pthread_sem_give (nxsem_post)
SemGive(m) ==
  /\ semcount' = [semcount EXCEPT ![m] = @ + 1]
  /\ \/ semcount[m] < 0 /\ \E w \in waiting[m] : waiting' = [waiting EXCEPT ![m] = @ \ {w}]
     \/ (semcount[m] >= 0 \/ waiting[m] = {}) /\ UNCHANGED waiting

\* nxsem_reset(&mutex->sem, 1)
SemResetToOne(m) ==
  IF semcount[m] < 0 THEN SemGive(m)
  ELSE semcount' = [semcount EXCEPT ![m] = 1] /\ UNCHANGED waiting

(***************************************************************************)
(* Locking.                                                                *)
(***************************************************************************)
\* pthread_mutex_add, and the new owner
Acquire(t, m) ==
  /\ mhead' = [mhead EXCEPT ![t] = @ \cup {m}]
  /\ pid' = [pid EXCEPT ![m] = t]
  /\ owns' = [owns EXCEPT ![t] = @ \cup {m}]
  /\ Returns(t, "OK")

OwnerDead(t, m) ==
  /\ inconsistent' = [inconsistent EXCEPT ![m] = TRUE]
  /\ Returns(t, "EOWNERDEAD")
  /\ UNCHANGED <<mhead, pid, owns>>

\* pthread_mutex_lock up to its return or to the wait.  (A thread that locks
\* its own mutex again blocks for good, as documented: left out.)
Lock(t, m) ==
  /\ Idle(t) /\ m \notin owns[t]
  /\ \/ /\ OwnerGone(m) \/ inconsistent[m]
        /\ OwnerDead(t, m)
        /\ UNCHANGED <<semvars, call>>
     \/ /\ ~OwnerGone(m) /\ ~inconsistent[m]
        /\ semcount' = [semcount EXCEPT ![m] = @ - 1]
        /\ \/ /\ semcount[m] > 0
              /\ Acquire(t, m)
              /\ UNCHANGED <<waiting, call, inconsistent>>
           \/ /\ semcount[m] <= 0
              /\ waiting' = [waiting EXCEPT ![m] = @ \cup {t}]
              /\ call' = [call EXCEPT ![t] = m]
              /\ UNCHANGED <<pid, inconsistent, mhead, ret, owns>>
  /\ UNCHANGED <<intr, state, dirty, spoiled>>

\* The rest of the call, after nxsem_wait returned.  A thread that learns here
\* that the owner died does not give the semaphore back.
LockReturns(t) ==
  LET m == call[t]
  IN  /\ state[t] = "live" /\ m # None /\ t \notin waiting[m]
      /\ \/ /\ intr[t] /\ Returns(t, "EINTR")
            /\ UNCHANGED <<pid, inconsistent, mhead, owns>>
         \/ /\ ~intr[t] /\ inconsistent[m] /\ OwnerDead(t, m)
         \/ /\ ~intr[t] /\ ~inconsistent[m] /\ Acquire(t, m)
            /\ UNCHANGED inconsistent
      /\ call' = [call EXCEPT ![t] = None]
      /\ intr' = [intr EXCEPT ![t] = FALSE]
      /\ UNCHANGED <<semvars, state, dirty, spoiled>>

TryLock(t, m) ==
  /\ Idle(t) /\ m \notin owns[t]
  /\ \/ /\ inconsistent[m] \/ (semcount[m] <= 0 /\ OwnerGone(m))
        /\ OwnerDead(t, m)
        /\ UNCHANGED semcount
     \/ /\ ~inconsistent[m] /\ semcount[m] > 0
        /\ semcount' = [semcount EXCEPT ![m] = @ - 1]
        /\ Acquire(t, m)
        /\ UNCHANGED inconsistent
     \/ /\ ~inconsistent[m] /\ semcount[m] <= 0 /\ ~OwnerGone(m)
        /\ Returns(t, "EBUSY")
        /\ UNCHANGED <<semcount, mhead, pid, owns, inconsistent>>
  /\ UNCHANGED <<waiting, call, intr, state, dirty, spoiled>>

\* Seeded fault: any thread can unlock a locked mutex.
UnlockByAnybody(t, m) ==
  /\ Idle(t) /\ semcount[m] < 1
  /\ owns' = [owns EXCEPT ![t] = @ \ {m}]
  /\ pid' = [pid EXCEPT ![m] = None]
  /\ mhead' = [mhead EXCEPT ![t] = @ \ {m}]
  /\ SemGive(m)
  /\ Returns(t, "OK")
  /\ UNCHANGED <<inconsistent, call, intr, state, dirty, spoiled>>

\* Anybody may call it, owner or not: callers ignore what a lock returned.
Unlock(t, m) ==
  /\ Idle(t)
  /\ owns' = [owns EXCEPT ![t] = @ \ {m}]
  /\ \/ /\ semcount[m] < 1 /\ pid[m] = t
        /\ pid' = [pid EXCEPT ![m] = None]
        /\ mhead' = [mhead EXCEPT ![t] = @ \ {m}]
        /\ SemGive(m)
        /\ Returns(t, "OK")
     \/ /\ semcount[m] >= 1 \/ pid[m] # t
        /\ Returns(t, "EPERM")
        /\ UNCHANGED <<semvars, pid, mhead>>
  /\ UNCHANGED <<inconsistent, call, intr, state, dirty, spoiled>>

\* w was handed the unit of m and has not looked at the flag yet
Handed(w, m) == call[w] = m /\ w \notin waiting[m] /\ ~intr[w]

\* pthread_mutex_consistent, by a thread that was told EOWNERDEAD
Consistent(t, m) ==
  /\ Idle(t) /\ ret[t] = "EOWNERDEAD"
  /\ \/ /\ OwnerGone(m)
        /\ pid' = [pid EXCEPT ![m] = None]
        /\ SemResetToOne(m)
        /\ Returns(t, "repaired")
     \/ /\ pid[m] = None
        /\ Returns(t, "repaired")
        /\ UNCHANGED <<semvars, pid>>
     \/ /\ pid[m] # None /\ ~OwnerGone(m)
        /\ Returns(t, "EINVAL")
        /\ UNCHANGED <<semvars, pid>>
  /\ inconsistent' = [inconsistent EXCEPT ![m] = @ /\ ret'[t] = "EINVAL"]
  /\ dirty' = [dirty EXCEPT ![m] = @ /\ ret'[t] = "EINVAL"]
  /\ spoiled' = [spoiled EXCEPT ![m] = @ \/ (OwnerGone(m) /\ \E w \in Thread : Handed(w, m))]
  /\ UNCHANGED <<mhead, call, intr, state, owns>>

(***************************************************************************)
(* Signals and exit.                                                       *)
(***************************************************************************)
\* Seeded fault: the interrupted waiter keeps the count it took.
SignalKeepsCount(t, m) ==
  /\ t \in waiting[m]
  /\ waiting' = [waiting EXCEPT ![m] = @ \ {t}]
  /\ intr' = [intr EXCEPT ![t] = TRUE]
  /\ UNCHANGED <<semcount, pid, inconsistent, mhead, call, ret, state, owns, dirty, spoiled>>

\* nxsem_wait_irq(stcb, EINTR)
Signal(t, m) ==
  /\ t \in waiting[m]
  /\ semcount' = [semcount EXCEPT ![m] = @ + 1]
  /\ waiting' = [waiting EXCEPT ![m] = @ \ {t}]
  /\ intr' = [intr EXCEPT ![t] = TRUE]
  /\ UNCHANGED <<pid, inconsistent, mhead, call, ret, state, owns, dirty, spoiled>>

Exit(t) ==
  /\ t \in Mortal /\ Idle(t)
  /\ state' = [state EXCEPT ![t] = "exiting"]
  /\ UNCHANGED <<semvars, pid, inconsistent, mhead, call, intr, ret, owns, dirty, spoiled>>

\* One round of pthread_mutex_inconsistent.  (Its rounds are one step of the
\* code; with one mutex there is only one.)
MarkInconsistent(t, m) ==
  /\ state[t] = "exiting" /\ m \in mhead[t]
  /\ mhead' = [mhead EXCEPT ![t] = @ \ {m}]
  /\ inconsistent' = [inconsistent EXCEPT ![m] = TRUE]
  /\ SemGive(m)
  /\ dirty' = [dirty EXCEPT ![m] = @ \/ m \in owns[t]]
  /\ owns' = [owns EXCEPT ![t] = @ \ {m}]
  /\ UNCHANGED <<pid, call, intr, ret, state, spoiled>>

\* nxtask_exithook and the release of the TCB
Gone(t) ==
  /\ state[t] = "exiting" /\ mhead[t] = {}
  /\ state' = [state EXCEPT ![t] = "gone"]
  /\ UNCHANGED <<semvars, pid, inconsistent, mhead, call, intr, ret, owns, dirty, spoiled>>

Next ==
  \E t \in Thread :
    \/ LockReturns(t) \/ Exit(t) \/ Gone(t)
    \/ \E m \in Mutex :
         \/ Lock(t, m) \/ TryLock(t, m) \/ Unlock(t, m) \/ Consistent(t, m)
         \/ Signal(t, m) \/ MarkInconsistent(t, m)

Spec == Init /\ [][Next]_vars

(***************************************************************************)
(* Properties.                                                             *)
(***************************************************************************)
\* The state keeps its types.
TypeOK ==
  /\ semcount \in [Mutex -> (-Cardinality(Thread))..(Cardinality(Thread) + 1)]
  /\ waiting \in [Mutex -> SUBSET Thread]
  /\ pid \in [Mutex -> Thread \cup {None}]
  /\ inconsistent \in [Mutex -> BOOLEAN] /\ dirty \in [Mutex -> BOOLEAN]
  /\ mhead \in [Thread -> SUBSET Mutex] /\ owns \in [Thread -> SUBSET Mutex]
  /\ call \in [Thread -> Mutex \cup {None}] /\ intr \in [Thread -> BOOLEAN]
  /\ state \in [Thread -> {"live", "exiting", "gone"}]
  /\ spoiled \in [Mutex -> BOOLEAN]

\* pthread_mutex_lock "returns with the mutex object referenced by mutex in the
\* locked state with the calling thread as its owner": no two threads that live
\* have been given the same mutex.
MutualExclusion ==
  \A t, u \in Thread : t # u /\ state[t] = "live" /\ state[u] = "live"
                         => owns[t] \cap owns[u] = {}

\* The same, but for the one way in which the code fails it: a repair while a
\* thread that was handed the unit has not run.  Signals, deaths, failing locks,
\* unlocks by others and condition variables do not make a second owner.
OneOwner ==
  \A t, u \in Thread : t # u /\ state[t] = "live" /\ state[u] = "live"
                         => \A m \in owns[t] \cap owns[u] : spoiled[m]

\* A mutex that nobody owns, and that nobody has been handed and is about to
\* own, can be locked or repaired: no sequence of waits, signals, deaths and
\* unlocks by owners and others loses its unit.
NeverLost ==
  \A m \in Mutex :
    \/ inconsistent[m] \/ OwnerGone(m) \/ semcount[m] > 0 \/ spoiled[m]
    \/ \E t \in Thread : state[t] # "gone" /\ (m \in owns[t] \/ m \in mhead[t] \/ Handed(t, m))

\* "the mutex does not become normally usable again until the state is marked
\* consistent": nobody is given a mutex whose owner died, not even a thread
\* that was already waiting when it died, or waiting for a condition.  (When a
\* repair has doubled the unit, see OneOwner, the second owner may die while the
\* first is about to write back the flags it saved before its wait.)
NoUseWhileInconsistent ==
  [][\A t \in Thread : \A m \in owns'[t] \ owns[t] : ~dirty[m] \/ spoiled[m]]_vars
=============================================================================
