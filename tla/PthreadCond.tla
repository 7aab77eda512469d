---------------------------- MODULE PthreadCond ----------------------------
(***************************************************************************)
(* A condition variable (sched/pthread/pthread_cond*.c), a semaphore that  *)
(* nobody should find positive, on the mutexes of PthreadMutex.            *)
(*                                                                         *)
(* `locker' is the thread inside a stretch under sched_lock that the model *)
(* splits into steps: no other thread runs meanwhile, but signals and the  *)
(* timer come in.  pthread_cond_signal is called by threads only.          *)
(***************************************************************************)
EXTENDS PthreadMutex

VARIABLES
  csem,      \* cond->sem.semcount
  cwaiting,  \* who is blocked on the condition's semaphore
  cpc,       \* where in a call on the condition a thread is
  cmutex,    \* the mutex of that call
  timed,     \* it is pthread_cond_timedwait
  cintr,     \* a signal or the timeout ended the wait for the condition
  mflags,    \* the copy of mutex->flags made before the wait
  gives,     \* how often a signal or broadcast has still to post
  locker     \* who has disabled pre-emption, see above

condvars == <<csem, cwaiting, cpc, cmutex, timed, cintr, mflags, gives, locker>>
allvars == <<vars, condvars>>

CondInit ==
  /\ Init
  /\ csem = 0 /\ cwaiting = {} /\ locker = None
  /\ cpc = [t \in Thread |-> "none"] /\ cmutex = [t \in Thread |-> None]
  /\ timed = [t \in Thread |-> FALSE] /\ cintr = [t \in Thread |-> FALSE]
  /\ mflags = [t \in Thread |-> FALSE] /\ gives = [t \in Thread |-> 0]

At(t, place) == state[t] = "live" /\ cpc[t] = place /\ locker \in {None, t}

CondGoTo(t, place) == cpc' = [cpc EXCEPT ![t] = place]

(***************************************************************************)
(* Waiting.                                                                *)
(***************************************************************************)
\* Seeded fault: pre-emption is not disabled.
CondWaitUnlocked(t, m, withTimeout) ==
  /\ At(t, "none") /\ call[t] = None /\ pid[m] = t
  /\ pid' = [pid EXCEPT ![m] = None]
  /\ mhead' = [mhead EXCEPT ![t] = @ \ {m}]
  /\ owns' = [owns EXCEPT ![t] = @ \ {m}]
  /\ SemGive(m)
  /\ mflags' = [mflags EXCEPT ![t] = inconsistent[m]]
  /\ cmutex' = [cmutex EXCEPT ![t] = m]
  /\ timed' = [timed EXCEPT ![t] = withTimeout]
  /\ CondGoTo(t, "take")
  /\ UNCHANGED <<inconsistent, call, intr, ret, state, dirty, spoiled,
                 csem, cwaiting, cintr, gives, locker>>

\* pthread_cond_wait and pthread_cond_timedwait up to pthread_mutex_give.
\* (A caller that does not own the mutex gets EPERM and an invalid time EINVAL:
\* nothing changes, but that the second error exit leaves the scheduler locked.)
CondWait(t, m, withTimeout) ==
  /\ At(t, "none") /\ call[t] = None /\ pid[m] = t
  /\ pid' = [pid EXCEPT ![m] = None]
  /\ mhead' = [mhead EXCEPT ![t] = @ \ {m}]
  /\ owns' = [owns EXCEPT ![t] = @ \ {m}]
  /\ SemGive(m)
  /\ mflags' = [mflags EXCEPT ![t] = inconsistent[m]]
  /\ cmutex' = [cmutex EXCEPT ![t] = m]
  /\ timed' = [timed EXCEPT ![t] = withTimeout]
  /\ CondGoTo(t, "take")
  /\ locker' = t
  /\ UNCHANGED <<inconsistent, call, intr, ret, state, dirty, spoiled,
                 csem, cwaiting, cintr, gives>>

\* nxsem_wait on the condition's semaphore.  pthread_cond_wait enables
\* pre-emption when it is back from there, the timed wait only at its end.
TakeCond(t) ==
  /\ csem' = csem - 1
  /\ cwaiting' = IF csem > 0 THEN cwaiting ELSE cwaiting \cup {t}
  /\ CondGoTo(t, IF csem > 0 THEN "retake" ELSE "wait")
  /\ locker' = IF csem > 0 /\ timed[t] THEN t ELSE None

CondTake(t) ==
  /\ At(t, "take")
  /\ TakeCond(t)
  /\ UNCHANGED <<vars, cmutex, timed, cintr, mflags, gives>>

\* A signal, or pthread_condtimedout, which sends one
CondSignalled(t) ==
  /\ t \in cwaiting
  /\ csem' = csem + 1
  /\ cwaiting' = cwaiting \ {t}
  /\ cintr' = [cintr EXCEPT ![t] = TRUE]
  /\ UNCHANGED <<vars, cpc, cmutex, timed, mflags, gives, locker>>

\* The woken thread runs: an interrupted pthread_cond_wait waits again
\* (nxsem_wait_uninterruptible), a timed wait takes any signal for the timeout.
CondWoken(t) ==
  /\ At(t, "wait") /\ t \notin cwaiting
  /\ \/ /\ cintr[t] /\ ~timed[t]
        /\ TakeCond(t)
        /\ cintr' = [cintr EXCEPT ![t] = FALSE]
     \/ /\ ~cintr[t] \/ timed[t]
        /\ CondGoTo(t, "retake")
        /\ locker' = IF timed[t] THEN t ELSE None
        /\ UNCHANGED <<csem, cwaiting, cintr>>
  /\ UNCHANGED <<vars, cmutex, timed, mflags, gives>>

CondReturns(t) ==
  /\ CondGoTo(t, "none")
  /\ cmutex' = [cmutex EXCEPT ![t] = None]
  /\ timed' = [timed EXCEPT ![t] = FALSE]
  /\ cintr' = [cintr EXCEPT ![t] = FALSE]
  /\ mflags' = [mflags EXCEPT ![t] = FALSE]

\* pthread_mutex_take was successful: pthread_mutex_add.  It has left its
\* sched_lock; only the timed wait has one of its own.
Reacquired(t, m) ==
  /\ mhead' = [mhead EXCEPT ![t] = @ \cup {m}]
  /\ owns' = [owns EXCEPT ![t] = @ \cup {m}]
  /\ CondGoTo(t, "setpid")
  /\ locker' = IF timed[t] THEN t ELSE None
  /\ UNCHANGED <<pid, inconsistent, ret, cmutex, timed, cintr, mflags>>

\* EOWNERDEAD: back without the mutex; a timed wait that timed out says so only
NotReacquired(t) ==
  /\ Returns(t, IF cintr[t] THEN "ETIMEDOUT" ELSE "EOWNERDEAD")
  /\ CondReturns(t)
  /\ locker' = None
  /\ UNCHANGED <<mhead, pid, owns, inconsistent>>

\* Seeded fault: no look at the flag.
TakenUnchecked(t, m) == Reacquired(t, m) /\ call' = [call EXCEPT ![t] = None]

\* pthread_mutex_take has the semaphore and looks at the flag.
Taken(t, m) ==
  /\ \/ inconsistent[m] /\ NotReacquired(t)
     \/ ~inconsistent[m] /\ Reacquired(t, m)
  /\ call' = [call EXCEPT ![t] = None]

\* nxsem_wait on the semaphore of the mutex, in pthread_mutex_take
TakeMutex(t, m) ==
  /\ semcount' = [semcount EXCEPT ![m] = @ - 1]
  /\ \/ semcount[m] > 0 /\ Taken(t, m) /\ UNCHANGED waiting
     \/ /\ semcount[m] <= 0
        /\ waiting' = [waiting EXCEPT ![m] = @ \cup {t}]
        /\ call' = [call EXCEPT ![t] = m]
        /\ locker' = None
        /\ UNCHANGED <<mhead, pid, owns, inconsistent, ret, cpc, cmutex, timed, cintr, mflags>>

\* pthread_mutex_take(mutex, NULL, false), up to its return or to the wait
Retake(t) ==
  /\ At(t, "retake") /\ call[t] = None
  /\ \/ /\ inconsistent[cmutex[t]]
        /\ NotReacquired(t)
        /\ UNCHANGED <<semvars, call>>
     \/ /\ ~inconsistent[cmutex[t]]
        /\ TakeMutex(t, cmutex[t])
  /\ UNCHANGED <<intr, state, dirty, spoiled, csem, cwaiting, gives>>

\* The rest of it after the wait; a signal makes it wait again
RetakeReturns(t) ==
  /\ At(t, "retake") /\ call[t] # None /\ t \notin waiting[call[t]]
  /\ \/ intr[t] /\ TakeMutex(t, call[t])
     \/ ~intr[t] /\ Taken(t, call[t]) /\ UNCHANGED semvars
  /\ intr' = [intr EXCEPT ![t] = FALSE]
  /\ UNCHANGED <<state, dirty, spoiled, csem, cwaiting, gives>>

\* Seeded fault: the owner is not recorded.
SetNoPid(t) ==
  /\ At(t, "setpid")
  /\ CondGoTo(t, "setflags")
  /\ UNCHANGED <<vars, csem, cwaiting, cmutex, timed, cintr, mflags, gives, locker>>

\* mutex->pid = getpid()
SetPid(t) ==
  /\ At(t, "setpid")
  /\ pid' = [pid EXCEPT ![cmutex[t]] = t]
  /\ CondGoTo(t, "setflags")
  /\ UNCHANGED <<semvars, inconsistent, mhead, call, intr, ret, state, owns, dirty, spoiled,
                 csem, cwaiting, cmutex, timed, cintr, mflags, gives, locker>>

\* mutex->flags = mflags, whatever they are by now, and the code of the wait
SetFlags(t) ==
  /\ At(t, "setflags")
  /\ inconsistent' = [inconsistent EXCEPT ![cmutex[t]] = mflags[t]]
  /\ Returns(t, IF cintr[t] THEN "ETIMEDOUT" ELSE "OK")
  /\ CondReturns(t)
  /\ locker' = None
  /\ UNCHANGED <<semvars, pid, mhead, call, intr, state, owns, dirty, spoiled,
                 csem, cwaiting, gives>>

(***************************************************************************)
(* Signalling: sval is read once, then there are as many posts.            *)
(***************************************************************************)
\* Seeded fault: a post whether or not somebody waits.
CondSignalAlways(t) ==
  /\ At(t, "none") /\ call[t] = None
  /\ gives' = [gives EXCEPT ![t] = 1]
  /\ CondGoTo(t, "give")
  /\ UNCHANGED <<vars, csem, cwaiting, cmutex, timed, cintr, mflags, locker>>

\* pthread_cond_signal, with pre-emption enabled; nobody waits: no effect
CondSignal(t) ==
  /\ At(t, "none") /\ call[t] = None /\ csem < 0
  /\ gives' = [gives EXCEPT ![t] = 1]
  /\ CondGoTo(t, "give")
  /\ UNCHANGED <<vars, csem, cwaiting, cmutex, timed, cintr, mflags, locker>>

\* Seeded fault: the loop ends one waiter too early.
BroadcastStopsEarly(t) ==
  /\ At(t, "none") /\ call[t] = None /\ csem < 0
  /\ gives' = [gives EXCEPT ![t] = IF csem = -1 THEN 1 ELSE -csem - 1]
  /\ CondGoTo(t, "give")
  /\ locker' = t
  /\ UNCHANGED <<vars, csem, cwaiting, cmutex, timed, cintr, mflags>>

\* pthread_cond_broadcast, under sched_lock
Broadcast(t) ==
  /\ At(t, "none") /\ call[t] = None /\ csem < 0
  /\ gives' = [gives EXCEPT ![t] = -csem]
  /\ CondGoTo(t, "give")
  /\ locker' = t
  /\ UNCHANGED <<vars, csem, cwaiting, cmutex, timed, cintr, mflags>>

\* pthread_sem_give
CondGive(t) ==
  /\ At(t, "give") /\ gives[t] > 0
  /\ csem' = csem + 1
  /\ gives' = [gives EXCEPT ![t] = @ - 1]
  /\ \/ csem < 0 /\ \E w \in cwaiting : cwaiting' = cwaiting \ {w}
     \/ csem >= 0 /\ UNCHANGED cwaiting
  /\ UNCHANGED <<vars, cpc, cmutex, timed, cintr, mflags, locker>>

CondGiven(t) ==
  /\ At(t, "give") /\ gives[t] = 0
  /\ CondGoTo(t, "none")
  /\ locker' = None
  /\ UNCHANGED <<vars, csem, cwaiting, cmutex, timed, cintr, mflags, gives>>

(***************************************************************************)
(* The steps of PthreadMutex, by a thread that is in no call on the        *)
(* condition.                                                              *)
(***************************************************************************)
MutexCall(t) ==
  /\ cpc[t] = "none" /\ locker = None
  /\ \/ LockReturns(t) \/ Exit(t) \/ Gone(t)
     \/ \E m \in Mutex : Lock(t, m) \/ TryLock(t, m) \/ Unlock(t, m) \/ Consistent(t, m)
                          \/ MarkInconsistent(t, m)
  /\ UNCHANGED condvars

CondNext ==
  \E t \in Thread :
    \/ MutexCall(t)
    \/ CondTake(t) \/ CondSignalled(t) \/ CondWoken(t) \/ Retake(t) \/ RetakeReturns(t)
    \/ SetPid(t) \/ SetFlags(t)
    \/ CondSignal(t) \/ Broadcast(t) \/ CondGive(t) \/ CondGiven(t)
    \/ \E m \in Mutex :
         \/ Signal(t, m) /\ UNCHANGED condvars
         \/ \E withTimeout \in BOOLEAN : CondWait(t, m, withTimeout)

CondSpec == CondInit /\ [][CondNext]_allvars

(***************************************************************************)
(* Properties.                                                             *)
(***************************************************************************)
\* The state keeps its types.
CondTypeOK ==
  /\ TypeOK
  /\ csem \in (-Cardinality(Thread))..(2 * Cardinality(Thread))
  /\ cwaiting \subseteq Thread /\ locker \in Thread \cup {None}
  /\ cpc \in [Thread -> {"none", "take", "wait", "retake", "setpid", "setflags", "give"}]
  /\ cmutex \in [Thread -> Mutex \cup {None}]
  /\ timed \in [Thread -> BOOLEAN] /\ cintr \in [Thread -> BOOLEAN]
  /\ mflags \in [Thread -> BOOLEAN] /\ gives \in [Thread -> 0..Cardinality(Thread)]

\* Giving up the mutex and waiting are one: whoever may call
\* pthread_cond_signal or pthread_cond_broadcast finds the semaphore negative
\* while a thread waits, whatever signals, timeouts and posts that come too late
\* did to its count.  (A thread that a signal took off the semaphore and that
\* has not run yet is not seen.)
SignalSeesWaiters ==
  locker = None /\ (cwaiting # {} \/ \E t \in Thread : cpc[t] = "take") => csem < 0

\* When pthread_cond_broadcast returns, nobody who waited before it waits:
\* interrupts that end waits while it counts its posts leave no one behind.
BroadcastWakesAll ==
  \A t \in Thread : locker = t /\ cpc[t] = "give" /\ gives[t] = 0 => cwaiting = {}

\* A thread that returns from a wait with OK has the mutex, and unless a repair
\* doubled its unit (OneOwner) it has it alone, is on record as its owner, and no
\* flag that another thread set meanwhile is lost: also when signals made it wait
\* for the mutex again and when it is pre-empted before it writes pid and flags.
WaitReturnsWithMutex ==
  [][\A t \in Thread :
       cmutex[t] # None /\ cpc'[t] = "none" /\ ret'[t] = "OK"
         => LET m == cmutex[t]
            IN  /\ m \in owns'[t] /\ m \in mhead'[t]
                /\ \/ spoiled[m]
                   \/ /\ pid'[m] = t /\ semcount'[m] <= 0
                      /\ ~inconsistent[m] /\ ~inconsistent'[m]]_allvars
=============================================================================
