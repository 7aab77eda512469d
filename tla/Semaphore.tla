----------------------------- MODULE Semaphore -----------------------------
(***************************************************************************)
(* Counting semaphores (sched/semaphore) on the scheduler of NxSched: the  *)
(* running task waits, with or without a timeout, and posts; interrupts    *)
(* post, signals and watchdog expirations end waits; tasks are deleted and *)
(* restarted while they wait.                                              *)
(*                                                                         *)
(* Every step is one critical section.  A task that is switched out inside *)
(* nxsem_wait comes back with interrupts still disabled, so no interrupt   *)
(* separates its return from what the caller does before it leaves the     *)
(* critical section.  Every priority, lock and list operation is the one   *)
(* of NxSched.                                                             *)
(***************************************************************************)
EXTENDS NxSched, Integers, FiniteSets

CONSTANTS
  Sem,        \* the semaphores
  SemMax,     \* SEM_VALUE_MAX
  CountFloor, \* bound: how far below zero a semcount may go
  BasePrio,   \* the priority each task is created with
  Deletable,  \* the tasks that task_delete and pthread_cancel may hit
  Restartable, \* the tasks that task_restart may hit
  TimedTasks, \* the tasks that call nxsem_timedwait and nxsem_tickwait
  Prealloc,   \* CONFIG_PREALLOC_WDOGS less CONFIG_WDOG_INTRESERVE
  None        \* a null pointer

ASSUME SemMaxPositive == SemMax \in Nat \ {0}
ASSUME CountFloorNat == CountFloor \in Nat
ASSUME BasePrioTyped == BasePrio \in [Task \ {Idle} -> Priority]
ASSUME DeletableAreTasks == Deletable \subseteq Task \ {Idle}
ASSUME RestartableAreTasks == Restartable \subseteq Task \ {Idle}
ASSUME TasksFinite == IsFiniteSet(Task)
ASSUME PreallocNat == Prealloc \in Nat
ASSUME NoneIsNull == None \notin Sem \cup Task

VARIABLES
  sched,     \* the scheduler state
  count,     \* sem->semcount; when negative, minus the number of waiters
  waitsem,   \* tcb->waitsem
  errcode,   \* tcb->errcode
  waitdog,   \* tcb->waitdog and its watchdog: none, created (or expired), active,
             \* or stale: a pointer to a watchdog that was deleted
  wdnfree,   \* g_wdnfree less the reserve
  pc,        \* where in a call of the kernel a task is
  victim,    \* who the task inside nxtask_terminate is deleting
  leaked,    \* auxiliary: watchdogs whose creator ended before it had the pointer
  corrupt    \* auxiliary: a watchdog was put on the free list twice

poolvars == <<wdnfree, leaked, corrupt>>
dogvars == <<waitdog, poolvars>>
vars == <<sched, count, waitsem, errcode, dogvars, pc, victim>>

self == ThisTask(sched)

\* In these calls a task holds the critical section whenever it runs.
InWait == {"wait", "timed", "tick"}
Interruptible == pc[self] \notin InWait
Running(place) == self # Idle /\ pc[self] = place

Waiters(sem) == {t \in Task : waitsem[t] = sem}

Init ==
  /\ sched = SchedInit
  /\ count = [sem \in Sem |-> 0]
  /\ waitsem = [t \in Task |-> None]
  /\ errcode = [t \in Task |-> "OK"]
  /\ waitdog = [t \in Task |-> "none"]
  /\ pc = [t \in Task |-> "run"]
  /\ victim = [t \in Task |-> None]
  /\ wdnfree = Prealloc /\ leaked = 0 /\ corrupt = FALSE

(***************************************************************************)
(* nxsem_post and nxsem_wait_irq, on the record k of the variables they    *)
(* change, so that callers can compose them.                               *)
(***************************************************************************)
Kernel == [sched |-> sched, count |-> count, waitsem |-> waitsem, errcode |-> errcode]

Becomes(k) ==
  sched' = k.sched /\ count' = k.count /\ waitsem' = k.waitsem /\ errcode' = k.errcode

\* The first task on g_waitingforsemaphore that waits for sem, as a set
FirstWaiter(k, sem) ==
  LET list == k.sched.blk["WAIT_SEM"]
  IN  {list[i] : i \in {j \in 1..Len(list) :
                          /\ k.waitsem[list[j]] = sem
                          /\ \A h \in 1..(j - 1) : k.waitsem[list[h]] # sem}}

\* Seeded fault: no test for SEM_VALUE_MAX.
PostPastMax(k, sem) ==
  LET more == [k EXCEPT !.count[sem] = @ + 1]
      woken == FirstWaiter(k, sem)
  IN  IF woken = {} THEN more
      ELSE LET t == CHOOSE x \in woken : TRUE
           IN  [more EXCEPT !.waitsem[t] = None, !.sched = UnblockTask(k.sched, t)]

nxsem_post(k, sem) ==
  LET more == [k EXCEPT !.count[sem] = @ + 1]
      woken == FirstWaiter(k, sem)
  IN  IF k.count[sem] >= SemMax THEN k
      ELSE IF more.count[sem] > 0 \/ woken = {} THEN more
      ELSE LET t == CHOOSE x \in woken : TRUE
           IN  [more EXCEPT !.waitsem[t] = None,
                            !.sched = UnblockTask(k.sched, t)]

\* Seeded fault: the count a waiter took is not given back.
WaitIrqKeepsCount(k, t, err) ==
  IF k.sched.tstate[t] # "WAIT_SEM" THEN k
  ELSE [k EXCEPT !.waitsem[t] = None, !.errcode[t] = err,
                 !.sched = UnblockTask(k.sched, t)]

nxsem_wait_irq(k, t, err) ==
  IF k.sched.tstate[t] # "WAIT_SEM" THEN k
  ELSE [k EXCEPT !.count[k.waitsem[t]] = @ + 1,
                 !.waitsem[t] = None,
                 !.errcode[t] = err,
                 !.sched = UnblockTask(k.sched, t)]

\* Seeded fault: waitsem is left behind.
RecoverKeepsWaitsem(k, t) ==
  IF k.sched.tstate[t] # "WAIT_SEM" THEN k
  ELSE [k EXCEPT !.count[k.waitsem[t]] = @ + 1]

\* nxsem_recover: the task is not made ready
nxsem_recover(k, t) ==
  IF k.sched.tstate[t] # "WAIT_SEM" THEN k
  ELSE [k EXCEPT !.count[k.waitsem[t]] = @ + 1, !.waitsem[t] = None]

\* nxsem_reset: the posts of its loop, and then the new count
ResetSteps(k, sem, n) ==
  LET loop[i \in 0..n] ==
        IF i = 0 THEN [k |-> k, left |-> n]
        ELSE LET v == loop[i - 1]
             IN  IF v.k.count[sem] < 0
                 THEN [k |-> nxsem_post(v.k, sem), left |-> v.left - 1]
                 ELSE v
  IN  loop[n]

\* Seeded fault: the units that went to waiters are counted again.
ResetCountTwice(k, sem, n) ==
  LET v == ResetSteps(k, sem, n)
  IN  IF v.k.count[sem] >= 0 THEN [v.k EXCEPT !.count[sem] = n] ELSE v.k

ResetCount(k, sem, n) ==
  LET v == ResetSteps(k, sem, n)
  IN  IF v.k.count[sem] >= 0 THEN [v.k EXCEPT !.count[sem] = v.left] ELSE v.k

(***************************************************************************)
(* Calls of the running task.                                              *)
(***************************************************************************)
\* Seeded fault: the errcode of an earlier wait is not cleared.
WaitKeepsErrcode(sem, place, done) ==
  IF count[sem] > 0
  THEN /\ count' = [count EXCEPT ![sem] = @ - 1]
       /\ pc' = [pc EXCEPT ![self] = done]
       /\ UNCHANGED <<sched, waitsem, errcode>>
  ELSE /\ count[sem] > -CountFloor
       /\ count' = [count EXCEPT ![sem] = @ - 1]
       /\ waitsem' = [waitsem EXCEPT ![self] = sem]
       /\ sched' = BlockTask(sched, self, "WAIT_SEM")
       /\ pc' = [pc EXCEPT ![self] = place]
       /\ UNCHANGED errcode

\* nxsem_wait up to its end or to the context switch; `place' is the call it
\* is made from
WaitFrom(sem, place, done) ==
  IF count[sem] > 0
  THEN /\ count' = [count EXCEPT ![sem] = @ - 1]
       /\ pc' = [pc EXCEPT ![self] = done]
       /\ UNCHANGED <<sched, waitsem, errcode>>
  ELSE /\ count[sem] > -CountFloor
       /\ count' = [count EXCEPT ![sem] = @ - 1]
       /\ waitsem' = [waitsem EXCEPT ![self] = sem]
       /\ errcode' = [errcode EXCEPT ![self] = "OK"]
       /\ sched' = BlockTask(sched, self, "WAIT_SEM")
       /\ pc' = [pc EXCEPT ![self] = place]

Wait(sem) ==
  /\ Running("run")
  /\ WaitFrom(sem, "wait", "run")
  /\ UNCHANGED <<dogvars, victim>>

TryWait(sem) ==
  /\ Running("run") /\ count[sem] > 0
  /\ count' = [count EXCEPT ![sem] = @ - 1]
  /\ UNCHANGED <<sched, waitsem, errcode, dogvars, pc, victim>>

\* The caller of nxsem_wait resumes and returns rtcb->errcode.
WaitReturns ==
  /\ Running("wait")
  /\ pc' = [pc EXCEPT ![self] = "run"]
  /\ UNCHANGED <<sched, count, waitsem, errcode, dogvars, victim>>

\* nxsem_timedwait and nxsem_tickwait: wd_create.  (When only the reserve is
\* left it allocates from the heap, see Wdog: here the tasks stay within the
\* pool.  Once the free list is corrupt its count is not followed any more.)
CreateDog ==
  /\ Running("run") /\ self \in TimedTasks /\ wdnfree > 0
  /\ wdnfree' = IF corrupt THEN wdnfree ELSE wdnfree - 1
  /\ pc' = [pc EXCEPT ![self] = "creating"]
  /\ UNCHANGED <<sched, count, waitsem, errcode, waitdog, victim, leaked, corrupt>>

\* rtcb->waitdog = what wd_create returned
StoreDog ==
  /\ Running("creating")
  /\ waitdog' = [waitdog EXCEPT ![self] = "created"]
  /\ pc' = [pc EXCEPT ![self] = "create"]
  /\ UNCHANGED <<sched, count, waitsem, errcode, poolvars, victim>>

\* The semaphore is free, or the time is already past.
TimedAtOnce(sem) ==
  /\ Running("create")
  /\ count' = [count EXCEPT ![sem] = IF @ > 0 THEN @ - 1 ELSE @]
  /\ pc' = [pc EXCEPT ![self] = "cleanup"]
  /\ UNCHANGED <<sched, waitsem, errcode, dogvars, victim>>

\* Seeded fault: nxsem_wait before wd_start, so that nobody ends the wait.
TimedWaitUnarmed(sem, place) ==
  /\ Running("create") /\ count[sem] <= 0
  /\ WaitFrom(sem, place, "cleanup")
  /\ UNCHANGED <<dogvars, victim>>

\* wd_start, then nxsem_wait
TimedWait(sem, place) ==
  /\ Running("create") /\ count[sem] <= 0
  /\ WaitFrom(sem, place, "cleanup")
  /\ waitdog' = [waitdog EXCEPT ![self] = "active"]
  /\ UNCHANGED <<poolvars, victim>>

\* nxsem_timedwait cancels the watchdog before it leaves the critical section
\* whatever the wait returned, nxsem_tickwait only after a success.
TimedReturns(place) ==
  /\ Running(place)
  /\ waitdog' = IF place = "timed" \/ errcode[self] = "OK"
                THEN [waitdog EXCEPT ![self] = "created"] ELSE waitdog
  /\ pc' = [pc EXCEPT ![self] = "cleanup"]
  /\ UNCHANGED <<sched, count, waitsem, errcode, poolvars, victim>>

\* wd_delete, which cancels an active watchdog
DeleteDog ==
  /\ Running("cleanup")
  /\ wdnfree' = IF corrupt THEN wdnfree ELSE wdnfree + 1
  /\ waitdog' = [waitdog EXCEPT ![self] = "stale"]
  /\ pc' = [pc EXCEPT ![self] = "deleted"]
  /\ UNCHANGED <<sched, count, waitsem, errcode, victim, leaked, corrupt>>

\* rtcb->waitdog = NULL
ForgetDog ==
  /\ Running("deleted")
  /\ waitdog' = [waitdog EXCEPT ![self] = "none"]
  /\ pc' = [pc EXCEPT ![self] = "run"]
  /\ UNCHANGED <<sched, count, waitsem, errcode, poolvars, victim>>

\* nxsem_reset: sched_lock, the loop in a critical section, sched_unlock
ResetLock ==
  /\ Running("run")
  /\ sched' = LockOp(sched)
  /\ pc' = [pc EXCEPT ![self] = "reset"]
  /\ UNCHANGED <<count, waitsem, errcode, dogvars, victim>>

Reset(sem, n) ==
  /\ Running("reset")
  /\ Becomes(ResetCount(Kernel, sem, n))
  /\ pc' = [pc EXCEPT ![self] = "unlock"]
  /\ UNCHANGED <<dogvars, victim>>

ResetUnlock ==
  /\ Running("unlock")
  /\ sched' = UnlockOp(sched)
  /\ pc' = [pc EXCEPT ![self] = "run"]
  /\ UNCHANGED <<count, waitsem, errcode, dogvars, victim>>

\* nxsem_destroy, called when nobody else uses the semaphore: its test and its
\* store are not protected
Destroy(sem) ==
  /\ Running("run")
  /\ count' = [count EXCEPT ![sem] = IF @ >= 0 THEN 1 ELSE @]
  /\ UNCHANGED <<sched, waitsem, errcode, dogvars, pc, victim>>

SetPriorityOf(t, p) ==
  /\ Running("run") /\ t # Idle /\ sched.tstate[t] # "INVALID"
  /\ sched' = SetPriority(sched, t, p)
  /\ UNCHANGED <<count, waitsem, errcode, dogvars, pc, victim>>

(***************************************************************************)
(* Interrupts, and what any task may do to another.                        *)
(***************************************************************************)
Post(sem) ==
  /\ Interruptible
  /\ Becomes(nxsem_post(Kernel, sem))
  /\ UNCHANGED <<dogvars, pc, victim>>

\* nxsig_tcbdispatch wakes a task that waits for a semaphore.
Signal(t) ==
  /\ Interruptible /\ sched.tstate[t] = "WAIT_SEM"
  /\ Becomes(nxsem_wait_irq(Kernel, t, "EINTR"))
  /\ UNCHANGED <<dogvars, pc, victim>>

\* wd_expiration and nxsem_timeout.  A structure that is on the free list twice
\* is given to two users: it may then expire for any of them.
Timeout(t) ==
  /\ Interruptible /\ (waitdog[t] = "active" \/ corrupt)
  /\ waitdog' = [waitdog EXCEPT ![t] = IF @ = "active" THEN "created" ELSE @]
  /\ Becomes(nxsem_wait_irq(Kernel, t, "ETIMEDOUT"))
  /\ UNCHANGED <<poolvars, pc, victim>>

\* The other user of such a structure cancels it, or starts it for itself.
OtherUserCancels(t) ==
  /\ Interruptible /\ corrupt /\ waitdog[t] = "active"
  /\ waitdog' = [waitdog EXCEPT ![t] = "created"]
  /\ UNCHANGED <<sched, count, waitsem, errcode, poolvars, pc, victim>>

(***************************************************************************)
(* Creation, deletion and restart.                                         *)
(***************************************************************************)
Victim(t) == \E d \in Task : victim[d] = t

\* wd_recover, on whatever tcb->waitdog is: a watchdog whose pointer is not
\* stored yet is missed, and one that is deleted already is deleted again.
wd_recover(t) ==
  /\ wdnfree' = IF waitdog[t] = "none" \/ corrupt THEN wdnfree ELSE wdnfree + 1
  /\ waitdog' = [waitdog EXCEPT ![t] = "none"]
  /\ leaked' = IF pc[t] = "creating" /\ ~corrupt THEN leaked + 1 ELSE leaked
  /\ corrupt' = (corrupt \/ waitdog[t] = "stale")

\* nxthread_setup_scheduler on a zeroed TCB
Create(t) ==
  /\ Interruptible /\ t # Idle
  /\ sched.tstate[t] = "INVALID" /\ ~Victim(t)
  /\ sched' = [sched EXCEPT !.prio[t] = BasePrio[t], !.init[t] = BasePrio[t],
                            !.tstate[t] = "INACTIVE",
                            !.blk["INACTIVE"] = AddFirst(@, t)]
  /\ UNCHANGED <<count, waitsem, errcode, dogvars, pc, victim>>

\* nxtask_activate, the end of task creation and of task_restart
Activate(t) ==
  /\ Interruptible /\ sched.tstate[t] = "INACTIVE"
  /\ sched' = UnblockTask(sched, t)
  /\ UNCHANGED <<count, waitsem, errcode, dogvars, pc, victim>>

\* nxtask_terminate, its critical section: off the list, and INVALID.  The model
\* leaves out that a task inside nxtask_terminate is itself deleted or restarted.
Terminate(t) ==
  /\ Running("run")
  /\ t \in Deletable \ {self} /\ sched.tstate[t] # "INVALID" /\ pc[t] # "terminate"
  /\ sched' = RemoveFromList(sched, t)
  /\ victim' = [victim EXCEPT ![self] = t]
  /\ pc' = [pc EXCEPT ![self] = "terminate"]
  /\ UNCHANGED <<count, waitsem, errcode, dogvars>>

\* nxtask_exithook (wd_recover, nxsem_recover) and nxsched_release_tcb
ExitHook ==
  /\ Running("terminate")
  /\ LET t == victim[self]
         k == nxsem_recover(Kernel, t)
     IN  /\ wd_recover(t)
         /\ Becomes([k EXCEPT !.waitsem[t] = None, !.errcode[t] = "OK",
                              !.sched = [k.sched EXCEPT !.prio[t] = 0, !.init[t] = 0,
                                                        !.lock[t] = 0]])
         /\ pc' = [pc EXCEPT ![self] = "run", ![t] = "run"]
  /\ victim' = [victim EXCEPT ![self] = None]

\* Seeded fault: task_restart without wd_recover.
RestartKeepsDog(t) ==
  /\ Running("run") /\ t \in Restartable \ {self}
  /\ sched.tstate[t] # "INVALID" /\ pc[t] # "terminate"
  /\ LET k == nxsem_recover(Kernel, t)
         s == RemoveFromList(k.sched, t)
     IN  Becomes([k EXCEPT !.sched = [s EXCEPT !.prio[t] = s.init[t], !.lock[t] = 0,
                                               !.tstate[t] = "INACTIVE",
                                               !.blk["INACTIVE"] = AddFirst(@, t)]])
  /\ pc' = [pc EXCEPT ![t] = "run"]
  /\ UNCHANGED <<dogvars, victim>>

\* task_restart up to nxtask_activate: here nxtask_recover comes first
Restart(t) ==
  /\ Running("run") /\ t \in Restartable \ {self}
  /\ sched.tstate[t] # "INVALID" /\ pc[t] # "terminate"
  /\ LET k == nxsem_recover(Kernel, t)
         s == RemoveFromList(k.sched, t)
     IN  Becomes([k EXCEPT !.sched = [s EXCEPT !.prio[t] = s.init[t], !.lock[t] = 0,
                                               !.tstate[t] = "INACTIVE",
                                               !.blk["INACTIVE"] = AddFirst(@, t)]])
  /\ wd_recover(t)
  /\ pc' = [pc EXCEPT ![t] = "run"]
  /\ UNCHANGED victim

Next ==
  \/ WaitReturns \/ ResetLock \/ ResetUnlock \/ ExitHook
  \/ CreateDog \/ StoreDog \/ DeleteDog \/ ForgetDog
  \/ \E place \in {"timed", "tick"} : TimedReturns(place)
  \/ \E sem \in Sem :
       \/ Wait(sem) \/ TryWait(sem) \/ TimedAtOnce(sem) \/ Post(sem) \/ Destroy(sem)
       \/ \E place \in {"timed", "tick"} : TimedWait(sem, place)
       \/ \E n \in 0..SemMax : Reset(sem, n)
  \/ \E t \in Task :
       \/ Signal(t) \/ Timeout(t) \/ OtherUserCancels(t)
       \/ Create(t) \/ Activate(t) \/ Terminate(t) \/ Restart(t)
       \/ \E p \in Priority : SetPriorityOf(t, p)

Spec == Init /\ [][Next]_vars

(***************************************************************************)
(* Safety.                                                                 *)
(***************************************************************************)
\* The state keeps its types, and the lists agree with task_state.
TypeOK ==
  /\ sched \in SchedState /\ Placed(sched)
  /\ count \in [Sem -> (-CountFloor)..SemMax]
  /\ waitsem \in [Task -> Sem \cup {None}]
  /\ errcode \in [Task -> {"OK", "EINTR", "ETIMEDOUT"}]
  /\ waitdog \in [Task -> {"none", "created", "active", "stale"}]
  /\ pc \in [Task -> InWait \cup {"run", "creating", "create", "cleanup", "deleted",
                                  "reset", "unlock", "terminate"}]
  /\ victim \in [Task -> Task \cup {None}]
  /\ wdnfree \in Nat /\ leaked \in 0..Prealloc /\ corrupt \in BOOLEAN

\* A negative semcount is minus the number of tasks blocked on the semaphore,
\* and nobody is blocked on one whose count is not negative: no post is lost
\* and none wakes a task too many, whichever of post, timeout, signal, reset
\* and restart ends a wait.  (What nxsem_recover is to keep true on deletion.)
CountMatchesWaiters ==
  \A sem \in Sem :
    Cardinality(Waiters(sem)) = IF count[sem] < 0 THEN -count[sem] ELSE 0

\* waitsem is set exactly while the task is on g_waitingforsemaphore, but for
\* a task that is being deleted: nxsem_post and nxsem_wait_irq look at the one
\* and act on the other.
WaitsemAgrees ==
  \A t \in Task : ~Victim(t) => (waitsem[t] # None <=> sched.tstate[t] = "WAIT_SEM")

\* Only a wait that asked for a timeout times out: the watchdog of an earlier
\* timed wait, which nxsem_timeout resolves through the task's pid alone,
\* never ends a later wait of the same task or of one that reuses its TCB,
\* while no watchdog was deleted twice.
NoStrayTimeout ==
  corrupt \/ \A t \in Task : pc[t] = "wait" => errcode[t] # "ETIMEDOUT"

\* The tasks whose timed wait has created its watchdog and not deleted it
Holders == {t \in Task : pc[t] \in {"creating", "create", "timed", "tick", "cleanup"}}

\* Every watchdog of the pool is free or held by one timed wait, however posts,
\* timeouts, signals, deletions and restarts end the waits: wd_recover frees
\* what its task holds and nothing else.  Two windows are excepted, which no
\* critical section closes: a task that ends between wd_create and the store to
\* waitdog leaks its watchdog, and one that ends between wd_delete and the
\* store of NULL has it deleted twice.
DogsConserved ==
  corrupt \/ wdnfree + Cardinality(Holders) + leaked = Prealloc

\* A semaphore is handed to its waiter of the highest priority at the time of
\* the post, also when priorities changed while the tasks were waiting.
HighestWaiterFirst ==
  [][\A sem \in Sem : \A t, u \in Waiters(sem) :
       /\ waitsem'[t] = None /\ waitsem'[u] = sem
       /\ count'[sem] = count[sem] + 1 /\ errcode' = errcode
       /\ sched'.tstate[t] \in {"RUNNING", "READYTORUN", "PENDING"}
       => sched.prio[u] <= sched.prio[t]]_vars

\* The semaphores are the ones AbstractSem describes: taking, handing over,
\* giving up a wait and resetting, whatever the order of lists, watchdogs and
\* context switches behind them.
Abstract == INSTANCE AbstractSem WITH
  avail <- [sem \in Sem |-> IF count[sem] > 0 THEN count[sem] ELSE 0],
  waiting <- [sem \in Sem |-> Waiters(sem)]

ImplementsAbstractSem == Abstract!SemSpec

(***************************************************************************)
(* Liveness.  A pending timer interrupt is taken as soon as interrupts are *)
(* enabled, and a task that runs inside its critical section leaves it.    *)
(***************************************************************************)
LiveSpec ==
  /\ Spec
  /\ WF_vars(WaitReturns) /\ WF_vars(\E place \in {"timed", "tick"} : TimedReturns(place))
  /\ \A t \in Task : SF_vars(Timeout(t))

\* No timed wait blocks for ever, however posts, signals, restarts and other timed
\* waits interleave with it, unless a watchdog is deleted twice and its wait's
\* may be the one that two users then share.
TimedWaitEnds ==
  \A t \in Task :
    (pc[t] \in {"timed", "tick"} /\ sched.tstate[t] = "WAIT_SEM")
      ~> (sched.tstate[t] # "WAIT_SEM" \/ corrupt)
=============================================================================
