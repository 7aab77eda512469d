----------------------------- MODULE Scheduler -----------------------------
(***************************************************************************)
(* The priority scheduler: the running task calls the kernel, interrupts   *)
(* make blocked tasks ready and the timer ticks.  Every step is one        *)
(* critical section of the code.                                           *)
(*                                                                         *)
(* The waits of the kernel (semaphores, signals, message queues) appear    *)
(* here only as what they do to the scheduler: Block and Unblock.          *)
(* sched_setparam and sched_setscheduler are sched_lock, their change      *)
(* (SetPolicy, SetPriorityOf) and sched_unlock, three critical sections    *)
(* that other tasks' steps may separate.                                   *)
(***************************************************************************)
EXTENDS NxSched

CONSTANTS
  MaxLock,   \* bound on the nesting of sched_lock (MAX_LOCK_COUNT is 127)
  Waits,     \* the kinds of wait the tasks use
  Policies   \* the policies they ask for
ASSUME MaxLockPositive == MaxLock \in Nat \ {0}
ASSUME WaitsAreStates == Waits \subseteq WaitState
ASSUME PoliciesAreKnown == Policies \subseteq Policy

VARIABLE sched

vars == <<sched>>

self == ThisTask(sched)
Live(t) == sched.tstate[t] # "INVALID"

Init == sched = SchedInit

\* nxsched_release_tcb: the TCB is freed, its fields mean nothing from here on
ReleaseTcb(s, t) ==
  [s EXCEPT !.prio[t] = 0, !.init[t] = 0, !.lock[t] = 0, !.policy[t] = "FIFO",
            !.slice[t] = 0]

(***************************************************************************)
(* Calls of the running task.                                              *)
(***************************************************************************)
SchedLock ==
  /\ sched.lock[self] < MaxLock
  /\ sched' = LockOp(sched)

SchedUnlock ==
  /\ sched' = UnlockOp(sched)

\* up_block_task(this_task(), st): the last step of every kernel wait
Block(st) ==
  /\ self # Idle
  /\ sched' = BlockTask(sched, self, st)

SetPriorityOf(t, p) ==
  /\ t # Idle /\ Live(t)
  /\ sched' = SetPriority(sched, t, p)

Yield ==
  /\ self # Idle
  /\ sched' = SetPriority(sched, self, sched.prio[self])

SetPolicy(t, pol) ==
  /\ t # Idle /\ Live(t)
  /\ sched' = [sched EXCEPT !.policy[t] = pol,
                            !.slice[t] = IF pol = "RR" THEN RRTicks ELSE 0]

(***************************************************************************)
(* The life of a task.                                                     *)
(***************************************************************************)
\* nxthread_setup_scheduler on a fresh TCB
Create(t, p, pol) ==
  /\ ~Live(t)
  /\ sched' = [sched EXCEPT
                 !.prio[t] = p, !.init[t] = p, !.lock[t] = 0,
                 !.policy[t] = pol,
                 !.slice[t] = IF pol = "RR" THEN RRTicks ELSE 0,
                 !.tstate[t] = "INACTIVE",
                 !.blk["INACTIVE"] = AddFirst(sched.blk["INACTIVE"], t)]

Activate(t) ==
  /\ sched.tstate[t] = "INACTIVE"
  /\ sched' = UnblockTask(sched, t)

\* nxtask_exit.  `woken' is who the exit hook made ready (a task in waitpid or
\* pthread_join): the new head is locked meanwhile, so a task of a higher
\* priority goes to g_pendingtasks and is merged at the end.
ExitTask(s, woken) ==
  LET removed == RemoveReadyToRun(s, ThisTask(s))
      next == ThisTask(removed)
      held == [ResumeScheduler(removed) EXCEPT !.lock[next] = @ + 1]
      hooked == IF woken = {} THEN held
                ELSE LET w == CHOOSE x \in woken : TRUE
                     IN  AddReadyToRun(RemoveBlocked(held, w), w)
  IN  ReleaseTcb(MergeIfPending([hooked EXCEPT !.lock[next] = @ - 1]), ThisTask(s))

Exit(woken) ==
  /\ self # Idle
  /\ \A w \in woken : sched.tstate[w] = "WAIT_SEM"
  /\ sched' = ExitTask(sched, woken)

\* nxtask_terminate of another task
Terminate(t) ==
  /\ t # Idle /\ t # self /\ Live(t)
  /\ sched' = ReleaseTcb(RemoveFromList(sched, t), t)

\* task_restart of another task, up to the nxtask_activate that ends it
Restart(t) ==
  /\ t # Idle /\ t # self /\ Live(t)
  /\ LET s == RemoveFromList(sched, t)
     IN  sched' = [s EXCEPT !.prio[t] = s.init[t], !.lock[t] = 0,
                            !.tstate[t] = "INACTIVE",
                            !.blk["INACTIVE"] = AddFirst(s.blk["INACTIVE"], t)]

(***************************************************************************)
(* Interrupts: a device or a running task ends a wait; the timer ticks.    *)
(***************************************************************************)
Unblock(t) ==
  /\ sched.tstate[t] \in WaitState
  /\ sched' = UnblockTask(sched, t)

TimerTick ==
  /\ sched' = IF sched.policy[self] = "RR" THEN ProcessRoundRobin(sched) ELSE sched

Next ==
  \/ SchedLock \/ SchedUnlock \/ Yield \/ TimerTick
  \/ \E st \in Waits : Block(st)
  \/ \E t \in Task :
       \/ Activate(t) \/ Unblock(t) \/ Terminate(t) \/ Restart(t)
       \/ \E p \in Priority : SetPriorityOf(t, p)
       \/ \E pol \in Policies : SetPolicy(t, pol)
       \/ \E p \in Priority, pol \in Policies : Create(t, p, pol)
  \/ \E woken \in {{}} \cup {{t} : t \in Task} : Exit(woken)

Spec == Init /\ [][Next]_vars

(***************************************************************************)
(* Safety.                                                                 *)
(***************************************************************************)
\* The scheduler's data keep their types.
TypeOK == sched \in SchedState

\* task_state names the list a task is on: every list holds exactly the tasks
\* in its state, each once, and only the head of g_readytorun is RUNNING
\* (what dq_rem(tcb, TLIST_HEAD(task_state)) relies on).
ListsAgree == Placed(sched)

\* Every prioritized list is in descending priority order, whatever sequence
\* of priority changes, wake-ups and merges produced it.
ListsSorted == Sorted(sched)

\* A task waits in g_pendingtasks only while the running task has
\* pre-emption disabled: no path on which a locked task gives up the CPU or
\* unlocks forgets to merge.
PendingOnlyWhileLocked == PendingNeedsLock(sched)

\* With pre-emption enabled no runnable task, ready or pending, has a higher
\* priority than the running one; and the idle task is always there to run.
HighestPriorityRuns ==
  /\ sched.lock[self] = 0 =>
       \A t \in Task : sched.tstate[t] \in {"READYTORUN", "PENDING"}
                         => sched.prio[t] <= sched.prio[self]
  /\ sched.rtr[Len(sched.rtr)] = Idle

(***************************************************************************)
(* What a step may not do.                                                 *)
(***************************************************************************)
Runnable(s, t) == s.tstate[t] \in {"RUNNING", "READYTORUN", "PENDING"}

\* x is in front of y on one of the two lists of runnable tasks
Ahead(s, x, y) ==
  \E list \in {s.rtr, s.pend} :
    \E i, j \in 1..Len(list) : i < j /\ list[i] = x /\ list[j] = y

\* Among tasks of one priority the order of arrival decides: two tasks keep
\* their order, through unlock, exit and merge, unless the one in front is the
\* running task (which may yield or use up its time slice) or is itself being
\* given a priority; and a task that becomes ready goes behind those that are.
FifoAmongEquals ==
  [][\A x, y \in Task :
       /\ sched.prio[x] = sched.prio[y]
       /\ sched'.prio[x] = sched.prio[x] /\ sched'.prio[y] = sched.prio[y]
       /\ Runnable(sched', x) /\ Runnable(sched', y)
       /\ \/ x # self /\ Ahead(sched, x, y)
          \/ OnList(sched.rtr, x) /\ ~Runnable(sched, y)
       => Ahead(sched', x, y) \/ SetPriorityOf(x, sched.prio[x])]_vars
=============================================================================
