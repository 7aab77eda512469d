# The NuttX kernel core of the SAMV71 MicroPython firmware, in TLA+

The repository holds the firmware of a SAME70/SAMV71 board: the NuttX real-time
kernel (`src/nuttx`), its application tree (`src/apps`) and a port of
MicroPython 1.12 (`src/apps/interpreters/micropython`). Everything that runs on
the board, the interpreter with its threads and its lock included, stands on a
small core: the scheduler's task lists, semaphores, watchdog timers, message
queues, pthread mutexes and condition variables, and the kernel's work queue. This project models that core from the C code, checks it with
TLC and proves most of its safety properties with TLAPS.

The models follow the build `src/nuttx/config_samv71_mp`: one CPU, no priority
inheritance, round robin enabled (`CONFIG_RR_INTERVAL=200`), robust mutexes
without mutex types, `CONFIG_PREALLOC_WDOGS=32`, `CONFIG_WDOG_INTRESERVE=4`,
no cancellation points, assertions off. Code under other `#ifdef`s is left out.

## Inventory

| Component | State | Operations | What is hard | What makes it correct |
|---|---|---|---|---|
| Scheduler lists (`sched/sched`, `arch/arm/src/armv7-m`) | `g_readytorun`, `g_pendingtasks`, one list per blocked state; of each TCB `task_state`, `sched_priority`, `init_priority`, `lockcount`, `timeslice` | block, unblock, lock, unlock, set priority, yield, round robin, merge | every kernel service rewrites the lists; pre-emption lock; merge of pending tasks; locked tasks that block or exit | `task_state` names the list; lists sorted; nobody stranded in `g_pendingtasks`; the highest priority runs; FIFO among equals |
| Task life cycle (`sched/task`) | TCBs, pids, groups | create, activate, exit, terminate, restart | termination and restart hit a task in any state, in several critical sections | nothing of a dead task stays on a list, a semaphore or a timer |
| Semaphores (`sched/semaphore`) | `semcount`, `waitsem`, `errcode`, `waitdog` | wait, trywait, timedwait, tickwait, post, reset, destroy, timeout, recover | posts, signals and timeouts race for the same wait; deletion and restart while waiting | count and waiters agree; best waiter first; no stray timeouts; timed waits end |
| Watchdogs (`sched/wdog`) | delta list, flags, pool, reserve | create, start, cancel, delete, gettime, timer interrupt | functions called back from the loop change the list it walks | each watchdog fires in the tick it is due; the pool is accounted for |
| Mutexes (`sched/pthread/pthread_mutex*.c`) | semaphore, owner pid, flags, list of held mutexes | lock, trylock, unlock, consistent, inconsistent | owners that die, waiters woken by a death, signals | one owner; no use before repair; the unit is not lost |
| Condition variables (`sched/pthread/pthread_cond*.c`) | a semaphore; the mutex of a wait | wait, timedwait, signal, broadcast | mutex given up and wait begun in two calls; timeouts that are signals; owners that die meanwhile | a signal sees every waiter, a broadcast leaves none, a wait returns with the mutex |
| Pthread create/join/cancel | join records, reference counts | create, join, detach, cancel | cancellation in several steps; detach racing join | not modelled |
| Message queues (`sched/mqueue`) | `msglist`, `nwaitnotempty`, `nwaitnotfull`, `ntpid`, two message pools; of each TCB `msgwaitq` | send, timedsend, receive, timedreceive, notify, timeouts, recover | interrupts send; checks and their use lie in different critical sections; a woken task finds a new state; exhausted pools | counts match waiters; nobody sleeps on what it waits for; limit kept; pools conserved; priority and age decide |
| Signals (`sched/signal`) | pending sets, masks, actions | dispatch, deliver, timedwait | handlers run on interrupted waits | only the wake-up of a waiting task is modelled |
| Work queue (`sched/wqueue`) | queue of delayed work, busy flags | queue, cancel, signal, process | queueing and signalling are separate; callbacks run outside the critical section; one worker watches the delays | queue intact; no sleep past a due work; queued work is run |
| Groups and waitpid | member lists, child status | leave, waitpid | exit racing waitpid | not modelled |
| Memory manager (`mm/mm_heap`) | node list | malloc, free | coalescing arithmetic | not modelled |
| MicroPython thread port | thread list, GIL, GC semaphore | create, start, finish, gc_others, deinit | stop-the-world by signals, lock order | not modelled |
| MicroPython read-line, REPL | line buffer, history, escape state | one character at a time | cursor arithmetic | not modelled |
| MicroPython core, file systems, drivers, network, graphics, libc | | | | vendored or I/O: not modelled |

How they interact. A kernel service runs with interrupts disabled (a *critical
section*) and changes the scheduler's lists by calling the functions of
`sched/sched` and the four switching functions of the architecture. A semaphore
wait is a decrement plus `up_block_task`; a post is an increment plus
`up_unblock_task` of the first waiter. A timed wait adds a watchdog whose
function calls `nxsem_wait_irq` from the timer interrupt, and so does a signal.
A message queue blocks and wakes tasks with the same functions, on lists of its
own. A mutex is a semaphore with an owner, a condition variable a semaphore whose
count is read to know who waits. A worker thread of the work queue waits for a
signal or sleeps on a watchdog. A task that dies runs `nxtask_exithook`,
which calls `nxsem_recover`, `nxmq_recover` and `wd_recover`, and `pthread_exit` first walks the
mutexes the thread holds.

## Modules

| Module | Models | Extends |
|---|---|---|
| `DqList` | doubly linked lists (`libs/libc/queue`) as sequences | |
| `NxSched` | the lists and the operators every service composes | `DqList` |
| `Scheduler` | the scheduler as a state machine: calls of the running task, life cycle, interrupts | `NxSched` |
| `RoundRobin` | `Scheduler` with a fair timer and a bounded number of `sched_lock` calls | `Scheduler` |
| `Semaphore` | semaphores on `NxSched`, with timed waits, signals, deletion and restart | `NxSched` |
| `AbstractSem` | what semaphores promise | |
| `Wdog` | delta list, pool and timer interrupt | |
| `AbstractTimer` | what watchdogs promise: independent timers | |
| `PthreadMutex` | robust mutexes on a kernel semaphore | |
| `PthreadCond` | condition variables composed with the mutexes | `PthreadMutex` |
| `MsgQueue` | message queues on `NxSched`, with pools, notification, interrupts, deletion and restart | `NxSched` |
| `AbstractMq` | what message queues promise: mailboxes emptied by priority and age | |
| `WorkQueue` | clients, worker threads and the queue of delayed work | `DqList` |
| `ListLemmas` | lemmas about lists, least numbers and recursive functions | `DqList` |
| `NxSchedLemmas` | what each operator of `NxSched` preserves | `NxSched`, `ListLemmas` |
| `SchedulerProofs` | theorems about `Scheduler` | `Scheduler`, `NxSchedLemmas` |
| `SemaphoreProofs` | theorems about `Semaphore`, the refinement of `AbstractSem` | `Semaphore`, `NxSchedLemmas` |
| `WdogProofs` | theorems about `Wdog`, the refinement of `AbstractTimer` | `Wdog`, `ListLemmas` |
| `PthreadProofs` | theorems about `PthreadMutex` and `PthreadCond` | `PthreadCond` |
| `WorkQueueProofs` | theorems about `WorkQueue` | `WorkQueue`, `ListLemmas` |
| `MsgQueueProofs` | theorems about `MsgQueue`, the refinement of `AbstractMq` | `MsgQueue`, `NxSchedLemmas` |
| `MC*` | instances for TLC (symmetry sets, priorities) | |

**NxSched.** A scheduler state is one record `s` with a field per list and per
TCB field, and `AddReadyToRun`, `MergePending`, `BlockTask`, `ReprioritizeRtr`,
... are functions from records to records with the names of the C functions.
A kernel call that uses several of them in one critical section is their
composition, hence one atomic step: a trailing merge or switch can never be
forgotten by the model or taken separately. Pointer surgery on doubly linked
lists becomes insertion and removal at a position. `InsertPos(list, from, ...)`
is the search loop of `nxsched_add_prioritized` and, from another starting
place, of `nxsched_merge_pending`, which continues where it inserted the
previous task. A context switch is the change of the head; its only other
effect is the refill of the new head's time slice (`nxsched_resume_scheduler`).

**Scheduler.** One action per kernel entry. `sched_setparam` and
`sched_setscheduler` take and release the pre-emption lock around their change:
they are the sequence `SchedLock`, `SetPriorityOf`/`SetPolicy`, `SchedUnlock`,
which the interleaving already contains. Waits appear as `Block`/`Unblock`.
`Exit(woken)` is `up_exit` with `nxtask_exit`: the next task is made the head and
locked, the exit hook may wake one waiter (`pthread_join` or `waitpid`; one is
the bound), then the pending list is merged.

**Semaphore.** `pc` says where in a kernel call a task is. A task switched out
inside `nxsem_wait` resumes with interrupts disabled, so `Interruptible` is false
until it has left the call: that is what makes "timeout after the post, before
the waiter ran" impossible in the code, and the model has it too. `nxsem_timedwait`
and `nxsem_tickwait` differ in one place, after a failed wait, and are kept apart
(`"timed"`, `"tick"`). Deletion is two steps (`Terminate`, `ExitHook`) because
`nxtask_terminate` leaves its critical section between them. `Wdog` has the detail
of watchdogs; here `waitdog` is the pointer in the TCB together with what it points
to, none / created / active / stale, and `wdnfree` counts the free ones of the pool.
A timed wait creates its watchdog and stores the pointer in two steps (`CreateDog`,
`StoreDog`), and deletes it and clears the pointer in two steps (`DeleteDog`,
`ForgetDog`), because no critical section holds them together: `wd_recover`, called
for a task that is deleted or restarted in the first gap, does not see the watchdog
(`leaked` counts it), and in the second gap deletes it again (`corrupt`). What a free
list does that holds a structure twice is not followed node by node: from then on
`wdnfree` is frozen, a watchdog may expire for any task, and an active one may be
cancelled by its other user (`OtherUserCancels`). `CreateDog` leaves out a failing
`wd_create`, which changes nothing, and the watchdogs from the heap. `Destroy` is one
step although `sem_destroy.c` tests and sets the count unprotected: it is called when
nobody else uses the semaphore.

**Wdog.** The list with its lags, the flag, the free list, the counter and the
place of the timer interrupt: outside, in the loop, or inside a watchdog
function. Inside a function any watchdog may be started, cancelled, created or
deleted, the expiring one too. A task that finds only the reserve leaves the
critical section and calls `kmm_malloc` later: two steps.

**PthreadMutex.** The mutex functions run under `sched_lock`, so one call is one
step up to the point where it blocks; the rest of the call after the wake-up is
another step, and other threads may run in between. Which waiter is woken is
left open (a superset of the priority order). `owns`, `dirty` and `spoiled` are
auxiliary: what callers were told, whether a dead owner's data was repaired, and
whether finding 2 has happened to a mutex (nothing is claimed of it then).
Relocking one's own mutex blocks for good, as the documentation says, and is left
out; so are `pthread_mutex_destroy` and `pthread_cancel`. The timeout of a timed
lock is a signal with another error code. Thread ids are not reused.

**PthreadCond.** The calls on the condition are split wherever an interrupt or,
where the code has pre-emption enabled, another thread can come in. `locker`
names the thread inside a stretch under `sched_lock` of more than one step.
`pthread_condtimedout` sends a signal, and a timed wait takes every signal for
its timeout, so that both are `CondSignalled`. `pthread_cond_wait` retries after
a signal and thereby leaves the semaphore until it runs. The mutex is retaken in
three steps: `pthread_mutex_take` gets the semaphore and lists the mutex (`Taken`,
`Reacquired`) and leaves its `sched_lock`; then `SetPid` and `SetFlags` write owner
and saved flags back, with pre-emption enabled in `pthread_cond_wait`, so that other
threads come in between; `pthread_cond_timedwait` has a `sched_lock` of its own
around them (`locker`). The steps of `PthreadMutex` are taken over unchanged by
`MutexCall`.

**MsgQueue.** As in `Semaphore`, `pc` is the place in a call and a task that was
switched out returns with interrupts disabled. Steps are cut where the code
leaves a critical section, because interrupts send too: between the check and
the insertion of `nxmq_send`, between the copy and the removal of a notification,
between the test of `nwaitnotfull` and the look-up of the waiter. `WakeFirst`
sets `fault` where the code would follow a null pointer, and nothing happens
after that. `arrived`, `from` and `cut` are auxiliary: arrival order, who sent a
message, and which queues a task was deleted or restarted on in the middle of a
call. Opening, closing and unlinking are left out; payloads are too. Here creating a
watchdog and storing its pointer are one step, and so are deleting and clearing
(`mq_timedreceive.c:168` and `259-260`, `mq_timedsend.c` the same): the two gaps are
the ones that `Semaphore` has, and no property of queues speaks of the watchdog pool.
`Restart` removes and activates the task in one step, though `task_restart.c:199-203`
leaves the critical section in between.

**WorkQueue.** One step per critical section: `QueueWork` (`work_qqueue`),
`PickWorker` and `Kill` (`work_signal`), `Cancel`, and `work_process` cut at the
callback and at its two waits. The walk through the queue is one step, as it
holds the critical section: `FirstReady` is where it ends, `NextDue` the smallest
remaining delay it has met. Absolute times become what is left of each delay,
and `Tick` is the only way time passes. The product `next * USEC_PER_TICK` keeps
the width of a `useconds_t` (`UsecRange`). The branch for work nullified before it
is removed cannot be taken, since `work_cancel` removes it in the same critical
section. The number of workers is a constant; this build has one, and the run
with two contains it, because a worker may stay in a callback. `PickWorker` reads the
busy flags in one step, `kwork_signal.c:87-97` one after the other; with the one
worker of this build that is the same. `WORK_DELAY_MAX` is `MaxDelay + 1`: a client
that queues work with a delay of `UINT32_MAX`, which the worker takes for "no work"
and waits for indefinitely, is left out.

## Runs

| Run | Instance | Distinct states | Result |
|---|---|---|---|
| `sched_lists` | 3 tasks and idle, 2 priorities, one level of lock, two kinds of wait | 143,004 (up to symmetry) | passes |
| `round_robin` | 2 tasks and idle, slices of 2 ticks, 2 locks | 3,341 | passes |
| `sem_units` | 3 tasks that may be restarted, one of them with timed waits, 1 semaphore, `SEM_VALUE_MAX` 1 | 346,267 (up to symmetry) | passes |
| `sem_faults` | 2 tasks that may be deleted and restarted, 1 semaphore, 1 watchdog between them, fairness | 71,542 | passes |
| `sem_lost` | 2 tasks that may be deleted, 1 semaphore | | violated: finding 1 |
| `wdog` | 2 pool watchdogs, 1 from the heap, reserve 1, delays 0..3 | 14,899 | passes |
| `pthread_sync` | 3 threads that may all exit, 1 mutex, 1 condition | 245,565 (up to symmetry) | passes |
| `mutex_repair` | 3 threads, one may exit | | violated: finding 2 |
| `mq_waits` | 3 tasks and an interrupt handler, a queue of 2 messages | 1,286,534 (up to symmetry) | passes |
| `mq_faults` | 2 tasks, one deleted and restarted, 2 message priorities, pool of 1, failing allocations | 1,560,336 | passes |
| `mq_race` | 2 tasks, a queue of 1 message | | violated: finding 3 |
| `wqueue` | 2 clients, 2 works, 2 workers, delays 0..2, fairness | 197,678 | passes |

What they check.

- `sched_lists`: `TypeOK`; `ListsAgree` (a task is on exactly the list its
  `task_state` names); `ListsSorted`; `PendingOnlyWhileLocked`;
  `HighestPriorityRuns` (with pre-emption enabled nobody runnable has a higher
  priority than the running task; idle is always last); `FifoAmongEquals`, an
  action property: no step reorders two runnable tasks of one priority.
- `round_robin`: `TopPriorityServed`, liveness.
- `sem_units`: `CountMatchesWaiters` (a negative count is minus the number of
  blocked tasks); `HighestWaiterFirst`; `ImplementsAbstractSem`, the refinement of
  `AbstractSem` in which a unit is never lost or doubled by any of the five ways
  a wait can end.
- `sem_faults`: what deletion and restart in any place of a call leave behind:
  `WaitsemAgrees`; `NoStrayTimeout`; `DogsConserved` (every watchdog of the pool is
  free, held by one timed wait, or leaked in the first gap, until one is deleted
  twice in the second); `TimedWaitEnds`, liveness.
- `wdog`: `PoolAgrees`, `InterruptEnds` (liveness) and `ImplementsTimers`, the
  refinement of `AbstractTimer`: whatever is inserted or cancelled in the middle
  of the delta list, each watchdog fires in exactly the tick it is due.
- `pthread_sync`: `OneOwner` and `NeverLost` with signals, failing locks, unlocks
  by non-owners and deaths, also between the steps in which a condition wait takes
  its mutex back; `NoUseWhileInconsistent`; `SignalSeesWaiters` (no
  signal is lost between giving up the mutex and waiting), `BroadcastWakesAll`,
  `WaitReturnsWithMutex`.
- `mq_waits`: `WaitCountsAgree`; `NoReceiverLeftBehind` and `NoSenderLeftBehind`
  (no wake-up is lost, although a woken task may find the message or the room
  taken); `LimitKept`. `mq_faults`: the counts again under restart,
  `PoolConserved`, and `ImplementsMailbox`, the refinement of `AbstractMq`.
- `wqueue`: `QueueIntact`; `WorkerWillLook` (when worker 0 waits, each queued work
  is covered by a signal on its way or by its timer), `QueuedWorkRuns`, liveness.

Every property of a passing run is also checked against a *seeded fault*: an
operator next to the one it replaces, named in `PROJECT.json` under "mutants",
that changes it as a slip in the C code would; TLC finds the property violated.

### Bounds and why they are enough

- Tasks: three tasks and idle give a running task, a pending or ready one and a
  third to be merged before, between or behind them, at two priorities (so that
  there are equals). Two tasks are enough where the question is about one wait
  and its interferer.
- `MaxLock` bounds the nesting of `sched_lock`: nesting only counts, the
  transition between zero and non-zero is what matters. `LockBudget` bounds the
  number of lock calls in `RoundRobin`: a task that locks again and again for ever
  keeps its lock from being fairly released.
- `RRTicks` is 1 or 2 (20 in this build): zero, last and not-last tick.
- `SemMax` 1 or 2 makes `EOVERFLOW` reachable; `CountFloor` bounds how negative a
  count may go and exceeds what the number of tasks can reach, except with
  deletions, where a leaked count (finding 1) would let it fall for ever. `WaitCap`
  does the same for the waiter counts of message queues.
- `MaxDelay` 3 with three watchdogs lets a new one be put before, between and
  behind others, with equal deadlines too.
- `MaxMsgs` 2 with three tasks has two tasks asleep on the same side of a queue
  that is neither empty nor full; `MaxLen` bounds what interrupt handlers, which
  do not look at `maxmsgs`, add. `Prealloc` 1 exhausts the pool at once.
- Three threads on a condition are a waiter, one that signals or holds the mutex,
  and one that interferes; the run also passed with four threads, one of them
  mortal (9.8 million states), and is kept smaller for its time.
- Delays up to 2, with 3 microseconds per tick and a `useconds_t` of 4 values,
  let the sleep wrap to a shorter one, and the double count of a pass reach zero.
- In `sem_units` nobody is deleted: `CountMatchesWaiters` does not survive it
  (finding 1), and `sem_faults` checks the rest under deletion. For the same
  reason `WaitCountsAgree` says nothing of a queue after a waiter was deleted on
  it, `PoolConserved` nothing after a task was cut short in a call, `OneOwner`,
  `NeverLost`, `NoUseWhileInconsistent` and all of `WaitReturnsWithMutex` but that the
  thread has the mutex nothing of a mutex after finding 2, and `NoStrayTimeout`,
  `DogsConserved` and `TimedWaitEnds` nothing after a watchdog was deleted twice. `NoSenderLeftBehind` is
  checked where allocation succeeds; the interrupt pool of `mq_faults` is empty, and
  `PoolConserved` of a larger one is left to the theorem. `Terminate` of a task that is
  itself inside `nxtask_terminate` is left out.
- Delays above `INT32_MAX` ticks, which `wd_start` refuses and `nxsem_tickwait` then
  waits without, are outside the model, `TimedWaitEnds` included.
- `TimedTasks` names the tasks that make timed waits. In `sem_units` it is one task,
  so that all three can be restarted anywhere; the same properties also passed with
  timed waits of all three tasks and no restarts (1,135,173 states). One watchdog for
  the two tasks of `sem_faults` is enough to leak it, to delete it twice, and to have
  the other task take it in between. A task that finds no free watchdog makes no timed
  wait: the ones from the heap are in `Wdog`.
- Symmetry is over interchangeable tasks or threads only (in the
  semaphore runs one task starts with a higher priority and is kept out); no
  liveness run uses it.
- `pthread_sync` switches deadlock checking off because all threads may have
  exited. No other passing run does.

### Fairness

- `RoundRobin`: weak fairness of the timer interrupt, which the hardware keeps
  raising, and of `sched_unlock`: a task that disabled pre-emption goes on to
  enable it. Nothing is assumed of blocking, waking or creation.
- `Semaphore`: weak fairness of the two ways out of a wait (a running task goes
  on), and strong fairness of `Timeout`: an active watchdog's interrupt is taken
  when interrupts are enabled, and they are disabled only inside critical
  sections, again and again; the interrupt stays pending in the controller.
- `Wdog`: weak fairness of the steps of the interrupt handler. The functions it
  calls return.
- `WorkQueue`: weak fairness of the tick, of each worker (the kernel thread of the
  highest priority, whose callbacks return) and of a client that has queued work
  and is about to signal. Nothing is assumed of queueing or cancelling.

## Findings

1. **A deleted waiter takes a count with it** (`sem_lost`). `nxtask_terminate` sets
   `task_state` to `INVALID` before the exit hook, and `nxsem_recover` tests
   `task_state == TSTATE_WAIT_SEM`, which its comment says "should be preserved".
   The count stays one too low and a later post is swallowed. `task_restart` calls
   `nxtask_recover` first and is right. `nxmq_recover` has the same test.
2. **Repairing a mutex can make a second unit** (`mutex_repair`). If the waiter
   woken by the owner's death has not run yet when another thread calls
   `pthread_mutex_consistent`, `nxsem_reset(sem, 1)` adds a unit to the one handed
   out; the woken thread finds no flag and owns the mutex, and so does the next.
3. **A receive can look for a sender that has just timed out** (`mq_race`).
   `nxmq_do_receive` tests `nwaitnotfull` before it enters the critical section in
   which it searches the waiter and asserts that there is one. A timeout or a
   signal in between takes the last waiter away; with assertions off a null
   pointer is written through.
Seen while modelling, and not the subject of a run:

- A watchdog can be deleted twice. `nxsem_timedwait` and `nxsem_tickwait` end with
  `wd_delete(rtcb->waitdog)` and `rtcb->waitdog = NULL` outside their critical section.
  A task that is deleted or restarted between the two has its watchdog deleted again by
  `wd_recover`: it is on the free list twice, or taken from the task that has it by then,
  and `g_wdnfree` may exceed the pool, which `wd_delete` asserts it does not. A task that
  ends between `wd_create` and the store of its result leaks the watchdog. The comment of
  `wd_recover` admits "lots of race conditions"; the model takes both steps.
- `sched_yield`, and lowering one's own priority, give the CPU to an equal although
  the caller has disabled pre-emption, against the comment of `sched_lock`.
- `pthread_mutex_lock` returns `EINTR`, which its comment excludes: it passes
  `intr = true`. MicroPython's `MP_THREAD_GIL_ENTER` ignores the result.
- `nxmq_wait_send` and `nxmq_wait_receive` may block a second time after their
  watchdog has expired: the call then has no timeout.
- After finding 2 another owner can run, and die, between the take and the write-back
  in `pthread_cond_wait`: the saved flags then erase the `INCONSISTENT` flag.
- A sender that was woken and gets no memory (`nxmq_send`) passes the wake-up to
  nobody; another sender goes on sleeping although there is room.
- A notification may be sent twice, by a sender and by an interrupt handler that
  came between its copy and its removal of `ntpid`; and a task that registers on
  a queue with messages is notified by the next one.
- `mq_notify` with a null descriptor calls `sched_unlock` without `sched_lock`.
- A thread that a signal takes off a condition's semaphore misses signals and
  broadcasts until it runs and waits again. `pthread_cond_timedwait` returns
  `ETIMEDOUT` without the mutex when its owner died meanwhile, and leaves the
  scheduler locked when the time is invalid.
- `work_cancel` of a work whose callback is running returns `-ENOENT` at once: the
  caller cannot tell it from work that was never queued. With more than one
  worker a work requeued from its callback may run twice at the same time.

## Proofs

TLC checks the instances above; the theorems hold for every set of tasks,
threads, semaphores, mutexes, queues, watchdogs and works, and every value of the
numbers.

| Module | Theorem | States |
|---|---|---|
| `SchedulerProofs` | `TypeCorrect`, `ListsAlwaysAgree`, `NobodyLeftPending` | `TypeOK`, `ListsAgree`, `PendingOnlyWhileLocked` |
| | `ListsAlwaysSorted`, `HighestPriorityAlwaysRuns` | `ListsSorted`, `HighestPriorityRuns` |
| | `EqualsAlwaysFifo` | the action property `FifoAmongEquals` |
| `SemaphoreProofs` | `TypeCorrect`, `WaitsemAlwaysAgrees`, `NeverStrayTimeout`, `DogsAlwaysConserved` | `TypeOK` and the invariants of `sem_faults` |
| | `CountAlwaysMatches`, `HighestWaiterAlwaysFirst` (no deletion) | `CountMatchesWaiters`, `HighestWaiterFirst` |
| | `SemaphoreRefinesAbstract` (no deletion) | `Semaphore` implements `AbstractSem` |
| `WdogProofs` | `TypeCorrect`, `PoolAlwaysAgrees` | `TypeOK`, `PoolAgrees` |
| | `WatchdogsAreTimers` | `Wdog` implements `AbstractTimer` |
| `PthreadProofs` | `OneOwnerAlways`, `NeverLostAlways`, `NeverUsedWhileInconsistent` | `OneOwner`, `NeverLost`, `NoUseWhileInconsistent` |
| | `SignalAlwaysSeesWaiters`, `BroadcastAlwaysWakesAll`, `WaitAlwaysReturnsWithMutex` | the properties of conditions |
| | `CondTypesAlways` | `CondTypeOK`, with the bounds of the counts |
| `WorkQueueProofs` | `TypeCorrect`, `QueueAlwaysIntact`, `WorkerAlwaysLooks` | `TypeOK`, `QueueIntact`, `WorkerWillLook` |
| `MsgQueueProofs` | `TypesAlways`, `CountsAgree`, `LimitAlways`, `PoolAlways` | `TypeOK`, `WaitCountsAgree`, `LimitKept`, `PoolConserved` |
| | `ReceiversServed`, `SendersServed` (`~MallocFails`) | `NoReceiverLeftBehind`, `NoSenderLeftBehind` |
| | `QueuesAreMailboxes` | `MsgQueue` implements `AbstractMq` |

**Assumptions.** They are the named `ASSUME`s of the models, which TLC evaluates in
every run: idle is a task; there is at least one priority, one tick in a slice, one
level of lock, one worker; delays, floors and reserves are natural numbers; tasks,
threads and watchdogs are finitely many; and a null pointer (`None`, `Off`) is no
task, queue, semaphore, mutex or number. Three theorems about semaphores assume
`Deletable = {}` in their statement: with deletion `CountMatchesWaiters` is false,
as `sem_lost` shows, and so are the two that rest on it. Signals, timeouts and
resets are not restricted. `SendersServed` assumes `~MallocFails`, as the run
`mq_waits` sets it: a woken sender that gets no memory gives up, and the place it
was woken for stays free while others wait. The properties of mutexes except one that
finding 2 has spoiled, and those of watchdogs a pool that a double deletion has corrupted, in
the property itself.

**Scheduler.** None of the invariants is inductive alone. `ListsAgree` needs the
types, and needs that idle is on `g_readytorun`: the code takes `rtcb->flink` of the
running task for granted when it blocks or exits (`nxsched_remove_readytorun`), so
the list must have a second element whenever the running task is not idle. That
idle is never removed needs that its policy stays FIFO, since a round-robin tick
would reprioritise it. `PendingOnlyWhileLocked` needs `ListsAgree`, because the
tasks merged must be the pending ones. So

    Safe(s)    == Core(s) /\ PendingNeedsLock(s)
    Core(s)    == s in SchedState /\ Placed(s) /\ idle on s.rtr /\ policy of idle is FIFO
    Ordered(s) == Sorted(s) /\ Ranked(s)

`Ordered` is proved on top of `Safe`. `Ranked` says that idle alone has priority 0;
without it a task could be sorted behind idle and never run.
`HighestPriorityRuns` then follows: the head of a sorted ready list is its highest,
and without a lock nobody is pending. The argument has three layers. `ListLemmas`:
inserting at a position and removing keep a list a sequence without repetition
and change its members by exactly one. `NxSchedLemmas`: each operator of `NxSched`
preserves `Core` and `Ordered`, and which ones leave the pending list empty or
untouched. `SchedulerProofs`: one step per action. The one loop of the code, the
merge, is a recursive function on `0..Len(pend)`, handled by the invariant of its
rounds, which for the order says that the place where the next search starts is
behind everybody more urgent than the rest of the pending list.

`FifoAmongEquals` speaks of steps, and every step is a composition of the same few
list operators. So the argument is one lemma per operator about `Ahead`: removing a
third task, inserting one, merging and switching keep who is in front of whom, and
`nxsched_add_readytorun` puts a task behind its equals on `g_readytorun`. That last
one and the merge need `Ordered`: in a sorted list all equals are in front of the
place of insertion, a task no more urgent than the head never goes to
`g_pendingtasks`, and the search of the merge goes on behind the task inserted last
only because the pending tasks come in descending order.

**Semaphore.** `SemInv` speaks of the record `Kernel` that `nxsem_post`,
`nxsem_wait_irq` and the others map to its successor: `Safe` and `Ordered` of its
scheduler, the agreement of `waitsem` with `task_state` but for tasks that are being
deleted, and `Counted`. Under deletion `Counted` is only an inequality (a count with
n tasks blocked is at most -n); it still guarantees that `nxsem_post` finds a waiter
when the count says so. Without deletion it is the equality that
`CountMatchesWaiters` states. `HighestWaiterFirst` uses that the list of waiters is
sorted and that the post takes the first of the semaphore's. For the refinement,
`AbstractSem` has the units `max(count, 0)` and the sets of waiters; every action
is shown to take, give, hand over or drop one unit, or to leave both alone.

Two more conjuncts are about the watchdogs. `DogPointer` says what `tcb->waitdog` is
at each place of a call: a watchdog from the store to `wd_delete`, a deleted one until
it is cleared, nothing elsewhere. `NoStrayTimeout` needs it, since a plain wait is a
place without a watchdog. `PoolInv` is `DogsConserved` with its types; `wd_recover`
preserves it because, by `DogPointer`, the pointer it finds tells whether the task holds
a watchdog, has just created one (`leaked`), or has just deleted one (`corrupt`).

**Wdog.** `WdInv` says that list, flags, free list and counter agree. The refinement
needs the meaning of the lags: `Left(w)` gives every watchdog the sum of the lags up
to its place, as `wd_gettime` adds them, and each list operation is characterised
by it alone. Taking a watchdog out of the list leaves the `Left` of all others
(its lag goes to its successor), inserting one gives it its delay and changes no
other, a tick takes one from each, and the head is one with the least. The sums
are a recursive function; the facts about it are proved by induction on its
domain. `Within` and `Positive` bound the sums, so that outside the interrupt no
watchdog is overdue.

**PthreadMutex, PthreadCond.** `CondInv` accounts for the one unit of a mutex that
is not spoiled: it is in the semaphore, with a thread that was handed it and has
not run, with the owner on record, or lost with a dead owner while the flag is set.
A thread that has retaken the mutex after a wait and not yet written its pid has the
unit too: `Recorded` says that a thread with a mutex on its list is on record as its
owner or is about to write its pid, so that, the unit being one, pid and flags are
written back as they were left.
For the condition it says that the count is minus the number of waiters when
negative, where the thread that has disabled pre-emption can be, and that a
broadcast has a post left for each waiter; signals and timeouts that end waits
meanwhile only make it post too often. The upper bounds in `CondTypeOK` need
`BoundInv` besides. A repair may add a unit to a mutex that has one already
(finding 2), so that the count of a mutex is not at most 1; but each unit comes from
a thread that had the mutex on its list, and the count and the threads that are
near the mutex (have it listed, or were handed a unit) are together at most one more
than the threads there are. For the condition, the count and the posts that signals
and the one broadcast under way have still to make are together at most twice the
number of threads.

**WorkQueue.** `TypeOK`, `QueueIntact` and `WorkerWillLook` are inductive together
with two facts: a worker that waits is not busy, so that `work_signal` finds it,
and a sleep in progress has a tick to go. The arithmetic lemmas show that the
product that wraps and the rounding to ticks never lengthen a sleep.

**MsgQueue.** Two invariants, the second on top of the first. `MqInv` says of the
record `Kernel` what `SemInv` says: lists and `task_state` agree, and a task on a
list of waiters is assigned a queue and counted in it; a count exceeds the tasks on
the list only for a queue whose waiter was deleted. It says of the calls where each
task can be: only the running task is between `sched_lock` and `sched_unlock`, all
others are in the loop of a wait or outside (`Parked`), and a task in the middle of a
deletion has its victim to itself (`Alone`). That part is what makes the steps of a
send or a receive add up. `MsgInv` says of the messages: every `msglist` is the
stable sort of what arrived (`StablySorted`: there is a permutation from the list to the
arrivals that keeps the order among equal priorities); a sender that found room
still has it when it inserts, some steps and interrupts later (`Claims`);
tasks' messages in a queue are at most `maxmsgs`; and free, held and queued messages
of a pool together are no more than the pool has, and exactly as many unless a task
was deleted or restarted holding one (`Accounted`). `LimitKept` and `PoolConserved`
are the last two; `TypeOK` needs `StablySorted` for the lengths; the refinement needs
`StablySorted`, because `nxmq_wait_receive` takes the head of the list and `AbstractMq` the
oldest of the highest priority.

`WakeInv`, on top of both, is about lost wake-ups. For a queue somebody waits on it
compares the messages with the tasks on their way to take them or to wake one who
will, and the free places with the tasks on their way to fill them. A wait can also
end by a signal, a timeout or a reset, and a task that leaves that way takes nothing;
so only tasks woken with `errcode` OK count, and the invariant needs that `errcode` is
OK while a task waits (`Rested`). A task that is deleted while it is on its way leaves
its message behind; `Missed` says that the queue is marked as soon as the deletion
has begun, so that the property excepts it. With this, each step that adds a message
or frees a place is at a point of the call from which it goes on to wake somebody, and
each step that makes somebody wait has found the queue empty, or full.

**Only model-checked**: `TopPriorityServed`, `TimedWaitEnds`, `InterruptEnds` and
`QueuedWorkRuns`, which are liveness under fairness and out of the prover's reach,
and `MutualExclusion` and `WaiterIsFound`, which `mutex_repair` and `mq_race` refute.
Every invariant, action property and refinement of the passing runs is the property
of a theorem.

## Not modelled, and the plan

Worth modelling next, in this order:

1. `Signals`: masks, pending signals and handlers that run on an interrupted
   wait, composed with `Semaphore` (a handler that itself waits while the outer
   wait's watchdog is armed).
2. Task groups, `waitpid` and `PthreadJoin`: join records and their reference
   counts; detach racing join; the several steps of `pthread_cancel` against the
   hand-off window of a woken thread.
3. Opening, closing and unlinking of message queues (`fs/mqueue`), where the last
   close frees a queue that a thread may still wait on; the pid hash table; tick
   arithmetic at its width.
4. `Readline` and `MmHeap` as algorithms with reference definitions.

The thread port of MicroPython is not modelled: the call of `mp_thread_init` is
commented out in `micropython_main.c`, so that no thread is ever created through
it in this firmware.

Theorems about these modules will need `Safe` and `Ordered` of `NxSchedLemmas`, which
hold for every composition of the scheduler's operators, and the lemmas on the
order among equals in `SchedulerProofs`.

Left out for good: the MicroPython interpreter itself, file systems, drivers,
network and graphics, which are vendored or input and output.
