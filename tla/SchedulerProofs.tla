-------------------------- MODULE SchedulerProofs --------------------------
(***************************************************************************)
(* Scheduler, for every set of tasks, every number of priorities and every *)
(* length of a time slice.  The inductive invariant is Safe(sched): the    *)
(* state is typed, task_state agrees with the lists, the idle task is on   *)
(* g_readytorun, and tasks are pending only behind a locked task.  None of *)
(* these is inductive alone: the agreement makes dq_rem take a task off    *)
(* the list it is on, the idle task leaves someone to run when a task      *)
(* gives up the CPU, and the lock decides where a new task goes.           *)
(* On top of it, Ordered(sched): the lists are in descending priority and  *)
(* only the idle task has priority 0, so that nobody is sorted behind it.  *)
(* Both are needed for the order among equals, which is a property of the  *)
(* steps: insertion goes behind its equals only in a sorted list, and the  *)
(* merge keeps the pending order only if that list is sorted too.          *)
(***************************************************************************)
EXTENDS Scheduler, NxSchedLemmas

\* A freed TCB is on no list, so what becomes of its fields does not matter.
LEMMA ReleaseTcbSafe ==
  ASSUME NEW s, Safe(s), NEW t \in Task \ {Idle}, t # ThisTask(s)
  PROVE  Safe(ReleaseTcb(s, t))
<1>. DEFINE r == ReleaseTcb(s, t)
            p == [s.prio EXCEPT ![t] = 0]
            i == [s.init EXCEPT ![t] = 0]
            k == [s.lock EXCEPT ![t] = 0]
            f == [s.policy EXCEPT ![t] = "FIFO"]
            n == [s.slice EXCEPT ![t] = 0]
<1>1. /\ s \in SchedState /\ Core(s) /\ s.policy[Idle] = "FIFO"
      /\ s.prio \in [Task -> 0..MaxPrio] /\ s.init \in [Task -> 0..MaxPrio]
      /\ s.lock \in [Task -> Nat] /\ s.policy \in [Task -> Policy]
      /\ s.slice \in [Task -> 0..RRTicks]
  BY DEF Safe, Core, SchedState
<1>2. 0 \in 0..MaxPrio /\ 0 \in 0..RRTicks
  BY MaxPrioPositive, RRTicksPositive
<1>3. p \in [Task -> 0..MaxPrio] /\ i \in [Task -> 0..MaxPrio]
  BY <1>1, <1>2
<1>4. k \in [Task -> Nat] /\ (\A x \in Task : x # t => k[x] = s.lock[x])
  BY <1>1
<1>5. f \in [Task -> Policy] /\ f[Idle] = "FIFO"
  BY <1>1, IdleIsTask DEF Policy
<1>6. n \in [Task -> 0..RRTicks]
  BY <1>1, <1>2
<1>7. r = [s EXCEPT !.prio = p, !.init = i, !.lock = k, !.policy = f, !.slice = n]
  BY DEF ReleaseTcb
<1>. HIDE DEF r, p, i, k, f, n
<1>8. /\ r \in SchedState /\ r.rtr = s.rtr /\ r.pend = s.pend /\ r.blk = s.blk
      /\ r.tstate = s.tstate /\ r.lock = k /\ r.policy = f
  BY <1>1, <1>3, <1>4, <1>5, <1>6, <1>7 DEF SchedState
<1>9. Core(r) /\ ThisTask(r) = ThisTask(s)
  BY <1>1, <1>5, <1>8, CoreFrame
<1>10. ThisTask(s) \in Task
  BY <1>1, CoreFacts
<1>11. PendingNeedsLock(r)
  BY <1>4, <1>8, <1>9, <1>10 DEF Safe, PendingNeedsLock
<1>. QED  BY <1>9, <1>11 DEF Safe, r

\* Nor does its priority.
LEMMA ReleaseTcbOrdered ==
  ASSUME NEW s, Core(s), Ordered(s), NEW t \in Task \ {Idle}, s.tstate[t] = "INVALID"
  PROVE  Ordered(ReleaseTcb(s, t))
<1>. DEFINE r == ReleaseTcb(s, t)
<1>1. /\ r.rtr = s.rtr /\ r.pend = s.pend /\ r.blk = s.blk /\ r.tstate = s.tstate
      /\ r.prio = [s.prio EXCEPT ![t] = 0] /\ r.init = [s.init EXCEPT ![t] = 0]
      /\ s.prio \in [Task -> 0..MaxPrio] /\ s.init \in [Task -> 0..MaxPrio]
  BY DEF Core, SchedState, ReleaseTcb
<1>. HIDE DEF r
<1>2. \A x \in Task : x # t => r.prio[x] = s.prio[x] /\ r.init[x] = s.init[x]
  BY <1>1
<1>. QED  BY <1>1, <1>2, FreePrioOrdered DEF r

\* nxtask_exit, whoever its exit hook wakes: the next task is locked while the
\* hook runs, and whoever became pending meanwhile is merged before it starts.
LEMMA ExitTaskSafe ==
  ASSUME NEW s, Safe(s), ThisTask(s) # Idle, NEW woken \in SUBSET Task,
         \A w \in woken : s.tstate[w] = "WAIT_SEM"
  PROVE  /\ Safe(ExitTask(s, woken))
         /\ Ordered(s) => Ordered(ExitTask(s, woken))
         /\ ExitTask(s, woken).tstate[ThisTask(s)] = "INVALID"
<1>. DEFINE me == ThisTask(s)
            removed == RemoveReadyToRun(s, me)
            next == ThisTask(removed)
            resumed == ResumeScheduler(removed)
            k == [resumed.lock EXCEPT ![next] = @ + 1]
            held == [resumed EXCEPT !.lock = k]
            w == CHOOSE x \in woken : TRUE
            hooked == IF woken = {} THEN held ELSE AddReadyToRun(RemoveBlocked(held, w), w)
            d == [hooked.lock EXCEPT ![next] = @ - 1]
            freed == [hooked EXCEPT !.lock = d]
            merged == MergeIfPending(freed)
<1>1. Core(s) /\ me \in Task \ {Idle} /\ OnList(s.rtr, me) /\ s \in SchedState
  BY CoreFacts DEF Safe, Core
<1>2. ExitTask(s, woken) = ReleaseTcb(merged, me)
  BY DEF ExitTask
<1>. HIDE DEF me
<1>3. /\ Core(removed) /\ removed.tstate[me] = "INVALID"
      /\ removed = [s EXCEPT !.rtr = removed.rtr, !.tstate = removed.tstate]
      /\ Ordered(s) => Ordered(removed)
  BY <1>1, RemoveReadyToRunCore, RemoveReadyToRunOrdered
<1>. HIDE DEF removed
<1>4. removed.blk = s.blk
  BY <1>1, <1>3 DEF SchedState
<1>5. Core(resumed) /\ ThisTask(resumed) = next /\ resumed.tstate = removed.tstate
      /\ resumed.lock = removed.lock /\ (Ordered(s) => Ordered(resumed))
  <2>0. Ordered(s) => Ordered(resumed)
    BY <1>3, SwitchFromOrdered
  <2>1. /\ resumed \in SchedState /\ resumed.rtr = removed.rtr
        /\ resumed.pend = removed.pend /\ resumed.blk = removed.blk
        /\ resumed.tstate = removed.tstate /\ resumed.policy = removed.policy
        /\ resumed.lock = removed.lock
    BY <1>3, ResumeFrame
  <2>. HIDE DEF resumed
  <2>2. resumed.policy[Idle] = "FIFO"
    BY <1>3, <2>1 DEF Core
  <2>. QED  BY <1>3, <2>0, <2>1, <2>2, CoreFrame
<1>6. next \in Task /\ resumed.lock \in [Task -> Nat]
  BY <1>3, <1>5, CoreFacts DEF Core, SchedState
<1>. HIDE DEF next, resumed
<1>7. k \in [Task -> Nat] /\ k[next] > 0
  BY <1>6
<1>. HIDE DEF k
<1>8. /\ Core(held) /\ ThisTask(held) = next /\ held.lock = k
      /\ held.tstate = resumed.tstate
      /\ held.rtr = resumed.rtr /\ held.pend = resumed.pend /\ held.blk = resumed.blk
      /\ held.prio = resumed.prio /\ held.init = resumed.init
  <2>1. Core(held) /\ ThisTask(held) = next
    BY <1>5, <1>7, LockFrame
  <2>2. /\ held.lock = k /\ held.tstate = resumed.tstate
        /\ held.rtr = resumed.rtr /\ held.pend = resumed.pend /\ held.blk = resumed.blk
        /\ held.prio = resumed.prio /\ held.init = resumed.init
    BY <1>5 DEF Core, SchedState
  <2>. QED  BY <2>1, <2>2
<1>. HIDE DEF held
<1>8a. Ordered(s) => Ordered(held)
  BY <1>5, <1>8, OrderedFrame
<1>9. Safe(held) /\ held.tstate[me] = "INVALID"
  BY <1>3, <1>5, <1>7, <1>8 DEF Safe, PendingNeedsLock
<1>10. ASSUME woken # {}
       PROVE  w \in Task /\ held.tstate[w] = "WAIT_SEM" /\ w # me
  <2>1. w \in woken /\ w \in Task /\ s.tstate[w] = "WAIT_SEM"
    BY <1>10
  <2>. HIDE DEF w
  <2>2. PlacedAt(s, w) /\ PlacedAt(removed, w) /\ "WAIT_SEM" \in BlockedState
    BY <1>1, <1>3, <2>1, CoreParts DEF BlockedState, WaitState
  <2>3. removed.tstate[w] = "WAIT_SEM"
    BY <1>4, <2>1, <2>2 DEF PlacedAt
  <2>. QED  BY <1>3, <1>5, <1>8, <2>1, <2>3
<1>. HIDE DEF w
<1>11. Safe(hooked) /\ ThisTask(hooked) = next /\ hooked.lock = k /\ hooked.tstate[me] = "INVALID"
       /\ (Ordered(s) => Ordered(hooked))
  <2>1. CASE woken = {}
    BY <1>8, <1>8a, <1>9, <2>1
  <2>2. CASE woken # {}
    <3>. DEFINE off == RemoveBlocked(held, w)
                on == AddReadyToRun(off, w)
    <3>1. w \in Task /\ held.tstate[w] \in BlockedState /\ w # me /\ me \in Task
      BY <1>1, <1>10, <2>2 DEF BlockedState, WaitState
    <3>2. /\ Safe(off) /\ off.tstate[w] = "INVALID" /\ ThisTask(off) = next /\ off.lock = k
          /\ off.prio = held.prio /\ off.init = held.init
      BY <1>8, <1>9, <3>1, RemoveBlockedSafe
    <3>3. off.tstate[me] = "INVALID"
      BY <1>8, <1>9, <3>1, StaysInvalid
    <3>3a. Ordered(s) => Ordered(off)
      BY <1>8a, <1>9, <3>1, RemoveBlockedOrdered DEF Safe
    <3>. HIDE DEF off
    <3>3b. Ordered(s) => Ordered(on)
      <4>. SUFFICES ASSUME Ordered(s) PROVE Ordered(on)
        OBVIOUS
      <4>1. PlacedAt(held, w) /\ PlacedAt(held, Idle) /\ OnList(held.rtr, Idle)
        BY <1>9, <3>1, CoreParts, IdleIsTask DEF Safe
      <4>2. w # Idle /\ held.tstate[w] # "INVALID"
        BY <3>1, <4>1 DEF PlacedAt, BlockedState, WaitState
      <4>3. off.prio[w] > 0 /\ off.init[w] > 0
        BY <1>8a, <3>1, <3>2, <4>2 DEF Ordered, Ranked
      <4>. QED  BY <3>1, <3>2, <3>3a, <4>2, <4>3, AddReadyToRunOrdered DEF Safe
    <3>4. Safe(on)
      BY <3>1, <3>2, AddReadyToRunSafe
    <3>5. /\ ThisTask(on) = next \/ off.lock[next] = 0
          /\ on = [off EXCEPT !.rtr = on.rtr, !.pend = on.pend, !.tstate = on.tstate]
      BY <3>1, <3>2, AddReadyToRunCore DEF Safe
    <3>6. on.tstate[me] = "INVALID"
      BY <3>1, <3>2, <3>3, StaysInvalid DEF Safe
    <3>. HIDE DEF on
    <3>7. on.lock = k
      BY <3>2, <3>5 DEF Safe, Core, SchedState
    <3>8. ThisTask(on) = next
      BY <1>7, <3>2, <3>5
    <3>9. hooked = on
      BY <2>2 DEF on, off
    <3>. HIDE DEF hooked
    <3>. QED  BY <3>3b, <3>4, <3>6, <3>7, <3>8, <3>9
  <2>. QED  BY <2>1, <2>2
<1>. HIDE DEF hooked
<1>12. d \in [Task -> Nat]
  BY <1>6, <1>7, <1>11
<1>. HIDE DEF d
<1>13. /\ Core(freed) /\ freed.tstate = hooked.tstate
       /\ freed.rtr = hooked.rtr /\ freed.pend = hooked.pend /\ freed.blk = hooked.blk
       /\ freed.prio = hooked.prio /\ freed.init = hooked.init
  BY <1>11, <1>12, LockFrame DEF Safe, Core, SchedState
<1>. HIDE DEF freed
<1>13a. Ordered(s) => Ordered(freed)
  BY <1>11, <1>13, OrderedFrame
<1>14. Safe(merged) /\ (Ordered(s) => Ordered(merged))
  BY <1>13, <1>13a, MergeIfPendingSafe, MergePendingOrdered
<1>15. merged.tstate[me] = "INVALID"
  <2>1. Idle \in Task /\ Idle # me /\ me \in Task
    BY <1>1, IdleIsTask
  <2>. QED  BY <1>11, <1>13, <2>1, StaysInvalid
<1>. HIDE DEF merged
<1>16. me # ThisTask(merged)
  BY <1>1, <1>14, <1>15, CoreFacts DEF Safe
<1>17. ReleaseTcb(merged, me).tstate = merged.tstate
  BY <1>14 DEF ReleaseTcb, Safe, Core, SchedState
<1>18. ExitTask(s, woken).tstate[ThisTask(s)] = "INVALID"
  BY <1>2, <1>15, <1>17 DEF me
<1>. QED  BY <1>1, <1>2, <1>14, <1>15, <1>16, <1>18, ReleaseTcbSafe, ReleaseTcbOrdered DEF Safe

\* sched_setscheduler's change of the policy of a task other than idle.
LEMMA SetPolicySafe ==
  ASSUME Safe(sched), NEW t \in Task, NEW pol \in Policies, SetPolicy(t, pol)
  PROVE  Safe(sched')
<1>. DEFINE f == [sched.policy EXCEPT ![t] = pol]
            v == IF pol = "RR" THEN RRTicks ELSE 0
            n == [sched.slice EXCEPT ![t] = v]
<1>1. /\ sched \in SchedState /\ t # Idle /\ sched.policy[Idle] = "FIFO"
      /\ sched.policy \in [Task -> Policy] /\ sched.slice \in [Task -> 0..RRTicks]
  BY DEF Safe, Core, SchedState, SetPolicy
<1>2. pol \in Policy /\ v \in 0..RRTicks
  BY PoliciesAreKnown, RRTicksPositive
<1>3. sched' = [sched EXCEPT !.policy = f, !.slice = n]
  BY DEF SetPolicy
<1>. HIDE DEF v
<1>4. f \in [Task -> Policy] /\ f[Idle] = "FIFO" /\ n \in [Task -> 0..RRTicks]
  BY <1>1, <1>2, IdleIsTask
<1>. HIDE DEF f, n
<1>5. /\ sched' \in SchedState /\ sched'.rtr = sched.rtr /\ sched'.pend = sched.pend
      /\ sched'.blk = sched.blk /\ sched'.tstate = sched.tstate
      /\ sched'.lock = sched.lock /\ sched'.policy = f
  BY <1>1, <1>3, <1>4 DEF SchedState
<1>. QED  BY <1>4, <1>5, SafeFrame

\* nxthread_setup_scheduler of a fresh TCB.
LEMMA CreateSafe ==
  ASSUME Safe(sched), NEW t \in Task, NEW p \in Priority, NEW pol \in Policies,
         Create(t, p, pol)
  PROVE  Safe(sched')
<1>. DEFINE q == [sched.prio EXCEPT ![t] = p]
            i == [sched.init EXCEPT ![t] = p]
            k == [sched.lock EXCEPT ![t] = 0]
            f == [sched.policy EXCEPT ![t] = pol]
            v == IF pol = "RR" THEN RRTicks ELSE 0
            n == [sched.slice EXCEPT ![t] = v]
            ts == [sched.tstate EXCEPT ![t] = "INACTIVE"]
            list == AddFirst(sched.blk["INACTIVE"], t)
            b == [sched.blk EXCEPT !["INACTIVE"] = list]
<1>1. /\ sched \in SchedState /\ Core(sched) /\ sched.policy[Idle] = "FIFO"
      /\ sched.tstate[t] = "INVALID"
      /\ sched.prio \in [Task -> 0..MaxPrio] /\ sched.init \in [Task -> 0..MaxPrio]
      /\ sched.lock \in [Task -> Nat] /\ sched.policy \in [Task -> Policy]
      /\ sched.slice \in [Task -> 0..RRTicks] /\ sched.tstate \in [Task -> TState]
      /\ sched.blk \in [BlockedState -> Seq(Task)]
  BY DEF Safe, Core, SchedState, Create, Live
<1>2. pol \in Policy /\ v \in 0..RRTicks /\ p \in 0..MaxPrio
  BY PoliciesAreKnown, RRTicksPositive, MaxPrioPositive DEF Priority
<1>3. t # Idle
  <2>1. PlacedAt(sched, Idle) /\ OnList(sched.rtr, Idle)
    BY <1>1, CoreParts, IdleIsTask
  <2>. QED  BY <1>1, <2>1 DEF PlacedAt
<1>4. sched' = [sched EXCEPT !.prio = q, !.init = i, !.lock = k, !.policy = f,
                             !.slice = n, !.tstate = ts, !.blk = b]
  BY DEF Create
<1>. HIDE DEF v
<1>5. q \in [Task -> 0..MaxPrio] /\ i \in [Task -> 0..MaxPrio]
  BY <1>1, <1>2
<1>6. k \in [Task -> Nat] /\ \A x \in Task : x # t => k[x] = sched.lock[x]
  BY <1>1
<1>7. f \in [Task -> Policy] /\ f[Idle] = "FIFO" /\ n \in [Task -> 0..RRTicks]
  BY <1>1, <1>2, <1>3, IdleIsTask
<1>8. ts \in [Task -> TState]
  BY <1>1 DEF TState, BlockedState
<1>9. b \in [BlockedState -> Seq(Task)]
  <2>. DEFINE old == sched.blk["INACTIVE"]
  <2>1. "INACTIVE" \in BlockedState
    BY DEF BlockedState
  <2>2. old \in Seq(Task)
    BY <1>1, <2>1
  <2>. HIDE DEF old
  <2>3. AddFirst(old, t) \in Seq(Task)
    BY <2>2, InsertAtPosType DEF AddFirst
  <2>. QED  BY <1>1, <2>3 DEF old
<1>. HIDE DEF q, i, k, f, n, ts, b
<1>10. /\ sched' \in SchedState /\ sched'.rtr = sched.rtr /\ sched'.pend = sched.pend
       /\ sched'.blk = b /\ sched'.tstate = ts /\ sched'.lock = k /\ sched'.policy = f
  BY <1>1, <1>4, <1>5, <1>6, <1>7, <1>8, <1>9 DEF SchedState
<1>11. /\ sched'.blk = [sched.blk EXCEPT !["INACTIVE"] = AddFirst(sched.blk["INACTIVE"], t)]
       /\ sched'.tstate = [sched.tstate EXCEPT ![t] = "INACTIVE"]
       /\ sched'.policy[Idle] = "FIFO"
       /\ \A x \in Task : x # t => sched'.lock[x] = sched.lock[x]
  BY <1>6, <1>7, <1>10 DEF ts, b
<1>12. /\ sched.tstate[t] = "INVALID" /\ sched' \in SchedState
       /\ sched'.rtr = sched.rtr /\ sched'.pend = sched.pend
  BY <1>1, <1>10
<1>. QED  BY <1>11, <1>12, AddInactiveSafe

\* task_restart of another task, wherever that task was.
LEMMA RestartSafe ==
  ASSUME Safe(sched), NEW t \in Task, Restart(t)
  PROVE  Safe(sched')
<1>. DEFINE s == RemoveFromList(sched, t)
            q == [s.prio EXCEPT ![t] = s.init[t]]
            k == [s.lock EXCEPT ![t] = 0]
            ts == [s.tstate EXCEPT ![t] = "INACTIVE"]
            list == AddFirst(s.blk["INACTIVE"], t)
            b == [s.blk EXCEPT !["INACTIVE"] = list]
<1>1. t # Idle /\ t # ThisTask(sched) /\ sched.tstate[t] # "INVALID"
  BY DEF Restart, Live, self
<1>2. Safe(s) /\ s.tstate[t] = "INVALID"
  BY <1>1, RemoveFromListSafe
<1>3. sched' = [s EXCEPT !.prio = q, !.lock = k, !.tstate = ts, !.blk = b]
  BY DEF Restart
<1>. HIDE DEF s
<1>4. /\ s \in SchedState /\ s.policy[Idle] = "FIFO"
      /\ s.prio \in [Task -> 0..MaxPrio] /\ s.init \in [Task -> 0..MaxPrio]
      /\ s.lock \in [Task -> Nat] /\ s.tstate \in [Task -> TState]
      /\ s.blk \in [BlockedState -> Seq(Task)]
  BY <1>2 DEF Safe, Core, SchedState
<1>5. q \in [Task -> 0..MaxPrio]
  BY <1>4
<1>6. k \in [Task -> Nat] /\ \A x \in Task : x # t => k[x] = s.lock[x]
  BY <1>4
<1>7. ts \in [Task -> TState]
  BY <1>4 DEF TState, BlockedState
<1>8. b \in [BlockedState -> Seq(Task)]
  <2>. DEFINE old == s.blk["INACTIVE"]
  <2>1. "INACTIVE" \in BlockedState
    BY DEF BlockedState
  <2>2. old \in Seq(Task)
    BY <1>4, <2>1
  <2>. HIDE DEF old
  <2>3. AddFirst(old, t) \in Seq(Task)
    BY <2>2, InsertAtPosType DEF AddFirst
  <2>. QED  BY <1>4, <2>3 DEF old
<1>. HIDE DEF q, k, ts, b
<1>9. /\ sched' \in SchedState /\ sched'.rtr = s.rtr /\ sched'.pend = s.pend
      /\ sched'.blk = b /\ sched'.tstate = ts /\ sched'.lock = k
      /\ sched'.policy = s.policy
  BY <1>3, <1>4, <1>5, <1>6, <1>7, <1>8 DEF SchedState
<1>10. /\ sched'.blk = [s.blk EXCEPT !["INACTIVE"] = AddFirst(s.blk["INACTIVE"], t)]
       /\ sched'.tstate = [s.tstate EXCEPT ![t] = "INACTIVE"]
       /\ sched'.policy[Idle] = "FIFO"
       /\ \A x \in Task : x # t => sched'.lock[x] = s.lock[x]
  BY <1>4, <1>6, <1>9 DEF ts, b
<1>. QED  BY <1>2, <1>9, <1>10, AddInactiveSafe

\* Every critical section keeps the scheduler safe.
LEMMA NextSafe ==
  ASSUME Safe(sched), [Next]_vars
  PROVE  Safe(sched')
<1>0. /\ Core(sched) /\ self \in Task /\ sched.prio \in [Task -> 0..MaxPrio]
      /\ sched.tstate \in [Task -> TState] /\ sched.policy[Idle] = "FIFO"
  BY CoreFacts DEF Safe, Core, SchedState, self
<1>1. CASE SchedLock
  BY <1>1, LockOpSafe DEF SchedLock
<1>2. CASE SchedUnlock
  BY <1>2, UnlockOpSafe DEF SchedUnlock
<1>3. CASE Yield
  <2>1. self \in Task \ {Idle} /\ sched.prio[self] \in 0..MaxPrio
    BY <1>0, <1>3 DEF Yield
  <2>. QED  BY <1>3, <2>1, SetPrioritySafe DEF Yield
<1>4. CASE TimerTick
  <2>1. CASE sched.policy[self] = "RR"
    <3>1. ThisTask(sched) # Idle
      BY <1>0, <2>1 DEF self
    <3>. QED  BY <1>4, <2>1, <3>1, ProcessRoundRobinSafe DEF TimerTick
  <2>2. CASE sched.policy[self] # "RR"
    BY <1>4, <2>2 DEF TimerTick
  <2>. QED  BY <2>1, <2>2
<1>5. ASSUME NEW st \in Waits, Block(st) PROVE Safe(sched')
  <2>1. st \in BlockedState /\ ThisTask(sched) # Idle
    BY <1>5, WaitsAreStates DEF Block, BlockedState, self
  <2>. QED  BY <1>0, <1>5, <2>1, BlockTaskSafe DEF Block, self
<1>6. ASSUME NEW t \in Task, Activate(t) PROVE Safe(sched')
  <2>1. sched.tstate[t] \in BlockedState
    BY <1>6 DEF Activate, BlockedState
  <2>. QED  BY <1>6, <2>1, UnblockTaskSafe DEF Activate
<1>7. ASSUME NEW t \in Task, Unblock(t) PROVE Safe(sched')
  <2>1. sched.tstate[t] \in BlockedState
    BY <1>7 DEF Unblock, BlockedState
  <2>. QED  BY <1>7, <2>1, UnblockTaskSafe DEF Unblock
<1>8. ASSUME NEW t \in Task, Terminate(t) PROVE Safe(sched')
  <2>. DEFINE s == RemoveFromList(sched, t)
  <2>1. t \in Task \ {Idle} /\ t # ThisTask(sched) /\ sched.tstate[t] # "INVALID"
    BY <1>8 DEF Terminate, Live, self
  <2>2. Safe(s) /\ ThisTask(s) = ThisTask(sched)
    BY <2>1, RemoveFromListSafe
  <2>3. sched' = ReleaseTcb(s, t)
    BY <1>8 DEF Terminate
  <2>. HIDE DEF s
  <2>. QED  BY <2>1, <2>2, <2>3, ReleaseTcbSafe
<1>9. ASSUME NEW t \in Task, Restart(t) PROVE Safe(sched')
  BY <1>9, RestartSafe
<1>10. ASSUME NEW t \in Task, NEW p \in Priority, SetPriorityOf(t, p) PROVE Safe(sched')
  <2>1. t \in Task \ {Idle} /\ p \in 0..MaxPrio
    BY <1>10, MaxPrioPositive DEF SetPriorityOf, Priority
  <2>. QED  BY <1>10, <2>1, SetPrioritySafe DEF SetPriorityOf
<1>11. ASSUME NEW t \in Task, NEW pol \in Policies, SetPolicy(t, pol) PROVE Safe(sched')
  BY <1>11, SetPolicySafe
<1>12. ASSUME NEW t \in Task, NEW p \in Priority, NEW pol \in Policies, Create(t, p, pol)
       PROVE  Safe(sched')
  BY <1>12, CreateSafe
<1>13. ASSUME NEW woken \in {{}} \cup {{t} : t \in Task}, Exit(woken) PROVE Safe(sched')
  <2>1. woken \in SUBSET Task
    BY <1>13
  <2>. QED  BY <1>13, <2>1, ExitTaskSafe DEF Exit, self
<1>14. CASE UNCHANGED vars
  BY <1>14 DEF vars
<1>. QED  BY <1>1, <1>2, <1>3, <1>4, <1>5, <1>6, <1>7, <1>8, <1>9, <1>10, <1>11, <1>12,
             <1>13, <1>14 DEF Next

(***************************************************************************)
(* The order of the lists.                                                 *)
(***************************************************************************)
\* A change of policy changes no order.
LEMMA SetPolicyOrdered ==
  ASSUME Safe(sched), Ordered(sched), NEW t \in Task, NEW pol \in Policies, SetPolicy(t, pol)
  PROVE  Ordered(sched')
<1>1. /\ sched'.rtr = sched.rtr /\ sched'.pend = sched.pend /\ sched'.blk = sched.blk
      /\ sched'.tstate = sched.tstate /\ sched'.prio = sched.prio /\ sched'.init = sched.init
  BY DEF Safe, Core, SchedState, SetPolicy
<1>. QED  BY <1>1, OrderedFrame

\* nxthread_setup_scheduler of a fresh TCB.
LEMMA CreateOrdered ==
  ASSUME Safe(sched), Ordered(sched), NEW t \in Task, NEW p \in Priority, NEW pol \in Policies,
         Create(t, p, pol)
  PROVE  Ordered(sched')
<1>1. /\ sched \in SchedState /\ Core(sched) /\ sched.tstate[t] = "INVALID"
      /\ sched.prio \in [Task -> 0..MaxPrio] /\ sched.init \in [Task -> 0..MaxPrio]
  BY DEF Safe, Core, SchedState, Create, Live
<1>2. t # Idle
  <2>1. PlacedAt(sched, Idle) /\ OnList(sched.rtr, Idle)
    BY <1>1, CoreParts, IdleIsTask
  <2>. QED  BY <1>1, <2>1 DEF PlacedAt
<1>3. /\ sched'.rtr = sched.rtr /\ sched'.pend = sched.pend
      /\ sched'.blk = [sched.blk EXCEPT !["INACTIVE"] = AddFirst(sched.blk["INACTIVE"], t)]
      /\ sched'.tstate = [sched.tstate EXCEPT ![t] = "INACTIVE"]
      /\ sched'.prio = [sched.prio EXCEPT ![t] = p]
      /\ sched'.init = [sched.init EXCEPT ![t] = p]
  BY <1>1 DEF SchedState, Create
<1>4. /\ sched'.prio[t] = p /\ sched'.init[t] = p /\ p > 0
      /\ \A x \in Task : x # t => sched'.prio[x] = sched.prio[x] /\ sched'.init[x] = sched.init[x]
  BY <1>1, <1>3 DEF Priority
<1>. QED  BY <1>1, <1>2, <1>3, <1>4, AddInactiveOrdered

\* task_restart gives the task its first priority back while it is on no list.
LEMMA RestartOrdered ==
  ASSUME Safe(sched), Ordered(sched), NEW t \in Task, Restart(t)
  PROVE  Ordered(sched')
<1>. DEFINE s == RemoveFromList(sched, t)
<1>1. t \in Task \ {Idle} /\ t # ThisTask(sched) /\ sched.tstate[t] # "INVALID"
  BY DEF Restart, Live, self
<1>2. /\ Core(s) /\ s.tstate[t] = "INVALID" /\ Ordered(s) /\ s.init = sched.init
      /\ s.prio = sched.prio
  BY <1>1, RemoveFromListSafe, RemoveFromListOrdered DEF Safe
<1>3. sched' = [s EXCEPT !.prio[t] = s.init[t], !.lock[t] = 0, !.tstate[t] = "INACTIVE",
                         !.blk["INACTIVE"] = AddFirst(s.blk["INACTIVE"], t)]
  BY DEF Restart
<1>. HIDE DEF s
<1>4. s.init[t] > 0
  BY <1>1, <1>2 DEF Ordered, Ranked
<1>5. /\ sched'.rtr = s.rtr /\ sched'.pend = s.pend /\ sched'.init = s.init
      /\ sched'.blk = [s.blk EXCEPT !["INACTIVE"] = AddFirst(s.blk["INACTIVE"], t)]
      /\ sched'.tstate = [s.tstate EXCEPT ![t] = "INACTIVE"]
      /\ sched'.prio = [s.prio EXCEPT ![t] = s.init[t]]
      /\ s.prio \in [Task -> 0..MaxPrio]
  BY <1>2, <1>3 DEF Core, SchedState
<1>6. /\ sched'.prio[t] > 0 /\ sched'.init[t] > 0
      /\ \A x \in Task : x # t => sched'.prio[x] = s.prio[x] /\ sched'.init[x] = s.init[x]
  BY <1>1, <1>4, <1>5
<1>. QED  BY <1>1, <1>2, <1>5, <1>6, AddInactiveOrdered

\* Every critical section keeps the lists sorted.
LEMMA NextOrdered ==
  ASSUME Safe(sched), Ordered(sched), [Next]_vars
  PROVE  Ordered(sched')
<1>0. /\ Core(sched) /\ self \in Task /\ sched.prio \in [Task -> 0..MaxPrio]
      /\ sched.tstate[self] = "RUNNING" /\ sched.policy[Idle] = "FIFO"
  BY CoreFacts DEF Safe, Core, SchedState, self
<1>1. CASE SchedLock
  BY <1>0, <1>1, LockOpOrdered DEF SchedLock
<1>2. CASE SchedUnlock
  BY <1>0, <1>2, UnlockOpOrdered DEF SchedUnlock
<1>3. CASE Yield
  <2>1. self \in Task \ {Idle} /\ sched.prio[self] > 0 /\ sched.prio[self] \in 0..MaxPrio
    BY <1>0, <1>3 DEF Yield, Ordered, Ranked
  <2>2. sched.prio[self] \in 1..MaxPrio
    BY <2>1, MaxPrioPositive
  <2>. QED  BY <1>0, <1>3, <2>1, <2>2, SetPriorityOrdered DEF Yield
<1>4. CASE TimerTick
  <2>1. CASE sched.policy[self] = "RR"
    <3>1. ThisTask(sched) # Idle
      BY <1>0, <2>1 DEF self
    <3>. QED  BY <1>4, <2>1, <3>1, ProcessRoundRobinOrdered DEF TimerTick
  <2>2. CASE sched.policy[self] # "RR"
    BY <1>4, <2>2 DEF TimerTick
  <2>. QED  BY <2>1, <2>2
<1>5. ASSUME NEW st \in Waits, Block(st) PROVE Ordered(sched')
  <2>1. st \in BlockedState /\ ThisTask(sched) # Idle
    BY <1>5, WaitsAreStates DEF Block, BlockedState, self
  <2>. QED  BY <1>0, <1>5, <2>1, BlockTaskOrdered DEF Block, self
<1>6. ASSUME NEW t \in Task, Activate(t) \/ Unblock(t) PROVE Ordered(sched')
  <2>1. sched.tstate[t] \in BlockedState
    BY <1>6 DEF Activate, Unblock, BlockedState
  <2>. QED  BY <1>0, <1>6, <2>1, UnblockTaskOrdered DEF Activate, Unblock
<1>7. ASSUME NEW t \in Task, Terminate(t) PROVE Ordered(sched')
  <2>. DEFINE s == RemoveFromList(sched, t)
  <2>1. t \in Task \ {Idle} /\ t # ThisTask(sched) /\ sched.tstate[t] # "INVALID"
    BY <1>7 DEF Terminate, Live, self
  <2>2. Core(s) /\ Ordered(s) /\ s.tstate[t] = "INVALID"
    BY <1>0, <2>1, RemoveFromListSafe, RemoveFromListOrdered DEF Safe
  <2>3. sched' = ReleaseTcb(s, t)
    BY <1>7 DEF Terminate
  <2>. HIDE DEF s
  <2>. QED  BY <2>1, <2>2, <2>3, ReleaseTcbOrdered
<1>8. ASSUME NEW t \in Task, Restart(t) PROVE Ordered(sched')
  BY <1>8, RestartOrdered
<1>9. ASSUME NEW t \in Task, NEW p \in Priority, SetPriorityOf(t, p) PROVE Ordered(sched')
  <2>1. t \in Task \ {Idle} /\ p \in 1..MaxPrio
    BY <1>9 DEF SetPriorityOf, Priority
  <2>. QED  BY <1>0, <1>9, <2>1, SetPriorityOrdered DEF SetPriorityOf
<1>10. ASSUME NEW t \in Task, NEW pol \in Policies, SetPolicy(t, pol) PROVE Ordered(sched')
  BY <1>10, SetPolicyOrdered
<1>11. ASSUME NEW t \in Task, NEW p \in Priority, NEW pol \in Policies, Create(t, p, pol)
       PROVE  Ordered(sched')
  BY <1>11, CreateOrdered
<1>12. ASSUME NEW woken \in {{}} \cup {{t} : t \in Task}, Exit(woken) PROVE Ordered(sched')
  <2>1. woken \in SUBSET Task
    BY <1>12
  <2>. QED  BY <1>12, <2>1, ExitTaskSafe DEF Exit, self
<1>13. CASE UNCHANGED vars
  BY <1>13 DEF vars
<1>. QED  BY <1>1, <1>2, <1>3, <1>4, <1>5, <1>6, <1>7, <1>8, <1>9, <1>10, <1>11, <1>12,
             <1>13 DEF Next

\* The inductive invariant holds in every reachable state.
THEOREM AlwaysSafe == Spec => []Safe(sched)
<1>1. Init => Safe(sched)
  BY InitSafe DEF Init
<1>2. Safe(sched) /\ [Next]_vars => Safe(sched)'
  BY NextSafe
<1>. QED  BY <1>1, <1>2, PTL DEF Spec

\* The scheduler's data keep their types, whatever the tasks do.
THEOREM TypeCorrect == Spec => []TypeOK
<1>1. Safe(sched) => TypeOK
  BY DEF Safe, Core, TypeOK
<1>. QED  BY <1>1, AlwaysSafe, PTL

\* task_state names the list a task is on, in every reachable state.
THEOREM ListsAlwaysAgree == Spec => []ListsAgree
<1>1. Safe(sched) => ListsAgree
  BY DEF Safe, Core, ListsAgree
<1>. QED  BY <1>1, AlwaysSafe, PTL

\* No path leaves a task pending behind a running task that is not locked.
THEOREM NobodyLeftPending == Spec => []PendingOnlyWhileLocked
<1>1. Safe(sched) => PendingOnlyWhileLocked
  BY DEF Safe, PendingOnlyWhileLocked
<1>. QED  BY <1>1, AlwaysSafe, PTL

\* The lists are sorted and nobody but the idle task has priority 0.
THEOREM AlwaysOrdered == Spec => []Ordered(sched)
<1>1. Init => Ordered(sched)
  BY InitOrdered DEF Init
<1>2. Safe(sched) /\ Ordered(sched) /\ [Next]_vars => Ordered(sched)'
  BY NextOrdered
<1>. QED  BY <1>1, <1>2, AlwaysSafe, PTL DEF Spec

\* Every prioritized list is in descending order of priority, whatever sequence
\* of priority changes, wake-ups, merges and restarts produced it.
THEOREM ListsAlwaysSorted == Spec => []ListsSorted
<1>1. Ordered(sched) => ListsSorted
  BY DEF Ordered, ListsSorted
<1>. QED  BY <1>1, AlwaysOrdered, PTL

\* With pre-emption enabled the running task has the highest priority of all
\* tasks that could run, the ones in g_pendingtasks included; and the idle task
\* is always the last of g_readytorun.
THEOREM HighestPriorityAlwaysRuns == Spec => []HighestPriorityRuns
<1>1. ASSUME Safe(sched), Ordered(sched) PROVE HighestPriorityRuns
  <2>1. /\ Core(sched) /\ sched.rtr \in Seq(Task) /\ Len(sched.rtr) > 0
        /\ sched.prio \in [Task -> Nat] /\ self \in Task
        /\ \A t \in Task : PlacedAt(sched, t)
    BY <1>1, CoreFacts, CoreParts DEF Safe, self
  <2>2. sched.rtr[Len(sched.rtr)] = Idle
    BY <1>1, <2>1, IdleEndsReadyToRun
  <2>3. ASSUME sched.lock[self] = 0, NEW t \in Task,
               sched.tstate[t] \in {"READYTORUN", "PENDING"}
        PROVE  sched.prio[t] <= sched.prio[self]
    <3>1. sched.pend = << >>
      BY <1>1, <2>3 DEF Safe, PendingNeedsLock, self
    <3>2. OnList(sched.rtr, t)
      BY <2>1, <2>3, <3>1 DEF PlacedAt, OnList
    <3>. DEFINE l == sched.rtr
    <3>3. PICK i \in 1..Len(l) : l[i] = t
      BY <3>2 DEF OnList
    <3>4. Descending(l, sched.prio) /\ l[1] = self /\ l \in Seq(Task) /\ Len(l) > 0
      BY <1>1, <2>1 DEF Ordered, Sorted, self, ThisTask
    <3>. HIDE DEF l
    <3>5. CASE i = 1
      BY <2>1, <3>3, <3>4, <3>5
    <3>6. CASE i # 1
      <4>1. 1 \in 1..Len(l) /\ 1 < i
        BY <3>3, <3>4, <3>6
      <4>. QED  BY <3>3, <3>4, <4>1 DEF Descending
    <3>. QED  BY <3>5, <3>6
  <2>. QED  BY <2>2, <2>3 DEF HighestPriorityRuns
<1>. QED  BY <1>1, AlwaysSafe, AlwaysOrdered, PTL

(***************************************************************************)
(* The order of arrival among tasks of one priority.                       *)
(***************************************************************************)
Before(list, x, y) == \E i, j \in 1..Len(list) : i < j /\ list[i] = x /\ list[j] = y

\* Insertion keeps the order of the others.
LEMMA BeforeInsert ==
  ASSUME NEW list \in Seq(Task), NEW i \in 1..(Len(list) + 1), NEW t \in Task,
         NEW x, NEW y, Before(list, x, y)
  PROVE  Before(InsertAtPos(list, i, t), x, y)
<1>. DEFINE res == InsertAtPos(list, i, t)
            to(n) == IF n < i THEN n ELSE n + 1
<1>1. /\ Len(res) = Len(list) + 1
      /\ \A j \in 1..(Len(list) + 1) :
           res[j] = IF j < i THEN list[j] ELSE IF j = i THEN t ELSE list[j - 1]
  BY InsertAtPosType
<1>. HIDE DEF res
<1>2. ASSUME NEW n \in 1..Len(list) PROVE to(n) \in 1..Len(res) /\ res[to(n)] = list[n]
  <2>1. CASE n < i
    BY <1>1, <2>1
  <2>2. CASE ~(n < i)
    BY <1>1, <2>2
  <2>. QED  BY <2>1, <2>2
<1>3. PICK a, b \in 1..Len(list) : a < b /\ list[a] = x /\ list[b] = y
  BY DEF Before
<1>4. to(a) < to(b)
  BY <1>3
<1>5. to(a) \in 1..Len(res) /\ to(b) \in 1..Len(res) /\ res[to(a)] = x /\ res[to(b)] = y
  BY <1>2, <1>3
<1>. HIDE DEF to
<1>. QED  BY <1>4, <1>5 DEF Before, res

\* So does dq_rem of somebody else.
LEMMA BeforeWithout ==
  ASSUME NEW list \in Seq(Task), NEW t \in Task, OnList(list, t),
         NEW x, NEW y, x # t, y # t, Before(list, x, y)
  PROVE  Before(Without(list, t), x, y)
<1>. DEFINE i == CHOOSE k \in 1..Len(list) : list[k] = t
            res == [j \in 1..(Len(list) - 1) |-> IF j < i THEN list[j] ELSE list[j + 1]]
            to(n) == IF n < i THEN n ELSE n - 1
<1>1. i \in 1..Len(list) /\ list[i] = t
  BY DEF OnList
<1>2. res = Without(list, t)
  BY DEF Without
<1>. HIDE DEF i
<1>3. /\ Len(res) = Len(list) - 1
      /\ \A j \in 1..(Len(list) - 1) : res[j] = IF j < i THEN list[j] ELSE list[j + 1]
  <2>1. res \in Seq(Task) /\ Len(res) = Len(list) - 1
    BY <1>1
  <2>. QED  BY <2>1
<1>. HIDE DEF res
<1>4. ASSUME NEW n \in 1..Len(list), n # i PROVE to(n) \in 1..Len(res) /\ res[to(n)] = list[n]
  <2>1. CASE n < i
    BY <1>1, <1>3, <2>1
  <2>2. CASE n > i
    BY <1>1, <1>3, <2>2
  <2>. QED  BY <1>1, <1>4, <2>1, <2>2
<1>5. PICK a, b \in 1..Len(list) : a < b /\ list[a] = x /\ list[b] = y
  BY DEF Before
<1>6. a # i /\ b # i
  BY <1>1, <1>5
<1>7. to(a) < to(b)
  BY <1>1, <1>5, <1>6
<1>8. to(a) \in 1..Len(res) /\ to(b) \in 1..Len(res) /\ res[to(a)] = x /\ res[to(b)] = y
  BY <1>4, <1>5, <1>6
<1>. HIDE DEF to
<1>. QED  BY <1>2, <1>7, <1>8 DEF Before

\* What is in front of the place of an insertion, and at it.
LEMMA InsertedAt ==
  ASSUME NEW list \in Seq(Task), NEW i \in 1..(Len(list) + 1), NEW t \in Task
  PROVE  LET res == InsertAtPos(list, i, t)
         IN  /\ Len(res) = Len(list) + 1
             /\ res[i] = t
             /\ \A j \in 1..Len(list) : j < i => res[j] = list[j]
<1>. DEFINE res == InsertAtPos(list, i, t)
<1>1. /\ Len(res) = Len(list) + 1
      /\ \A j \in 1..(Len(list) + 1) :
           res[j] = IF j < i THEN list[j] ELSE IF j = i THEN t ELSE list[j - 1]
  BY DEF InsertAtPos
<1>. HIDE DEF res
<1>. QED  BY <1>1 DEF res

\* nxsched_add_prioritized puts a task behind its equals.
LEMMA AddedBehind ==
  ASSUME NEW list \in Seq(Task), NEW prio \in [Task -> Nat], Descending(list, prio),
         NEW t \in Task, NEW x \in Task, OnList(list, x), prio[x] = prio[t]
  PROVE  Before(AddPrioritized(list, t, prio), x, t)
<1>. DEFINE i == InsertPos(list, 1, prio[t], prio)
            res == InsertAtPos(list, i, t)
<1>1. prio[t] \in Nat /\ 1 \in 1..(Len(list) + 1)
  OBVIOUS
<1>2. /\ i \in 1..(Len(list) + 1)
      /\ i <= Len(list) => prio[list[i]] < prio[t]
  BY <1>1, InsertPosExists
<1>. HIDE DEF i
<1>3. /\ Len(res) = Len(list) + 1 /\ res[i] = t
      /\ \A j \in 1..Len(list) : j < i => res[j] = list[j]
  BY <1>2, InsertedAt
<1>. HIDE DEF res
<1>4. PICK k \in 1..Len(list) : list[k] = x
  BY DEF OnList
<1>5. k < i
  <2>. SUFFICES ASSUME i <= k PROVE FALSE
    BY <1>2
  <2>1. i \in 1..Len(list) /\ prio[list[i]] < prio[x]
    BY <1>2
  <2>2. CASE i = k
    BY <1>1, <1>4, <2>1, <2>2
  <2>3. CASE i < k
    <3>1. prio[list[k]] <= prio[list[i]] /\ prio[list[i]] \in Nat /\ prio[list[k]] \in Nat
      BY <2>1, <2>3, DescendingAt
    <3>. QED  BY <1>4, <2>1, <3>1
  <2>. QED  BY <1>2, <2>2, <2>3
<1>6. k \in 1..Len(res) /\ i \in 1..Len(res) /\ res[k] = x /\ res[i] = t
  BY <1>2, <1>3, <1>4, <1>5
<1>. QED  BY <1>5, <1>6 DEF Before, AddPrioritized, i, res

\* The merge keeps the order on g_readytorun, and the order on g_pendingtasks:
\* the search goes on behind the task inserted last.
LEMMA BeforeMerged ==
  ASSUME NEW rtr \in Seq(Task), NEW pend \in Seq(Task), NEW prio \in [Task -> Nat],
         Descending(pend, prio), NEW x, NEW y, Before(rtr, x, y) \/ Before(pend, x, y)
  PROVE  Before(MergedList(rtr, pend, prio), x, y)
<1>. DEFINE m == MergeSteps(rtr, pend, prio)
            Passed(v, u) == \E k \in 1..Len(v.list) : k <= v.pos /\ v.list[k] = u
            Good(n) == /\ Before(rtr, x, y) => Before(m[n].list, x, y)
                       /\ \A i \in 1..n : Passed(m[n], pend[i])
                       /\ n # 0 => m[n].pos <= Len(m[n].list) /\ m[n].list[m[n].pos] = pend[n]
                       /\ \A i, j \in 1..n : i < j => Before(m[n].list, pend[i], pend[j])
            S == {n \in Nat : n <= Len(pend) => Good(n)}
<1>1. /\ m \in [0..Len(pend) -> MergeState]
      /\ m[0] = [list |-> rtr, pos |-> 1]
      /\ \A n \in 1..Len(pend) : m[n] = MergeStep(m[n - 1], pend[n], prio)
  BY MergeStepsUnfold
<1>. HIDE DEF m
<1>2. 0 \in S
  BY <1>1
<1>3. ASSUME NEW n \in Nat, n \in S PROVE n + 1 \in S
  <2>. SUFFICES ASSUME n + 1 <= Len(pend) PROVE Good(n + 1)
    OBVIOUS
  <2>1. Good(n) /\ n \in 0..Len(pend) /\ n + 1 \in 1..Len(pend)
    BY <1>3
  <2>. DEFINE l == m[n].list
              pos == m[n].pos
              t == pend[n + 1]
              at == InsertPos(l, pos, prio[t], prio)
              res == InsertAtPos(l, at, t)
  <2>2. l \in Seq(Task) /\ pos \in 1..(Len(l) + 1) /\ t \in Task /\ prio[t] \in Nat
    <3>1. m[n] \in MergeState
      BY <1>1, <2>1
    <3>2. l \in Seq(Task) /\ pos \in 1..(Len(l) + 1)
      BY <3>1 DEF MergeState
    <3>3. t \in Task
      BY <2>1
    <3>. QED  BY <3>2, <3>3
  <2>3. m[n + 1] = [list |-> res, pos |-> at]
    <3>1. m[n + 1] = MergeStep(m[(n + 1) - 1], pend[n + 1], prio)
      BY <1>1, <2>1
    <3>2. (n + 1) - 1 = n
      OBVIOUS
    <3>. QED  BY <3>1, <3>2 DEF MergeStep
  <2>4. /\ at \in pos..(Len(l) + 1)
        /\ at <= Len(l) => prio[l[at]] < prio[t]
    <3>. HIDE DEF l, pos, t
    <3>. QED  BY <2>2, InsertPosExists
  <2>5. n # 0 => at # pos
    <3>. SUFFICES ASSUME n # 0, at = pos PROVE FALSE
      OBVIOUS
    <3>1. pos <= Len(l) /\ l[pos] = pend[n] /\ n \in 1..Len(pend)
      BY <2>1
    <3>2. prio[pend[n + 1]] <= prio[pend[n]] /\ prio[pend[n]] \in Nat
      <4>1. n < n + 1
        OBVIOUS
      <4>. QED  BY <2>1, <3>1, <4>1, DescendingAt
    <3>3. prio[l[pos]] < prio[t]
      BY <2>4, <3>1
    <3>. QED  BY <2>2, <3>1, <3>2, <3>3
  <2>6. /\ Before(rtr, x, y) => Before(l, x, y)
        /\ \A i, j \in 1..n : i < j => Before(l, pend[i], pend[j])
        /\ \A i \in 1..n : \E k \in 1..Len(l) : k <= pos /\ l[k] = pend[i]
    BY <2>1
  <2>. HIDE DEF l, pos, at
  <2>7. at \in 1..(Len(l) + 1)
    BY <2>2, <2>4
  <2>8. /\ Len(res) = Len(l) + 1 /\ res[at] = t
        /\ \A j \in 1..Len(l) : j < at => res[j] = l[j]
    <3>. HIDE DEF t
    <3>. QED  BY <2>2, <2>7, InsertedAt
  <2>9. \A u, v : Before(l, u, v) => Before(res, u, v)
    BY <2>2, <2>7, BeforeInsert
  <2>10. res[at] = pend[n + 1] /\ at \in 1..Len(res)
    BY <2>7, <2>8
  <2>. HIDE DEF res
  <2>11. ASSUME NEW i \in 1..n
         PROVE  \E k \in 1..Len(res) : k < at /\ res[k] = pend[i]
    <3>1. PICK k \in 1..Len(l) : k <= pos /\ l[k] = pend[i]
      BY <2>6
    <3>2. k < at
      <4>1. n # 0 /\ k \in Nat /\ pos \in Nat /\ at \in Nat
        BY <2>2, <2>7
      <4>2. pos <= at /\ at # pos
        BY <2>4, <2>5, <4>1
      <4>. QED  BY <3>1, <4>1, <4>2
    <3>3. k \in 1..Len(res) /\ res[k] = pend[i]
      BY <2>7, <2>8, <3>1, <3>2
    <3>. QED  BY <3>2, <3>3
  <2>12. ASSUME NEW i \in 1..(n + 1)
         PROVE  \E k \in 1..Len(res) : k <= at /\ res[k] = pend[i]
    <3>1. CASE i = n + 1
      BY <2>10, <3>1
    <3>2. CASE i # n + 1
      <4>1. i \in 1..n
        BY <3>2
      <4>2. PICK k \in 1..Len(res) : k < at /\ res[k] = pend[i]
        BY <2>11, <4>1
      <4>. QED  BY <2>7, <4>2
    <3>. QED  BY <3>1, <3>2
  <2>13. ASSUME NEW i \in 1..(n + 1), NEW j \in 1..(n + 1), i < j
         PROVE  Before(res, pend[i], pend[j])
    <3>1. CASE j = n + 1
      <4>1. i \in 1..n
        BY <2>13, <3>1
      <4>2. PICK k \in 1..Len(res) : k < at /\ res[k] = pend[i]
        BY <2>11, <4>1
      <4>. QED  BY <2>10, <3>1, <4>2 DEF Before
    <3>2. CASE j # n + 1
      <4>1. i \in 1..n /\ j \in 1..n
        BY <2>13, <3>2
      <4>. QED  BY <2>6, <2>9, <2>13, <4>1
    <3>. QED  BY <3>1, <3>2
  <2>14. m[n + 1].list = res /\ m[n + 1].pos = at
    BY <2>3
  <2>15. /\ Before(rtr, x, y) => Before(res, x, y)
         /\ at <= Len(res)
    BY <2>6, <2>9, <2>10
  <2>. QED  BY <2>10, <2>12, <2>13, <2>14, <2>15
<1>. HIDE DEF S
<1>4. Nat \subseteq S
  BY <1>2, <1>3, InductionOnSet
<1>5. Good(Len(pend))
  <2>1. Len(pend) \in S
    BY <1>4
  <2>. QED  BY <2>1 DEF S
<1>. DEFINE last == m[Len(pend)].list
<1>6. /\ Before(rtr, x, y) => Before(last, x, y)
      /\ \A i, j \in 1..Len(pend) : i < j => Before(last, pend[i], pend[j])
  BY <1>5
<1>. HIDE DEF last
<1>7. Before(last, x, y)
  <2>1. CASE Before(rtr, x, y)
    BY <1>6, <2>1
  <2>2. CASE Before(pend, x, y)
    <3>1. PICK i, j \in 1..Len(pend) : i < j /\ pend[i] = x /\ pend[j] = y
      BY <2>2 DEF Before
    <3>. QED  BY <1>6, <3>1
  <2>. QED  BY <2>1, <2>2
<1>. QED  BY <1>7 DEF MergedList, m, last

\* The two lists of runnable tasks.
LEMMA AheadParts ==
  ASSUME NEW s, NEW x, NEW y
  PROVE  Ahead(s, x, y) <=> Before(s.rtr, x, y) \/ Before(s.pend, x, y)
BY Zenon DEF Ahead, Before

\* A task in front of another is on their list, and so is the other; neither is
\* the running task if the first is not.
LEMMA AheadAreReady ==
  ASSUME NEW s, Core(s), NEW x \in Task, NEW y \in Task, Ahead(s, x, y)
  PROVE  /\ \/ OnList(s.rtr, x) /\ OnList(s.rtr, y)
            \/ OnList(s.pend, x) /\ OnList(s.pend, y)
         /\ y # ThisTask(s)
<1>1. CASE Before(s.rtr, x, y)
  <2>. DEFINE l == s.rtr
  <2>1. PICK i, j \in 1..Len(l) : i < j /\ l[i] = x /\ l[j] = y
    BY <1>1 DEF Before
  <2>2. NoRepeat(l) /\ l \in Seq(Task)
    BY CoreFacts, CoreParts DEF NoRepeats
  <2>. HIDE DEF l
  <2>3. 1 \in 1..Len(l) /\ j # 1
    BY <2>1, <2>2
  <2>4. y # l[1]
    BY <2>1, <2>2, <2>3 DEF NoRepeat
  <2>. QED  BY <2>1, <2>4 DEF OnList, ThisTask, l
<1>2. CASE Before(s.pend, x, y)
  <2>1. OnList(s.pend, x) /\ OnList(s.pend, y)
    BY <1>2 DEF Before, OnList
  <2>2. PlacedAt(s, y)
    BY CoreParts
  <2>. QED  BY <2>1, <2>2 DEF PlacedAt
<1>. QED  BY <1>1, <1>2, AheadParts

\* Whatever leaves the two lists alone keeps the order.
LEMMA AheadFrame ==
  ASSUME NEW s, NEW r, r.rtr = s.rtr, r.pend = s.pend, NEW x, NEW y, Ahead(s, x, y)
  PROVE  Ahead(r, x, y)
BY AheadParts

\* nxsched_remove_readytorun of a third task
LEMMA RemoveKeepsOrder ==
  ASSUME NEW s, Core(s), NEW t \in Task, OnList(s.rtr, t),
         NEW x, NEW y, x # t, y # t, Ahead(s, x, y)
  PROVE  Ahead(RemoveReadyToRun(s, t), x, y)
<1>. DEFINE r == RemoveReadyToRun(s, t)
<1>1. r.rtr = Without(s.rtr, t) /\ r.pend = s.pend /\ s.rtr \in Seq(Task)
  BY DEF RemoveReadyToRun, Core, SchedState
<1>. HIDE DEF r
<1>2. Before(s.rtr, x, y) => Before(r.rtr, x, y)
  BY <1>1, BeforeWithout
<1>. QED  BY <1>1, <1>2, AheadParts DEF r

\* nxsched_add_readytorun keeps the order of those it finds.
LEMMA AddKeepsOrder ==
  ASSUME NEW s, Core(s), NEW t \in Task, NEW x, NEW y, Ahead(s, x, y)
  PROVE  Ahead(AddReadyToRun(s, t), x, y)
<1>. DEFINE r == AddReadyToRun(s, t)
<1>1. /\ s.rtr \in Seq(Task) /\ s.pend \in Seq(Task) /\ s.prio \in [Task -> Nat]
  BY CoreFacts DEF Core, SchedState
<1>2. \/ r.rtr = s.rtr /\ r.pend = AddPrioritized(s.pend, t, s.prio)
      \/ r.rtr = AddPrioritized(s.rtr, t, s.prio) /\ r.pend = s.pend
  BY DEF AddReadyToRun, Core, SchedState
<1>. HIDE DEF r
<1>3. ASSUME NEW list \in Seq(Task), Before(list, x, y)
      PROVE  Before(AddPrioritized(list, t, s.prio), x, y)
  <2>. DEFINE i == InsertPos(list, 1, s.prio[t], s.prio)
  <2>1. s.prio[t] \in Nat /\ 1 \in 1..(Len(list) + 1)
    BY <1>1
  <2>2. i \in 1..(Len(list) + 1)
    BY <1>1, <2>1, InsertPosExists
  <2>. HIDE DEF i
  <2>. QED  BY <1>3, <2>2, BeforeInsert DEF AddPrioritized, i
<1>. QED  BY <1>1, <1>2, <1>3, AheadParts DEF r

\* And it puts the new task behind its equals on g_readytorun: it is no more
\* urgent than the running task, so it does not go to g_pendingtasks.
LEMMA AddGoesBehind ==
  ASSUME NEW s, Core(s), Ordered(s), NEW t \in Task, NEW x \in Task, OnList(s.rtr, x),
         s.prio[x] = s.prio[t]
  PROVE  Ahead(AddReadyToRun(s, t), x, t)
<1>. DEFINE r == AddReadyToRun(s, t)
            l == s.rtr
<1>1. /\ l \in Seq(Task) /\ Len(l) > 0 /\ s.prio \in [Task -> Nat]
      /\ Descending(l, s.prio) /\ ThisTask(s) = l[1] /\ l[1] \in Task
  BY CoreFacts DEF Ordered, Sorted, ThisTask
<1>2. s.prio[x] <= s.prio[ThisTask(s)]
  <2>1. PICK k \in 1..Len(l) : l[k] = x
    BY DEF OnList
  <2>. HIDE DEF l
  <2>2. CASE k = 1
    BY <1>1, <2>1, <2>2
  <2>3. CASE k # 1
    <3>1. 1 \in 1..Len(l) /\ 1 < k
      BY <1>1, <2>1, <2>3
    <3>. QED  BY <1>1, <2>1, <3>1, DescendingAt
  <2>. QED  BY <2>2, <2>3
<1>3. ~(s.prio[ThisTask(s)] < s.prio[t])
  BY <1>1, <1>2
<1>4. r.rtr = AddPrioritized(l, t, s.prio)
  BY <1>3 DEF AddReadyToRun, Core, SchedState
<1>. HIDE DEF r
<1>5. Before(r.rtr, x, t)
  BY <1>1, <1>4, AddedBehind
<1>. QED  BY <1>5, AheadParts DEF r

\* nxsched_merge_pending
LEMMA MergeKeepsOrder ==
  ASSUME NEW s, Core(s), Ordered(s), NEW x, NEW y, Ahead(s, x, y)
  PROVE  Ahead(MergePending(s), x, y) /\ Ahead(MergeIfPending(s), x, y)
<1>. DEFINE r == MergePending(s)
<1>1. /\ s.rtr \in Seq(Task) /\ s.pend \in Seq(Task) /\ s.prio \in [Task -> Nat]
      /\ Descending(s.pend, s.prio)
  BY CoreFacts DEF Core, SchedState, Ordered, Sorted
<1>2. r.rtr = MergedList(s.rtr, s.pend, s.prio)
  BY DEF MergePending, Core, SchedState
<1>. HIDE DEF r
<1>3. Before(r.rtr, x, y)
  BY <1>1, <1>2, BeforeMerged, AheadParts
<1>4. Ahead(r, x, y)
  BY <1>3, AheadParts
<1>. QED  BY <1>4 DEF MergeIfPending, r

\* nxsched_resume_scheduler
LEMMA SwitchKeepsOrder ==
  ASSUME NEW s, NEW old, Core(s), NEW x, NEW y, Ahead(s, x, y)
  PROVE  Ahead(SwitchFrom(old, s), x, y) /\ Ahead(ResumeScheduler(s), x, y)
<1>. DEFINE r == ResumeScheduler(s)
<1>1. r.rtr = s.rtr /\ r.pend = s.pend
  BY ResumeFrame
<1>. HIDE DEF r
<1>2. Ahead(r, x, y)
  BY <1>1, AheadFrame
<1>. QED  BY <1>2 DEF SwitchFrom, r

\* up_block_task of the running task, with the merge that its lock calls for
LEMMA BlockKeepsOrder ==
  ASSUME NEW s, Core(s), Ordered(s), ThisTask(s) # Idle, NEW st \in BlockedState,
         NEW x, NEW y, x # ThisTask(s), y # ThisTask(s), Ahead(s, x, y)
  PROVE  Ahead(BlockTask(s, ThisTask(s), st), x, y)
<1>. DEFINE t == ThisTask(s)
            removed == RemoveReadyToRun(s, t)
            added == AddBlocked(removed, t, st)
            merged == MergeIfPending(added)
<1>1. t \in Task \ {Idle} /\ OnList(s.rtr, t) /\ s.prio[t] > 0 /\ s.init[t] > 0
  BY CoreFacts DEF Ordered, Ranked
<1>2. x # t /\ y # t
  OBVIOUS
<1>. HIDE DEF t
<1>3. /\ Core(removed) /\ removed.tstate[t] = "INVALID" /\ Ordered(removed)
      /\ removed = [s EXCEPT !.rtr = removed.rtr, !.tstate = removed.tstate]
      /\ Ahead(removed, x, y)
  BY <1>1, <1>2, RemoveReadyToRunCore, RemoveReadyToRunOrdered, RemoveKeepsOrder
<1>. HIDE DEF removed
<1>4. removed.prio = s.prio /\ removed.init = s.init
  BY <1>3 DEF Core, SchedState
<1>5. Core(added) /\ Ordered(added) /\ Ahead(added, x, y)
  <2>1. t \in Task /\ removed.prio[t] > 0 /\ removed.init[t] > 0
    BY <1>1, <1>4
  <2>2. added.rtr = removed.rtr /\ added.pend = removed.pend
    BY <1>3 DEF AddBlocked, Core, SchedState
  <2>. HIDE DEF added
  <2>3. Ahead(added, x, y)
    BY <1>3, <2>2, AheadFrame
  <2>. QED  BY <1>1, <1>3, <2>1, <2>3, AddBlockedCore, AddBlockedOrdered DEF added
<1>. HIDE DEF added
<1>6. Core(merged) /\ Ahead(merged, x, y)
  BY <1>5, MergeIfPendingSafe, MergeKeepsOrder DEF Safe
<1>. HIDE DEF merged
<1>7. Ahead(SwitchFrom(t, merged), x, y)
  BY <1>6, SwitchKeepsOrder
<1>. QED  BY <1>7 DEF BlockTask, merged, added, removed, t

\* up_unblock_task keeps the order of those that are ready, and puts the task
\* behind its equals.
LEMMA UnblockKeepsOrder ==
  ASSUME NEW s, Core(s), Ordered(s), NEW t \in Task, s.tstate[t] \in BlockedState,
         NEW x \in Task, NEW y \in Task,
         Ahead(s, x, y) \/ (OnList(s.rtr, x) /\ y = t /\ s.prio[x] = s.prio[y])
  PROVE  Ahead(UnblockTask(s, t), x, y)
<1>. DEFINE removed == RemoveBlocked(s, t)
            added == AddReadyToRun(removed, t)
<1>1. /\ Core(removed) /\ removed.tstate[t] = "INVALID" /\ Ordered(removed)
      /\ removed = [s EXCEPT !.blk = removed.blk, !.tstate = removed.tstate]
  BY RemoveBlockedCore, RemoveBlockedOrdered
<1>. HIDE DEF removed
<1>2. removed.prio = s.prio /\ removed.rtr = s.rtr /\ removed.pend = s.pend
  BY <1>1 DEF Core, SchedState
<1>3. Core(added)
  BY <1>1, AddReadyToRunCore
<1>4. Ahead(added, x, y)
  <2>1. CASE Ahead(s, x, y)
    <3>1. Ahead(removed, x, y)
      BY <1>2, <2>1, AheadFrame
    <3>. QED  BY <1>1, <3>1, AddKeepsOrder
  <2>2. CASE OnList(s.rtr, x) /\ y = t /\ s.prio[x] = s.prio[y]
    BY <1>1, <1>2, <2>2, AddGoesBehind
  <2>. QED  BY <2>1, <2>2
<1>. HIDE DEF added
<1>5. Ahead(SwitchFrom(ThisTask(s), added), x, y)
  BY <1>3, <1>4, SwitchKeepsOrder
<1>. QED  BY <1>5 DEF UnblockTask, added, removed

\* Taking a ready task off and putting it back keeps the order of the others.
LEMMA ReinsertKeepsOrder ==
  ASSUME NEW s, Core(s), Ordered(s), NEW t \in Task \ {Idle}, OnList(s.rtr, t),
         NEW p \in 1..MaxPrio, NEW x, NEW y, x # t, y # t, Ahead(s, x, y)
  PROVE  LET changed == [RemoveReadyToRun(s, t) EXCEPT !.prio = [s.prio EXCEPT ![t] = p]]
         IN  Ahead(AddReadyToRun(changed, t), x, y)
<1>. DEFINE removed == RemoveReadyToRun(s, t)
            q == [s.prio EXCEPT ![t] = p]
            changed == [removed EXCEPT !.prio = q]
<1>1. Core(removed) /\ Ahead(removed, x, y)
  BY RemoveReadyToRunCore, RemoveKeepsOrder
<1>. HIDE DEF removed
<1>2. q \in [Task -> 0..MaxPrio]
  BY DEF Core, SchedState
<1>. HIDE DEF q
<1>3. /\ changed \in SchedState /\ changed.rtr = removed.rtr /\ changed.pend = removed.pend
      /\ changed.blk = removed.blk /\ changed.tstate = removed.tstate
      /\ changed.policy[Idle] = "FIFO"
  BY <1>1, <1>2 DEF Core, SchedState
<1>. HIDE DEF changed
<1>4. Core(changed) /\ Ahead(changed, x, y)
  BY <1>1, <1>3, CoreFrame, AheadFrame
<1>5. Ahead(AddReadyToRun(changed, t), x, y)
  BY <1>4, AddKeepsOrder
<1>. QED  BY <1>5 DEF changed, q, removed

\* up_reprioritize_rtr
LEMMA ReprioritizeKeepsOrder ==
  ASSUME NEW s, Core(s), Ordered(s), NEW t \in Task \ {Idle}, OnList(s.rtr, t),
         NEW p \in 1..MaxPrio, NEW x, NEW y, x # t, y # t, Ahead(s, x, y)
  PROVE  Ahead(ReprioritizeRtr(s, t, p), x, y)
<1>. DEFINE added == AddReadyToRun([RemoveReadyToRun(s, t) EXCEPT
                                      !.prio = [s.prio EXCEPT ![t] = p]], t)
<1>1. Core(added) /\ Ordered(added) /\ Ahead(added, x, y)
  BY ReinsertReady, ReinsertKeepsOrder
<1>2. \/ ReprioritizeRtr(s, t, p) = added
      \/ ReprioritizeRtr(s, t, p) = ResumeScheduler(MergeIfPending(added))
  BY DEF ReprioritizeRtr
<1>. HIDE DEF added
<1>3. Core(MergeIfPending(added)) /\ Ahead(MergeIfPending(added), x, y)
  BY <1>1, MergeIfPendingSafe, MergeKeepsOrder DEF Safe
<1>. QED  BY <1>1, <1>2, <1>3, SwitchKeepsOrder

\* nxsched_set_priority of a task in g_pendingtasks
LEMMA PendingSetPriority ==
  ASSUME NEW s, Core(s), NEW t \in Task, s.tstate[t] = "PENDING", NEW p
  PROVE  LET r == SetPriority(s, t, p)
             q == [s.prio EXCEPT ![t] = p]
         IN  r.rtr = s.rtr /\ r.pend = AddPrioritized(Without(s.pend, t), t, q)
<1>. DEFINE r == SetPriority(s, t, p)
            q == [s.prio EXCEPT ![t] = p]
            l == AddPrioritized(Without(s.pend, t), t, q)
<1>1. r = BlockedSetPriority(s, t, p)
  BY DEF SetPriority
<1>2. BlockedSetPriority(s, t, p) = [s EXCEPT !.prio = q, !.pend = l]
  BY DEF BlockedSetPriority, Prioritized
<1>. HIDE DEF r, q, l
<1>3. r.rtr = s.rtr /\ r.pend = l
  BY <1>1, <1>2 DEF Core, SchedState
<1>. QED  BY <1>3 DEF r, q, l

\* nxsched_set_priority of a third task
LEMMA SetPriorityKeepsOrder ==
  ASSUME NEW s, Core(s), Ordered(s), NEW t \in Task \ {Idle}, NEW p \in 1..MaxPrio,
         NEW x \in Task, NEW y \in Task, x # t, y # t, Ahead(s, x, y)
  PROVE  Ahead(SetPriority(s, t, p), x, y)
<1>. DEFINE q == [s.prio EXCEPT ![t] = p]
            r == SetPriority(s, t, p)
            kept == [s EXCEPT !.prio = q]
<1>1. /\ PlacedAt(s, t) /\ s \in SchedState /\ s.pend \in Seq(Task)
      /\ s.prio \in [Task -> Nat]
  BY CoreFacts, CoreParts DEF SchedState
<1>2. kept.rtr = s.rtr /\ kept.pend = s.pend
  BY <1>1 DEF SchedState
<1>3. Ahead(kept, x, y)
  <2>. HIDE DEF kept
  <2>. QED  BY <1>2, AheadFrame
<1>4. CASE s.tstate[t] \in {"RUNNING", "READYTORUN"}
  <2>1. OnList(s.rtr, t)
    BY <1>1, <1>4 DEF PlacedAt
  <2>2. \/ r = ReprioritizeRtr(s, t, p) \/ r = kept
        \/ r = AddReadyToRun([RemoveReadyToRun(s, t) EXCEPT !.prio = q], t)
    BY <1>4 DEF SetPriority, RunningSetPriority, ReadyToRunSetPriority
  <2>. HIDE DEF r, kept
  <2>3. Ahead(ReprioritizeRtr(s, t, p), x, y)
    BY <2>1, ReprioritizeKeepsOrder
  <2>4. Ahead(AddReadyToRun([RemoveReadyToRun(s, t) EXCEPT !.prio = q], t), x, y)
    BY <2>1, ReinsertKeepsOrder
  <2>. QED  BY <1>3, <2>2, <2>3, <2>4 DEF r
<1>5. CASE s.tstate[t] = "PENDING"
  <2>1. OnList(s.pend, t)
    BY <1>1, <1>5 DEF PlacedAt
  <2>2. r.rtr = s.rtr /\ r.pend = AddPrioritized(Without(s.pend, t), t, q)
    BY <1>5, PendingSetPriority
  <2>. HIDE DEF r
  <2>. DEFINE l == Without(s.pend, t)
              i == InsertPos(l, 1, q[t], q)
  <2>3. l \in Seq(Task) /\ (Before(s.pend, x, y) => Before(l, x, y))
    BY <1>1, <2>1, WithoutContents, BeforeWithout
  <2>4. q \in [Task -> Nat] /\ q[t] \in Nat
    BY <1>1
  <2>. HIDE DEF l, q
  <2>5. 1 \in 1..(Len(l) + 1)
    BY <2>3
  <2>6. i \in 1..(Len(l) + 1)
    BY <2>3, <2>4, <2>5, InsertPosExists
  <2>. HIDE DEF i
  <2>7. Before(l, x, y) => Before(InsertAtPos(l, i, t), x, y)
    BY <2>3, <2>6, BeforeInsert
  <2>8. r.pend = InsertAtPos(l, i, t)
    BY <2>2 DEF AddPrioritized, l, i
  <2>. QED  BY <2>2, <2>3, <2>7, <2>8, AheadParts DEF r
<1>6. CASE s.tstate[t] \notin {"RUNNING", "READYTORUN", "PENDING"}
  <2>1. r.rtr = s.rtr /\ r.pend = s.pend
    BY <1>1, <1>6 DEF SetPriority, BlockedSetPriority, SchedState
  <2>. HIDE DEF r
  <2>. QED  BY <2>1, AheadFrame DEF r
<1>. QED  BY <1>4, <1>5, <1>6

\* nxsched_set_priority of the task behind, to the priority both have: it is
\* taken out and goes behind its equals again.
LEMMA SetPriorityGoesBehind ==
  ASSUME NEW s, Core(s), Ordered(s), NEW x \in Task, NEW y \in Task, x # y,
         s.prio[x] = s.prio[y], Ahead(s, x, y), y # Idle
  PROVE  Ahead(SetPriority(s, y, s.prio[y]), x, y)
<1>. DEFINE p == s.prio[y]
            q == [s.prio EXCEPT ![y] = p]
            r == SetPriority(s, y, p)
<1>1. /\ PlacedAt(s, y) /\ PlacedAt(s, x) /\ s \in SchedState /\ s.pend \in Seq(Task)
      /\ s.prio \in [Task -> Nat] /\ q = s.prio /\ s.rtr \in Seq(Task)
      /\ NoRepeats(s)
  BY CoreParts, CoreFacts DEF SchedState
<1>2. y # ThisTask(s)
  BY AheadAreReady
<1>3. CASE OnList(s.rtr, x) /\ OnList(s.rtr, y)
  <2>. DEFINE removed == RemoveReadyToRun(s, y)
              l == s.rtr
  <2>1. s.tstate[y] = "READYTORUN"
    BY <1>1, <1>2, <1>3 DEF PlacedAt
  <2>2. ~(p > s.prio[ThisTask(s)])
    <3>1. PICK k \in 1..Len(l) : l[k] = y
      BY <1>3 DEF OnList
    <3>2. Descending(l, s.prio) /\ ThisTask(s) = l[1] /\ l \in Seq(Task)
      BY <1>1 DEF Ordered, Sorted, ThisTask
    <3>. HIDE DEF l
    <3>3. 1 \in 1..Len(l) /\ 1 < k
      BY <1>2, <3>1, <3>2
    <3>4. /\ s.prio[l[k]] <= s.prio[l[1]]
          /\ s.prio[l[k]] \in Nat /\ s.prio[l[1]] \in Nat
      BY <1>1, <3>1, <3>2, <3>3, DescendingAt
    <3>. QED  BY <3>1, <3>2, <3>4
  <2>3. r = AddReadyToRun([removed EXCEPT !.prio = q], y)
    BY <2>1, <2>2 DEF SetPriority, ReadyToRunSetPriority
  <2>. HIDE DEF r
  <2>4. /\ Core(removed) /\ Ordered(removed)
        /\ removed = [s EXCEPT !.rtr = removed.rtr, !.tstate = removed.tstate]
    BY <1>3, RemoveReadyToRunCore, RemoveReadyToRunOrdered
  <2>5. removed.rtr = Without(s.rtr, y)
    BY <1>1 DEF RemoveReadyToRun, SchedState
  <2>. HIDE DEF removed
  <2>6. removed.prio = s.prio /\ removed \in SchedState
    BY <1>1, <2>4 DEF Core, SchedState
  <2>7. [removed EXCEPT !.prio = q] = removed
    <3>. HIDE DEF q
    <3>. QED  BY <1>1, <2>6 DEF SchedState
  <2>8. OnList(removed.rtr, x)
    BY <1>1, <1>3, <2>5, WithoutContents DEF NoRepeats
  <2>9. Ahead(AddReadyToRun(removed, y), x, y)
    BY <2>4, <2>6, <2>8, AddGoesBehind
  <2>. QED  BY <2>3, <2>7, <2>9 DEF r
<1>4. CASE OnList(s.pend, x) /\ OnList(s.pend, y)
  <2>. DEFINE l == Without(s.pend, y)
  <2>1. s.tstate[y] = "PENDING"
    BY <1>1, <1>4 DEF PlacedAt
  <2>2. r.pend = AddPrioritized(l, y, s.prio)
    BY <1>1, <2>1, PendingSetPriority
  <2>. HIDE DEF r
  <2>3. l \in Seq(Task) /\ OnList(l, x)
    BY <1>1, <1>4, WithoutContents DEF NoRepeats
  <2>4. Descending(l, s.prio)
    BY <1>1, <1>4, DescendingWithout DEF Ordered, Sorted
  <2>. HIDE DEF l
  <2>5. Before(r.pend, x, y)
    BY <1>1, <2>2, <2>3, <2>4, AddedBehind
  <2>. QED  BY <2>5, AheadParts DEF r
<1>. QED  BY <1>3, <1>4, AheadAreReady

\* nxsched_set_priority changes this one priority.
LEMMA SetPriorityPrio ==
  ASSUME NEW s, Core(s), NEW t \in Task \ {Idle}, NEW p \in 0..MaxPrio
  PROVE  SetPriority(s, t, p).prio[t] = p
<1>. DEFINE q == [s.prio EXCEPT ![t] = p]
            changed == [RemoveReadyToRun(s, t) EXCEPT !.prio = q]
            added == AddReadyToRun(changed, t)
            r == SetPriority(s, t, p)
<1>1. PlacedAt(s, t) /\ s \in SchedState /\ s.prio \in [Task -> 0..MaxPrio]
  BY CoreParts DEF SchedState
<1>2. q[t] = p /\ q \in [Task -> 0..MaxPrio]
  BY <1>1
<1>3. CASE s.tstate[t] \in {"RUNNING", "READYTORUN"}
  <2>1. OnList(s.rtr, t)
    BY <1>1, <1>3 DEF PlacedAt
  <2>2. Core(added)
    BY <2>1, ReinsertPhase
  <2>3. \/ r = added \/ r = ResumeScheduler(MergeIfPending(added))
        \/ r = [s EXCEPT !.prio = q]
    BY <1>3 DEF SetPriority, RunningSetPriority, ReadyToRunSetPriority, ReprioritizeRtr
  <2>. HIDE DEF q
  <2>4. changed.prio = q
    BY <1>1, <1>2 DEF RemoveReadyToRun, SchedState
  <2>5. changed \in SchedState
    <3>1. RemoveReadyToRun(s, t) \in SchedState
      BY <2>1, RemoveReadyToRunCore DEF Core
    <3>. QED  BY <1>2, <3>1 DEF SchedState
  <2>. HIDE DEF changed
  <2>6. added.prio = q
    BY <2>4, <2>5 DEF AddReadyToRun, SchedState
  <2>. HIDE DEF added, r
  <2>. DEFINE merged == MergeIfPending(added)
  <2>7. Core(merged) /\ merged = [added EXCEPT !.rtr = merged.rtr, !.pend = merged.pend,
                                               !.tstate = merged.tstate]
    BY <2>2, MergeIfPendingSafe DEF Safe
  <2>. HIDE DEF merged
  <2>8. merged.prio = q /\ ResumeScheduler(merged).prio = merged.prio
    <3>1. merged.prio = added.prio
      BY <2>2, <2>7 DEF Core, SchedState
    <3>. QED  BY <2>6, <2>7, <3>1, ResumeFrame
  <2>9. [s EXCEPT !.prio = q].prio = q
    BY <1>1 DEF SchedState
  <2>. QED  BY <1>2, <2>3, <2>6, <2>8, <2>9 DEF r, merged
<1>4. CASE s.tstate[t] \notin {"RUNNING", "READYTORUN"}
  <2>1. r = BlockedSetPriority(s, t, p)
    BY <1>4 DEF SetPriority
  <2>2. BlockedSetPriority(s, t, p).prio = q
    <3>. HIDE DEF q
    <3>. QED  BY <1>1 DEF BlockedSetPriority, SchedState, q
  <2>. QED  BY <1>2, <2>1, <2>2
<1>. QED  BY <1>3, <1>4

\* sched_unlock
LEMMA UnlockKeepsOrder ==
  ASSUME NEW s, Core(s), Ordered(s), NEW x, NEW y, Ahead(s, x, y)
  PROVE  Ahead(UnlockOp(s), x, y)
<1>. DEFINE cur == ThisTask(s)
            k == [s.lock EXCEPT ![cur] = @ - 1]
            less == [s EXCEPT !.lock = k]
            dec == IF s.lock[cur] > 0 THEN less ELSE s
            released == IF dec.pend = << >> THEN dec ELSE ReleasePending(dec)
            refilled == [released EXCEPT !.slice = [released.slice EXCEPT ![cur] = RRTicks]]
<1>1. cur \in Task /\ s.lock \in [Task -> Nat] /\ s \in SchedState
  BY CoreFacts DEF Core, SchedState
<1>2. UnlockOp(s) = dec \/ UnlockOp(s) = released \/ UnlockOp(s) = refilled
  BY DEF UnlockOp
<1>. HIDE DEF cur
<1>3. s.lock[cur] > 0 => k \in [Task -> Nat]
  BY <1>1
<1>. HIDE DEF k
<1>4. s.lock[cur] > 0 => Core(less)
  BY <1>3, LockFrame
<1>5. /\ less.rtr = s.rtr /\ less.pend = s.pend /\ less.blk = s.blk
      /\ less.tstate = s.tstate /\ less.prio = s.prio /\ less.init = s.init
  BY <1>1 DEF SchedState
<1>. HIDE DEF less
<1>6. Core(dec) /\ Ordered(dec) /\ Ahead(dec, x, y)
  BY <1>4, <1>5, OrderedFrame, AheadFrame
<1>. HIDE DEF dec
<1>7. Core(MergePending(dec)) /\ Ahead(MergePending(dec), x, y)
  BY <1>6, MergePendingCore, MergeKeepsOrder
<1>8. Core(released) /\ Ahead(released, x, y)
  BY <1>6, <1>7, ReleasePendingSafe, SwitchKeepsOrder DEF ReleasePending, Safe
<1>. HIDE DEF released
<1>9. refilled.rtr = released.rtr /\ refilled.pend = released.pend
  BY <1>8 DEF Core, SchedState
<1>. HIDE DEF refilled
<1>. QED  BY <1>2, <1>6, <1>8, <1>9, AheadFrame

\* The tick of a round-robin task makes nobody ready and keeps the order of
\* the others.
LEMMA RoundRobinKeepsOrder ==
  ASSUME NEW s, Safe(s), Ordered(s), ThisTask(s) # Idle
  PROVE  /\ Phase(ProcessRoundRobin(s)) = Phase(s)
         /\ \A x, y \in Task : x # ThisTask(s) /\ y # ThisTask(s) /\ Ahead(s, x, y)
                                 => Ahead(ProcessRoundRobin(s), x, y)
<1>. DEFINE t == ThisTask(s)
            left == IF s.slice[t] > 0 THEN s.slice[t] - 1 ELSE 0
            refilled == [s EXCEPT !.slice = [s.slice EXCEPT ![t] = RRTicks]]
            used == [s EXCEPT !.slice = [s.slice EXCEPT ![t] = left]]
            again == ReprioritizeRtr(refilled, t, s.prio[t])
            added == AddReadyToRun([RemoveReadyToRun(refilled, t) EXCEPT
                                      !.prio = [refilled.prio EXCEPT ![t] = s.prio[t]]], t)
<1>1. /\ t \in Task \ {Idle} /\ OnList(s.rtr, t) /\ s \in SchedState /\ Core(s)
      /\ s.prio \in [Task -> 0..MaxPrio] /\ s.tstate[t] = "RUNNING"
  BY CoreFacts DEF Safe, Core, SchedState
<1>2. \/ ProcessRoundRobin(s) = used
      \/ ProcessRoundRobin(s) = refilled
      \/ ProcessRoundRobin(s) = again
  BY DEF ProcessRoundRobin
<1>3. again = added \/ again = ResumeScheduler(MergeIfPending(added))
  BY DEF ReprioritizeRtr
<1>. HIDE DEF t, left, added
<1>4. used.rtr = s.rtr /\ used.pend = s.pend /\ used.tstate = s.tstate
  BY <1>1 DEF SchedState
<1>5. /\ refilled.rtr = s.rtr /\ refilled.pend = s.pend /\ refilled.blk = s.blk
      /\ refilled.tstate = s.tstate /\ refilled.prio = s.prio /\ refilled.init = s.init
  BY <1>1 DEF SchedState
<1>6. Core(refilled)
  <2>1. RRTicks \in 0..RRTicks
    BY RRTicksPositive
  <2>. QED  BY <1>1, <2>1, SliceFrame DEF Safe
<1>7. s.prio[t] \in 1..MaxPrio /\ s.prio[t] \in 0..MaxPrio
  <2>1. s.prio[t] > 0 /\ s.prio[t] \in 0..MaxPrio
    BY <1>1 DEF Ordered, Ranked
  <2>. QED  BY <2>1, MaxPrioPositive
<1>. HIDE DEF used, refilled, again
<1>8. Ordered(refilled) /\ Phase(used) = Phase(s) /\ Phase(refilled) = Phase(s)
  BY <1>1, <1>4, <1>5, OrderedFrame, PhaseFrame
<1>9. Phase(again) = Phase(s)
  <2>1. Core(added) /\ Phase(added) = Phase(refilled)
    BY <1>1, <1>5, <1>6, <1>7, ReinsertPhase DEF added
  <2>2. Core(MergeIfPending(added)) /\ Phase(MergeIfPending(added)) = Phase(added)
    BY <2>1, MergeIfPendingSafe, MergePendingPhase DEF Safe
  <2>. QED  BY <1>3, <1>8, <2>1, <2>2, PhaseFrame
<1>10. ASSUME NEW x \in Task, NEW y \in Task, x # t, y # t, Ahead(s, x, y)
       PROVE  Ahead(ProcessRoundRobin(s), x, y)
  <2>1. Ahead(used, x, y) /\ Ahead(refilled, x, y)
    BY <1>4, <1>5, <1>10, AheadFrame
  <2>2. Ahead(again, x, y)
    BY <1>1, <1>5, <1>6, <1>7, <1>8, <1>10, <2>1, ReprioritizeKeepsOrder DEF again
  <2>. QED  BY <1>2, <2>1, <2>2
<1>. QED  BY <1>2, <1>8, <1>9, <1>10 DEF t

\* dq_rem of a third task, as termination and restart do
LEMMA RemoveFromListKeepsOrder ==
  ASSUME NEW s, Core(s), NEW t \in Task \ {Idle}, t # ThisTask(s),
         NEW x, NEW y, x # t, y # t, Ahead(s, x, y)
  PROVE  Ahead(RemoveFromList(s, t), x, y)
<1>. DEFINE r == RemoveFromList(s, t)
<1>1. s \in SchedState /\ PlacedAt(s, t) /\ s.rtr \in Seq(Task) /\ s.pend \in Seq(Task)
  BY CoreParts DEF SchedState
<1>2. CASE s.tstate[t] = "READYTORUN"
  <2>1. OnList(s.rtr, t) /\ r.rtr = Without(s.rtr, t) /\ r.pend = s.pend
    BY <1>1, <1>2 DEF PlacedAt, RemoveFromList, SchedState
  <2>. HIDE DEF r
  <2>2. Before(s.rtr, x, y) => Before(r.rtr, x, y)
    BY <1>1, <2>1, BeforeWithout
  <2>. QED  BY <2>1, <2>2, AheadParts DEF r
<1>3. CASE s.tstate[t] = "PENDING"
  <2>1. OnList(s.pend, t) /\ r.pend = Without(s.pend, t) /\ r.rtr = s.rtr
    BY <1>1, <1>3 DEF PlacedAt, RemoveFromList, SchedState
  <2>. HIDE DEF r
  <2>2. Before(s.pend, x, y) => Before(r.pend, x, y)
    BY <1>1, <2>1, BeforeWithout
  <2>. QED  BY <2>1, <2>2, AheadParts DEF r
<1>4. CASE s.tstate[t] \notin {"READYTORUN", "PENDING"}
  <2>1. r.rtr = s.rtr /\ r.pend = s.pend
    BY <1>1, <1>4 DEF RemoveFromList, RemoveBlocked, SchedState
  <2>. HIDE DEF r
  <2>. QED  BY <2>1, AheadFrame DEF r
<1>. QED  BY <1>2, <1>3, <1>4

\* A task is runnable when its phase is ready.
LEMMA RunnablePhase ==
  ASSUME NEW s, s.tstate \in [Task -> TState], NEW t \in Task
  PROVE  Runnable(s, t) <=> Phase(s)[t] = "READY"
<1>1. s.tstate[t] \in TState
  OBVIOUS
<1>. QED  BY <1>1 DEF Runnable, Phase, TState, BlockedState, WaitState

\* A locked task keeps the head of g_readytorun.
LEMMA LockedHeadStays ==
  ASSUME NEW s, Core(s), NEW t \in Task, s.tstate[t] = "INVALID"
  PROVE  ThisTask(AddReadyToRun(s, t)) = ThisTask(s) \/ s.lock[ThisTask(s)] = 0
<1>. DEFINE r == AddReadyToRun(s, t)
<1>1. \/ ThisTask(r) = ThisTask(s) /\ (s.lock[ThisTask(s)] > 0 \/ r.pend = s.pend)
      \/ ThisTask(r) = t /\ r.pend = s.pend /\ s.lock[ThisTask(s)] = 0
  BY AddReadyToRunCore
<1>. QED  BY <1>1

\* nxtask_exit keeps the order of the tasks that stay, whether they are merged
\* or not, and whoever its exit hook wakes goes behind its equals.
LEMMA ExitKeepsOrder ==
  ASSUME NEW s, Safe(s), Ordered(s), ThisTask(s) # Idle, NEW woken \in SUBSET Task,
         \A w \in woken : s.tstate[w] = "WAIT_SEM",
         NEW x \in Task, NEW y \in Task, x # ThisTask(s), y # ThisTask(s),
         \/ Ahead(s, x, y)
         \/ /\ OnList(s.rtr, x) /\ s.prio[x] = s.prio[y]
            /\ Phase(s)[y] # "READY" /\ Phase(ExitTask(s, woken))[y] = "READY"
  PROVE  Ahead(ExitTask(s, woken), x, y)
<1>. DEFINE me == ThisTask(s)
            removed == RemoveReadyToRun(s, me)
            next == ThisTask(removed)
            resumed == ResumeScheduler(removed)
            k == [resumed.lock EXCEPT ![next] = @ + 1]
            held == [resumed EXCEPT !.lock = k]
            w == CHOOSE v \in woken : TRUE
            hooked == IF woken = {} THEN held ELSE AddReadyToRun(RemoveBlocked(held, w), w)
            d == [hooked.lock EXCEPT ![next] = @ - 1]
            freed == [hooked EXCEPT !.lock = d]
            merged == MergeIfPending(freed)
            Behind(r) == OnList(r.rtr, x) /\ r.prio[x] = r.prio[y] /\ Phase(r)[y] # "READY"
<1>1. /\ Core(s) /\ me \in Task \ {Idle} /\ OnList(s.rtr, me) /\ s \in SchedState
      /\ x # me /\ y # me /\ s.rtr \in Seq(Task) /\ NoRepeat(s.rtr)
      /\ s.tstate[me] = "RUNNING"
  BY CoreFacts, CoreParts DEF Safe, Core, NoRepeats
<1>2. ExitTask(s, woken) = ReleaseTcb(merged, me)
  BY DEF ExitTask
<1>2a. Ahead(s, x, y) \/ (Behind(s) /\ Phase(ExitTask(s, woken))[y] = "READY")
  OBVIOUS
<1>. HIDE DEF me
<1>3. /\ Core(removed) /\ Ordered(removed)
      /\ removed = [s EXCEPT !.rtr = removed.rtr, !.tstate = removed.tstate]
      /\ Phase(removed) = [Phase(s) EXCEPT ![me] = "INVALID"]
      /\ removed.rtr = Without(s.rtr, me)
  <2>1. /\ Core(removed) /\ Ordered(removed)
        /\ removed = [s EXCEPT !.rtr = removed.rtr, !.tstate = removed.tstate]
    BY <1>1, RemoveReadyToRunCore, RemoveReadyToRunOrdered
  <2>2. Phase(removed) = [Phase(s) EXCEPT ![me] = "INVALID"]
    BY <1>1, RemoveReadyToRunPhase
  <2>3. removed.rtr = Without(s.rtr, me)
    BY <1>1 DEF RemoveReadyToRun, SchedState
  <2>. QED  BY <2>1, <2>2, <2>3
<1>4. Ahead(s, x, y) => Ahead(removed, x, y)
  BY <1>1, RemoveKeepsOrder
<1>. HIDE DEF removed
<1>5. Behind(s) => Behind(removed)
  <2>1. removed.prio = s.prio
    BY <1>1, <1>3 DEF SchedState
  <2>2. OnList(s.rtr, x) => OnList(removed.rtr, x)
    BY <1>1, <1>3, WithoutContents
  <2>3. Phase(removed)[y] = Phase(s)[y]
    BY <1>1, <1>3, PhaseType
  <2>. QED  BY <2>1, <2>2, <2>3
<1>6. /\ resumed \in SchedState /\ resumed.rtr = removed.rtr
      /\ resumed.pend = removed.pend /\ resumed.blk = removed.blk
      /\ resumed.tstate = removed.tstate /\ resumed.policy = removed.policy
      /\ resumed.prio = removed.prio /\ resumed.init = removed.init
      /\ next \in Task /\ resumed.lock \in [Task -> Nat]
  BY <1>3, ResumeFrame, CoreFacts DEF Core, SchedState
<1>. HIDE DEF resumed, next
<1>7. k \in [Task -> Nat] /\ k[next] > 0
  BY <1>6
<1>. HIDE DEF k
<1>8. /\ held \in SchedState /\ held.rtr = removed.rtr
      /\ held.pend = removed.pend /\ held.blk = removed.blk
      /\ held.tstate = removed.tstate /\ held.policy = removed.policy
      /\ held.prio = removed.prio /\ held.init = removed.init /\ held.lock = k
  BY <1>6, <1>7 DEF SchedState
<1>. HIDE DEF held
<1>9. /\ Core(held) /\ ThisTask(held) = next
  <2>1. held.policy[Idle] = "FIFO"
    BY <1>3, <1>8 DEF Core
  <2>. QED  BY <1>3, <1>8, <2>1, CoreFrame DEF next
<1>10. Ordered(held) /\ Phase(held) = Phase(removed)
  BY <1>3, <1>8, <1>9, OrderedFrame, PhaseFrame
<1>11. Safe(held)
  BY <1>7, <1>8, <1>9 DEF Safe, PendingNeedsLock
<1>12. Ahead(s, x, y) => Ahead(held, x, y)
  BY <1>4, <1>8, AheadFrame
<1>13. Behind(s) => Behind(held)
  BY <1>5, <1>8, <1>10
<1>14. /\ Safe(hooked) /\ Ordered(hooked) /\ hooked.lock = k /\ ThisTask(hooked) = next
       /\ Ahead(held, x, y) => Ahead(hooked, x, y)
       /\ Behind(held) => Ahead(hooked, x, y) \/ Phase(hooked)[y] # "READY"
  <2>1. CASE woken = {}
    <3>1. hooked = held
      BY <2>1
    <3>. HIDE DEF hooked
    <3>. QED  BY <1>8, <1>9, <1>10, <1>11, <3>1
  <2>2. CASE woken # {}
    <3>. DEFINE off == RemoveBlocked(held, w)
                on == AddReadyToRun(off, w)
    <3>0. hooked = on
      BY <2>2
    <3>. HIDE DEF hooked
    <3>1. w \in Task /\ s.tstate[w] = "WAIT_SEM"
      BY <2>2
    <3>. HIDE DEF w
    <3>2. held.tstate[w] \in BlockedState /\ w # Idle
      <4>1. /\ PlacedAt(s, w) /\ PlacedAt(held, w) /\ "WAIT_SEM" \in BlockedState
            /\ held.blk = s.blk
        BY <1>1, <1>3, <1>8, <1>9, <3>1, CoreParts DEF BlockedState, WaitState, SchedState
      <4>2. held.tstate[w] = "WAIT_SEM"
        BY <3>1, <4>1 DEF PlacedAt
      <4>3. PlacedAt(held, Idle) /\ OnList(held.rtr, Idle)
        BY <1>9, CoreParts, IdleIsTask
      <4>. QED  BY <4>1, <4>2, <4>3 DEF PlacedAt
    <3>3. /\ Safe(off) /\ off.tstate[w] = "INVALID" /\ ThisTask(off) = next /\ off.lock = k
          /\ off.prio = held.prio /\ off.init = held.init
      BY <1>8, <1>9, <1>11, <3>1, <3>2, RemoveBlockedSafe
    <3>4. /\ Ordered(off) /\ off.rtr = held.rtr /\ off.pend = held.pend
          /\ Phase(off) = [Phase(held) EXCEPT ![w] = "INVALID"]
      BY <1>8, <1>9, <1>10, <3>1, <3>2, RemoveBlockedOrdered, RemoveBlockedPhase
         DEF RemoveBlocked, SchedState
    <3>. HIDE DEF off
    <3>5. off.prio[w] > 0 /\ off.init[w] > 0
      <4>1. held.tstate[w] # "INVALID"
        BY <3>2 DEF BlockedState, WaitState
      <4>. QED  BY <1>10, <3>1, <3>2, <3>3, <4>1 DEF Ordered, Ranked
    <3>6. Safe(on) /\ Ordered(on)
      BY <3>1, <3>2, <3>3, <3>4, <3>5, AddReadyToRunSafe, AddReadyToRunOrdered DEF Safe
    <3>7. /\ ThisTask(on) = next \/ off.lock[next] = 0
          /\ on = [off EXCEPT !.rtr = on.rtr, !.pend = on.pend, !.tstate = on.tstate]
          /\ Phase(on) = [Phase(off) EXCEPT ![w] = "READY"]
      <4>1. Core(off)
        BY <3>3 DEF Safe
      <4>2. Phase(on) = [Phase(off) EXCEPT ![w] = "READY"]
        BY <3>1, <4>1, AddReadyToRunPhase
      <4>3. on = [off EXCEPT !.rtr = on.rtr, !.pend = on.pend, !.tstate = on.tstate]
        BY <3>1, <3>3, <4>1, AddReadyToRunCore
      <4>4. ThisTask(on) = ThisTask(off) \/ off.lock[ThisTask(off)] = 0
        BY <3>1, <3>3, <4>1, LockedHeadStays
      <4>. QED  BY <3>3, <4>2, <4>3, <4>4
    <3>8. Ahead(held, x, y) => Ahead(on, x, y)
      <4>1. Ahead(held, x, y) => Ahead(off, x, y)
        BY <3>4, AheadFrame
      <4>. QED  BY <3>1, <3>3, <4>1, AddKeepsOrder DEF Safe
    <3>9. ASSUME Behind(held) PROVE Ahead(on, x, y) \/ Phase(on)[y] # "READY"
      <4>1. CASE y = w
        BY <3>1, <3>3, <3>4, <3>9, <4>1, AddGoesBehind DEF Safe
      <4>2. CASE y # w
        <5>1. Phase(on)[y] = Phase(held)[y]
          BY <3>4, <3>7, <4>2, PhaseType
        <5>. QED  BY <3>9, <5>1
      <4>. QED  BY <4>1, <4>2
    <3>. HIDE DEF on
    <3>10. on.lock = k /\ ThisTask(on) = next
      <4>1. on.lock = off.lock
        BY <3>3, <3>7 DEF Safe, Core, SchedState
      <4>. QED  BY <1>6, <1>7, <3>3, <3>7, <4>1
    <3>. QED  BY <3>0, <3>6, <3>8, <3>9, <3>10
  <2>. QED  BY <2>1, <2>2
<1>. HIDE DEF hooked
<1>15. d \in [Task -> Nat]
  BY <1>6, <1>7, <1>14
<1>. HIDE DEF d
<1>16. /\ Core(freed) /\ Ordered(freed) /\ Phase(freed) = Phase(hooked)
       /\ freed.rtr = hooked.rtr /\ freed.pend = hooked.pend
  <2>1. /\ Core(freed) /\ freed.rtr = hooked.rtr /\ freed.pend = hooked.pend
        /\ freed.blk = hooked.blk /\ freed.tstate = hooked.tstate
        /\ freed.prio = hooked.prio /\ freed.init = hooked.init
    BY <1>14, <1>15, LockFrame DEF Safe, Core, SchedState
  <2>. HIDE DEF freed
  <2>. QED  BY <1>14, <2>1, OrderedFrame, PhaseFrame DEF Safe
<1>. HIDE DEF freed
<1>17. Ahead(hooked, x, y) => Ahead(merged, x, y)
  BY <1>16, AheadFrame, MergeKeepsOrder
<1>18. Core(merged) /\ Phase(merged) = Phase(hooked)
  BY <1>16, MergeIfPendingSafe, MergePendingPhase DEF Safe
<1>. HIDE DEF merged
<1>. DEFINE r == ReleaseTcb(merged, me)
<1>19. r.rtr = merged.rtr /\ r.pend = merged.pend /\ r.tstate = merged.tstate
  BY <1>18 DEF ReleaseTcb, Core, SchedState
<1>. HIDE DEF r
<1>20. Phase(r) = Phase(merged) /\ (Ahead(merged, x, y) => Ahead(r, x, y))
  BY <1>18, <1>19, PhaseFrame, AheadFrame
<1>21. Ahead(hooked, x, y) \/ Phase(r)[y] # "READY"
  BY <1>12, <1>13, <1>14, <1>18, <1>20, <1>2a, <1>2 DEF r
<1>22. Phase(r)[y] # "READY" => Ahead(s, x, y)
  BY <1>2, <1>2a DEF r
<1>. QED  BY <1>2, <1>12, <1>14, <1>17, <1>20, <1>21, <1>22 DEF r

\* No critical section lets a task overtake its equals.
LEMMA NextFifo ==
  ASSUME Safe(sched), Ordered(sched), [Next]_vars, NEW x \in Task, NEW y \in Task,
         sched.prio[x] = sched.prio[y], sched'.prio[x] = sched.prio[x],
         sched'.prio[y] = sched.prio[y], Runnable(sched', x), Runnable(sched', y),
         \/ x # self /\ Ahead(sched, x, y)
         \/ OnList(sched.rtr, x) /\ ~Runnable(sched, y)
  PROVE  Ahead(sched', x, y) \/ SetPriorityOf(x, sched.prio[x])
<1>. DEFINE cur == ThisTask(sched)
            Led == x # cur /\ Ahead(sched, x, y)
            Arrives == OnList(sched.rtr, x) /\ ~Runnable(sched, y)
<1>0. /\ Core(sched) /\ cur \in Task /\ self = cur /\ sched.prio \in [Task -> 0..MaxPrio]
      /\ sched.tstate[cur] = "RUNNING" /\ sched.policy[Idle] = "FIFO"
      /\ sched \in SchedState /\ OnList(sched.rtr, cur)
      /\ sched.tstate \in [Task -> TState]
  BY CoreFacts DEF Safe, Core, SchedState, self
<1>1. Core(sched') /\ sched' \in SchedState /\ sched'.tstate \in [Task -> TState]
  BY NextSafe DEF Safe, Core, SchedState
<1>2. Led \/ Arrives
  BY <1>0
<1>3. Led => y # cur
  BY <1>0, AheadAreReady
<1>4. /\ Phase(sched')[x] = "READY" /\ Phase(sched')[y] = "READY"
      /\ Arrives => Phase(sched)[y] # "READY"
  BY <1>0, <1>1, RunnablePhase
<1>5. ASSUME Phase(sched') = Phase(sched) PROVE Led
  BY <1>2, <1>4, <1>5
<1>6. ASSUME sched'.rtr = sched.rtr, sched'.pend = sched.pend, Led PROVE Ahead(sched', x, y)
  BY <1>6, AheadFrame
<1>. HIDE DEF Arrives
<1>7. CASE SchedLock
  <2>1. sched' = LockOp(sched)
    BY <1>7 DEF SchedLock
  <2>2. sched'.rtr = sched.rtr /\ sched'.pend = sched.pend
    BY <1>0, <2>1 DEF LockOp, SchedState
  <2>3. Led
    BY <1>0, <1>5, <2>1, LockPhase
  <2>. QED  BY <1>6, <2>2, <2>3
<1>8. CASE SchedUnlock
  <2>1. sched' = UnlockOp(sched)
    BY <1>8 DEF SchedUnlock
  <2>2. Led
    BY <1>0, <1>5, <2>1, LockPhase
  <2>. QED  BY <1>0, <2>1, <2>2, UnlockKeepsOrder
<1>9. CASE Yield
  <2>1. /\ sched' = SetPriority(sched, cur, sched.prio[cur]) /\ cur \in Task \ {Idle}
        /\ sched.prio[cur] > 0 /\ sched.prio[cur] \in 0..MaxPrio
    BY <1>0, <1>9 DEF Yield, Ordered, Ranked
  <2>2. sched.prio[cur] \in 1..MaxPrio
    BY <2>1, MaxPrioPositive
  <2>. HIDE DEF cur
  <2>3. Led
    BY <1>0, <1>5, <2>1, SetPriorityPhase
  <2>. QED  BY <1>0, <1>3, <2>1, <2>2, <2>3, SetPriorityKeepsOrder
<1>10. CASE TimerTick
  <2>1. CASE sched.policy[cur] = "RR"
    <3>1. ThisTask(sched) # Idle /\ sched' = ProcessRoundRobin(sched)
      BY <1>0, <1>10, <2>1 DEF TimerTick
    <3>2. /\ Phase(sched') = Phase(sched)
          /\ \A u, v \in Task : u # cur /\ v # cur /\ Ahead(sched, u, v) => Ahead(sched', u, v)
      BY <3>1, RoundRobinKeepsOrder
    <3>3. Led
      BY <1>5, <3>2
    <3>. QED  BY <1>3, <3>2, <3>3
  <2>2. CASE sched.policy[cur] # "RR"
    <3>1. sched' = sched
      BY <1>0, <1>10, <2>2 DEF TimerTick
    <3>. QED  BY <1>5, <1>6, <3>1
  <2>. QED  BY <2>1, <2>2
<1>11. ASSUME NEW st \in Waits, Block(st) PROVE Ahead(sched', x, y)
  <2>1. st \in BlockedState /\ cur # Idle /\ sched' = BlockTask(sched, cur, st)
    BY <1>0, <1>11, WaitsAreStates DEF Block, BlockedState
  <2>2. Phase(sched') = [Phase(sched) EXCEPT ![cur] = st]
    BY <1>0, <2>1, BlockTaskPhase
  <2>3. st # "READY"
    BY <2>1 DEF BlockedState, WaitState
  <2>4. Led
    <3>1. y # cur
      BY <1>0, <1>4, <2>2, <2>3, PhaseType
    <3>. QED  BY <1>2, <1>4, <2>2, <3>1, PhaseType
  <2>. QED  BY <1>0, <1>3, <2>1, <2>4, BlockKeepsOrder
<1>12. ASSUME NEW t \in Task, Activate(t) \/ Unblock(t) PROVE Ahead(sched', x, y)
  <2>1. sched.tstate[t] \in BlockedState /\ sched' = UnblockTask(sched, t)
    BY <1>12 DEF Activate, Unblock, BlockedState
  <2>2. Phase(sched') = [Phase(sched) EXCEPT ![t] = "READY"]
    BY <1>0, <2>1, UnblockTaskPhase
  <2>3. Arrives => y = t
    BY <1>4, <2>2, PhaseType
  <2>4. Ahead(sched, x, y) \/ (OnList(sched.rtr, x) /\ y = t /\ sched.prio[x] = sched.prio[y])
    BY <1>2, <2>3 DEF Arrives
  <2>. QED  BY <1>0, <2>1, <2>4, UnblockKeepsOrder
<1>13. ASSUME NEW t \in Task, Terminate(t) \/ Restart(t) PROVE Ahead(sched', x, y)
  <2>. DEFINE s == RemoveFromList(sched, t)
  <2>1. t \in Task \ {Idle} /\ t # cur /\ sched.tstate[t] # "INVALID"
    BY <1>0, <1>13 DEF Terminate, Restart, Live
  <2>2. Phase(s) = [Phase(sched) EXCEPT ![t] = "INVALID"] /\ s \in SchedState
    BY <1>0, <2>1, RemoveFromListPhase, RemoveFromListSafe DEF Safe, Core
  <2>3. \/ sched' = ReleaseTcb(s, t)
        \/ sched' = [s EXCEPT !.prio[t] = s.init[t], !.lock[t] = 0,
                              !.tstate[t] = "INACTIVE",
                              !.blk["INACTIVE"] = AddFirst(s.blk["INACTIVE"], t)]
    BY <1>13 DEF Terminate, Restart
  <2>4. Led => t = x \/ t = y \/ Ahead(s, x, y)
    BY <1>0, <2>1, RemoveFromListKeepsOrder
  <2>. HIDE DEF s
  <2>5. /\ sched'.rtr = s.rtr /\ sched'.pend = s.pend
        /\ sched'.tstate = s.tstate \/ sched'.tstate = [s.tstate EXCEPT ![t] = "INACTIVE"]
    BY <2>2, <2>3 DEF ReleaseTcb, SchedState
  <2>6. \A u \in Task : u # t => sched'.tstate[u] = s.tstate[u]
    BY <2>2, <2>5 DEF SchedState
  <2>7. Phase(sched')[t] # "READY"
    <3>1. Phase(s)[t] = "INVALID"
      BY <2>1, <2>2, PhaseType
    <3>2. s.tstate[t] \in BlockedState \cup {"INVALID"}
      BY <2>1, <3>1 DEF Phase, BlockedState, WaitState
    <3>3. sched'.tstate[t] \in BlockedState \cup {"INVALID"}
      BY <2>2, <2>5, <3>2 DEF SchedState, BlockedState
    <3>. QED  BY <2>1, <3>3 DEF Phase, BlockedState, WaitState
  <2>8. t # x /\ t # y
    BY <1>4, <2>7
  <2>9. Phase(sched')[y] = Phase(sched)[y]
    <3>1. Phase(sched')[y] = Phase(s)[y]
      BY <2>6, <2>8 DEF Phase
    <3>. QED  BY <2>2, <2>8, <3>1, PhaseType
  <2>10. Led
    BY <1>2, <1>4, <2>9
  <2>. QED  BY <2>4, <2>5, <2>8, <2>10, AheadFrame
<1>14. ASSUME NEW t \in Task, NEW p \in Priority, SetPriorityOf(t, p)
       PROVE  Ahead(sched', x, y) \/ SetPriorityOf(x, sched.prio[x])
  <2>1. /\ t \in Task \ {Idle} /\ p \in 1..MaxPrio /\ p \in 0..MaxPrio
        /\ sched' = SetPriority(sched, t, p)
    BY <1>14 DEF SetPriorityOf, Priority
  <2>2. Led
    BY <1>0, <1>5, <2>1, SetPriorityPhase
  <2>3. sched'.prio[t] = p
    BY <1>0, <2>1, SetPriorityPrio
  <2>4. CASE t = x
    BY <1>14, <2>3, <2>4
  <2>5. CASE t = y /\ t # x
    <3>1. p = sched.prio[y] /\ y # Idle
      BY <2>1, <2>3, <2>5
    <3>. QED  BY <1>0, <2>1, <2>2, <2>5, <3>1, SetPriorityGoesBehind
  <2>6. CASE t # y /\ t # x
    BY <1>0, <2>1, <2>2, <2>6, SetPriorityKeepsOrder
  <2>. QED  BY <2>4, <2>5, <2>6
<1>15. ASSUME NEW t \in Task, NEW pol \in Policies, SetPolicy(t, pol) PROVE Ahead(sched', x, y)
  <2>1. sched'.rtr = sched.rtr /\ sched'.pend = sched.pend /\ sched'.tstate = sched.tstate
    BY <1>0, <1>15 DEF SchedState, SetPolicy
  <2>2. Led
    BY <1>0, <1>5, <2>1, PhaseFrame
  <2>. QED  BY <1>6, <2>1, <2>2
<1>16. ASSUME NEW t \in Task, NEW p \in Priority, NEW pol \in Policies, Create(t, p, pol)
       PROVE  Ahead(sched', x, y)
  <2>1. /\ sched'.rtr = sched.rtr /\ sched'.pend = sched.pend
        /\ sched'.tstate = [sched.tstate EXCEPT ![t] = "INACTIVE"]
    BY <1>0, <1>16 DEF SchedState, Create
  <2>2. y # t
    BY <1>0, <2>1 DEF Runnable
  <2>3. Runnable(sched', y) => Runnable(sched, y)
    BY <1>0, <2>1, <2>2 DEF Runnable
  <2>4. Led
    BY <1>2, <2>3 DEF Arrives
  <2>. QED  BY <1>6, <2>1, <2>4
<1>17. ASSUME NEW woken \in {{}} \cup {{t} : t \in Task}, Exit(woken) PROVE Ahead(sched', x, y)
  <2>1. /\ woken \in SUBSET Task /\ cur # Idle /\ sched' = ExitTask(sched, woken)
        /\ \A w \in woken : sched.tstate[w] = "WAIT_SEM"
    BY <1>0, <1>17 DEF Exit
  <2>2. ~Runnable(sched', cur)
    BY <2>1, ExitTaskSafe DEF Runnable
  <2>3. x # cur /\ y # cur
    BY <2>2
  <2>4. \/ Ahead(sched, x, y)
        \/ /\ OnList(sched.rtr, x) /\ sched.prio[x] = sched.prio[y]
           /\ Phase(sched)[y] # "READY" /\ Phase(ExitTask(sched, woken))[y] = "READY"
    BY <1>2, <1>4, <2>1 DEF Arrives
  <2>. QED  BY <1>0, <2>1, <2>3, <2>4, ExitKeepsOrder
<1>18. CASE UNCHANGED vars
  <2>1. sched' = sched
    BY <1>18 DEF vars
  <2>. QED  BY <1>5, <1>6, <2>1
<1>. QED  BY <1>7, <1>8, <1>9, <1>10, <1>11, <1>12, <1>13, <1>14, <1>15, <1>16, <1>17, <1>18
          DEF Next

\* Among tasks of one priority the order of arrival decides, through unlock,
\* exit, merge, time slices and priority changes of others.
THEOREM EqualsAlwaysFifo == Spec => FifoAmongEquals
<1>. DEFINE Step == \A x, y \in Task :
                      /\ sched.prio[x] = sched.prio[y]
                      /\ sched'.prio[x] = sched.prio[x] /\ sched'.prio[y] = sched.prio[y]
                      /\ Runnable(sched', x) /\ Runnable(sched', y)
                      /\ \/ x # self /\ Ahead(sched, x, y)
                         \/ OnList(sched.rtr, x) /\ ~Runnable(sched, y)
                      => Ahead(sched', x, y) \/ SetPriorityOf(x, sched.prio[x])
<1>1. Safe(sched) /\ Ordered(sched) /\ [Next]_vars => [Step]_vars
  BY NextFifo
<1>2. Spec => [][Step]_vars
  <2>. HIDE DEF Step
  <2>. QED  BY <1>1, AlwaysSafe, AlwaysOrdered, PTL DEF Spec
<1>. QED  BY <1>2 DEF FifoAmongEquals
=============================================================================
