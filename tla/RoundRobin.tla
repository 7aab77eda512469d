----------------------------- MODULE RoundRobin -----------------------------
(***************************************************************************)
(* Liveness of the scheduler under a fair timer: tasks of the round-robin  *)
(* policy that lock, block and wake each other, with as many sched_lock    *)
(* calls as LockBudget allows, so that a time slice can run out while      *)
(* pre-emption is disabled.                                                *)
(***************************************************************************)
EXTENDS Scheduler

CONSTANT LockBudget
ASSUME LockBudgetNat == LockBudget \in Nat

VARIABLE budget

rrvars == <<sched, budget>>

RRInit == Init /\ budget = LockBudget

RRLock == SchedLock /\ budget > 0 /\ budget' = budget - 1
RRUnlock == SchedUnlock /\ UNCHANGED budget
RRTick == TimerTick /\ UNCHANGED budget
RRCreate(t, p) == Create(t, p, "RR") /\ UNCHANGED budget
RRActivate(t) == Activate(t) /\ UNCHANGED budget
RRBlock(st) == Block(st) /\ UNCHANGED budget
RRUnblock(t) == Unblock(t) /\ UNCHANGED budget

RRNext ==
  \/ RRLock \/ RRUnlock \/ RRTick
  \/ \E st \in Waits : RRBlock(st)
  \/ \E t \in Task :
       \/ RRActivate(t) \/ RRUnblock(t)
       \/ \E p \in Priority : RRCreate(t, p)

\* The timer interrupt keeps coming, and a task that called sched_lock goes on
\* to call sched_unlock.
RRSpec == RRInit /\ [][RRNext]_rrvars /\ WF_rrvars(RRTick) /\ WF_rrvars(RRUnlock)

\* Every ready task of the highest priority gets the CPU: its peers lose it at
\* the end of their slices, even one whose slice ran out while it was locked
\* (sched_roundrobin.c, sched_unlock.c), and a locked task of a lower priority
\* lets it in on unlocking.
TopPriorityServed ==
  \A t \in Task \ {Idle} :
    (Runnable(sched, t) /\ sched.prio[t] = MaxPrio) ~> (self = t)
=============================================================================
