------------------------------ MODULE NxSched ------------------------------
(***************************************************************************)
(* The task lists of the NuttX scheduler and the operations every kernel   *)
(* service performs on them: sched/sched/sched_*.c and the four ARMv7-M    *)
(* switching functions up_block_task, up_unblock_task, up_release_pending  *)
(* and up_reprioritize_rtr, single-CPU build.                              *)
(*                                                                         *)
(* A scheduler state is one record s, so that an operation of the kernel   *)
(* that calls several of these functions under one critical section is the *)
(* composition of the operators, and one atomic step of a specification:   *)
(*   rtr     g_readytorun; its head is the running task, this_task()       *)
(*   pend    g_pendingtasks: made ready while pre-emption was disabled     *)
(*   blk     the list of every blocked state                               *)
(*   tstate  tcb->task_state         prio   tcb->sched_priority            *)
(*   init    tcb->init_priority      lock   tcb->lockcount                 *)
(*   policy  the scheduling policy   slice  tcb->timeslice, in ticks       *)
(***************************************************************************)
EXTENDS DqList

CONSTANTS
  Task,      \* the TCBs
  Idle,      \* the idle task: priority 0, never blocks, ends g_readytorun
  MaxPrio,   \* SCHED_PRIORITY_MAX
  RRTicks    \* MSEC2TICK(CONFIG_RR_INTERVAL)

ASSUME IdleIsTask == Idle \in Task
ASSUME MaxPrioPositive == MaxPrio \in Nat \ {0}
ASSUME RRTicksPositive == RRTicks \in Nat \ {0}

Priority == 1..MaxPrio
Policy == {"FIFO", "RR"}

WaitState == {"WAIT_SEM", "WAIT_SIG", "WAIT_MQNOTEMPTY", "WAIT_MQNOTFULL"}
BlockedState == {"INACTIVE"} \cup WaitState
TState == {"INVALID", "PENDING", "READYTORUN", "RUNNING"} \cup BlockedState

\* TLIST_ISPRIORITIZED, for the blocked lists of g_tasklisttable
Prioritized == {"WAIT_SEM", "WAIT_MQNOTEMPTY", "WAIT_MQNOTFULL"}

SchedState ==
  [rtr : Seq(Task), pend : Seq(Task), blk : [BlockedState -> Seq(Task)],
   tstate : [Task -> TState], prio : [Task -> 0..MaxPrio],
   init : [Task -> 0..MaxPrio], lock : [Task -> Nat],
   policy : [Task -> Policy], slice : [Task -> 0..RRTicks]]

\* The state nx_start leaves: the idle task runs, nothing else exists.
SchedInit ==
  [rtr |-> <<Idle>>, pend |-> << >>, blk |-> [st \in BlockedState |-> << >>],
   tstate |-> [t \in Task |-> IF t = Idle THEN "RUNNING" ELSE "INVALID"],
   prio |-> [t \in Task |-> 0], init |-> [t \in Task |-> 0],
   lock |-> [t \in Task |-> 0], policy |-> [t \in Task |-> "FIFO"],
   slice |-> [t \in Task |-> 0]]

(***************************************************************************)
(* Insertion by priority.                                                  *)
(***************************************************************************)
\* Seeded fault: a task goes in front of its equals.
InsertPosBeforeEquals(list, from, p, prio) ==
  CHOOSE i \in from..(Len(list) + 1) :
    /\ \A j \in from..(i - 1) : p < prio[list[j]]
    /\ i <= Len(list) => prio[list[i]] <= p

\* The first place from `from' on whose task has a lower priority than p.
InsertPos(list, from, p, prio) ==
  CHOOSE i \in from..(Len(list) + 1) :
    /\ \A j \in from..(i - 1) : p <= prio[list[j]]
    /\ i <= Len(list) => prio[list[i]] < p

AddPrioritized(list, t, prio) ==
  InsertAtPos(list, InsertPos(list, 1, prio[t], prio), t)

(***************************************************************************)
(* The merge of nxsched_merge_pending: each pending task is searched for   *)
(* from the place where the previous one was inserted, never again from    *)
(* the head.  MergeSteps(...)[n] is the state after n tasks were moved.    *)
(***************************************************************************)
MergeStep(v, t, prio) ==
  LET at == InsertPos(v.list, v.pos, prio[t], prio)
  IN  [list |-> InsertAtPos(v.list, at, t), pos |-> at]

MergeSteps(rtr, pend, prio) ==
  LET m[n \in 0..Len(pend)] == IF n = 0 THEN [list |-> rtr, pos |-> 1]
                                ELSE MergeStep(m[n - 1], pend[n], prio)
  IN  m

MergedList(rtr, pend, prio) == MergeSteps(rtr, pend, prio)[Len(pend)].list

(***************************************************************************)
(* sched/sched                                                             *)
(***************************************************************************)
ThisTask(s) == s.rtr[1]

AddReadyToRun(s, t) ==
  IF s.lock[ThisTask(s)] > 0 /\ s.prio[ThisTask(s)] < s.prio[t]
  THEN [s EXCEPT !.pend = AddPrioritized(s.pend, t, s.prio),
                 !.tstate = [s.tstate EXCEPT ![t] = "PENDING"]]
  ELSE LET list == AddPrioritized(s.rtr, t, s.prio)
       IN  [s EXCEPT !.rtr = list,
                     !.tstate = IF list[1] = t
                                THEN [s.tstate EXCEPT
                                        ![ThisTask(s)] = "READYTORUN",
                                        ![t] = "RUNNING"]
                                ELSE [s.tstate EXCEPT ![t] = "READYTORUN"]]

RemoveReadyToRun(s, t) ==
  [s EXCEPT !.rtr = Without(s.rtr, t),
            !.tstate = IF t = ThisTask(s)
                       THEN [s.tstate EXCEPT ![s.rtr[2]] = "RUNNING",
                                             ![t] = "INVALID"]
                       ELSE [s.tstate EXCEPT ![t] = "INVALID"]]

\* Seeded fault: the task that loses the head keeps its state.
MergeForgetsOldHead(s) ==
  LET list == MergedList(s.rtr, s.pend, s.prio)
  IN  [s EXCEPT !.rtr = list,
                !.pend = << >>,
                !.tstate = [t \in Task |->
                              IF t = list[1] THEN "RUNNING"
                              ELSE IF OnList(s.pend, t) THEN "READYTORUN"
                              ELSE s.tstate[t]]]

MergePending(s) ==
  LET list == MergedList(s.rtr, s.pend, s.prio)
  IN  [s EXCEPT !.rtr = list,
                !.pend = << >>,
                !.tstate = [t \in Task |->
                              IF t = list[1] THEN "RUNNING"
                              ELSE IF t = ThisTask(s) \/ OnList(s.pend, t)
                              THEN "READYTORUN"
                              ELSE s.tstate[t]]]

AddBlocked(s, t, st) ==
  [s EXCEPT !.blk = [s.blk EXCEPT
                       ![st] = IF st \in Prioritized
                               THEN AddPrioritized(s.blk[st], t, s.prio)
                               ELSE AddLast(s.blk[st], t)],
            !.tstate = [s.tstate EXCEPT ![t] = st]]

RemoveBlocked(s, t) ==
  [s EXCEPT !.blk = [s.blk EXCEPT
                       ![s.tstate[t]] = Without(s.blk[s.tstate[t]], t)],
            !.tstate = [s.tstate EXCEPT ![t] = "INVALID"]]

\* dq_rem(tcb, TLIST_HEAD(tcb->task_state)), as termination and restart do
RemoveFromList(s, t) ==
  CASE s.tstate[t] = "READYTORUN" ->
         [s EXCEPT !.rtr = Without(s.rtr, t),
                   !.tstate = [s.tstate EXCEPT ![t] = "INVALID"]]
    [] s.tstate[t] = "PENDING" ->
         [s EXCEPT !.pend = Without(s.pend, t),
                   !.tstate = [s.tstate EXCEPT ![t] = "INVALID"]]
    [] OTHER -> RemoveBlocked(s, t)

\* nxsched_resume_scheduler on the task about to run
ResumeScheduler(s) == [s EXCEPT !.slice = [s.slice EXCEPT ![ThisTask(s)] = RRTicks]]

(***************************************************************************)
(* arch/arm/src/armv7-m: each of these ends in a context switch exactly    *)
(* when the head of g_readytorun changed.                                  *)
(***************************************************************************)
MergeIfPending(s) == IF s.pend = << >> THEN s ELSE MergePending(s)

SwitchFrom(old, s) == IF ThisTask(s) = old THEN s ELSE ResumeScheduler(s)

\* Seeded fault: a task that blocks with pre-emption disabled does not merge.
BlockWithoutMerge(s, t, st) ==
  SwitchFrom(ThisTask(s), AddBlocked(RemoveReadyToRun(s, t), t, st))

BlockTask(s, t, st) ==
  SwitchFrom(ThisTask(s),
             MergeIfPending(AddBlocked(RemoveReadyToRun(s, t), t, st)))

UnblockTask(s, t) ==
  SwitchFrom(ThisTask(s), AddReadyToRun(RemoveBlocked(s, t), t))

ReleasePending(s) == SwitchFrom(ThisTask(s), MergePending(s))

ReprioritizeRtr(s, t, p) ==
  LET removed == RemoveReadyToRun(s, t)
      added == AddReadyToRun([removed EXCEPT !.prio = [s.prio EXCEPT ![t] = p]],
                             t)
      switch_needed == (t = ThisTask(s)) # (ThisTask(added) = t)
  IN  IF switch_needed
      THEN ResumeScheduler(MergeIfPending(added))
      ELSE added

(***************************************************************************)
(* nxsched_set_priority, on the state of the task.                         *)
(***************************************************************************)
\* Seeded fault: a running task that lowers its priority keeps the CPU.
RunningSetPriorityInPlace(s, t, p) == [s EXCEPT !.prio = [s.prio EXCEPT ![t] = p]]

RunningSetPriority(s, t, p) ==
  IF p <= s.prio[s.rtr[2]]
  THEN ReprioritizeRtr(s, t, p)
  ELSE [s EXCEPT !.prio = [s.prio EXCEPT ![t] = p]]

ReadyToRunSetPriority(s, t, p) ==
  IF p > s.prio[ThisTask(s)]
  THEN ReprioritizeRtr(s, t, p)
  ELSE AddReadyToRun([RemoveReadyToRun(s, t) EXCEPT
                        !.prio = [s.prio EXCEPT ![t] = p]], t)

\* Seeded fault: a waiting task keeps its place when its priority changes.
BlockedSetPriorityInPlace(s, t, p) == [s EXCEPT !.prio = [s.prio EXCEPT ![t] = p]]

BlockedSetPriority(s, t, p) ==
  LET prio == [s.prio EXCEPT ![t] = p]
      st == s.tstate[t]
  IN  CASE st = "PENDING" ->
             [s EXCEPT !.prio = prio,
                       !.pend = AddPrioritized(Without(s.pend, t), t, prio)]
        [] st \in Prioritized ->
             [s EXCEPT !.prio = prio,
                       !.blk = [s.blk EXCEPT
                                  ![st] = AddPrioritized(Without(s.blk[st], t),
                                                         t, prio)]]
        [] OTHER -> [s EXCEPT !.prio = prio]

SetPriority(s, t, p) ==
  CASE s.tstate[t] = "RUNNING" -> RunningSetPriority(s, t, p)
    [] s.tstate[t] = "READYTORUN" -> ReadyToRunSetPriority(s, t, p)
    [] OTHER -> BlockedSetPriority(s, t, p)

(***************************************************************************)
(* sched_lock, sched_unlock and the round-robin part of the timer tick.    *)
(***************************************************************************)
LockOp(s) == [s EXCEPT !.lock = [s.lock EXCEPT ![ThisTask(s)] = @ + 1]]

\* Seeded fault: the lock count is not tested before it is decremented.
UnlockUnchecked(s) ==
  LET dec == [s EXCEPT !.lock = [s.lock EXCEPT ![ThisTask(s)] = @ - 1]]
  IN  IF s.lock[ThisTask(s)] > 1 \/ s.pend = << >> THEN dec ELSE ReleasePending(dec)

UnlockOp(s) ==
  LET self == ThisTask(s)
      dec == IF s.lock[self] > 0
             THEN [s EXCEPT !.lock = [s.lock EXCEPT ![self] = @ - 1]]
             ELSE s
      released == IF dec.pend = << >> THEN dec ELSE ReleasePending(dec)
  IN  IF dec.lock[self] > 0
      THEN dec
      ELSE IF /\ released.policy[self] = "RR"
              /\ released.slice[self] = 0
              /\ ThisTask(released) # self
           THEN [released EXCEPT !.slice = [released.slice EXCEPT ![self] = RRTicks]]
           ELSE released

\* Seeded fault: a slice that ran out while the task was locked is forgotten.
ProcessRoundRobinOnce(s) ==
  LET t == ThisTask(s)
      left == s.slice[t] - 1
      refilled == [s EXCEPT !.slice = [s.slice EXCEPT ![t] = RRTicks]]
  IN  IF s.slice[t] = 0 THEN s
      ELSE IF left > 0 \/ s.lock[t] > 0
      THEN [s EXCEPT !.slice = [s.slice EXCEPT ![t] = left]]
      ELSE IF Len(s.rtr) > 1 /\ s.prio[s.rtr[2]] >= s.prio[t]
           THEN ReprioritizeRtr(refilled, t, s.prio[t])
           ELSE refilled

ProcessRoundRobin(s) ==
  LET t == ThisTask(s)
      left == IF s.slice[t] > 0 THEN s.slice[t] - 1 ELSE 0
      refilled == [s EXCEPT !.slice = [s.slice EXCEPT ![t] = RRTicks]]
  IN  IF left > 0 \/ s.lock[t] > 0
      THEN [s EXCEPT !.slice = [s.slice EXCEPT ![t] = left]]
      ELSE IF Len(s.rtr) > 1 /\ s.prio[s.rtr[2]] >= s.prio[t]
           THEN ReprioritizeRtr(refilled, t, s.prio[t])
           ELSE refilled

(***************************************************************************)
(* What the lists of a scheduler state have to satisfy, whichever service  *)
(* of the kernel produced it.                                              *)
(***************************************************************************)
\* task_state names the list a task is on: every list holds exactly the tasks
\* in its state, each once, and the head of g_readytorun alone is RUNNING
Placed(s) ==
  /\ NoRepeat(s.rtr) /\ NoRepeat(s.pend)
  /\ \A st \in BlockedState : NoRepeat(s.blk[st])
  /\ \A t \in Task :
       /\ OnList(s.rtr, t) <=> s.tstate[t] \in {"RUNNING", "READYTORUN"}
       /\ OnList(s.pend, t) <=> s.tstate[t] = "PENDING"
       /\ \A st \in BlockedState : OnList(s.blk[st], t) <=> s.tstate[t] = st
       /\ s.tstate[t] = "RUNNING" <=> t = ThisTask(s)

Descending(list, prio) ==
  \A i, j \in 1..Len(list) : i < j => prio[list[j]] <= prio[list[i]]

Sorted(s) ==
  /\ Descending(s.rtr, s.prio) /\ Descending(s.pend, s.prio)
  /\ \A st \in Prioritized : Descending(s.blk[st], s.prio)

PendingNeedsLock(s) == s.pend # << >> => s.lock[ThisTask(s)] > 0
=============================================================================
