--------------------------- MODULE NxSchedLemmas ---------------------------
(***************************************************************************)
(* The operations of NxSched keep task_state and the task lists in         *)
(* agreement, leave nobody pending behind an unlocked task and keep the    *)
(* lists sorted, for every set of tasks, every list and every number of    *)
(* priorities.                                                             *)
(***************************************************************************)
EXTENDS NxSched, ListLemmas

(***************************************************************************)
(* Insertion by priority.                                                  *)
(***************************************************************************)
\* The search of nxsched_add_prioritized always ends, at a place of the list
\* or behind its last entry.
LEMMA InsertPosExists ==
  ASSUME NEW list \in Seq(Task), NEW prio \in [Task -> Nat], NEW p \in Nat,
         NEW from \in 1..(Len(list) + 1)
  PROVE  LET i == InsertPos(list, from, p, prio)
         IN  /\ i \in from..(Len(list) + 1)
             /\ \A j \in from..(i - 1) : p <= prio[list[j]]
             /\ i <= Len(list) => prio[list[i]] < p
<1>. DEFINE B == {i \in from..(Len(list) + 1) : i <= Len(list) => prio[list[i]] < p}
<1>1. B \in SUBSET Nat /\ Len(list) + 1 \in B
  OBVIOUS
<1>2. PICK m \in B : \A k \in B : m <= k
  BY <1>1, LeastNat
<1>3. \A j \in from..(m - 1) : p <= prio[list[j]]
  <2>. SUFFICES ASSUME NEW j \in from..(m - 1) PROVE p <= prio[list[j]]
    OBVIOUS
  <2>1. j \in from..(Len(list) + 1) /\ j \notin B /\ j \in 1..Len(list)
    BY <1>2
  <2>2. prio[list[j]] \in Nat
    BY <2>1
  <2>. QED  BY <2>1, <2>2
<1>. QED  BY <1>2, <1>3 DEF InsertPos

(***************************************************************************)
(* The merge of g_pendingtasks into g_readytorun.                          *)
(***************************************************************************)
MergeState == {v \in [list : Seq(Task), pos : Nat] : v.pos \in 1..(Len(v.list) + 1)}

\* One step of the merge keeps the search position on the list.
LEMMA MergeStepType ==
  ASSUME NEW v \in MergeState, NEW t \in Task, NEW prio \in [Task -> Nat]
  PROVE  MergeStep(v, t, prio) \in MergeState
<1>. DEFINE at == InsertPos(v.list, v.pos, prio[t], prio)
<1>1. v.list \in Seq(Task) /\ v.pos \in 1..(Len(v.list) + 1) /\ prio[t] \in Nat
  BY DEF MergeState
<1>2. at \in v.pos..(Len(v.list) + 1)
  BY <1>1, InsertPosExists
<1>3. at \in 1..(Len(v.list) + 1)
  BY <1>1, <1>2
<1>. HIDE DEF at
<1>4. /\ InsertAtPos(v.list, at, t) \in Seq(Task)
      /\ Len(InsertAtPos(v.list, at, t)) = Len(v.list) + 1
  BY <1>1, <1>3, InsertAtPosType
<1>5. MergeStep(v, t, prio) = [list |-> InsertAtPos(v.list, at, t), pos |-> at]
  BY DEF MergeStep, at
<1>. QED  BY <1>1, <1>3, <1>4, <1>5 DEF MergeState

\* One step of the merge adds the pending task and no other.
LEMMA MergeStepContents ==
  ASSUME NEW v \in MergeState, NEW t \in Task, NEW prio \in [Task -> Nat]
  PROVE  LET new == MergeStep(v, t, prio).list
         IN  /\ Len(new) = Len(v.list) + 1
             /\ \A x \in Task : OnList(new, x) <=> OnList(v.list, x) \/ x = t
             /\ NoRepeat(v.list) /\ ~OnList(v.list, t) => NoRepeat(new)
<1>. DEFINE l == v.list
            at == InsertPos(l, v.pos, prio[t], prio)
            new == InsertAtPos(l, at, t)
<1>1. l \in Seq(Task) /\ v.pos \in 1..(Len(l) + 1) /\ prio[t] \in Nat
  BY DEF MergeState
<1>2. MergeStep(v, t, prio).list = new
  BY DEF MergeStep
<1>. HIDE DEF l
<1>3. at \in v.pos..(Len(l) + 1)
  BY <1>1, InsertPosExists
<1>. HIDE DEF at
<1>4. at \in 1..(Len(l) + 1)
  BY <1>1, <1>3
<1>5. Len(new) = Len(l) + 1
  BY <1>1, <1>4, InsertAtPosType
<1>6. /\ \A x \in Task : OnList(new, x) <=> OnList(l, x) \/ x = t
      /\ NoRepeat(l) /\ ~OnList(l, t) => NoRepeat(new)
  <2>. HIDE DEF new
  <2>. QED  BY <1>1, <1>4, InsertAtPosContents DEF new
<1>. HIDE DEF new
<1>. QED  BY <1>2, <1>5, <1>6 DEF l

\* The loop of nxsched_merge_pending, iteration by iteration.
LEMMA MergeStepsUnfold ==
  ASSUME NEW rtr \in Seq(Task), NEW pend \in Seq(Task), NEW prio \in [Task -> Nat]
  PROVE  LET m == MergeSteps(rtr, pend, prio)
         IN  /\ m \in [0..Len(pend) -> MergeState]
             /\ m[0] = [list |-> rtr, pos |-> 1]
             /\ \A n \in 1..Len(pend) : m[n] = MergeStep(m[n - 1], pend[n], prio)
<1>. DEFINE F == [k \in Nat |-> [v \in MergeState |->
                    IF k \in 1..Len(pend) THEN MergeStep(v, pend[k], prio) ELSE v]]
            v0 == [list |-> rtr, pos |-> 1]
            D(f) == [n \in 0..Len(pend) |-> IF n = 0 THEN v0
                                             ELSE MergeStep(f[n - 1], pend[n], prio)]
<1>1. v0 \in MergeState
  BY DEF MergeState
<1>2. F \in [Nat -> [MergeState -> MergeState]]
  BY MergeStepType
<1>3. PICK g : Iterates(g, Len(pend), MergeState, v0, F)
  <2>1. Len(pend) \in Nat
    OBVIOUS
  <2>. HIDE DEF F, v0
  <2>. QED  BY <1>1, <1>2, <2>1, RecursionExists
<1>4. /\ g \in [0..Len(pend) -> MergeState] /\ g[0] = v0
      /\ \A k \in 1..Len(pend) : g[k] = MergeStep(g[k - 1], pend[k], prio)
  <2>1. \A v \in MergeState, k \in 1..Len(pend) :
          F[k][v] = MergeStep(v, pend[k], prio)
    OBVIOUS
  <2>. HIDE DEF F, v0
  <2>2. g \in [0..Len(pend) -> MergeState] /\ g[0] = v0
    BY <1>3 DEF Iterates
  <2>3. ASSUME NEW k \in 1..Len(pend)
        PROVE  g[k] = MergeStep(g[k - 1], pend[k], prio)
    <3>1. g[k] = F[k][g[k - 1]]
      BY <1>3 DEF Iterates
    <3>2. g[k - 1] \in MergeState
      <4>1. k - 1 \in 0..Len(pend)
        OBVIOUS
      <4>. QED  BY <2>2, <4>1
    <3>. QED  BY <2>1, <3>1, <3>2
  <2>. QED  BY <2>2, <2>3
<1>5. g = D(g)
  BY <1>4
<1>6. MergeSteps(rtr, pend, prio) = CHOOSE m : m = D(m)
  BY DEF MergeSteps
<1>. DEFINE m == MergeSteps(rtr, pend, prio)
<1>7. m = D(m)
  BY <1>5, <1>6
<1>. DEFINE S == {n \in Nat : n <= Len(pend) => m[n] = g[n]}
<1>8. m[0] = v0 /\ \A n \in 1..Len(pend) : m[n] = MergeStep(m[n - 1], pend[n], prio)
  <2>1. \A f : D(f)[0] = v0
    OBVIOUS
  <2>2. \A f : \A n \in 1..Len(pend) : D(f)[n] = MergeStep(f[n - 1], pend[n], prio)
    OBVIOUS
  <2>. HIDE DEF m, D, v0
  <2>. QED  BY <1>7, <2>1, <2>2
<1>9. Nat \subseteq S
  <2>. HIDE DEF m
  <2>1. 0 \in S
    BY <1>4, <1>8
  <2>2. ASSUME NEW n \in Nat, n \in S PROVE n + 1 \in S
    BY <1>4, <1>8, <2>2
  <2>. HIDE DEF S
  <2>. QED  BY <2>1, <2>2, InductionOnSet
<1>10. m = g
  <2>1. m = [n \in 0..Len(pend) |-> m[n]]
    <3>. HIDE DEF m
    <3>. QED  BY <1>7
  <2>2. \A n \in 0..Len(pend) : m[n] = g[n]
    <3>. HIDE DEF m
    <3>. QED  BY <1>9
  <2>. HIDE DEF m
  <2>. QED  BY <1>4, <2>1, <2>2
<1>. HIDE DEF m
<1>. QED  BY <1>4, <1>8, <1>10 DEF m

\* Merging keeps every task of both lists, repeats none if the lists are
\* disjoint, and leaves the head of g_readytorun or puts a pending task there.
LEMMA MergedListContents ==
  ASSUME NEW rtr \in Seq(Task), NEW pend \in Seq(Task), NEW prio \in [Task -> Nat]
  PROVE  LET res == MergedList(rtr, pend, prio)
         IN  /\ res \in Seq(Task)
             /\ Len(res) = Len(rtr) + Len(pend)
             /\ \A x \in Task : OnList(res, x) <=> OnList(rtr, x) \/ OnList(pend, x)
             /\ /\ NoRepeat(rtr) /\ NoRepeat(pend)
                /\ \A x \in Task : ~(OnList(rtr, x) /\ OnList(pend, x))
                => NoRepeat(res)
<1>. DEFINE m == MergeSteps(rtr, pend, prio)
            First(n, x) == \E i \in 1..n : pend[i] = x
            Disjoint == /\ NoRepeat(rtr) /\ NoRepeat(pend)
                        /\ \A x \in Task : ~(OnList(rtr, x) /\ OnList(pend, x))
            Good(n) == /\ Len(m[n].list) = Len(rtr) + n
                       /\ \A x \in Task : OnList(m[n].list, x) <=> OnList(rtr, x) \/ First(n, x)
                       /\ Disjoint => NoRepeat(m[n].list)
            S == {n \in Nat : n <= Len(pend) => Good(n)}
<1>1. /\ m \in [0..Len(pend) -> MergeState]
      /\ m[0] = [list |-> rtr, pos |-> 1]
      /\ \A n \in 1..Len(pend) : m[n] = MergeStep(m[n - 1], pend[n], prio)
  BY MergeStepsUnfold
<1>. HIDE DEF m
<1>2. 0 \in S
  BY <1>1
<1>3. ASSUME NEW n \in Nat, n \in S PROVE n + 1 \in S
  <2>. SUFFICES ASSUME n + 1 <= Len(pend) PROVE Good(n + 1)
    OBVIOUS
  <2>1. Good(n) /\ n \in 0..Len(pend) /\ n + 1 \in 1..Len(pend)
    BY <1>3
  <2>. DEFINE v == m[n]
              t == pend[n + 1]
              new == m[n + 1].list
  <2>2. v \in MergeState
    BY <1>1, <2>1
  <2>3. t \in Task
    BY <2>1
  <2>6. m[n + 1] = MergeStep(v, t, prio)
    <3>1. m[n + 1] = MergeStep(m[(n + 1) - 1], pend[n + 1], prio)
      BY <1>1, <2>1
    <3>2. (n + 1) - 1 = n
      OBVIOUS
    <3>. QED  BY <3>1, <3>2
  <2>7. /\ \A x \in Task : OnList(new, x) <=> OnList(v.list, x) \/ x = t
        /\ NoRepeat(v.list) /\ ~OnList(v.list, t) => NoRepeat(new)
        /\ Len(new) = Len(v.list) + 1
    <3>. HIDE DEF v, t
    <3>. QED  BY <2>2, <2>3, <2>6, MergeStepContents
  <2>8. Len(m[n + 1].list) = Len(rtr) + (n + 1)
    BY <2>1, <2>6, <2>7
  <2>9. \A x \in Task : First(n + 1, x) <=> First(n, x) \/ x = t
    OBVIOUS
  <2>10. \A x \in Task : OnList(m[n + 1].list, x) <=> OnList(rtr, x) \/ First(n + 1, x)
    BY <2>1, <2>6, <2>7, <2>9
  <2>11. ASSUME Disjoint PROVE NoRepeat(m[n + 1].list)
    <3>1. ~First(n, t)
      BY <2>1, <2>11 DEF NoRepeat
    <3>2. OnList(pend, t)
      BY <2>1 DEF OnList
    <3>3. ~OnList(v.list, t)
      BY <2>1, <2>3, <2>11, <3>1, <3>2
    <3>. QED  BY <2>1, <2>6, <2>7, <2>11, <3>3
  <2>. QED  BY <2>8, <2>10, <2>11
<1>. HIDE DEF S
<1>4. Nat \subseteq S
  BY <1>2, <1>3, InductionOnSet
<1>5. Len(pend) \in Nat /\ Len(pend) \in 0..Len(pend)
  OBVIOUS
<1>6. Good(Len(pend))
  <2>1. Len(pend) \in S
    BY <1>4, <1>5, Zenon
  <2>. QED  BY <1>5, <2>1, SMTT(30) DEF S
<1>7. \A x \in Task : First(Len(pend), x) <=> OnList(pend, x)
  BY DEF OnList
<1>8. MergedList(rtr, pend, prio) = m[Len(pend)].list
  BY DEF MergedList, m
<1>9. m[Len(pend)].list \in Seq(Task)
  BY <1>1, <1>5 DEF MergeState
<1>. QED  BY <1>6, <1>7, <1>8, <1>9

\* nxsched_add_prioritized adds the task and no other; it becomes the head only
\* of an empty list or when its priority is higher than that of the old head.
LEMMA AddPrioritizedContents ==
  ASSUME NEW list \in Seq(Task), NEW t \in Task, NEW prio \in [Task -> Nat]
  PROVE  LET res == AddPrioritized(list, t, prio)
         IN  /\ res \in Seq(Task)
             /\ Len(res) = Len(list) + 1
             /\ \A x \in Task : OnList(res, x) <=> OnList(list, x) \/ x = t
             /\ NoRepeat(list) /\ ~OnList(list, t) => NoRepeat(res)
             /\ res[1] = t \/ (Len(list) > 0 /\ res[1] = list[1])
             /\ Len(list) > 0 /\ prio[t] <= prio[list[1]] => res[1] = list[1]
<1>. DEFINE at == InsertPos(list, 1, prio[t], prio)
            res == InsertAtPos(list, at, t)
<1>1. prio[t] \in Nat /\ 1 \in 1..(Len(list) + 1)
  OBVIOUS
<1>2. /\ at \in 1..(Len(list) + 1)
      /\ at <= Len(list) => prio[list[at]] < prio[t]
  BY <1>1, InsertPosExists
<1>3. AddPrioritized(list, t, prio) = res
  BY DEF AddPrioritized
<1>. HIDE DEF at
<1>4. res \in Seq(Task) /\ Len(res) = Len(list) + 1
  BY <1>2, InsertAtPosType
<1>5. /\ \A x \in Task : OnList(res, x) <=> OnList(list, x) \/ x = t
      /\ NoRepeat(list) /\ ~OnList(list, t) => NoRepeat(res)
      /\ res[1] = IF at = 1 THEN t ELSE list[1]
  <2>. HIDE DEF res
  <2>. QED  BY <1>2, InsertAtPosContents DEF res
<1>. HIDE DEF res
<1>6. ASSUME Len(list) > 0, prio[t] <= prio[list[1]] PROVE at # 1
  <2>1. list[1] \in Task /\ prio[list[1]] \in Nat
    BY <1>6
  <2>. QED  BY <1>1, <1>2, <1>6, <2>1
<1>7. at # 1 => Len(list) > 0
  BY <1>2
<1>. QED  BY <1>3, <1>4, <1>5, <1>6, <1>7

(***************************************************************************)
(* The scheduler's operations keep task_state and the lists in agreement.  *)
(***************************************************************************)
Core(s) ==
  s \in SchedState /\ Placed(s) /\ OnList(s.rtr, Idle) /\ s.policy[Idle] = "FIFO"

\* The idle task keeps g_readytorun from being empty: removing another task
\* leaves a task to run.
LEMMA CoreFacts ==
  ASSUME NEW s, Core(s)
  PROVE  /\ s.rtr \in Seq(Task) /\ Len(s.rtr) > 0 /\ ThisTask(s) \in Task
         /\ OnList(s.rtr, ThisTask(s)) /\ s.tstate[ThisTask(s)] = "RUNNING"
         /\ s.prio \in [Task -> Nat]
         /\ \A t \in Task : t # Idle /\ OnList(s.rtr, t) => Len(s.rtr) > 1
<1>1. /\ s.rtr \in Seq(Task) /\ s.prio \in [Task -> 0..MaxPrio]
      /\ s.tstate \in [Task -> TState]
  BY DEF Core, SchedState
<1>2. Len(s.rtr) > 0
  BY <1>1 DEF Core, OnList
<1>3. ThisTask(s) \in Task /\ OnList(s.rtr, ThisTask(s))
  BY <1>1, <1>2 DEF ThisTask, OnList
<1>4. s.tstate[ThisTask(s)] = "RUNNING"
  BY <1>3 DEF Core, Placed
<1>5. s.prio \in [Task -> Nat]
  BY <1>1, MaxPrioPositive
<1>6. ASSUME NEW t \in Task, t # Idle, OnList(s.rtr, t) PROVE Len(s.rtr) > 1
  BY <1>1, <1>6 DEF Core, OnList
<1>. QED  BY <1>1, <1>2, <1>3, <1>4, <1>5, <1>6

\* nxsched_remove_readytorun leaves the task on no list and, when it was the
\* head, the next one running.
LEMMA RemoveReadyToRunCore ==
  ASSUME NEW s, Core(s), NEW t \in Task \ {Idle}, OnList(s.rtr, t)
  PROVE  LET r == RemoveReadyToRun(s, t)
         IN  /\ Core(r)
             /\ r.tstate[t] = "INVALID"
             /\ ThisTask(r) # t
             /\ ThisTask(r) = IF t = ThisTask(s) THEN s.rtr[2] ELSE ThisTask(s)
             /\ r = [s EXCEPT !.rtr = r.rtr, !.tstate = r.tstate]
<1>. DEFINE r == RemoveReadyToRun(s, t)
            list == Without(s.rtr, t)
<1>1. /\ s.rtr \in Seq(Task) /\ Len(s.rtr) > 1 /\ ThisTask(s) \in Task
      /\ s.tstate[ThisTask(s)] = "RUNNING"
      /\ s.tstate \in [Task -> TState]
      /\ NoRepeat(s.rtr)
  BY CoreFacts DEF Core, Placed, SchedState
<1>2. /\ list \in Seq(Task) /\ Len(list) = Len(s.rtr) - 1 /\ NoRepeat(list)
      /\ \A x \in Task : OnList(list, x) <=> OnList(s.rtr, x) /\ x # t
      /\ list[1] = IF s.rtr[1] = t THEN s.rtr[2] ELSE s.rtr[1]
  BY <1>1, WithoutContents
<1>3. s.rtr[2] \in Task /\ s.rtr[2] # s.rtr[1]
  BY <1>1 DEF NoRepeat
<1>4. r = [s EXCEPT !.rtr = list,
                    !.tstate = IF t = ThisTask(s)
                               THEN [s.tstate EXCEPT ![s.rtr[2]] = "RUNNING",
                                                     ![t] = "INVALID"]
                               ELSE [s.tstate EXCEPT ![t] = "INVALID"]]
  BY DEF RemoveReadyToRun
<1>. HIDE DEF r, list
<1>5. s \in SchedState
  BY DEF Core
<1>6. /\ r \in SchedState /\ r.rtr = list /\ r.pend = s.pend /\ r.blk = s.blk
      /\ r.policy = s.policy
      /\ r.tstate = IF t = ThisTask(s)
                    THEN [s.tstate EXCEPT ![s.rtr[2]] = "RUNNING", ![t] = "INVALID"]
                    ELSE [s.tstate EXCEPT ![t] = "INVALID"]
  BY <1>1, <1>2, <1>3, <1>4, <1>5 DEF SchedState, TState
<1>7. ThisTask(r) = IF t = ThisTask(s) THEN s.rtr[2] ELSE ThisTask(s)
  BY <1>2, <1>6 DEF ThisTask
<1>8. ThisTask(r) # t /\ r.tstate[t] = "INVALID"
  BY <1>1, <1>3, <1>6, <1>7 DEF ThisTask
<1>9. OnList(r.rtr, Idle)
  BY <1>2, <1>6, IdleIsTask DEF Core
<1>10. Placed(r)
  <2>1. ASSUME NEW x \in Task
        PROVE  /\ OnList(r.rtr, x) <=> r.tstate[x] \in {"RUNNING", "READYTORUN"}
               /\ OnList(r.pend, x) <=> r.tstate[x] = "PENDING"
               /\ \A st \in BlockedState : OnList(r.blk[st], x) <=> r.tstate[x] = st
               /\ r.tstate[x] = "RUNNING" <=> x = ThisTask(r)
    <3>1. /\ OnList(s.rtr, x) <=> s.tstate[x] \in {"RUNNING", "READYTORUN"}
          /\ OnList(s.pend, x) <=> s.tstate[x] = "PENDING"
          /\ \A st \in BlockedState : OnList(s.blk[st], x) <=> s.tstate[x] = st
          /\ s.tstate[x] = "RUNNING" <=> x = ThisTask(s)
      BY DEF Core, Placed
    <3>2. CASE x = t
      BY <1>2, <1>6, <1>7, <1>8, <3>1, <3>2 DEF BlockedState, WaitState
    <3>3. CASE x = s.rtr[2] /\ t = ThisTask(s)
      <4>1. x # t /\ OnList(s.rtr, x)
        BY <1>1, <1>3, <3>3 DEF ThisTask, OnList
      <4>2. s.tstate[x] = "READYTORUN" /\ r.tstate[x] = "RUNNING"
        BY <1>1, <1>3, <1>6, <3>1, <3>3, <4>1 DEF ThisTask
      <4>. QED  BY <1>2, <1>6, <1>7, <3>1, <3>3, <4>1, <4>2 DEF BlockedState, WaitState
    <3>4. CASE x # t /\ ~(x = s.rtr[2] /\ t = ThisTask(s))
      BY <1>1, <1>2, <1>3, <1>6, <1>7, <3>1, <3>4
    <3>. QED  BY <3>2, <3>3, <3>4
  <2>2. NoRepeat(r.rtr) /\ NoRepeat(r.pend) /\ \A st \in BlockedState : NoRepeat(r.blk[st])
    BY <1>2, <1>6 DEF Core, Placed
  <2>. QED  BY <2>1, <2>2 DEF Placed
<1>11. r = [s EXCEPT !.rtr = r.rtr, !.tstate = r.tstate]
  BY <1>4, <1>5 DEF SchedState
<1>12. r.policy[Idle] = "FIFO"
  BY <1>6 DEF Core
<1>. QED  BY <1>6, <1>7, <1>8, <1>9, <1>10, <1>11, <1>12 DEF Core, r

\* Where task x is, as Placed states it.
PlacedAt(s, x) ==
  /\ OnList(s.rtr, x) <=> s.tstate[x] \in {"RUNNING", "READYTORUN"}
  /\ OnList(s.pend, x) <=> s.tstate[x] = "PENDING"
  /\ \A st \in BlockedState : OnList(s.blk[st], x) <=> s.tstate[x] = st
  /\ s.tstate[x] = "RUNNING" <=> x = ThisTask(s)

NoRepeats(s) ==
  NoRepeat(s.rtr) /\ NoRepeat(s.pend) /\ \A st \in BlockedState : NoRepeat(s.blk[st])

\* Core, taken apart.
LEMMA CoreParts ==
  ASSUME NEW s
  PROVE  Core(s) <=> /\ s \in SchedState /\ NoRepeats(s) /\ OnList(s.rtr, Idle)
                     /\ s.policy[Idle] = "FIFO" /\ \A x \in Task : PlacedAt(s, x)
BY DEF Core, Placed, NoRepeats, PlacedAt

\* A task in state INVALID is on no list.
LEMMA InvalidOnNoList ==
  ASSUME NEW s, Core(s), NEW t \in Task, s.tstate[t] = "INVALID"
  PROVE  /\ ~OnList(s.rtr, t) /\ ~OnList(s.pend, t) /\ t # ThisTask(s)
         /\ \A st \in BlockedState : ~OnList(s.blk[st], t)
<1>1. PlacedAt(s, t)
  BY CoreParts
<1>. QED  BY <1>1 DEF PlacedAt, BlockedState, WaitState

\* The priorities, lock counts and time slices do not decide where a task is.
LEMMA CoreFrame ==
  ASSUME NEW s, Core(s), NEW r \in SchedState,
         r.rtr = s.rtr, r.pend = s.pend, r.blk = s.blk, r.tstate = s.tstate,
         r.policy[Idle] = "FIFO"
  PROVE  Core(r) /\ ThisTask(r) = ThisTask(s)
BY DEF Core, Placed, ThisTask

\* nxsched_add_readytorun puts the task on g_readytorun or on g_pendingtasks;
\* the latter only if the running task is locked and stays.  The task becomes
\* the running one only if pre-emption is enabled.
LEMMA AddReadyToRunCore ==
  ASSUME NEW s, Core(s), NEW t \in Task, s.tstate[t] = "INVALID"
  PROVE  LET r == AddReadyToRun(s, t)
         IN  /\ Core(r)
             /\ r = [s EXCEPT !.rtr = r.rtr, !.pend = r.pend, !.tstate = r.tstate]
             /\ \/ /\ ThisTask(r) = ThisTask(s)
                   /\ s.lock[ThisTask(s)] > 0 \/ r.pend = s.pend
                \/ /\ ThisTask(r) = t /\ r.pend = s.pend
                   /\ s.lock[ThisTask(s)] = 0 /\ s.prio[t] > s.prio[ThisTask(s)]
<1>. DEFINE r == AddReadyToRun(s, t)
            cur == ThisTask(s)
<1>1. /\ s \in SchedState /\ s.rtr \in Seq(Task) /\ Len(s.rtr) > 0 /\ cur \in Task
      /\ s.tstate[cur] = "RUNNING" /\ s.prio \in [Task -> Nat]
      /\ s.pend \in Seq(Task) /\ s.tstate \in [Task -> TState]
      /\ s.lock \in [Task -> Nat] /\ NoRepeats(s) /\ \A x \in Task : PlacedAt(s, x)
      /\ OnList(s.rtr, Idle) /\ s.policy[Idle] = "FIFO"
  BY CoreFacts, CoreParts DEF SchedState
<1>2. ~OnList(s.rtr, t) /\ ~OnList(s.pend, t) /\ t # cur
      /\ \A st \in BlockedState : ~OnList(s.blk[st], t)
  BY InvalidOnNoList
<1>. HIDE DEF cur
<1>3. CASE s.lock[cur] > 0 /\ s.prio[cur] < s.prio[t]
  <2>. DEFINE list == AddPrioritized(s.pend, t, s.prio)
  <2>1. /\ list \in Seq(Task) /\ NoRepeat(list)
        /\ \A x \in Task : OnList(list, x) <=> OnList(s.pend, x) \/ x = t
    <3>1. /\ s.pend \in Seq(Task) /\ s.prio \in [Task -> Nat] /\ NoRepeat(s.pend)
          /\ ~OnList(s.pend, t)
      BY <1>1, <1>2 DEF NoRepeats
    <3>. QED  BY <3>1, AddPrioritizedContents, SMTT(30)
  <2>2. r = [s EXCEPT !.pend = list, !.tstate = [s.tstate EXCEPT ![t] = "PENDING"]]
    BY <1>3 DEF AddReadyToRun, cur
  <2>. HIDE DEF list, r
  <2>3. /\ r \in SchedState /\ r.rtr = s.rtr /\ r.pend = list /\ r.blk = s.blk
        /\ r.tstate = [s.tstate EXCEPT ![t] = "PENDING"]
        /\ r = [s EXCEPT !.rtr = r.rtr, !.pend = r.pend, !.tstate = r.tstate]
        /\ r.policy = s.policy
    BY <1>1, <2>1, <2>2 DEF SchedState, TState
  <2>4. ThisTask(r) = cur
    BY <2>3 DEF ThisTask, cur
  <2>5. NoRepeats(r)
    BY <1>1, <2>1, <2>3 DEF NoRepeats
  <2>6. ASSUME NEW x \in Task PROVE PlacedAt(r, x)
    <3>1. PlacedAt(s, x)
      BY <1>1
    <3>2. CASE x = t
      BY <1>1, <1>2, <2>1, <2>3, <2>4, <3>2 DEF PlacedAt, BlockedState, WaitState
    <3>3. CASE x # t
      BY <1>1, <2>1, <2>3, <2>4, <3>1, <3>3 DEF PlacedAt, cur
    <3>. QED  BY <3>2, <3>3
  <2>7. Core(r)
    BY <1>1, <2>3, <2>5, <2>6, CoreParts
  <2>. QED  BY <1>3, <2>3, <2>4, <2>7 DEF r, cur
<1>4. CASE ~(s.lock[cur] > 0 /\ s.prio[cur] < s.prio[t])
  <2>. DEFINE list == AddPrioritized(s.rtr, t, s.prio)
              ts == IF list[1] = t
                    THEN [s.tstate EXCEPT ![cur] = "READYTORUN", ![t] = "RUNNING"]
                    ELSE [s.tstate EXCEPT ![t] = "READYTORUN"]
  <2>1. /\ list \in Seq(Task) /\ NoRepeat(list) /\ Len(list) = Len(s.rtr) + 1
        /\ \A x \in Task : OnList(list, x) <=> OnList(s.rtr, x) \/ x = t
        /\ list[1] = t \/ list[1] = cur
        /\ s.prio[t] <= s.prio[cur] => list[1] = cur
    <3>. HIDE DEF r, ts
    <3>. DEFINE l == s.rtr
    <3>1. /\ l \in Seq(Task) /\ NoRepeat(l) /\ ~OnList(l, t) /\ Len(l) > 0 /\ l[1] = cur
          /\ list = AddPrioritized(l, t, s.prio)
      BY <1>1, <1>2 DEF NoRepeats, cur, ThisTask
    <3>. HIDE DEF l, list
    <3>2. /\ list \in Seq(Task) /\ NoRepeat(list) /\ Len(list) = Len(l) + 1
          /\ \A x \in Task : OnList(list, x) <=> OnList(l, x) \/ x = t
      <4>1. s.prio \in [Task -> Nat]
        BY <1>1
      <4>. QED  BY <3>1, <4>1, AddPrioritizedContents, ZenonT(30)
    <3>3. /\ list[1] = t \/ list[1] = cur
          /\ s.prio[t] <= s.prio[cur] => list[1] = cur
      BY <1>1, <3>1, AddPrioritizedContents
    <3>. QED  BY <3>2, <3>3 DEF l
  <2>2. r = [s EXCEPT !.rtr = list, !.tstate = ts]
    BY <1>4 DEF AddReadyToRun, cur
  <2>. HIDE DEF list, r, ts
  <2>3. ts \in [Task -> TState]
    BY <1>1 DEF ts, TState
  <2>4. /\ r \in SchedState /\ r.rtr = list /\ r.pend = s.pend /\ r.blk = s.blk
        /\ r.tstate = ts
        /\ r = [s EXCEPT !.rtr = r.rtr, !.pend = r.pend, !.tstate = r.tstate]
        /\ r.policy = s.policy
    BY <1>1, <2>1, <2>2, <2>3 DEF SchedState
  <2>5. ThisTask(r) = list[1]
    BY <2>4 DEF ThisTask
  <2>6. NoRepeats(r)
    BY <1>1, <2>1, <2>4 DEF NoRepeats
  <2>7. ASSUME NEW x \in Task PROVE PlacedAt(r, x)
    <3>1. PlacedAt(s, x)
      BY <1>1
    <3>2. CASE x = t
      BY <1>1, <1>2, <2>1, <2>4, <2>5, <3>2 DEF PlacedAt, BlockedState, WaitState, ts
    <3>3. CASE x = cur
      <4>1. OnList(s.rtr, x) /\ ~OnList(s.pend, x)
            /\ \A st \in BlockedState : ~OnList(s.blk[st], x)
        BY <1>1, <3>1, <3>3 DEF PlacedAt, BlockedState, WaitState
      <4>2. ts[x] = IF list[1] = t THEN "READYTORUN" ELSE "RUNNING"
        BY <1>1, <1>2, <3>3 DEF ts
      <4>. QED  BY <1>2, <2>1, <2>4, <2>5, <3>3, <4>1, <4>2
                DEF PlacedAt, BlockedState, WaitState
    <3>4. CASE x # t /\ x # cur
      <4>1. ts[x] = s.tstate[x]
        BY <1>1, <3>4 DEF ts
      <4>2. x # ThisTask(r) /\ x # ThisTask(s) /\ (OnList(r.rtr, x) <=> OnList(s.rtr, x))
        BY <2>1, <2>4, <2>5, <3>4 DEF cur
      <4>. QED  BY <2>4, <3>1, <4>1, <4>2 DEF PlacedAt
    <3>. QED  BY <3>2, <3>3, <3>4
  <2>8. OnList(r.rtr, Idle)
    BY <1>1, <2>1, <2>4, IdleIsTask
  <2>9. Core(r)
    BY <2>4, <2>6, <2>7, <2>8, CoreParts
  <2>10. s.prio[t] \in Nat /\ s.prio[cur] \in Nat /\ s.lock[cur] \in Nat
    BY <1>1
  <2>11. ThisTask(r) = t => s.prio[t] > s.prio[cur] /\ s.lock[cur] = 0
    BY <1>2, <1>4, <2>1, <2>5, <2>10
  <2>. QED  BY <2>1, <2>4, <2>5, <2>9, <2>11 DEF r, cur
<1>. QED  BY <1>3, <1>4

\* nxsched_merge_pending empties g_pendingtasks and loses no task.
LEMMA MergePendingCore ==
  ASSUME NEW s, Core(s)
  PROVE  LET r == MergePending(s)
         IN  /\ Core(r)
             /\ r.pend = << >>
             /\ r = [s EXCEPT !.rtr = r.rtr, !.pend = r.pend, !.tstate = r.tstate]
<1>. DEFINE r == MergePending(s)
            cur == ThisTask(s)
            list == MergedList(s.rtr, s.pend, s.prio)
            ts == [t \in Task |-> IF t = list[1] THEN "RUNNING"
                                 ELSE IF t = cur \/ OnList(s.pend, t) THEN "READYTORUN"
                                 ELSE s.tstate[t]]
<1>1. /\ s \in SchedState /\ s.rtr \in Seq(Task) /\ Len(s.rtr) > 0 /\ cur \in Task
      /\ OnList(s.rtr, cur) /\ s.tstate[cur] = "RUNNING" /\ s.prio \in [Task -> Nat]
      /\ s.pend \in Seq(Task) /\ s.tstate \in [Task -> TState]
      /\ NoRepeats(s) /\ OnList(s.rtr, Idle) /\ s.policy[Idle] = "FIFO"
      /\ \A x \in Task : PlacedAt(s, x)
  BY CoreFacts, CoreParts DEF SchedState
<1>2. \A x \in Task : ~(OnList(s.rtr, x) /\ OnList(s.pend, x))
  BY <1>1 DEF PlacedAt
<1>3. /\ list \in Seq(Task) /\ NoRepeat(list) /\ Len(list) = Len(s.rtr) + Len(s.pend)
      /\ \A x \in Task : OnList(list, x) <=> OnList(s.rtr, x) \/ OnList(s.pend, x)
  BY <1>1, <1>2, MergedListContents DEF NoRepeats
<1>4. r = [s EXCEPT !.rtr = list, !.pend = << >>, !.tstate = ts]
  BY DEF MergePending
<1>. HIDE DEF list, r, cur, ts
<1>5. list[1] \in Task /\ OnList(list, list[1])
  <2>. DEFINE l == s.rtr
              p == s.pend
  <2>1. /\ l \in Seq(Task) /\ p \in Seq(Task) /\ list \in Seq(Task)
        /\ Len(l) > 0 /\ Len(list) = Len(l) + Len(p)
    BY <1>1, <1>3
  <2>. HIDE DEF l, p
  <2>2. 1 \in 1..Len(list) /\ list[1] \in Task
    BY <2>1
  <2>. QED  BY <2>2 DEF OnList
<1>6. ts \in [Task -> TState]
  BY <1>1 DEF TState, ts
<1>7. /\ r \in SchedState /\ r.rtr = list /\ r.pend = << >> /\ r.blk = s.blk /\ r.tstate = ts
      /\ r = [s EXCEPT !.rtr = r.rtr, !.pend = r.pend, !.tstate = r.tstate]
      /\ r.policy = s.policy
  <2>1. << >> \in Seq(Task)
    OBVIOUS
  <2>. DEFINE e == << >>
  <2>2. r = [s EXCEPT !.rtr = list, !.pend = e, !.tstate = ts] /\ e \in Seq(Task)
    BY <1>4, <2>1
  <2>. HIDE DEF e
  <2>3. r \in SchedState /\ r.rtr = list /\ r.pend = e /\ r.blk = s.blk /\ r.tstate = ts
        /\ r = [s EXCEPT !.rtr = r.rtr, !.pend = r.pend, !.tstate = r.tstate]
        /\ r.policy = s.policy
    BY <1>1, <1>3, <1>6, <2>2 DEF SchedState
  <2>. QED  BY <2>3 DEF e
<1>8. ThisTask(r) = list[1]
  BY <1>7 DEF ThisTask
<1>9. NoRepeats(r)
  <2>1. NoRepeat(<< >>)
    BY DEF NoRepeat
  <2>. QED  BY <1>1, <1>3, <1>7, <2>1 DEF NoRepeats
<1>10. ASSUME NEW x \in Task PROVE PlacedAt(r, x)
  <2>1. PlacedAt(s, x)
    BY <1>1
  <2>2. ~OnList(<< >>, x)
    BY DEF OnList
  <2>3. ts[x] = IF x = list[1] THEN "RUNNING"
                ELSE IF x = cur \/ OnList(s.pend, x) THEN "READYTORUN" ELSE s.tstate[x]
    BY DEF ts
  <2>4. CASE OnList(list, x)
    <3>1. \A st \in BlockedState : ~OnList(s.blk[st], x)
      BY <1>3, <2>1, <2>4 DEF PlacedAt, BlockedState, WaitState
    <3>2. ts[x] \in {"RUNNING", "READYTORUN"} /\ (ts[x] = "RUNNING" <=> x = list[1])
      BY <1>3, <2>1, <2>3, <2>4 DEF PlacedAt, cur
    <3>. QED  BY <1>7, <1>8, <2>2, <2>4, <3>1, <3>2 DEF PlacedAt, BlockedState, WaitState
  <2>5. CASE ~OnList(list, x)
    <3>1. ts[x] = s.tstate[x] /\ x # list[1] /\ ~OnList(s.rtr, x) /\ ~OnList(s.pend, x)
      BY <1>1, <1>3, <1>5, <2>3, <2>5
    <3>. QED  BY <1>7, <1>8, <2>1, <2>2, <2>5, <3>1 DEF PlacedAt
  <2>. QED  BY <2>4, <2>5
<1>11. OnList(r.rtr, Idle)
  BY <1>1, <1>3, <1>7, IdleIsTask
<1>12. Core(r)
  BY <1>7, <1>9, <1>10, <1>11, CoreParts
<1>. QED  BY <1>7, <1>12 DEF r

\* nxsched_add_blocked of a task that is on no list.
LEMMA AddBlockedCore ==
  ASSUME NEW s, Core(s), NEW t \in Task, s.tstate[t] = "INVALID",
         NEW st \in BlockedState
  PROVE  LET r == AddBlocked(s, t, st)
         IN  /\ Core(r)
             /\ ThisTask(r) = ThisTask(s)
             /\ r = [s EXCEPT !.blk = r.blk, !.tstate = r.tstate]
<1>. DEFINE r == AddBlocked(s, t, st)
            list == IF st \in Prioritized THEN AddPrioritized(s.blk[st], t, s.prio)
                    ELSE AddLast(s.blk[st], t)
<1>1. /\ s \in SchedState /\ s.prio \in [Task -> Nat]
      /\ s.blk \in [BlockedState -> Seq(Task)] /\ s.tstate \in [Task -> TState]
      /\ NoRepeats(s) /\ OnList(s.rtr, Idle) /\ s.policy[Idle] = "FIFO"
      /\ \A x \in Task : PlacedAt(s, x)
  BY CoreFacts, CoreParts DEF SchedState
<1>2. /\ ~OnList(s.rtr, t) /\ ~OnList(s.pend, t) /\ t # ThisTask(s)
      /\ \A st2 \in BlockedState : ~OnList(s.blk[st2], t)
  BY InvalidOnNoList
<1>3. /\ list \in Seq(Task) /\ NoRepeat(list)
      /\ \A x \in Task : OnList(list, x) <=> OnList(s.blk[st], x) \/ x = t
  <2>. DEFINE old == s.blk[st]
  <2>1. old \in Seq(Task) /\ NoRepeat(old) /\ ~OnList(old, t)
    BY <1>1, <1>2 DEF NoRepeats
  <2>. HIDE DEF old
  <2>2. /\ AddPrioritized(old, t, s.prio) \in Seq(Task)
        /\ NoRepeat(AddPrioritized(old, t, s.prio))
        /\ \A x \in Task : OnList(AddPrioritized(old, t, s.prio), x) <=> OnList(old, x) \/ x = t
    BY <1>1, <2>1, AddPrioritizedContents
  <2>3. /\ Append(old, t) \in Seq(Task)
        /\ NoRepeat(Append(old, t))
    BY <2>1 DEF NoRepeat, OnList
  <2>4. ASSUME NEW x \in Task
        PROVE  OnList(Append(old, t), x) <=> OnList(old, x) \/ x = t
    <3>1. Len(Append(old, t)) = Len(old) + 1 /\ Append(old, t)[Len(old) + 1] = t
          /\ \A i \in 1..Len(old) : Append(old, t)[i] = old[i]
      BY <2>1
    <3>2. Len(old) \in Nat
      BY <2>1
    <3>. QED  BY <3>1, <3>2 DEF OnList
  <2>. QED  BY <2>2, <2>3, <2>4 DEF old, AddLast
<1>4. r = [s EXCEPT !.blk = [s.blk EXCEPT ![st] = list],
                    !.tstate = [s.tstate EXCEPT ![t] = st]]
  BY DEF AddBlocked
<1>. HIDE DEF list, r
<1>5. /\ r \in SchedState /\ r.rtr = s.rtr /\ r.pend = s.pend
      /\ r.blk = [s.blk EXCEPT ![st] = list]
      /\ r.tstate = [s.tstate EXCEPT ![t] = st]
      /\ r = [s EXCEPT !.blk = r.blk, !.tstate = r.tstate]
      /\ r.policy = s.policy
  BY <1>1, <1>3, <1>4 DEF SchedState, TState
<1>6. ThisTask(r) = ThisTask(s)
  BY <1>5 DEF ThisTask
<1>7. NoRepeats(r)
  BY <1>1, <1>3, <1>5 DEF NoRepeats
<1>8. ASSUME NEW x \in Task PROVE PlacedAt(r, x)
  <2>1. PlacedAt(s, x)
    BY <1>1
  <2>2. \A st2 \in BlockedState :
          OnList(r.blk[st2], x) <=> OnList(s.blk[st2], x) \/ (st2 = st /\ x = t)
    BY <1>1, <1>3, <1>5
  <2>3. CASE x = t
    BY <1>1, <1>2, <1>5, <1>6, <2>2, <2>3 DEF PlacedAt, BlockedState, WaitState
  <2>4. CASE x # t
    BY <1>1, <1>5, <1>6, <2>1, <2>2, <2>4 DEF PlacedAt
  <2>. QED  BY <2>3, <2>4
<1>9. Core(r)
  BY <1>1, <1>5, <1>7, <1>8, CoreParts
<1>. QED  BY <1>5, <1>6, <1>9 DEF r

\* nxsched_remove_blocked leaves the task on no list.
LEMMA RemoveBlockedCore ==
  ASSUME NEW s, Core(s), NEW t \in Task, s.tstate[t] \in BlockedState
  PROVE  LET r == RemoveBlocked(s, t)
         IN  /\ Core(r)
             /\ r.tstate[t] = "INVALID"
             /\ ThisTask(r) = ThisTask(s)
             /\ r = [s EXCEPT !.blk = r.blk, !.tstate = r.tstate]
<1>. DEFINE r == RemoveBlocked(s, t)
            st == s.tstate[t]
            list == Without(s.blk[st], t)
<1>1. /\ s \in SchedState /\ s.blk \in [BlockedState -> Seq(Task)]
      /\ s.tstate \in [Task -> TState]
      /\ NoRepeats(s) /\ OnList(s.rtr, Idle) /\ s.policy[Idle] = "FIFO"
      /\ \A x \in Task : PlacedAt(s, x)
  BY CoreParts DEF SchedState
<1>2. OnList(s.blk[st], t) /\ ~OnList(s.rtr, t) /\ ~OnList(s.pend, t) /\ t # ThisTask(s)
      /\ \A st2 \in BlockedState : st2 # st => ~OnList(s.blk[st2], t)
  BY <1>1 DEF PlacedAt, BlockedState, WaitState
<1>3. r = [s EXCEPT !.blk = [s.blk EXCEPT ![st] = list],
                    !.tstate = [s.tstate EXCEPT ![t] = "INVALID"]]
  BY DEF RemoveBlocked
<1>. HIDE DEF r
<1>4. /\ list \in Seq(Task) /\ NoRepeat(list)
      /\ \A x \in Task : OnList(list, x) <=> OnList(s.blk[st], x) /\ x # t
  <2>. DEFINE old == s.blk[st]
  <2>1. old \in Seq(Task) /\ NoRepeat(old) /\ OnList(old, t)
    BY <1>1, <1>2 DEF NoRepeats
  <2>. HIDE DEF old
  <2>2. /\ Without(old, t) \in Seq(Task) /\ NoRepeat(Without(old, t))
        /\ \A x \in Task : OnList(Without(old, t), x) <=> OnList(old, x) /\ x # t
    BY <2>1, WithoutContents
  <2>. QED  BY <2>2 DEF old
<1>. HIDE DEF list, st
<1>5. st \in BlockedState
  BY DEF st
<1>6. /\ r \in SchedState /\ r.rtr = s.rtr /\ r.pend = s.pend
      /\ r.blk = [s.blk EXCEPT ![st] = list]
      /\ r.tstate = [s.tstate EXCEPT ![t] = "INVALID"]
      /\ r = [s EXCEPT !.blk = r.blk, !.tstate = r.tstate]
      /\ r.policy = s.policy
  BY <1>1, <1>3, <1>4, <1>5 DEF SchedState, TState
<1>7. ThisTask(r) = ThisTask(s)
  BY <1>6 DEF ThisTask
<1>8. NoRepeats(r)
  BY <1>1, <1>4, <1>5, <1>6 DEF NoRepeats
<1>9. ASSUME NEW x \in Task PROVE PlacedAt(r, x)
  <2>1. PlacedAt(s, x)
    BY <1>1
  <2>2. \A st2 \in BlockedState :
          OnList(r.blk[st2], x) <=> OnList(s.blk[st2], x) /\ ~(st2 = st /\ x = t)
    BY <1>1, <1>4, <1>5, <1>6
  <2>3. CASE x = t
    BY <1>1, <1>2, <1>6, <1>7, <2>2, <2>3 DEF PlacedAt, BlockedState, WaitState
  <2>4. CASE x # t
    BY <1>1, <1>6, <1>7, <2>1, <2>2, <2>4 DEF PlacedAt
  <2>. QED  BY <2>3, <2>4
<1>10. Core(r)
  BY <1>1, <1>6, <1>8, <1>9, CoreParts
<1>11. r.tstate[t] = "INVALID"
  BY <1>1, <1>6
<1>. QED  BY <1>6, <1>7, <1>10, <1>11 DEF r

(***************************************************************************)
(* Compositions.  Safe adds that tasks are pending only behind a locked    *)
(* task.                                                                   *)
(***************************************************************************)
Safe(s) == Core(s) /\ PendingNeedsLock(s)

\* Fields that are neither lists nor states nor lock counts do not matter.
LEMMA SafeFrame ==
  ASSUME NEW s, Safe(s), NEW r \in SchedState,
         r.rtr = s.rtr, r.pend = s.pend, r.blk = s.blk, r.tstate = s.tstate,
         r.lock = s.lock, r.policy[Idle] = "FIFO"
  PROVE  Safe(r) /\ ThisTask(r) = ThisTask(s)
BY CoreFrame DEF Safe, PendingNeedsLock, ThisTask

\* nxsched_resume_scheduler only refills a time slice.
LEMMA ResumeFrame ==
  ASSUME NEW s, Core(s)
  PROVE  LET r == ResumeScheduler(s)
         IN  /\ r \in SchedState /\ r.rtr = s.rtr /\ r.pend = s.pend /\ r.blk = s.blk
             /\ r.tstate = s.tstate /\ r.lock = s.lock /\ r.prio = s.prio
             /\ r.init = s.init /\ r.policy = s.policy
<1>. DEFINE sl == [s.slice EXCEPT ![ThisTask(s)] = RRTicks]
<1>1. s \in SchedState
  BY DEF Core
<1>2. sl \in [Task -> 0..RRTicks]
  <2>1. s.slice \in [Task -> 0..RRTicks]
    BY <1>1 DEF SchedState
  <2>2. RRTicks \in 0..RRTicks
    BY RRTicksPositive
  <2>. QED  BY <2>1, <2>2
<1>3. ResumeScheduler(s) = [s EXCEPT !.slice = sl]
  BY DEF ResumeScheduler
<1>. HIDE DEF sl
<1>. QED  BY <1>1, <1>2, <1>3 DEF SchedState

\* nxsched_resume_scheduler and the context switch keep Safe.
LEMMA SwitchFromSafe ==
  ASSUME NEW s, NEW old, Safe(s)
  PROVE  Safe(SwitchFrom(old, s)) /\ Safe(ResumeScheduler(s))
<1>1. Safe(ResumeScheduler(s))
  BY ResumeFrame, SafeFrame DEF Safe, Core
<1>. QED  BY <1>1 DEF SwitchFrom

\* After the test of g_pendingtasks.head nothing is pending.
LEMMA MergeIfPendingSafe ==
  ASSUME NEW s, Core(s)
  PROVE  LET r == MergeIfPending(s)
         IN  /\ Safe(r) /\ r.pend = << >>
             /\ r = [s EXCEPT !.rtr = r.rtr, !.pend = r.pend, !.tstate = r.tstate]
<1>1. CASE s.pend = << >>
  <2>1. MergeIfPending(s) = s
    BY <1>1 DEF MergeIfPending
  <2>2. s = [s EXCEPT !.rtr = s.rtr, !.pend = s.pend, !.tstate = s.tstate]
    BY DEF Core, SchedState
  <2>. QED  BY <1>1, <2>1, <2>2 DEF Safe, PendingNeedsLock
<1>2. CASE s.pend # << >>
  <2>1. MergeIfPending(s) = MergePending(s)
    BY <1>2 DEF MergeIfPending
  <2>. QED  BY <2>1, MergePendingCore DEF Safe, PendingNeedsLock
<1>. QED  BY <1>1, <1>2

\* A task made ready by nxsched_add_readytorun waits behind a locked task or
\* finds nobody pending.
LEMMA AddReadyToRunSafe ==
  ASSUME NEW s, Safe(s), NEW t \in Task, s.tstate[t] = "INVALID"
  PROVE  Safe(AddReadyToRun(s, t))
<1>. DEFINE r == AddReadyToRun(s, t)
<1>1. /\ Core(r)
      /\ r = [s EXCEPT !.rtr = r.rtr, !.pend = r.pend, !.tstate = r.tstate]
      /\ \/ /\ ThisTask(r) = ThisTask(s)
            /\ s.lock[ThisTask(s)] > 0 \/ r.pend = s.pend
         \/ /\ ThisTask(r) = t /\ r.pend = s.pend
            /\ s.lock[ThisTask(s)] = 0 /\ s.prio[t] > s.prio[ThisTask(s)]
  BY AddReadyToRunCore DEF Safe
<1>. HIDE DEF r
<1>2. r.lock = s.lock
  BY <1>1 DEF Safe, Core, SchedState
<1>3. s.pend # << >> => s.lock[ThisTask(s)] > 0
  BY DEF Safe, PendingNeedsLock
<1>4. PendingNeedsLock(r)
  BY <1>1, <1>2, <1>3 DEF PendingNeedsLock
<1>. QED  BY <1>1, <1>4 DEF Safe, r

\* nxsched_remove_blocked disturbs neither the head nor the pending tasks.
LEMMA RemoveBlockedSafe ==
  ASSUME NEW s, Safe(s), NEW t \in Task, s.tstate[t] \in BlockedState
  PROVE  LET r == RemoveBlocked(s, t)
         IN  /\ Safe(r) /\ r.tstate[t] = "INVALID" /\ ThisTask(r) = ThisTask(s)
             /\ r.lock = s.lock /\ r.prio = s.prio /\ r.init = s.init
<1>. DEFINE r == RemoveBlocked(s, t)
<1>1. /\ Core(r) /\ r.tstate[t] = "INVALID" /\ ThisTask(r) = ThisTask(s)
      /\ r = [s EXCEPT !.blk = r.blk, !.tstate = r.tstate]
  BY RemoveBlockedCore DEF Safe
<1>. HIDE DEF r
<1>2. r.lock = s.lock /\ r.pend = s.pend /\ r.prio = s.prio /\ r.init = s.init
  BY <1>1 DEF Safe, Core, SchedState
<1>3. PendingNeedsLock(r)
  BY <1>1, <1>2 DEF Safe, PendingNeedsLock
<1>. QED  BY <1>1, <1>2, <1>3 DEF Safe, r

\* up_block_task of the running task, locked or not.
LEMMA BlockTaskSafe ==
  ASSUME NEW s, Core(s), ThisTask(s) # Idle, NEW st \in BlockedState
  PROVE  Safe(BlockTask(s, ThisTask(s), st))
<1>. DEFINE t == ThisTask(s)
            removed == RemoveReadyToRun(s, t)
            added == AddBlocked(removed, t, st)
            merged == MergeIfPending(added)
<1>1. t \in Task \ {Idle} /\ OnList(s.rtr, t)
  BY CoreFacts
<1>. HIDE DEF t
<1>2. Core(removed) /\ removed.tstate[t] = "INVALID"
  BY <1>1, RemoveReadyToRunCore
<1>. HIDE DEF removed
<1>3. Core(added)
  BY <1>1, <1>2, AddBlockedCore
<1>. HIDE DEF added
<1>4. Safe(merged)
  BY <1>3, MergeIfPendingSafe
<1>. HIDE DEF merged
<1>5. Safe(SwitchFrom(t, merged))
  BY <1>4, SwitchFromSafe
<1>. QED  BY <1>5 DEF BlockTask, merged, added, removed, t

\* up_unblock_task of a blocked task.
LEMMA UnblockTaskSafe ==
  ASSUME NEW s, Safe(s), NEW t \in Task, s.tstate[t] \in BlockedState
  PROVE  Safe(UnblockTask(s, t))
<1>. DEFINE removed == RemoveBlocked(s, t)
            added == AddReadyToRun(removed, t)
<1>1. Safe(removed) /\ removed.tstate[t] = "INVALID"
  BY RemoveBlockedSafe
<1>. HIDE DEF removed
<1>2. Safe(added)
  BY <1>1, AddReadyToRunSafe
<1>. HIDE DEF added
<1>3. Safe(SwitchFrom(ThisTask(s), added))
  BY <1>2, SwitchFromSafe
<1>. QED  BY <1>3 DEF UnblockTask, added, removed

\* up_release_pending
LEMMA ReleasePendingSafe ==
  ASSUME NEW s, Core(s)
  PROVE  LET r == ReleasePending(s)
         IN  Safe(r)
<1>. DEFINE m == MergePending(s)
<1>1. Core(m) /\ m.pend = << >>
  BY MergePendingCore
<1>. HIDE DEF m
<1>2. Safe(m)
  BY <1>1 DEF Safe, PendingNeedsLock
<1>3. Safe(SwitchFrom(ThisTask(s), m))
  BY <1>2, SwitchFromSafe
<1>. QED  BY <1>3 DEF ReleasePending, m

\* A change of one task's priority, with the lists left alone.
LEMMA PrioFrame ==
  ASSUME NEW s, Core(s), NEW t \in Task, NEW p \in 0..MaxPrio, NEW q,
         q = [s.prio EXCEPT ![t] = p]
  PROVE  LET r == [s EXCEPT !.prio = q]
         IN  /\ r \in SchedState /\ r.rtr = s.rtr /\ r.pend = s.pend /\ r.blk = s.blk
             /\ r.tstate = s.tstate /\ r.lock = s.lock /\ r.prio = q
             /\ r.policy[Idle] = "FIFO"
<1>1. s \in SchedState /\ s.policy[Idle] = "FIFO"
  BY DEF Core
<1>2. q \in [Task -> 0..MaxPrio]
  <2>1. s.prio \in [Task -> 0..MaxPrio]
    BY <1>1 DEF SchedState
  <2>. QED  BY <2>1
<1>. QED  BY <1>1, <1>2 DEF SchedState

\* up_reprioritize_rtr of a task on g_readytorun.  Whether a task that is taken
\* off the list and put back loses, gains or keeps the head, nobody is left
\* pending behind an unlocked task.
LEMMA ReprioritizeRtrSafe ==
  ASSUME NEW s, Safe(s), NEW t \in Task \ {Idle}, OnList(s.rtr, t),
         NEW p \in 0..MaxPrio
  PROVE  Safe(ReprioritizeRtr(s, t, p))
<1>. DEFINE removed == RemoveReadyToRun(s, t)
            q == [s.prio EXCEPT ![t] = p]
            changed == [removed EXCEPT !.prio = q]
            added == AddReadyToRun(changed, t)
            switch_needed == (t = ThisTask(s)) # (ThisTask(added) = t)
<1>1. /\ Core(removed) /\ removed.tstate[t] = "INVALID" /\ ThisTask(removed) # t
      /\ t # ThisTask(s) => ThisTask(removed) = ThisTask(s)
      /\ removed = [s EXCEPT !.rtr = removed.rtr, !.tstate = removed.tstate]
  BY RemoveReadyToRunCore DEF Safe
<1>. HIDE DEF removed
<1>2. removed.pend = s.pend /\ removed.lock = s.lock /\ removed.prio = s.prio
  BY <1>1 DEF Safe, Core, SchedState
<1>3. /\ changed \in SchedState /\ changed.rtr = removed.rtr /\ changed.pend = s.pend
      /\ changed.blk = removed.blk /\ changed.tstate = removed.tstate
      /\ changed.lock = s.lock /\ changed.policy[Idle] = "FIFO"
  <2>1. q = [removed.prio EXCEPT ![t] = p] /\ t \in Task
    BY <1>2
  <2>. HIDE DEF q
  <2>2. /\ changed \in SchedState /\ changed.rtr = removed.rtr
        /\ changed.pend = removed.pend /\ changed.blk = removed.blk
        /\ changed.tstate = removed.tstate /\ changed.lock = removed.lock
        /\ changed.policy[Idle] = "FIFO"
    BY <1>1, <2>1, PrioFrame
  <2>. QED  BY <1>2, <2>2
<1>. HIDE DEF changed, q, added
<1>4. Core(changed) /\ ThisTask(changed) = ThisTask(removed) /\ changed.tstate[t] = "INVALID"
  <2>1. Core(removed)
    BY <1>1
  <2>2. changed.pend = removed.pend
    BY <1>2, <1>3
  <2>3. Core(changed) /\ ThisTask(changed) = ThisTask(removed)
    BY <1>3, <2>1, <2>2, CoreFrame
  <2>. QED  BY <1>1, <1>3, <2>3
<1>5. /\ Core(added)
      /\ added = [changed EXCEPT !.rtr = added.rtr, !.pend = added.pend,
                                 !.tstate = added.tstate]
      /\ \/ /\ ThisTask(added) = ThisTask(changed)
            /\ changed.lock[ThisTask(changed)] > 0 \/ added.pend = changed.pend
         \/ ThisTask(added) = t /\ added.pend = changed.pend
  BY <1>4, AddReadyToRunCore DEF added
<1>. HIDE DEF added
<1>6. added.lock = s.lock
  BY <1>3, <1>5 DEF SchedState
<1>7. ReprioritizeRtr(s, t, p) = IF switch_needed
                                 THEN ResumeScheduler(MergeIfPending(added))
                                 ELSE added
  BY DEF ReprioritizeRtr, added, changed, removed, q
<1>8. CASE switch_needed
  <2>1. Safe(MergeIfPending(added))
    BY <1>5, MergeIfPendingSafe
  <2>2. Safe(ResumeScheduler(MergeIfPending(added)))
    BY <2>1, SwitchFromSafe
  <2>. QED  BY <1>7, <1>8, <2>2
<1>9. CASE ~switch_needed
  <2>. HIDE DEF Safe
  <2>1. s.pend # << >> => s.lock[ThisTask(s)] > 0
    BY DEF Safe, PendingNeedsLock
  <2>2. CASE t = ThisTask(s)
    <3>1. ThisTask(added) = t
      BY <1>9, <2>2
    <3>2. added.pend = s.pend
      BY <1>1, <1>3, <1>4, <1>5, <3>1
    <3>3. PendingNeedsLock(added)
      BY <1>6, <2>1, <2>2, <3>1, <3>2 DEF PendingNeedsLock
    <3>. QED  BY <1>5, <1>7, <1>9, <3>3 DEF Safe
  <2>3. CASE t # ThisTask(s)
    <3>1. ThisTask(added) # t
      BY <1>9, <2>3
    <3>2. ThisTask(added) = ThisTask(s)
      BY <1>1, <1>4, <1>5, <2>3, <3>1
    <3>3. added.lock[ThisTask(added)] > 0 \/ added.pend = s.pend
      BY <1>1, <1>3, <1>4, <1>5, <1>6, <2>3, <3>1, <3>2
    <3>4. PendingNeedsLock(added)
      BY <1>6, <2>1, <3>2, <3>3 DEF PendingNeedsLock
    <3>. QED  BY <1>5, <1>7, <1>9, <3>4 DEF Safe
  <2>. QED  BY <2>2, <2>3
<1>. QED  BY <1>8, <1>9

\* A list may be reordered: only its contents decide where a task is.
LEMMA ReorderSafe ==
  ASSUME NEW s, Safe(s), NEW r \in SchedState,
         r.rtr = s.rtr, r.tstate = s.tstate, r.lock = s.lock, NoRepeats(r),
         r.policy = s.policy,
         s.pend = << >> => r.pend = << >>,
         \A x \in Task : OnList(r.pend, x) <=> OnList(s.pend, x),
         \A x \in Task, st \in BlockedState : OnList(r.blk[st], x) <=> OnList(s.blk[st], x)
  PROVE  Safe(r)
<1>1. OnList(s.rtr, Idle) /\ s.policy[Idle] = "FIFO"
      /\ \A x \in Task : PlacedAt(s, x)
  BY CoreParts DEF Safe
<1>2. ThisTask(r) = ThisTask(s)
  BY DEF ThisTask
<1>3. ASSUME NEW x \in Task PROVE PlacedAt(r, x)
  <2>1. PlacedAt(s, x) /\ (OnList(r.pend, x) <=> OnList(s.pend, x))
    BY <1>1
  <2>2. \A st \in BlockedState : OnList(r.blk[st], x) <=> OnList(s.blk[st], x)
    OBVIOUS
  <2>. QED  BY <1>2, <2>1, <2>2 DEF PlacedAt
<1>4. Core(r)
  BY <1>1, <1>3, CoreParts
<1>5. PendingNeedsLock(r)
  BY <1>2 DEF Safe, PendingNeedsLock
<1>. QED  BY <1>4, <1>5 DEF Safe

\* dq_rem followed by nxsched_add_prioritized on the same list.
LEMMA ReinsertContents ==
  ASSUME NEW list \in Seq(Task), NEW t \in Task, NEW prio \in [Task -> Nat],
         NoRepeat(list), OnList(list, t)
  PROVE  LET res == AddPrioritized(Without(list, t), t, prio)
         IN  /\ res \in Seq(Task) /\ NoRepeat(res)
             /\ \A x \in Task : OnList(res, x) <=> OnList(list, x)
<1>. DEFINE rest == Without(list, t)
            res == AddPrioritized(rest, t, prio)
<1>1. /\ rest \in Seq(Task) /\ NoRepeat(rest)
      /\ \A x \in Task : OnList(rest, x) <=> OnList(list, x) /\ x # t
  BY WithoutContents
<1>2. ~OnList(rest, t)
  BY <1>1
<1>. HIDE DEF rest
<1>3. /\ res \in Seq(Task) /\ NoRepeat(res)
      /\ \A x \in Task : OnList(res, x) <=> OnList(rest, x) \/ x = t
  BY <1>1, <1>2, AddPrioritizedContents
<1>. HIDE DEF res
<1>4. \A x \in Task : OnList(res, x) <=> OnList(list, x)
  BY <1>1, <1>3
<1>. QED  BY <1>3, <1>4 DEF res, rest

\* nxsched_blocked_setpriority of a task in any state but running and ready.
LEMMA BlockedSetPrioritySafe ==
  ASSUME NEW s, Safe(s), NEW t \in Task, s.tstate[t] \notin {"RUNNING", "READYTORUN"},
         NEW p \in 0..MaxPrio
  PROVE  Safe(BlockedSetPriority(s, t, p))
<1>. DEFINE q == [s.prio EXCEPT ![t] = p]
            r == BlockedSetPriority(s, t, p)
            st == s.tstate[t]
<1>1. /\ s \in SchedState /\ Core(s) /\ NoRepeats(s) /\ \A x \in Task : PlacedAt(s, x)
      /\ s.pend \in Seq(Task) /\ s.blk \in [BlockedState -> Seq(Task)]
      /\ s.prio \in [Task -> 0..MaxPrio]
  BY CoreParts DEF Safe, SchedState
<1>2. q \in [Task -> 0..MaxPrio] /\ q \in [Task -> Nat]
  <2>. HIDE DEF r, st
  <2>1. q \in [Task -> 0..MaxPrio]
    BY <1>1
  <2>2. 0..MaxPrio \subseteq Nat
    BY MaxPrioPositive
  <2>. QED  BY <2>1, <2>2
<1>3. CASE st = "PENDING"
  <2>. DEFINE list == AddPrioritized(Without(s.pend, t), t, q)
  <2>1. OnList(s.pend, t)
    BY <1>1, <1>3 DEF PlacedAt
  <2>2. r = [s EXCEPT !.prio = q, !.pend = list]
    BY <1>3 DEF BlockedSetPriority, Prioritized
  <2>. HIDE DEF q, r
  <2>3. /\ list \in Seq(Task) /\ NoRepeat(list)
        /\ \A x \in Task : OnList(list, x) <=> OnList(s.pend, x)
    BY <1>1, <1>2, <2>1, ReinsertContents DEF NoRepeats
  <2>. HIDE DEF list
  <2>4. s.pend # << >>
    BY <2>1 DEF OnList
  <2>5. /\ r \in SchedState /\ r.rtr = s.rtr /\ r.tstate = s.tstate /\ r.lock = s.lock
        /\ r.pend = list /\ r.blk = s.blk /\ r.policy = s.policy
    BY <1>1, <1>2, <2>2, <2>3 DEF SchedState
  <2>6. NoRepeats(r)
    BY <1>1, <2>3, <2>5 DEF NoRepeats
  <2>7. Safe(r)
    BY <2>3, <2>4, <2>5, <2>6, ReorderSafe
  <2>. QED  BY <2>7 DEF r
<1>4. CASE st \in Prioritized
  <2>. DEFINE old == s.blk[st]
              list == AddPrioritized(Without(old, t), t, q)
              b == [s.blk EXCEPT ![st] = list]
  <2>1. st \in BlockedState /\ st # "PENDING"
    BY <1>4 DEF Prioritized, BlockedState, WaitState
  <2>2. OnList(old, t) /\ old \in Seq(Task) /\ NoRepeat(old)
    BY <1>1, <2>1 DEF PlacedAt, NoRepeats
  <2>3. r = [s EXCEPT !.prio = q, !.blk = b]
    BY <1>4, <2>1 DEF BlockedSetPriority
  <2>. HIDE DEF q, r, old, st
  <2>4. /\ list \in Seq(Task) /\ NoRepeat(list)
        /\ \A x \in Task : OnList(list, x) <=> OnList(old, x)
    BY <1>2, <2>2, ReinsertContents
  <2>. HIDE DEF list
  <2>5. b \in [BlockedState -> Seq(Task)]
    BY <1>1, <2>4
  <2>6. \A st2 \in BlockedState : b[st2] = IF st2 = st THEN list ELSE s.blk[st2]
    BY <1>1
  <2>. HIDE DEF b
  <2>7. /\ r \in SchedState /\ r.rtr = s.rtr /\ r.tstate = s.tstate /\ r.lock = s.lock
        /\ r.pend = s.pend /\ r.blk = b /\ r.policy = s.policy
    BY <1>1, <1>2, <2>3, <2>5 DEF SchedState
  <2>8. NoRepeats(r)
    BY <1>1, <2>4, <2>6, <2>7 DEF NoRepeats
  <2>9. \A x \in Task, st2 \in BlockedState : OnList(r.blk[st2], x) <=> OnList(s.blk[st2], x)
    BY <2>4, <2>6, <2>7 DEF old
  <2>10. Safe(r)
    BY <2>7, <2>8, <2>9, ReorderSafe
  <2>. QED  BY <2>10 DEF r
<1>5. CASE st # "PENDING" /\ st \notin Prioritized
  <2>1. r = [s EXCEPT !.prio = q]
    BY <1>5 DEF BlockedSetPriority
  <2>2. q = [s.prio EXCEPT ![t] = p]
    OBVIOUS
  <2>. HIDE DEF q, r
  <2>3. /\ r \in SchedState /\ r.rtr = s.rtr /\ r.pend = s.pend /\ r.blk = s.blk
        /\ r.tstate = s.tstate /\ r.lock = s.lock /\ r.policy[Idle] = "FIFO"
    BY <1>1, <1>2, <2>1 DEF SchedState, Core
  <2>4. Safe(r)
    BY <2>3, SafeFrame
  <2>. QED  BY <2>4 DEF r
<1>. QED  BY <1>3, <1>4, <1>5

\* nxsched_set_priority of any existing task but the idle task.
LEMMA SetPrioritySafe ==
  ASSUME NEW s, Safe(s), NEW t \in Task \ {Idle}, NEW p \in 0..MaxPrio
  PROVE  Safe(SetPriority(s, t, p))
<1>1. Core(s) /\ s \in SchedState /\ t \in Task /\ PlacedAt(s, t)
  BY CoreParts DEF Safe
<1>2. CASE s.tstate[t] = "RUNNING"
  <2>1. OnList(s.rtr, t)
    BY <1>1, <1>2 DEF PlacedAt
  <2>2. Safe(ReprioritizeRtr(s, t, p))
    BY <2>1, ReprioritizeRtrSafe
  <2>. DEFINE q == [s.prio EXCEPT ![t] = p]
              r == [s EXCEPT !.prio = q]
  <2>3. q = [s.prio EXCEPT ![t] = p]
    OBVIOUS
  <2>. HIDE DEF q
  <2>4. /\ r \in SchedState /\ r.rtr = s.rtr /\ r.pend = s.pend /\ r.blk = s.blk
        /\ r.tstate = s.tstate /\ r.lock = s.lock /\ r.policy[Idle] = "FIFO"
    BY <1>1, <2>3, PrioFrame
  <2>. HIDE DEF r
  <2>5. Safe(r)
    BY <2>4, SafeFrame
  <2>6. SetPriority(s, t, p) = ReprioritizeRtr(s, t, p) \/ SetPriority(s, t, p) = r
    BY <1>2 DEF SetPriority, RunningSetPriority, r, q
  <2>. QED  BY <2>2, <2>5, <2>6
<1>3. CASE s.tstate[t] = "READYTORUN"
  <2>1. OnList(s.rtr, t) /\ t # ThisTask(s)
    BY <1>1, <1>3 DEF PlacedAt
  <2>2. Safe(ReprioritizeRtr(s, t, p))
    BY <2>1, ReprioritizeRtrSafe
  <2>. DEFINE removed == RemoveReadyToRun(s, t)
              q == [s.prio EXCEPT ![t] = p]
              changed == [removed EXCEPT !.prio = q]
  <2>3. /\ Core(removed) /\ removed.tstate[t] = "INVALID" /\ ThisTask(removed) = ThisTask(s)
        /\ removed = [s EXCEPT !.rtr = removed.rtr, !.tstate = removed.tstate]
    BY <1>1, <2>1, RemoveReadyToRunCore
  <2>. HIDE DEF removed
  <2>4. removed.pend = s.pend /\ removed.lock = s.lock /\ removed.prio = s.prio
    BY <1>1, <2>3 DEF SchedState
  <2>5. Safe(removed)
    BY <2>3, <2>4 DEF Safe, PendingNeedsLock
  <2>6. q = [removed.prio EXCEPT ![t] = p]
    BY <2>4
  <2>. HIDE DEF q
  <2>7. /\ changed \in SchedState /\ changed.rtr = removed.rtr
        /\ changed.pend = removed.pend /\ changed.blk = removed.blk
        /\ changed.tstate = removed.tstate /\ changed.lock = removed.lock
        /\ changed.policy[Idle] = "FIFO"
    BY <1>1, <2>3, <2>6, PrioFrame
  <2>. HIDE DEF changed
  <2>8. Safe(changed)
    BY <2>5, <2>7, SafeFrame
  <2>9. Safe(AddReadyToRun(changed, t))
    BY <2>3, <2>7, <2>8, AddReadyToRunSafe
  <2>10. \/ SetPriority(s, t, p) = ReprioritizeRtr(s, t, p)
         \/ SetPriority(s, t, p) = AddReadyToRun(changed, t)
    BY <1>3 DEF SetPriority, ReadyToRunSetPriority, changed, removed, q
  <2>. QED  BY <2>2, <2>9, <2>10
<1>4. CASE s.tstate[t] \notin {"RUNNING", "READYTORUN"}
  <2>1. SetPriority(s, t, p) = BlockedSetPriority(s, t, p)
    BY <1>4 DEF SetPriority
  <2>. QED  BY <1>1, <1>4, <2>1, BlockedSetPrioritySafe
<1>. QED  BY <1>2, <1>3, <1>4

\* A change of the lock counts, the lists left alone.
LEMMA LockFrame ==
  ASSUME NEW s, Core(s), NEW k \in [Task -> Nat]
  PROVE  LET r == [s EXCEPT !.lock = k]
         IN  /\ Core(r) /\ ThisTask(r) = ThisTask(s) /\ r.lock = k
             /\ r.pend = s.pend
<1>. DEFINE r == [s EXCEPT !.lock = k]
<1>1. s \in SchedState /\ s.policy[Idle] = "FIFO"
  BY DEF Core
<1>2. /\ r \in SchedState /\ r.rtr = s.rtr /\ r.pend = s.pend /\ r.blk = s.blk
      /\ r.tstate = s.tstate /\ r.lock = k /\ r.policy[Idle] = "FIFO"
  BY <1>1 DEF SchedState
<1>. HIDE DEF r
<1>3. Core(r) /\ ThisTask(r) = ThisTask(s)
  BY <1>2, CoreFrame
<1>. QED  BY <1>2, <1>3 DEF r

\* A change of one task's time slice decides nothing.
LEMMA SliceFrame ==
  ASSUME NEW s, Safe(s), NEW t \in Task, NEW n \in 0..RRTicks
  PROVE  LET r == [s EXCEPT !.slice = [s.slice EXCEPT ![t] = n]]
         IN  Safe(r) /\ ThisTask(r) = ThisTask(s) /\ r.rtr = s.rtr
<1>. DEFINE k == [s.slice EXCEPT ![t] = n]
            r == [s EXCEPT !.slice = k]
<1>1. s \in SchedState /\ s.policy[Idle] = "FIFO" /\ s.slice \in [Task -> 0..RRTicks]
  BY DEF Safe, Core, SchedState
<1>2. k \in [Task -> 0..RRTicks]
  BY <1>1
<1>. HIDE DEF k
<1>3. /\ r \in SchedState /\ r.rtr = s.rtr /\ r.pend = s.pend /\ r.blk = s.blk
      /\ r.tstate = s.tstate /\ r.lock = s.lock /\ r.policy[Idle] = "FIFO"
  BY <1>1, <1>2 DEF SchedState
<1>. HIDE DEF r
<1>4. Safe(r) /\ ThisTask(r) = ThisTask(s)
  BY <1>3, SafeFrame
<1>. QED  BY <1>3, <1>4 DEF r, k

\* sched_lock
LEMMA LockOpSafe ==
  ASSUME NEW s, Safe(s)
  PROVE  Safe(LockOp(s))
<1>. DEFINE cur == ThisTask(s)
            k == [s.lock EXCEPT ![cur] = @ + 1]
            r == [s EXCEPT !.lock = k]
<1>1. Core(s) /\ cur \in Task /\ s.lock \in [Task -> Nat]
  BY CoreFacts DEF Safe, Core, SchedState
<1>. HIDE DEF cur
<1>2. k \in [Task -> Nat] /\ k[cur] > 0
  BY <1>1
<1>. HIDE DEF k
<1>3. Core(r) /\ ThisTask(r) = cur /\ r.lock = k
  BY <1>1, <1>2, LockFrame DEF cur
<1>. HIDE DEF r
<1>4. Safe(r)
  BY <1>2, <1>3 DEF Safe, PendingNeedsLock
<1>5. LockOp(s) = r
  BY DEF LockOp, r, k, cur
<1>. QED  BY <1>4, <1>5

\* sched_unlock: the last unlock releases whoever is pending.
LEMMA UnlockOpSafe ==
  ASSUME NEW s, Safe(s)
  PROVE  Safe(UnlockOp(s))
<1>. DEFINE cur == ThisTask(s)
            k == [s.lock EXCEPT ![cur] = @ - 1]
            less == [s EXCEPT !.lock = k]
            dec == IF s.lock[cur] > 0 THEN less ELSE s
            released == IF dec.pend = << >> THEN dec ELSE ReleasePending(dec)
            refilled == [released EXCEPT !.slice = [released.slice EXCEPT ![cur] = RRTicks]]
<1>1. Core(s) /\ cur \in Task /\ s.lock \in [Task -> Nat]
  BY CoreFacts DEF Safe, Core, SchedState
<1>2. UnlockOp(s) = IF dec.lock[cur] > 0 THEN dec
                    ELSE IF /\ released.policy[cur] = "RR"
                            /\ released.slice[cur] = 0
                            /\ ThisTask(released) # cur
                         THEN refilled ELSE released
  BY DEF UnlockOp
<1>. HIDE DEF cur
<1>3. s.lock[cur] > 0 => k \in [Task -> Nat]
  BY <1>1
<1>. HIDE DEF k
<1>4. Core(dec) /\ ThisTask(dec) = cur
  BY <1>1, <1>3, LockFrame DEF cur
<1>. HIDE DEF dec
<1>5. dec.lock[cur] > 0 => Safe(dec)
  BY <1>4 DEF Safe, PendingNeedsLock
<1>6. Safe(released)
  <2>1. dec.pend = << >> => Safe(dec)
    BY <1>4 DEF Safe, PendingNeedsLock
  <2>2. Safe(ReleasePending(dec))
    BY <1>4, ReleasePendingSafe
  <2>. QED  BY <2>1, <2>2
<1>. HIDE DEF released
<1>7. Safe(refilled)
  <2>1. RRTicks \in 0..RRTicks
    BY RRTicksPositive
  <2>. QED  BY <1>1, <1>6, <2>1, SliceFrame
<1>. QED  BY <1>2, <1>5, <1>6, <1>7

\* nxsched_process_roundrobin, for a running task that is not the idle task.
LEMMA ProcessRoundRobinSafe ==
  ASSUME NEW s, Safe(s), ThisTask(s) # Idle
  PROVE  Safe(ProcessRoundRobin(s))
<1>. DEFINE t == ThisTask(s)
            left == IF s.slice[t] > 0 THEN s.slice[t] - 1 ELSE 0
            refilled == [s EXCEPT !.slice = [s.slice EXCEPT ![t] = RRTicks]]
            used == [s EXCEPT !.slice = [s.slice EXCEPT ![t] = left]]
<1>1. /\ t \in Task \ {Idle} /\ OnList(s.rtr, t) /\ s.slice \in [Task -> 0..RRTicks]
      /\ s.prio \in [Task -> 0..MaxPrio]
  BY CoreFacts DEF Safe, Core, SchedState
<1>2. \/ ProcessRoundRobin(s) = used
      \/ ProcessRoundRobin(s) = refilled
      \/ ProcessRoundRobin(s) = ReprioritizeRtr(refilled, t, s.prio[t])
  BY DEF ProcessRoundRobin
<1>. HIDE DEF t
<1>3. left \in 0..RRTicks /\ RRTicks \in 0..RRTicks
  BY <1>1, RRTicksPositive
<1>. HIDE DEF left
<1>4. Safe(used)
  BY <1>1, <1>3, SliceFrame
<1>5. Safe(refilled) /\ refilled.rtr = s.rtr
  BY <1>1, <1>3, SliceFrame
<1>. HIDE DEF used, refilled
<1>6. Safe(ReprioritizeRtr(refilled, t, s.prio[t]))
  BY <1>1, <1>5, ReprioritizeRtrSafe
<1>. QED  BY <1>2, <1>4, <1>5, <1>6

\* dq_rem from the list that task_state names, of any task but the running and
\* the idle task: the right list, because the two agree.
LEMMA RemoveFromListSafe ==
  ASSUME NEW s, Safe(s), NEW t \in Task \ {Idle}, t # ThisTask(s),
         s.tstate[t] # "INVALID"
  PROVE  LET r == RemoveFromList(s, t)
         IN  /\ Safe(r) /\ r.tstate[t] = "INVALID" /\ ThisTask(r) = ThisTask(s)
             /\ r.lock = s.lock
<1>. DEFINE r == RemoveFromList(s, t)
<1>1. /\ Core(s) /\ s \in SchedState /\ t \in Task /\ PlacedAt(s, t) /\ NoRepeats(s)
      /\ s.tstate \in [Task -> TState] /\ s.pend \in Seq(Task)
      /\ OnList(s.rtr, Idle) /\ s.policy[Idle] = "FIFO" /\ \A x \in Task : PlacedAt(s, x)
  BY CoreParts DEF Safe, SchedState
<1>2. s.tstate[t] # "RUNNING"
  BY <1>1 DEF PlacedAt
<1>3. CASE s.tstate[t] = "READYTORUN"
  <2>. DEFINE m == RemoveReadyToRun(s, t)
  <2>1. OnList(s.rtr, t)
    BY <1>1, <1>3 DEF PlacedAt
  <2>2. /\ Core(m) /\ m.tstate[t] = "INVALID" /\ ThisTask(m) = ThisTask(s)
        /\ m = [s EXCEPT !.rtr = m.rtr, !.tstate = m.tstate]
    BY <1>1, <2>1, RemoveReadyToRunCore
  <2>3. r = m
    BY <1>3 DEF RemoveFromList, RemoveReadyToRun
  <2>. HIDE DEF m, r
  <2>4. m.lock = s.lock /\ m.pend = s.pend
    BY <1>1, <2>2 DEF SchedState
  <2>5. PendingNeedsLock(m)
    BY <2>2, <2>4 DEF Safe, PendingNeedsLock
  <2>. QED  BY <2>2, <2>3, <2>4, <2>5 DEF Safe, r
<1>4. CASE s.tstate[t] = "PENDING"
  <2>. DEFINE list == Without(s.pend, t)
              ts == [s.tstate EXCEPT ![t] = "INVALID"]
  <2>1. OnList(s.pend, t) /\ ~OnList(s.rtr, t)
    BY <1>1, <1>4 DEF PlacedAt
  <2>2. r = [s EXCEPT !.pend = list, !.tstate = ts]
    BY <1>4 DEF RemoveFromList
  <2>. HIDE DEF r
  <2>3. /\ list \in Seq(Task) /\ NoRepeat(list)
        /\ \A x \in Task : OnList(list, x) <=> OnList(s.pend, x) /\ x # t
    BY <1>1, <2>1, WithoutContents DEF NoRepeats
  <2>. HIDE DEF list
  <2>4. ts \in [Task -> TState] /\ \A x \in Task : ts[x] = IF x = t THEN "INVALID" ELSE s.tstate[x]
    BY <1>1 DEF TState
  <2>. HIDE DEF ts
  <2>5. /\ r \in SchedState /\ r.rtr = s.rtr /\ r.pend = list /\ r.blk = s.blk
        /\ r.tstate = ts /\ r.lock = s.lock /\ r.policy = s.policy
    BY <1>1, <2>2, <2>3, <2>4 DEF SchedState
  <2>6. ThisTask(r) = ThisTask(s)
    BY <2>5 DEF ThisTask
  <2>7. NoRepeats(r)
    BY <1>1, <2>3, <2>5 DEF NoRepeats
  <2>8. ASSUME NEW x \in Task PROVE PlacedAt(r, x)
    <3>1. PlacedAt(s, x)
      BY <1>1
    <3>2. CASE x = t
      <4>1. \A st \in BlockedState : ~OnList(s.blk[st], t)
        BY <1>1, <1>4 DEF PlacedAt, BlockedState, WaitState
      <4>. QED  BY <2>1, <2>3, <2>4, <2>5, <2>6, <3>2, <4>1 DEF PlacedAt, BlockedState, WaitState
    <3>3. CASE x # t
      BY <2>3, <2>4, <2>5, <2>6, <3>1, <3>3 DEF PlacedAt
    <3>. QED  BY <3>2, <3>3
  <2>9. Core(r)
    BY <1>1, <2>5, <2>7, <2>8, CoreParts
  <2>10. s.pend # << >>
    BY <2>1 DEF OnList
  <2>11. PendingNeedsLock(r)
    BY <2>5, <2>6, <2>10 DEF Safe, PendingNeedsLock
  <2>. QED  BY <2>4, <2>5, <2>6, <2>9, <2>11 DEF Safe, r
<1>5. CASE s.tstate[t] \notin {"READYTORUN", "PENDING"}
  <2>1. s.tstate[t] \in BlockedState
    BY <1>1, <1>2, <1>5 DEF TState
  <2>2. r = RemoveBlocked(s, t)
    BY <1>5 DEF RemoveFromList
  <2>. QED  BY <2>1, <2>2, RemoveBlockedSafe
<1>. QED  BY <1>3, <1>4, <1>5

(***************************************************************************)
(* Order: the lists stay sorted, through every insertion, removal, merge   *)
(* and change of a priority.                                               *)
(***************************************************************************)
\* dq_rem leaves a sorted list sorted.
LEMMA DescendingWithout ==
  ASSUME NEW list \in Seq(Task), NEW t \in Task, NEW prio \in [Task -> Nat],
         OnList(list, t), Descending(list, prio)
  PROVE  Descending(Without(list, t), prio)
<1>. DEFINE i == CHOOSE k \in 1..Len(list) : list[k] = t
            res == [j \in 1..(Len(list) - 1) |-> IF j < i THEN list[j] ELSE list[j + 1]]
<1>1. i \in 1..Len(list) /\ list[i] = t
  BY DEF OnList
<1>2. Without(list, t) = res
  BY DEF Without
<1>. HIDE DEF i
<1>3. Len(list) \in Nat /\ Len(list) > 0 /\ Len(res) = Len(list) - 1
  BY <1>1
<1>4. ASSUME NEW j \in 1..Len(res), NEW k \in 1..Len(res), j < k
      PROVE  prio[res[k]] <= prio[res[j]]
  <2>. DEFINE a == IF j < i THEN j ELSE j + 1
              b == IF k < i THEN k ELSE k + 1
  <2>1. a \in 1..Len(list) /\ b \in 1..Len(list) /\ a < b
    BY <1>1, <1>3, <1>4
  <2>2. res[j] = list[a] /\ res[k] = list[b]
    BY <1>3
  <2>. QED  BY <2>1, <2>2 DEF Descending
<1>. HIDE DEF res
<1>. QED  BY <1>2, <1>4 DEF Descending

\* Two places of a list in descending order.
LEMMA DescendingAt ==
  ASSUME NEW list \in Seq(Task), NEW prio \in [Task -> Nat], Descending(list, prio),
         NEW i \in 1..Len(list), NEW j \in 1..Len(list), i < j
  PROVE  /\ prio[list[j]] <= prio[list[i]]
         /\ prio[list[i]] \in Nat /\ prio[list[j]] \in Nat
<1>1. list[i] \in Task /\ list[j] \in Task
  OBVIOUS
<1>2. prio[list[j]] <= prio[list[i]]
  BY DEF Descending
<1>. QED  BY <1>1, <1>2

\* A task goes into a sorted list behind everybody of its priority or a higher
\* one and in front of everybody else: the list stays sorted.
LEMMA DescendingInsert ==
  ASSUME NEW list \in Seq(Task), NEW t \in Task, NEW prio \in [Task -> Nat],
         Descending(list, prio), NEW i \in 1..(Len(list) + 1),
         \A j \in 1..(i - 1) : prio[t] <= prio[list[j]],
         i <= Len(list) => prio[list[i]] <= prio[t]
  PROVE  Descending(InsertAtPos(list, i, t), prio)
<1>. DEFINE res == InsertAtPos(list, i, t)
<1>1. /\ Len(res) = Len(list) + 1
      /\ \A j \in 1..(Len(list) + 1) :
           res[j] = IF j < i THEN list[j] ELSE IF j = i THEN t ELSE list[j - 1]
  BY InsertAtPosType
<1>. HIDE DEF res
<1>2. ASSUME NEW j \in 1..Len(res), NEW k \in 1..Len(res), j < k
      PROVE  prio[res[k]] <= prio[res[j]]
  <2>0. \A x \in 1..Len(list) : list[x] \in Task /\ prio[list[x]] \in Nat
    OBVIOUS
  <2>1. CASE j < i /\ k < i
    <3>1. res[j] = list[j] /\ res[k] = list[k] /\ j \in 1..Len(list) /\ k \in 1..Len(list)
      BY <1>1, <2>1
    <3>. QED  BY <1>2, <3>1 DEF Descending
  <2>2. CASE j < i /\ k = i
    <3>1. res[j] = list[j] /\ res[k] = t /\ j \in 1..(i - 1)
      BY <1>1, <1>2, <2>2
    <3>. QED  BY <3>1
  <2>3. CASE j < i /\ k > i
    <3>1. res[j] = list[j] /\ res[k] = list[k - 1] /\ j \in 1..Len(list)
          /\ k - 1 \in 1..Len(list) /\ j < k - 1
      BY <1>1, <2>3
    <3>. QED  BY <3>1 DEF Descending
  <2>4. CASE j = i
    <3>1. res[j] = t /\ res[k] = list[k - 1] /\ k - 1 \in 1..Len(list) /\ i <= k - 1
          /\ i \in 1..Len(list)
      BY <1>1, <1>2, <2>4
    <3>2. prio[list[k - 1]] <= prio[list[i]]
      <4>1. CASE i = k - 1
        BY <2>0, <3>1, <4>1
      <4>2. CASE i < k - 1
        BY <3>1, <4>2, DescendingAt
      <4>. QED  BY <3>1, <4>1, <4>2
    <3>3. prio[list[i]] <= prio[t] /\ prio[t] \in Nat
      BY <3>1
    <3>. QED  BY <2>0, <3>1, <3>2, <3>3
  <2>5. CASE j > i
    <3>1. res[j] = list[j - 1] /\ res[k] = list[k - 1] /\ k - 1 \in 1..Len(list)
          /\ j - 1 \in 1..Len(list) /\ j - 1 < k - 1
      BY <1>1, <1>2, <2>5
    <3>. QED  BY <3>1 DEF Descending
  <2>. QED  BY <1>2, <2>1, <2>2, <2>3, <2>4, <2>5
<1>. QED  BY <1>2 DEF Descending, res

\* nxsched_add_prioritized keeps a sorted list sorted.
LEMMA DescendingAddPrioritized ==
  ASSUME NEW list \in Seq(Task), NEW t \in Task, NEW prio \in [Task -> Nat],
         Descending(list, prio)
  PROVE  Descending(AddPrioritized(list, t, prio), prio)
<1>. DEFINE i == InsertPos(list, 1, prio[t], prio)
<1>0. prio[t] \in Nat /\ 1 \in 1..(Len(list) + 1)
  OBVIOUS
<1>1. /\ i \in 1..(Len(list) + 1)
      /\ \A j \in 1..(i - 1) : prio[t] <= prio[list[j]]
      /\ i <= Len(list) => prio[list[i]] < prio[t]
  BY <1>0, InsertPosExists
<1>. HIDE DEF i
<1>2. i <= Len(list) => prio[list[i]] <= prio[t]
  BY <1>0, <1>1
<1>. QED  BY <1>1, <1>2, DescendingInsert DEF AddPrioritized, i

\* Only the priorities of the tasks on a list decide whether it is sorted.
LEMMA DescendingReprio ==
  ASSUME NEW list \in Seq(Task), NEW prio, NEW q, Descending(list, prio),
         \A x \in Task : OnList(list, x) => q[x] = prio[x]
  PROVE  Descending(list, q)
<1>1. \A i \in 1..Len(list) : q[list[i]] = prio[list[i]]
  BY DEF OnList
<1>. QED  BY <1>1 DEF Descending

\* nxsched_merge_pending: searching on from the last place is enough, because
\* the pending tasks come in descending order too.
LEMMA DescendingMerged ==
  ASSUME NEW rtr \in Seq(Task), NEW pend \in Seq(Task), NEW prio \in [Task -> Nat],
         Descending(rtr, prio), Descending(pend, prio)
  PROVE  Descending(MergedList(rtr, pend, prio), prio)
<1>. DEFINE m == MergeSteps(rtr, pend, prio)
            Good(n) == /\ Descending(m[n].list, prio)
                       /\ IF n = 0 THEN m[n].pos = 1
                          ELSE m[n].pos <= Len(m[n].list) /\ m[n].list[m[n].pos] = pend[n]
            S == {n \in Nat : n <= Len(pend) => Good(n)}
<1>1. /\ m \in [0..Len(pend) -> MergeState]
      /\ m[0] = [list |-> rtr, pos |-> 1]
      /\ \A n \in 1..Len(pend) : m[n] = MergeStep(m[n - 1], pend[n], prio)
  BY MergeStepsUnfold
<1>. HIDE DEF m
<1>2. 0 \in S
  BY <1>1
<1>3. ASSUME NEW n \in Nat, n \in S PROVE n + 1 \in S
  <2>. SUFFICES ASSUME n + 1 <= Len(pend) PROVE Good(n + 1)
    OBVIOUS
  <2>1. Good(n) /\ n \in 0..Len(pend) /\ n + 1 \in 1..Len(pend)
    BY <1>3
  <2>. DEFINE l == m[n].list
              pos == m[n].pos
              t == pend[n + 1]
              at == InsertPos(l, pos, prio[t], prio)
  <2>2. l \in Seq(Task) /\ pos \in 1..(Len(l) + 1) /\ t \in Task /\ prio[t] \in Nat
    <3>1. m[n] \in MergeState
      BY <1>1, <2>1
    <3>2. l \in Seq(Task) /\ pos \in 1..(Len(l) + 1)
      BY <3>1 DEF MergeState
    <3>3. t \in Task
      BY <2>1
    <3>. QED  BY <3>2, <3>3
  <2>3. m[n + 1] = [list |-> InsertAtPos(l, at, t), pos |-> at]
    <3>1. m[n + 1] = MergeStep(m[(n + 1) - 1], pend[n + 1], prio)
      BY <1>1, <2>1
    <3>2. (n + 1) - 1 = n
      OBVIOUS
    <3>. QED  BY <3>1, <3>2 DEF MergeStep
  <2>4. /\ at \in pos..(Len(l) + 1)
        /\ \A j \in pos..(at - 1) : prio[t] <= prio[l[j]]
        /\ at <= Len(l) => prio[l[at]] < prio[t]
    <3>. HIDE DEF l, pos, t
    <3>. QED  BY <2>2, InsertPosExists
  <2>5. ASSUME NEW j \in 1..(pos - 1) PROVE prio[t] <= prio[l[j]]
    <3>1. n # 0 /\ n \in 1..Len(pend) /\ pos \in 1..Len(l) /\ l[pos] = pend[n]
      BY <2>1, <2>2
    <3>2. prio[t] <= prio[l[pos]]
      <4>1. n \in 1..Len(pend) /\ n + 1 \in 1..Len(pend) /\ n < n + 1
        BY <2>1, <3>1
      <4>2. prio[pend[n + 1]] <= prio[pend[n]]
        BY <4>1 DEF Descending
      <4>. QED  BY <3>1, <4>2
    <3>3. prio[l[pos]] <= prio[l[j]] /\ prio[l[pos]] \in Nat /\ prio[l[j]] \in Nat
      <4>1. Descending(l, prio)
        BY <2>1
      <4>. HIDE DEF l, pos, t
      <4>2. j \in 1..Len(l) /\ j < pos /\ pos \in 1..Len(l)
        BY <2>2, <3>1
      <4>. QED  BY <2>2, <4>1, <4>2, DescendingAt
    <3>. HIDE DEF l, pos, t
    <3>4. prio[t] \in Nat
      BY <2>2
    <3>. QED  BY <3>2, <3>3, <3>4, SMTT(30)
  <2>6. Descending(l, prio)
    BY <2>1
  <2>. HIDE DEF l, pos, t, at
  <2>7. /\ at \in 1..(Len(l) + 1) /\ \A j \in 1..(at - 1) : prio[t] <= prio[l[j]]
        /\ at <= Len(l) => prio[l[at]] <= prio[t]
    BY <2>2, <2>4, <2>5
  <2>8. Descending(InsertAtPos(l, at, t), prio)
    BY <2>2, <2>6, <2>7, DescendingInsert
  <2>9. Len(InsertAtPos(l, at, t)) = Len(l) + 1 /\ InsertAtPos(l, at, t)[at] = t
    <3>. DEFINE res == InsertAtPos(l, at, t)
    <3>1. /\ Len(res) = Len(l) + 1
          /\ \A j \in 1..(Len(l) + 1) :
               res[j] = IF j < at THEN l[j] ELSE IF j = at THEN t ELSE l[j - 1]
      BY <2>2, <2>7, InsertAtPosType
    <3>. HIDE DEF res
    <3>2. res[at] = t
      BY <2>7, <3>1
    <3>. QED  BY <3>1, <3>2 DEF res
  <2>. QED  BY <2>2, <2>3, <2>7, <2>8, <2>9 DEF t
<1>. HIDE DEF S
<1>4. Nat \subseteq S
  BY <1>2, <1>3, InductionOnSet
<1>5. Good(Len(pend))
  <2>1. Len(pend) \in S
    BY <1>4
  <2>. QED  BY <2>1 DEF S
<1>. QED  BY <1>5 DEF MergedList, m

\* Everybody but the idle task has a priority of at least 1, its own and the
\* one task_restart gives it back, unless its TCB is free.
Ranked(s) ==
  /\ s.prio[Idle] = 0
  /\ \A x \in Task \ {Idle} : s.tstate[x] # "INVALID" => s.prio[x] > 0 /\ s.init[x] > 0

Ordered(s) == Sorted(s) /\ Ranked(s)

\* A task that is on no list stays on none when another one is moved.
LEMMA StaysInvalid ==
  ASSUME NEW s, Core(s), NEW x \in Task, s.tstate[x] = "INVALID", NEW t \in Task, x # t
  PROVE  /\ s.tstate[t] = "INVALID" => AddReadyToRun(s, t).tstate[x] = "INVALID"
         /\ s.tstate[t] \in BlockedState => RemoveBlocked(s, t).tstate[x] = "INVALID"
         /\ MergeIfPending(s).tstate[x] = "INVALID"
         /\ MergePending(s).tstate[x] = "INVALID"
<1>1. /\ s \in SchedState /\ s.tstate \in [Task -> TState] /\ x # ThisTask(s)
      /\ ~OnList(s.rtr, x) /\ ~OnList(s.pend, x)
  BY InvalidOnNoList DEF Core, SchedState
<1>2. AddReadyToRun(s, t).tstate[x] = "INVALID"
  <2>. DEFINE r == AddReadyToRun(s, t)
              cur == ThisTask(s)
  <2>1. \/ r.tstate = [s.tstate EXCEPT ![t] = "PENDING"]
        \/ r.tstate = [s.tstate EXCEPT ![cur] = "READYTORUN", ![t] = "RUNNING"]
        \/ r.tstate = [s.tstate EXCEPT ![t] = "READYTORUN"]
    BY <1>1 DEF AddReadyToRun, SchedState
  <2>. HIDE DEF r
  <2>. QED  BY <1>1, <2>1 DEF r
<1>3. RemoveBlocked(s, t).tstate[x] = "INVALID"
  <2>1. RemoveBlocked(s, t).tstate = [s.tstate EXCEPT ![t] = "INVALID"]
    BY <1>1 DEF RemoveBlocked, SchedState
  <2>. QED  BY <1>1, <2>1
<1>4. MergePending(s).tstate[x] = "INVALID"
  <2>. DEFINE r == MergePending(s)
              list == MergedList(s.rtr, s.pend, s.prio)
  <2>1. /\ s.rtr \in Seq(Task) /\ s.pend \in Seq(Task) /\ s.prio \in [Task -> Nat]
        /\ Len(s.rtr) > 0 /\ NoRepeats(s) /\ \A y \in Task : PlacedAt(s, y)
    BY <1>1, CoreFacts, CoreParts DEF SchedState
  <2>2. \A y \in Task : ~(OnList(s.rtr, y) /\ OnList(s.pend, y))
    BY <2>1 DEF PlacedAt
  <2>3. /\ list \in Seq(Task) /\ Len(list) = Len(s.rtr) + Len(s.pend)
        /\ \A y \in Task : OnList(list, y) <=> OnList(s.rtr, y) \/ OnList(s.pend, y)
    BY <2>1, <2>2, MergedListContents DEF NoRepeats
  <2>4. r.tstate = [y \in Task |->
                      IF y = list[1] THEN "RUNNING"
                      ELSE IF y = ThisTask(s) \/ OnList(s.pend, y) THEN "READYTORUN"
                      ELSE s.tstate[y]]
    BY <1>1 DEF MergePending, SchedState
  <2>. HIDE DEF r, list
  <2>5. x # list[1]
    <3>. DEFINE l == s.rtr
                p == s.pend
    <3>1. /\ l \in Seq(Task) /\ p \in Seq(Task) /\ list \in Seq(Task)
          /\ Len(l) > 0 /\ Len(list) = Len(l) + Len(p)
      BY <2>1, <2>3
    <3>. HIDE DEF l, p
    <3>2. 1 \in 1..Len(list) /\ list[1] \in Task
      BY <3>1
    <3>3. OnList(list, list[1])
      BY <3>2 DEF OnList
    <3>. QED  BY <1>1, <2>3, <3>2, <3>3
  <2>. QED  BY <1>1, <2>4, <2>5 DEF r
<1>. QED  BY <1>2, <1>3, <1>4 DEF MergeIfPending

\* Fields other than lists, states and priorities do not matter.
LEMMA OrderedFrame ==
  ASSUME NEW s, Ordered(s), NEW r,
         r.rtr = s.rtr, r.pend = s.pend, r.blk = s.blk, r.tstate = s.tstate,
         r.prio = s.prio, r.init = s.init
  PROVE  Ordered(r)
BY DEF Ordered, Sorted, Ranked

\* The priority of a task that is on no list decides nothing.
LEMMA FreePrioOrdered ==
  ASSUME NEW s, Core(s), Ordered(s), NEW t \in Task \ {Idle}, s.tstate[t] = "INVALID",
         NEW r, r.rtr = s.rtr, r.pend = s.pend, r.blk = s.blk, r.tstate = s.tstate,
         \A x \in Task : x # t => r.prio[x] = s.prio[x] /\ r.init[x] = s.init[x]
  PROVE  Ordered(r)
<1>1. /\ ~OnList(s.rtr, t) /\ ~OnList(s.pend, t)
      /\ \A st \in BlockedState : ~OnList(s.blk[st], t)
  BY InvalidOnNoList
<1>2. /\ s.rtr \in Seq(Task) /\ s.pend \in Seq(Task) /\ s.blk \in [BlockedState -> Seq(Task)]
      /\ Prioritized \subseteq BlockedState
  BY DEF Core, SchedState, Prioritized, BlockedState, WaitState
<1>3. ASSUME NEW list \in Seq(Task), ~OnList(list, t), Descending(list, s.prio)
      PROVE  Descending(list, r.prio)
  <2>1. \A x \in Task : OnList(list, x) => r.prio[x] = s.prio[x]
    BY <1>3
  <2>. QED  BY <1>3, <2>1, DescendingReprio
<1>4. \A st \in Prioritized : Descending(r.blk[st], r.prio)
  BY <1>1, <1>2, <1>3 DEF Ordered, Sorted
<1>5. Descending(r.rtr, r.prio) /\ Descending(r.pend, r.prio)
  BY <1>1, <1>2, <1>3 DEF Ordered, Sorted
<1>6. Ranked(r)
  BY IdleIsTask DEF Ordered, Ranked
<1>. QED  BY <1>4, <1>5, <1>6 DEF Ordered, Sorted

\* nxsched_remove_readytorun
LEMMA RemoveReadyToRunOrdered ==
  ASSUME NEW s, Core(s), Ordered(s), NEW t \in Task \ {Idle}, OnList(s.rtr, t)
  PROVE  Ordered(RemoveReadyToRun(s, t))
<1>. DEFINE r == RemoveReadyToRun(s, t)
            list == Without(s.rtr, t)
            next == s.rtr[2]
<1>1. /\ s \in SchedState /\ s.rtr \in Seq(Task) /\ Len(s.rtr) > 1 /\ s.prio \in [Task -> Nat]
      /\ s.tstate \in [Task -> TState] /\ \A x \in Task : PlacedAt(s, x)
  BY CoreFacts, CoreParts DEF Core, SchedState
<1>2. Descending(list, s.prio)
  BY <1>1, DescendingWithout DEF Ordered, Sorted
<1>3. r.rtr = list /\ r.pend = s.pend /\ r.blk = s.blk /\ r.prio = s.prio /\ r.init = s.init
  BY <1>1 DEF RemoveReadyToRun, SchedState
<1>4. r.tstate = IF t = ThisTask(s)
                 THEN [s.tstate EXCEPT ![next] = "RUNNING", ![t] = "INVALID"]
                 ELSE [s.tstate EXCEPT ![t] = "INVALID"]
  BY <1>1 DEF RemoveReadyToRun, SchedState
<1>5. next \in Task /\ s.tstate[next] # "INVALID"
  <2>1. next \in Task /\ OnList(s.rtr, next)
    BY <1>1 DEF OnList
  <2>. HIDE DEF next
  <2>. QED  BY <1>1, <2>1 DEF PlacedAt
<1>. HIDE DEF r, list, next
<1>6. \A x \in Task : s.tstate[x] = "INVALID" => r.tstate[x] = "INVALID"
  BY <1>1, <1>4, <1>5
<1>7. Ranked(r)
  BY <1>3, <1>6 DEF Ordered, Ranked
<1>8. Sorted(r)
  BY <1>2, <1>3 DEF Ordered, Sorted
<1>. QED  BY <1>7, <1>8 DEF Ordered, r

\* nxsched_add_readytorun
LEMMA AddReadyToRunOrdered ==
  ASSUME NEW s, Core(s), Ordered(s), NEW t \in Task \ {Idle}, s.tstate[t] = "INVALID",
         s.prio[t] > 0, s.init[t] > 0
  PROVE  Ordered(AddReadyToRun(s, t))
<1>. DEFINE r == AddReadyToRun(s, t)
            p == AddPrioritized(s.pend, t, s.prio)
            l == AddPrioritized(s.rtr, t, s.prio)
<1>1. /\ s \in SchedState /\ s.rtr \in Seq(Task) /\ s.prio \in [Task -> Nat]
      /\ s.pend \in Seq(Task)
  BY CoreFacts DEF Core, SchedState
<1>2. Descending(p, s.prio) /\ Descending(l, s.prio)
  BY <1>1, DescendingAddPrioritized DEF Ordered, Sorted
<1>3. \/ r.rtr = s.rtr /\ r.pend = p
      \/ r.rtr = l /\ r.pend = s.pend
  BY <1>1 DEF AddReadyToRun, SchedState
<1>4. r.blk = s.blk /\ r.prio = s.prio /\ r.init = s.init
  BY <1>1 DEF AddReadyToRun, SchedState
<1>5. \A x \in Task : x # t /\ s.tstate[x] = "INVALID" => r.tstate[x] = "INVALID"
  BY StaysInvalid
<1>. HIDE DEF r, p, l
<1>6. Ranked(r)
  BY <1>4, <1>5 DEF Ordered, Ranked
<1>7. Sorted(r)
  BY <1>2, <1>3, <1>4 DEF Ordered, Sorted
<1>. QED  BY <1>6, <1>7 DEF Ordered, r

\* nxsched_merge_pending
LEMMA MergePendingOrdered ==
  ASSUME NEW s, Core(s), Ordered(s)
  PROVE  Ordered(MergePending(s)) /\ Ordered(MergeIfPending(s))
<1>. DEFINE r == MergePending(s)
            l == MergedList(s.rtr, s.pend, s.prio)
<1>1. /\ s \in SchedState /\ s.rtr \in Seq(Task) /\ s.prio \in [Task -> Nat]
      /\ s.pend \in Seq(Task)
  BY CoreFacts DEF Core, SchedState
<1>2. Descending(l, s.prio)
  BY <1>1, DescendingMerged DEF Ordered, Sorted
<1>3. r.rtr = l /\ r.pend = << >> /\ r.blk = s.blk /\ r.prio = s.prio /\ r.init = s.init
  BY <1>1 DEF MergePending, SchedState
<1>4. \A x \in Task \ {Idle} : s.tstate[x] = "INVALID" => r.tstate[x] = "INVALID"
  BY StaysInvalid, IdleIsTask
<1>. HIDE DEF r, l
<1>5. Ranked(r)
  BY <1>3, <1>4 DEF Ordered, Ranked
<1>6. Descending(<< >>, r.prio)
  BY DEF Descending
<1>7. Sorted(r)
  BY <1>2, <1>3, <1>6 DEF Ordered, Sorted
<1>. QED  BY <1>5, <1>7 DEF Ordered, r, MergeIfPending

\* nxsched_add_blocked, into a prioritized list or not
LEMMA AddBlockedOrdered ==
  ASSUME NEW s, Core(s), Ordered(s), NEW t \in Task \ {Idle}, s.prio[t] > 0, s.init[t] > 0,
         NEW st \in BlockedState
  PROVE  Ordered(AddBlocked(s, t, st))
<1>. DEFINE r == AddBlocked(s, t, st)
            l == IF st \in Prioritized THEN AddPrioritized(s.blk[st], t, s.prio)
                 ELSE AddLast(s.blk[st], t)
<1>1. /\ s \in SchedState /\ s.prio \in [Task -> Nat] /\ s.tstate \in [Task -> TState]
      /\ s.blk \in [BlockedState -> Seq(Task)] /\ Prioritized \subseteq BlockedState
  BY CoreFacts DEF Core, SchedState, Prioritized, BlockedState, WaitState
<1>2. st \in Prioritized => Descending(l, s.prio)
  BY <1>1, DescendingAddPrioritized DEF Ordered, Sorted
<1>3. /\ r.rtr = s.rtr /\ r.pend = s.pend /\ r.blk = [s.blk EXCEPT ![st] = l]
      /\ r.prio = s.prio /\ r.init = s.init /\ r.tstate = [s.tstate EXCEPT ![t] = st]
  BY <1>1 DEF AddBlocked, SchedState
<1>. HIDE DEF r, l
<1>4. Ranked(r)
  BY <1>1, <1>3 DEF Ordered, Ranked
<1>5. \A z \in Prioritized : r.blk[z] = IF z = st THEN l ELSE s.blk[z]
  BY <1>1, <1>3
<1>6. Sorted(r)
  BY <1>2, <1>3, <1>5 DEF Ordered, Sorted
<1>. QED  BY <1>4, <1>6 DEF Ordered, r

\* nxsched_remove_blocked
LEMMA RemoveBlockedOrdered ==
  ASSUME NEW s, Core(s), Ordered(s), NEW t \in Task, s.tstate[t] \in BlockedState
  PROVE  Ordered(RemoveBlocked(s, t))
<1>. DEFINE r == RemoveBlocked(s, t)
            st == s.tstate[t]
            l == Without(s.blk[st], t)
<1>1. /\ s \in SchedState /\ s.prio \in [Task -> Nat] /\ s.tstate \in [Task -> TState]
      /\ s.blk \in [BlockedState -> Seq(Task)] /\ Prioritized \subseteq BlockedState
      /\ PlacedAt(s, t)
  BY CoreFacts, CoreParts DEF Core, SchedState, Prioritized, BlockedState, WaitState
<1>2. OnList(s.blk[st], t) /\ s.blk[st] \in Seq(Task)
  BY <1>1 DEF PlacedAt
<1>3. /\ r.rtr = s.rtr /\ r.pend = s.pend /\ r.blk = [s.blk EXCEPT ![st] = l]
      /\ r.prio = s.prio /\ r.init = s.init /\ r.tstate = [s.tstate EXCEPT ![t] = "INVALID"]
  BY <1>1 DEF RemoveBlocked, SchedState
<1>. HIDE DEF r, l, st
<1>4. st \in Prioritized => Descending(l, s.prio)
  BY <1>1, <1>2, DescendingWithout DEF Ordered, Sorted, l
<1>5. Ranked(r)
  BY <1>1, <1>3 DEF Ordered, Ranked
<1>6. \A z \in Prioritized : r.blk[z] = IF z = st THEN l ELSE s.blk[z]
  BY <1>1, <1>3
<1>7. Sorted(r)
  BY <1>3, <1>4, <1>6 DEF Ordered, Sorted
<1>. QED  BY <1>5, <1>7 DEF Ordered, r

\* nxsched_resume_scheduler touches only the time slice.
LEMMA SwitchFromOrdered ==
  ASSUME NEW s, NEW old, Core(s), Ordered(s)
  PROVE  Ordered(SwitchFrom(old, s)) /\ Ordered(ResumeScheduler(s))
<1>. DEFINE r == ResumeScheduler(s)
<1>1. /\ r.rtr = s.rtr /\ r.pend = s.pend /\ r.blk = s.blk
      /\ r.tstate = s.tstate /\ r.prio = s.prio /\ r.init = s.init
  BY ResumeFrame
<1>. HIDE DEF r
<1>2. Ordered(r)
  BY <1>1, OrderedFrame
<1>. QED  BY <1>2 DEF SwitchFrom, r

\* up_block_task of the running task
LEMMA BlockTaskOrdered ==
  ASSUME NEW s, Core(s), Ordered(s), ThisTask(s) # Idle, NEW st \in BlockedState
  PROVE  Ordered(BlockTask(s, ThisTask(s), st))
<1>. DEFINE t == ThisTask(s)
            removed == RemoveReadyToRun(s, t)
            added == AddBlocked(removed, t, st)
            merged == MergeIfPending(added)
<1>1. t \in Task \ {Idle} /\ OnList(s.rtr, t) /\ s.prio[t] > 0 /\ s.init[t] > 0
  BY CoreFacts DEF Ordered, Ranked
<1>. HIDE DEF t
<1>2. /\ Core(removed) /\ removed.tstate[t] = "INVALID"
      /\ removed = [s EXCEPT !.rtr = removed.rtr, !.tstate = removed.tstate]
      /\ Ordered(removed)
  BY <1>1, RemoveReadyToRunCore, RemoveReadyToRunOrdered
<1>. HIDE DEF removed
<1>3. removed.prio = s.prio /\ removed.init = s.init
  BY <1>2 DEF Core, SchedState
<1>4. Core(added) /\ Ordered(added)
  <2>1. t \in Task /\ removed.prio[t] > 0 /\ removed.init[t] > 0
    BY <1>1, <1>3
  <2>. QED  BY <1>1, <1>2, <2>1, AddBlockedCore, AddBlockedOrdered
<1>. HIDE DEF added
<1>5. Core(merged) /\ Ordered(merged)
  BY <1>4, MergeIfPendingSafe, MergePendingOrdered DEF Safe
<1>. HIDE DEF merged
<1>6. Ordered(SwitchFrom(t, merged))
  BY <1>5, SwitchFromOrdered
<1>. QED  BY <1>6 DEF BlockTask, merged, added, removed, t

\* up_unblock_task of a blocked task
LEMMA UnblockTaskOrdered ==
  ASSUME NEW s, Core(s), Ordered(s), NEW t \in Task, s.tstate[t] \in BlockedState
  PROVE  Ordered(UnblockTask(s, t))
<1>. DEFINE removed == RemoveBlocked(s, t)
            added == AddReadyToRun(removed, t)
<1>1. t \in Task \ {Idle} /\ s.prio[t] > 0 /\ s.init[t] > 0
  <2>1. PlacedAt(s, t) /\ PlacedAt(s, Idle) /\ OnList(s.rtr, Idle)
    BY CoreParts, IdleIsTask
  <2>2. t # Idle /\ s.tstate[t] # "INVALID"
    BY <2>1 DEF PlacedAt, BlockedState, WaitState
  <2>. QED  BY <2>2 DEF Ordered, Ranked
<1>2. /\ Core(removed) /\ removed.tstate[t] = "INVALID" /\ Ordered(removed)
      /\ removed = [s EXCEPT !.blk = removed.blk, !.tstate = removed.tstate]
  BY RemoveBlockedCore, RemoveBlockedOrdered
<1>. HIDE DEF removed
<1>3. removed.prio = s.prio /\ removed.init = s.init
  BY <1>2 DEF Core, SchedState
<1>4. Core(added) /\ Ordered(added)
  BY <1>1, <1>2, <1>3, AddReadyToRunCore, AddReadyToRunOrdered
<1>. HIDE DEF added
<1>5. Ordered(SwitchFrom(ThisTask(s), added))
  BY <1>4, SwitchFromOrdered
<1>. QED  BY <1>5 DEF UnblockTask, added, removed

\* up_release_pending
LEMMA ReleasePendingOrdered ==
  ASSUME NEW s, Core(s), Ordered(s)
  PROVE  Ordered(ReleasePending(s))
<1>. DEFINE m == MergePending(s)
<1>1. Core(m) /\ Ordered(m)
  BY MergePendingCore, MergePendingOrdered
<1>. HIDE DEF m
<1>. QED  BY <1>1, SwitchFromOrdered DEF ReleasePending, m

\* Taking a task off g_readytorun and giving it another priority before it goes
\* back, the common part of the functions that reprioritize a ready task.
LEMMA ReinsertReady ==
  ASSUME NEW s, Core(s), Ordered(s), NEW t \in Task \ {Idle}, OnList(s.rtr, t),
         NEW p \in 1..MaxPrio
  PROVE  LET changed == [RemoveReadyToRun(s, t) EXCEPT !.prio = [s.prio EXCEPT ![t] = p]]
             added == AddReadyToRun(changed, t)
         IN  Core(added) /\ Ordered(added)
<1>. DEFINE removed == RemoveReadyToRun(s, t)
            q == [s.prio EXCEPT ![t] = p]
            changed == [removed EXCEPT !.prio = q]
            added == AddReadyToRun(changed, t)
<1>0. s \in SchedState /\ s.prio \in [Task -> 0..MaxPrio] /\ s.init[t] > 0 /\ p \in 0..MaxPrio
  <2>1. PlacedAt(s, t) /\ s \in SchedState /\ p \in 0..MaxPrio
    BY CoreParts
  <2>2. s.tstate[t] # "INVALID"
    BY <2>1 DEF PlacedAt
  <2>. QED  BY <2>1, <2>2 DEF Ordered, Ranked, SchedState
<1>1. /\ Core(removed) /\ removed.tstate[t] = "INVALID" /\ Ordered(removed)
      /\ removed = [s EXCEPT !.rtr = removed.rtr, !.tstate = removed.tstate]
  BY RemoveReadyToRunCore, RemoveReadyToRunOrdered
<1>. HIDE DEF removed
<1>2. removed.prio = s.prio /\ removed.init = s.init
  BY <1>0, <1>1 DEF SchedState
<1>3. /\ q \in [Task -> 0..MaxPrio] /\ q[t] = p
      /\ \A x \in Task : x # t => q[x] = s.prio[x]
  BY <1>0
<1>. HIDE DEF q
<1>4. /\ changed \in SchedState /\ changed.rtr = removed.rtr /\ changed.pend = removed.pend
      /\ changed.blk = removed.blk /\ changed.tstate = removed.tstate /\ changed.prio = q
      /\ changed.init = removed.init /\ changed.policy[Idle] = "FIFO"
  BY <1>1, <1>3 DEF Core, SchedState
<1>. HIDE DEF changed
<1>5. Core(changed)
  BY <1>1, <1>4, CoreFrame
<1>6. \A x \in Task : x # t => changed.prio[x] = removed.prio[x] /\ changed.init[x] = removed.init[x]
  BY <1>2, <1>3, <1>4
<1>7. Ordered(changed)
  BY <1>1, <1>4, <1>6, FreePrioOrdered
<1>8. changed.tstate[t] = "INVALID" /\ changed.prio[t] > 0 /\ changed.init[t] > 0
  BY <1>0, <1>1, <1>2, <1>3, <1>4
<1>9. Core(added) /\ Ordered(added)
  BY <1>5, <1>7, <1>8, AddReadyToRunCore, AddReadyToRunOrdered
<1>. QED  BY <1>9 DEF added, changed, q, removed

\* up_reprioritize_rtr
LEMMA ReprioritizeRtrOrdered ==
  ASSUME NEW s, Core(s), Ordered(s), NEW t \in Task \ {Idle}, OnList(s.rtr, t),
         NEW p \in 1..MaxPrio
  PROVE  Ordered(ReprioritizeRtr(s, t, p))
<1>. DEFINE added == AddReadyToRun([RemoveReadyToRun(s, t) EXCEPT
                                      !.prio = [s.prio EXCEPT ![t] = p]], t)
<1>1. Core(added) /\ Ordered(added)
  BY ReinsertReady
<1>2. \/ ReprioritizeRtr(s, t, p) = added
      \/ ReprioritizeRtr(s, t, p) = ResumeScheduler(MergeIfPending(added))
  BY DEF ReprioritizeRtr
<1>. HIDE DEF added
<1>3. Core(MergeIfPending(added)) /\ Ordered(MergeIfPending(added))
  BY <1>1, MergeIfPendingSafe, MergePendingOrdered DEF Safe
<1>. QED  BY <1>1, <1>2, <1>3, SwitchFromOrdered

\* nxsched_running_setpriority: the head may keep its place without being taken
\* off the list, because its new priority is higher than that of the next task.
LEMMA RunningSetPriorityOrdered ==
  ASSUME NEW s, Core(s), Ordered(s), NEW t \in Task \ {Idle}, t = ThisTask(s),
         NEW p \in 1..MaxPrio
  PROVE  Ordered(RunningSetPriority(s, t, p))
<1>. DEFINE q == [s.prio EXCEPT ![t] = p]
            r == [s EXCEPT !.prio = q]
            l == s.rtr
<1>1. /\ s \in SchedState /\ s.prio \in [Task -> 0..MaxPrio] /\ OnList(l, t)
      /\ l \in Seq(Task) /\ Len(l) > 1 /\ s.pend \in Seq(Task) /\ l[1] = t
      /\ s.blk \in [BlockedState -> Seq(Task)] /\ Prioritized \subseteq BlockedState
      /\ NoRepeat(l) /\ PlacedAt(s, t) /\ s.tstate[t] = "RUNNING"
  BY CoreFacts, CoreParts DEF Core, SchedState, ThisTask, NoRepeats, Prioritized,
                              BlockedState, WaitState
<1>2. CASE p <= s.prio[l[2]]
  BY <1>1, <1>2, ReprioritizeRtrOrdered DEF RunningSetPriority
<1>3. CASE ~(p <= s.prio[l[2]])
  <2>1. RunningSetPriority(s, t, p) = r
    BY <1>3 DEF RunningSetPriority
  <2>2. /\ q[t] = p /\ \A x \in Task : x # t => q[x] = s.prio[x]
    BY <1>1
  <2>. HIDE DEF q
  <2>3. /\ r.rtr = l /\ r.pend = s.pend /\ r.blk = s.blk /\ r.tstate = s.tstate
        /\ r.prio = q /\ r.init = s.init
    BY <1>1 DEF SchedState
  <2>. HIDE DEF r
  <2>4. Descending(l, q)
    <3>0. Descending(l, s.prio)
      BY DEF Ordered, Sorted
    <3>. HIDE DEF l
    <3>1. ASSUME NEW i \in 1..Len(l), NEW j \in 1..Len(l), i < j
          PROVE  q[l[j]] <= q[l[i]]
      <4>1. l[i] \in Task /\ l[j] \in Task /\ l[2] \in Task /\ j # 1 /\ 2 \in 1..Len(l)
            /\ l[j] # t /\ q[l[j]] = s.prio[l[j]]
        BY <1>1, <2>2, <3>1 DEF NoRepeat
      <4>2. CASE i = 1
        <5>1. s.prio[l[j]] <= s.prio[l[2]]
          <6>1. CASE j = 2
            BY <1>1, <4>1, <6>1
          <6>2. CASE j # 2
            <7>1. 2 < j
              BY <3>1, <4>1, <6>2
            <7>. QED  BY <3>0, <4>1, <7>1 DEF Descending
          <6>. QED  BY <6>1, <6>2
        <5>2. q[l[i]] = p /\ s.prio[l[2]] < p
          BY <1>1, <1>3, <2>2, <4>1, <4>2
        <5>3. s.prio[l[j]] \in Nat /\ s.prio[l[2]] \in Nat /\ p \in Nat
          BY <1>1, <4>1, SMTT(30)
        <5>. QED  BY <4>1, <5>1, <5>2, <5>3, SMTT(30)
      <4>3. CASE i # 1
        <5>1. q[l[i]] = s.prio[l[i]]
          BY <1>1, <2>2, <4>1, <4>3, SMTT(30) DEF NoRepeat
        <5>. QED  BY <3>0, <3>1, <4>1, <5>1, SMTT(30) DEF Descending
      <4>. QED  BY <4>2, <4>3
    <3>. QED  BY <3>1 DEF Descending
  <2>5. ASSUME NEW list \in Seq(Task), ~OnList(list, t), Descending(list, s.prio)
        PROVE  Descending(list, q)
    <3>1. \A x \in Task : OnList(list, x) => q[x] = s.prio[x]
      BY <2>2, <2>5
    <3>. QED  BY <2>5, <3>1, DescendingReprio
  <2>6. /\ ~OnList(s.pend, t) /\ \A st \in BlockedState : ~OnList(s.blk[st], t)
    BY <1>1 DEF PlacedAt, BlockedState, WaitState
  <2>7. Descending(s.pend, q) /\ \A st \in Prioritized : Descending(s.blk[st], q)
    BY <1>1, <2>5, <2>6 DEF Ordered, Sorted
  <2>8. Ranked(r)
    BY <2>2, <2>3, IdleIsTask DEF Ordered, Ranked
  <2>9. Ordered(r)
    BY <2>3, <2>4, <2>7, <2>8 DEF Ordered, Sorted
  <2>. QED  BY <2>1, <2>9
<1>. QED  BY <1>2, <1>3

\* nxsched_blocked_setpriority: a pending or waiting task is moved to the place
\* of its new priority; the lists it may stay on are not prioritized.
LEMMA BlockedSetPriorityOrdered ==
  ASSUME NEW s, Core(s), Ordered(s), NEW t \in Task \ {Idle},
         s.tstate[t] \notin {"RUNNING", "READYTORUN"}, NEW p \in 1..MaxPrio
  PROVE  Ordered(BlockedSetPriority(s, t, p))
<1>. DEFINE q == [s.prio EXCEPT ![t] = p]
            r == BlockedSetPriority(s, t, p)
            st == s.tstate[t]
<1>1. /\ s \in SchedState /\ s.prio \in [Task -> 0..MaxPrio] /\ s.prio \in [Task -> Nat]
      /\ s.rtr \in Seq(Task) /\ s.pend \in Seq(Task) /\ PlacedAt(s, t) /\ NoRepeats(s)
      /\ s.blk \in [BlockedState -> Seq(Task)] /\ Prioritized \subseteq BlockedState
      /\ "PENDING" \notin BlockedState
  BY CoreFacts, CoreParts DEF SchedState, Prioritized, BlockedState, WaitState
<1>2. /\ q \in [Task -> Nat] /\ q[t] = p /\ \A x \in Task : x # t => q[x] = s.prio[x]
  BY <1>1
<1>3. /\ Descending(s.rtr, s.prio) /\ Descending(s.pend, s.prio)
      /\ \A z \in Prioritized : Descending(s.blk[z], s.prio)
  BY DEF Ordered, Sorted
<1>4. /\ ~OnList(s.rtr, t) /\ (OnList(s.pend, t) <=> st = "PENDING")
      /\ \A z \in BlockedState : OnList(s.blk[z], t) <=> st = z
  BY <1>1 DEF PlacedAt
<1>5. /\ st = "PENDING" =>
           r = [s EXCEPT !.prio = q, !.pend = AddPrioritized(Without(s.pend, t), t, q)]
      /\ st \in Prioritized =>
           r = [s EXCEPT !.prio = q,
                         !.blk = [s.blk EXCEPT
                                    ![st] = AddPrioritized(Without(s.blk[st], t), t, q)]]
      /\ st # "PENDING" /\ st \notin Prioritized => r = [s EXCEPT !.prio = q]
  BY <1>1 DEF BlockedSetPriority
<1>. HIDE DEF q, r, st
<1>6. ASSUME NEW list \in Seq(Task), ~OnList(list, t), Descending(list, s.prio)
      PROVE  Descending(list, q)
  <2>1. \A x \in Task : OnList(list, x) => q[x] = s.prio[x]
    BY <1>2, <1>6
  <2>. QED  BY <1>6, <2>1, DescendingReprio
<1>7. ASSUME NEW list \in Seq(Task), OnList(list, t), NoRepeat(list), Descending(list, s.prio)
      PROVE  Descending(AddPrioritized(Without(list, t), t, q), q)
  <2>. DEFINE rest == Without(list, t)
  <2>1. /\ rest \in Seq(Task)
        /\ \A x \in Task : OnList(rest, x) <=> OnList(list, x) /\ x # t
    BY <1>7, WithoutContents
  <2>2. Descending(rest, s.prio)
    BY <1>1, <1>7, DescendingWithout
  <2>. HIDE DEF rest
  <2>3. Descending(rest, q)
    BY <1>6, <2>1, <2>2
  <2>. QED  BY <1>2, <2>1, <2>3, DescendingAddPrioritized DEF rest
<1>8. /\ r.rtr = s.rtr /\ r.prio = q /\ r.init = s.init /\ r.tstate = s.tstate
      /\ r.pend = IF st = "PENDING" THEN AddPrioritized(Without(s.pend, t), t, q) ELSE s.pend
      /\ r.blk = IF st \in Prioritized
                 THEN [s.blk EXCEPT ![st] = AddPrioritized(Without(s.blk[st], t), t, q)]
                 ELSE s.blk
  BY <1>1, <1>5 DEF SchedState
<1>9. Descending(r.rtr, q)
  BY <1>1, <1>3, <1>4, <1>6, <1>8
<1>10. Descending(r.pend, q)
  <2>1. CASE st = "PENDING"
    BY <1>1, <1>3, <1>4, <1>7, <1>8, <2>1 DEF NoRepeats
  <2>2. CASE st # "PENDING"
    BY <1>1, <1>3, <1>4, <1>6, <1>8, <2>2
  <2>. QED  BY <2>1, <2>2
<1>11. ASSUME NEW z \in Prioritized PROVE Descending(r.blk[z], q)
  <2>0. z \in BlockedState /\ s.blk[z] \in Seq(Task) /\ NoRepeat(s.blk[z])
        /\ Descending(s.blk[z], s.prio)
    BY <1>1, <1>3 DEF NoRepeats
  <2>1. CASE z = st
    <3>1. r.blk[z] = AddPrioritized(Without(s.blk[z], t), t, q)
      BY <1>1, <1>8, <2>0, <2>1
    <3>. QED  BY <1>4, <1>7, <2>0, <2>1, <3>1
  <2>2. CASE z # st
    <3>1. r.blk[z] = s.blk[z] /\ ~OnList(s.blk[z], t)
      BY <1>1, <1>4, <1>8, <2>0, <2>2
    <3>. QED  BY <1>6, <2>0, <3>1
  <2>. QED  BY <2>1, <2>2
<1>12. Ranked(r)
  BY <1>2, <1>8, IdleIsTask DEF Ordered, Ranked
<1>13. Ordered(r)
  BY <1>8, <1>9, <1>10, <1>11, <1>12 DEF Ordered, Sorted
<1>. QED  BY <1>13 DEF r

\* nxsched_set_priority of any task but the idle task
LEMMA SetPriorityOrdered ==
  ASSUME NEW s, Core(s), Ordered(s), NEW t \in Task \ {Idle}, NEW p \in 1..MaxPrio
  PROVE  Ordered(SetPriority(s, t, p))
<1>1. PlacedAt(s, t)
  BY CoreParts
<1>2. CASE s.tstate[t] = "RUNNING"
  <2>1. t = ThisTask(s) /\ SetPriority(s, t, p) = RunningSetPriority(s, t, p)
    BY <1>1, <1>2 DEF PlacedAt, SetPriority
  <2>. QED  BY <2>1, RunningSetPriorityOrdered
<1>3. CASE s.tstate[t] = "READYTORUN"
  <2>1. OnList(s.rtr, t) /\ SetPriority(s, t, p) = ReadyToRunSetPriority(s, t, p)
    BY <1>1, <1>3 DEF PlacedAt, SetPriority
  <2>. QED  BY <2>1, ReprioritizeRtrOrdered, ReinsertReady DEF ReadyToRunSetPriority
<1>4. CASE s.tstate[t] \notin {"RUNNING", "READYTORUN"}
  <2>1. SetPriority(s, t, p) = BlockedSetPriority(s, t, p)
    BY <1>4 DEF SetPriority
  <2>. QED  BY <1>4, <2>1, BlockedSetPriorityOrdered
<1>. QED  BY <1>2, <1>3, <1>4

\* sched_lock
LEMMA LockOpOrdered ==
  ASSUME NEW s, Core(s), Ordered(s)
  PROVE  Ordered(LockOp(s))
<1>. DEFINE r == LockOp(s)
<1>1. /\ r.rtr = s.rtr /\ r.pend = s.pend /\ r.blk = s.blk /\ r.tstate = s.tstate
      /\ r.prio = s.prio /\ r.init = s.init
  BY DEF LockOp, Core, SchedState
<1>. HIDE DEF r
<1>. QED  BY <1>1, OrderedFrame DEF r

\* sched_unlock, with the merge of what became ready meanwhile
LEMMA UnlockOpOrdered ==
  ASSUME NEW s, Core(s), Ordered(s)
  PROVE  Ordered(UnlockOp(s))
<1>. DEFINE cur == ThisTask(s)
            k == [s.lock EXCEPT ![cur] = @ - 1]
            less == [s EXCEPT !.lock = k]
            dec == IF s.lock[cur] > 0 THEN less ELSE s
            released == IF dec.pend = << >> THEN dec ELSE ReleasePending(dec)
            refilled == [released EXCEPT !.slice = [released.slice EXCEPT ![cur] = RRTicks]]
<1>1. cur \in Task /\ s.lock \in [Task -> Nat] /\ s \in SchedState
  BY CoreFacts DEF Core, SchedState
<1>2. UnlockOp(s) = IF dec.lock[cur] > 0 THEN dec
                    ELSE IF /\ released.policy[cur] = "RR"
                            /\ released.slice[cur] = 0
                            /\ ThisTask(released) # cur
                         THEN refilled ELSE released
  BY DEF UnlockOp
<1>. HIDE DEF cur
<1>3. s.lock[cur] > 0 => k \in [Task -> Nat]
  BY <1>1
<1>. HIDE DEF k
<1>4. s.lock[cur] > 0 => Core(less)
  BY <1>3, LockFrame
<1>5. /\ less.rtr = s.rtr /\ less.pend = s.pend /\ less.blk = s.blk
      /\ less.tstate = s.tstate /\ less.prio = s.prio /\ less.init = s.init
  BY <1>1 DEF SchedState
<1>. HIDE DEF less
<1>6. Core(dec) /\ Ordered(dec)
  BY <1>4, <1>5, OrderedFrame
<1>. HIDE DEF dec
<1>7. Core(released) /\ Ordered(released)
  BY <1>6, ReleasePendingSafe, ReleasePendingOrdered DEF Safe
<1>. HIDE DEF released
<1>8. /\ refilled.rtr = released.rtr /\ refilled.pend = released.pend
      /\ refilled.blk = released.blk /\ refilled.tstate = released.tstate
      /\ refilled.prio = released.prio /\ refilled.init = released.init
  BY <1>7 DEF Core, SchedState
<1>. HIDE DEF refilled
<1>9. Ordered(refilled)
  BY <1>7, <1>8, OrderedFrame
<1>. QED  BY <1>2, <1>6, <1>7, <1>9

\* nxsched_process_roundrobin of a task other than idle
LEMMA ProcessRoundRobinOrdered ==
  ASSUME NEW s, Safe(s), Ordered(s), ThisTask(s) # Idle
  PROVE  Ordered(ProcessRoundRobin(s))
<1>. DEFINE t == ThisTask(s)
            left == IF s.slice[t] > 0 THEN s.slice[t] - 1 ELSE 0
            refilled == [s EXCEPT !.slice = [s.slice EXCEPT ![t] = RRTicks]]
            used == [s EXCEPT !.slice = [s.slice EXCEPT ![t] = left]]
<1>1. /\ t \in Task \ {Idle} /\ OnList(s.rtr, t) /\ s \in SchedState
      /\ s.prio \in [Task -> 0..MaxPrio] /\ s.tstate[t] = "RUNNING"
  BY CoreFacts DEF Safe, Core, SchedState
<1>2. \/ ProcessRoundRobin(s) = used
      \/ ProcessRoundRobin(s) = refilled
      \/ ProcessRoundRobin(s) = ReprioritizeRtr(refilled, t, s.prio[t])
  BY DEF ProcessRoundRobin
<1>. HIDE DEF t, left
<1>3. /\ used.rtr = s.rtr /\ used.pend = s.pend /\ used.blk = s.blk
      /\ used.tstate = s.tstate /\ used.prio = s.prio /\ used.init = s.init
  BY <1>1 DEF SchedState
<1>4. /\ refilled.rtr = s.rtr /\ refilled.pend = s.pend /\ refilled.blk = s.blk
      /\ refilled.tstate = s.tstate /\ refilled.prio = s.prio /\ refilled.init = s.init
  BY <1>1 DEF SchedState
<1>5. Core(refilled)
  <2>1. RRTicks \in 0..RRTicks
    BY RRTicksPositive
  <2>. QED  BY <1>1, <2>1, SliceFrame DEF Safe
<1>6. s.prio[t] \in 1..MaxPrio
  <2>1. s.prio[t] > 0 /\ s.prio[t] \in 0..MaxPrio
    BY <1>1 DEF Ordered, Ranked
  <2>. QED  BY <2>1, MaxPrioPositive
<1>. HIDE DEF used, refilled
<1>7. Ordered(used) /\ Ordered(refilled)
  BY <1>3, <1>4, OrderedFrame
<1>8. Ordered(ReprioritizeRtr(refilled, t, s.prio[t]))
  BY <1>1, <1>4, <1>5, <1>6, <1>7, ReprioritizeRtrOrdered
<1>. QED  BY <1>2, <1>7, <1>8

\* dq_rem of a task other than the running one, as termination and restart do
LEMMA RemoveFromListOrdered ==
  ASSUME NEW s, Core(s), Ordered(s), NEW t \in Task \ {Idle}, t # ThisTask(s),
         s.tstate[t] # "INVALID"
  PROVE  LET r == RemoveFromList(s, t)
         IN  Ordered(r) /\ r.prio = s.prio /\ r.init = s.init
<1>. DEFINE r == RemoveFromList(s, t)
<1>1. /\ s \in SchedState /\ PlacedAt(s, t) /\ s.tstate \in [Task -> TState]
      /\ s.pend \in Seq(Task) /\ s.prio \in [Task -> Nat]
  BY CoreFacts, CoreParts DEF SchedState
<1>2. r.prio = s.prio /\ r.init = s.init
  BY <1>1 DEF RemoveFromList, RemoveBlocked, SchedState
<1>3. CASE s.tstate[t] = "READYTORUN"
  <2>1. OnList(s.rtr, t)
    BY <1>1, <1>3 DEF PlacedAt
  <2>2. r = RemoveReadyToRun(s, t)
    BY <1>3 DEF RemoveFromList, RemoveReadyToRun
  <2>. QED  BY <1>2, <2>1, <2>2, RemoveReadyToRunOrdered
<1>4. CASE s.tstate[t] = "PENDING"
  <2>1. OnList(s.pend, t)
    BY <1>1, <1>4 DEF PlacedAt
  <2>2. /\ r.rtr = s.rtr /\ r.pend = Without(s.pend, t) /\ r.blk = s.blk
        /\ r.tstate = [s.tstate EXCEPT ![t] = "INVALID"]
    BY <1>1, <1>4 DEF RemoveFromList, SchedState
  <2>3. Descending(Without(s.pend, t), s.prio)
    BY <1>1, <2>1, DescendingWithout DEF Ordered, Sorted
  <2>. HIDE DEF r
  <2>4. Sorted(r)
    BY <1>2, <2>2, <2>3 DEF Ordered, Sorted
  <2>5. Ranked(r)
    BY <1>1, <1>2, <2>2 DEF Ordered, Ranked
  <2>. QED  BY <1>2, <2>4, <2>5 DEF Ordered, r
<1>5. CASE s.tstate[t] \notin {"READYTORUN", "PENDING"}
  <2>1. s.tstate[t] \in BlockedState
    BY <1>1, <1>5 DEF TState, PlacedAt
  <2>2. r = RemoveBlocked(s, t)
    BY <1>5 DEF RemoveFromList
  <2>. QED  BY <1>2, <2>1, <2>2, RemoveBlockedOrdered
<1>. QED  BY <1>3, <1>4, <1>5

\* The idle task is the last of g_readytorun: nobody else has priority 0.
LEMMA IdleEndsReadyToRun ==
  ASSUME NEW s, Core(s), Ordered(s)
  PROVE  s.rtr[Len(s.rtr)] = Idle
<1>. DEFINE l == s.rtr
            x == l[Len(l)]
<1>1. l \in Seq(Task) /\ Len(l) > 0 /\ OnList(l, Idle) /\ Descending(l, s.prio)
      /\ s.prio \in [Task -> Nat] /\ \A y \in Task : PlacedAt(s, y)
  BY CoreFacts, CoreParts DEF Ordered, Sorted
<1>2. x \in Task /\ OnList(l, x)
  BY <1>1 DEF OnList
<1>3. SUFFICES ASSUME x # Idle PROVE FALSE
  OBVIOUS
<1>4. s.prio[x] > 0 /\ s.prio[Idle] = 0
  BY <1>1, <1>2, <1>3 DEF PlacedAt, Ordered, Ranked
<1>5. PICK i \in 1..Len(l) : l[i] = Idle
  BY <1>1 DEF OnList
<1>. HIDE DEF l
<1>6. i < Len(l) /\ Len(l) \in 1..Len(l)
  BY <1>1, <1>3, <1>5
<1>7. s.prio[x] <= s.prio[Idle]
  BY <1>1, <1>5, <1>6 DEF Descending
<1>. QED  BY <1>1, <1>2, <1>4, <1>7

\* A TCB that is on no list goes to g_inactivetasks, as nxthread_setup_scheduler
\* and task_restart do.
LEMMA AddInactiveSafe ==
  ASSUME NEW s, Safe(s), NEW t \in Task, s.tstate[t] = "INVALID", NEW r \in SchedState,
         r.rtr = s.rtr, r.pend = s.pend, r.policy[Idle] = "FIFO",
         r.blk = [s.blk EXCEPT !["INACTIVE"] = AddFirst(s.blk["INACTIVE"], t)],
         r.tstate = [s.tstate EXCEPT ![t] = "INACTIVE"],
         \A x \in Task : x # t => r.lock[x] = s.lock[x]
  PROVE  Safe(r)
<1>. DEFINE old == s.blk["INACTIVE"]
            list == AddFirst(old, t)
<1>1. /\ Core(s) /\ s.blk \in [BlockedState -> Seq(Task)] /\ s.tstate \in [Task -> TState]
      /\ NoRepeats(s) /\ OnList(s.rtr, Idle) /\ \A x \in Task : PlacedAt(s, x)
  BY CoreParts DEF Safe, SchedState
<1>2. /\ ~OnList(s.rtr, t) /\ ~OnList(s.pend, t) /\ t # ThisTask(s)
      /\ \A st \in BlockedState : ~OnList(s.blk[st], t)
  BY <1>1, InvalidOnNoList
<1>3. "INACTIVE" \in BlockedState
  BY DEF BlockedState
<1>4. old \in Seq(Task) /\ NoRepeat(old) /\ ~OnList(old, t)
  BY <1>1, <1>2, <1>3 DEF NoRepeats
<1>5. r.blk = [s.blk EXCEPT !["INACTIVE"] = list]
  OBVIOUS
<1>. HIDE DEF old
<1>6. /\ list \in Seq(Task) /\ NoRepeat(list)
      /\ \A x \in Task : OnList(list, x) <=> OnList(old, x) \/ x = t
  <2>1. 1 \in 1..(Len(old) + 1)
    BY <1>4
  <2>. QED  BY <1>4, <2>1, InsertAtPosType, InsertAtPosContents DEF AddFirst
<1>. HIDE DEF list
<1>7. ThisTask(r) = ThisTask(s)
  BY DEF ThisTask
<1>8. \A st \in BlockedState : r.blk[st] = IF st = "INACTIVE" THEN list ELSE s.blk[st]
  BY <1>1, <1>5
<1>9. NoRepeats(r)
  BY <1>1, <1>6, <1>8 DEF NoRepeats
<1>10. ASSUME NEW x \in Task PROVE PlacedAt(r, x)
  <2>1. PlacedAt(s, x)
    BY <1>1
  <2>2. \A st \in BlockedState :
          OnList(r.blk[st], x) <=> OnList(s.blk[st], x) \/ (st = "INACTIVE" /\ x = t)
    BY <1>6, <1>8 DEF old
  <2>3. CASE x = t
    BY <1>1, <1>2, <1>7, <2>2, <2>3 DEF PlacedAt, BlockedState, WaitState
  <2>4. CASE x # t
    <3>1. r.tstate[x] = s.tstate[x]
      BY <1>1, <2>4
    <3>. QED  BY <1>7, <2>1, <2>2, <2>4, <3>1 DEF PlacedAt
  <2>. QED  BY <2>3, <2>4
<1>11. Core(r)
  BY <1>1, <1>9, <1>10, CoreParts
<1>12. ThisTask(s) \in Task
  BY <1>1, CoreFacts
<1>13. PendingNeedsLock(r)
  BY <1>2, <1>7, <1>12 DEF Safe, PendingNeedsLock
<1>. QED  BY <1>11, <1>13 DEF Safe

\* A task put on g_inactivetasks, with whatever priority, disturbs no sorted list.
LEMMA AddInactiveOrdered ==
  ASSUME NEW s, Core(s), Ordered(s), NEW t \in Task \ {Idle}, s.tstate[t] = "INVALID",
         NEW r, r.rtr = s.rtr, r.pend = s.pend,
         r.blk = [s.blk EXCEPT !["INACTIVE"] = AddFirst(s.blk["INACTIVE"], t)],
         r.tstate = [s.tstate EXCEPT ![t] = "INACTIVE"],
         \A x \in Task : x # t => r.prio[x] = s.prio[x] /\ r.init[x] = s.init[x],
         r.prio[t] > 0, r.init[t] > 0
  PROVE  Ordered(r)
<1>. DEFINE m == [s EXCEPT !.prio = r.prio, !.init = r.init]
<1>1. /\ m.rtr = s.rtr /\ m.pend = s.pend /\ m.blk = s.blk /\ m.tstate = s.tstate
      /\ m.prio = r.prio /\ m.init = r.init
      /\ s.blk \in [BlockedState -> Seq(Task)] /\ s.tstate \in [Task -> TState]
  BY DEF Core, SchedState
<1>. HIDE DEF m
<1>2. Ordered(m)
  BY <1>1, FreePrioOrdered
<1>3. \A st \in Prioritized : r.blk[st] = s.blk[st]
  BY <1>1 DEF Prioritized, BlockedState, WaitState
<1>4. Sorted(r)
  BY <1>1, <1>2, <1>3 DEF Ordered, Sorted
<1>5. \A x \in Task : x # t => r.tstate[x] = s.tstate[x]
  BY <1>1
<1>6. Ranked(r)
  BY <1>1, <1>2, <1>5, IdleIsTask DEF Ordered, Ranked
<1>. QED  BY <1>4, <1>6 DEF Ordered

(***************************************************************************)
(* What a task waits for.  Which list of runnable tasks holds a task is    *)
(* the scheduler's own affair: for a kernel service a task is ready, or    *)
(* blocked in one of the blocked states, or does not exist.                *)
(***************************************************************************)
Phase(s) == [x \in Task |-> IF s.tstate[x] \in BlockedState \cup {"INVALID"}
                            THEN s.tstate[x] ELSE "READY"]

\* A task is ready, blocked or does not exist.
LEMMA PhaseType ==
  ASSUME NEW s
  PROVE  Phase(s) \in [Task -> BlockedState \cup {"INVALID", "READY"}]
BY DEF Phase

\* nxsched_remove_readytorun
LEMMA RemoveReadyToRunPhase ==
  ASSUME NEW s, Core(s), NEW t \in Task \ {Idle}, OnList(s.rtr, t)
  PROVE  Phase(RemoveReadyToRun(s, t)) = [Phase(s) EXCEPT ![t] = "INVALID"]
<1>. DEFINE r == RemoveReadyToRun(s, t)
            next == s.rtr[2]
<1>1. /\ s \in SchedState /\ s.rtr \in Seq(Task) /\ Len(s.rtr) > 1
      /\ s.tstate \in [Task -> TState] /\ \A x \in Task : PlacedAt(s, x)
  BY CoreFacts, CoreParts DEF Core, SchedState
<1>2. r.tstate = IF t = ThisTask(s)
                 THEN [s.tstate EXCEPT ![next] = "RUNNING", ![t] = "INVALID"]
                 ELSE [s.tstate EXCEPT ![t] = "INVALID"]
  BY <1>1 DEF RemoveReadyToRun, SchedState
<1>3. next \in Task /\ s.tstate[next] \in {"RUNNING", "READYTORUN"}
  <2>1. next \in Task /\ OnList(s.rtr, next)
    BY <1>1 DEF OnList
  <2>. HIDE DEF next
  <2>. QED  BY <1>1, <2>1 DEF PlacedAt
<1>. HIDE DEF r, next
<1>4. \A x \in Task : Phase(r)[x] = [Phase(s) EXCEPT ![t] = "INVALID"][x]
  BY <1>1, <1>2, <1>3 DEF Phase, BlockedState, WaitState
<1>. QED  BY <1>4 DEF Phase, r

\* nxsched_add_readytorun, to whichever list
LEMMA AddReadyToRunPhase ==
  ASSUME NEW s, Core(s), NEW t \in Task
  PROVE  Phase(AddReadyToRun(s, t)) = [Phase(s) EXCEPT ![t] = "READY"]
<1>. DEFINE r == AddReadyToRun(s, t)
            cur == ThisTask(s)
<1>1. /\ s \in SchedState /\ s.tstate \in [Task -> TState] /\ cur \in Task
      /\ s.tstate[cur] = "RUNNING"
  BY CoreFacts DEF Core, SchedState
<1>2. \/ r.tstate = [s.tstate EXCEPT ![t] = "PENDING"]
      \/ r.tstate = [s.tstate EXCEPT ![cur] = "READYTORUN", ![t] = "RUNNING"]
      \/ r.tstate = [s.tstate EXCEPT ![t] = "READYTORUN"]
  BY <1>1 DEF AddReadyToRun, SchedState
<1>. HIDE DEF r, cur
<1>3. \A x \in Task : Phase(r)[x] = [Phase(s) EXCEPT ![t] = "READY"][x]
  BY <1>1, <1>2 DEF Phase, BlockedState, WaitState
<1>. QED  BY <1>3 DEF Phase, r

\* nxsched_merge_pending
LEMMA MergePendingPhase ==
  ASSUME NEW s, Core(s)
  PROVE  Phase(MergePending(s)) = Phase(s) /\ Phase(MergeIfPending(s)) = Phase(s)
<1>. DEFINE r == MergePending(s)
            list == MergedList(s.rtr, s.pend, s.prio)
            head == list[1]
<1>1. /\ s \in SchedState /\ s.tstate \in [Task -> TState]
      /\ s.rtr \in Seq(Task) /\ s.pend \in Seq(Task) /\ s.prio \in [Task -> Nat]
      /\ Len(s.rtr) > 0 /\ \A y \in Task : PlacedAt(s, y)
      /\ s.tstate[ThisTask(s)] = "RUNNING"
  BY CoreFacts, CoreParts DEF Core, SchedState
<1>2. /\ list \in Seq(Task) /\ Len(list) = Len(s.rtr) + Len(s.pend)
      /\ \A y \in Task : OnList(list, y) <=> OnList(s.rtr, y) \/ OnList(s.pend, y)
  BY <1>1, MergedListContents
<1>3. r.tstate = [y \in Task |->
                    IF y = head THEN "RUNNING"
                    ELSE IF y = ThisTask(s) \/ OnList(s.pend, y) THEN "READYTORUN"
                    ELSE s.tstate[y]]
  BY <1>1 DEF MergePending, SchedState
<1>4. head \in Task /\ OnList(list, head)
  <2>. DEFINE l == s.rtr
              p == s.pend
  <2>1. /\ l \in Seq(Task) /\ p \in Seq(Task) /\ list \in Seq(Task)
        /\ Len(l) > 0 /\ Len(list) = Len(l) + Len(p)
    BY <1>1, <1>2
  <2>. HIDE DEF l, p, list
  <2>2. 1 \in 1..Len(list)
    BY <2>1
  <2>. QED  BY <2>1, <2>2 DEF OnList
<1>. HIDE DEF r, list, head
<1>5. s.tstate[head] \in {"RUNNING", "READYTORUN", "PENDING"}
  BY <1>1, <1>2, <1>4 DEF PlacedAt
<1>6. \A y \in Task : OnList(s.pend, y) => s.tstate[y] = "PENDING"
  BY <1>1 DEF PlacedAt
<1>7. \A x \in Task : Phase(r)[x] = Phase(s)[x]
  BY <1>1, <1>3, <1>5, <1>6 DEF Phase, BlockedState, WaitState
<1>8. Phase(r) = Phase(s)
  BY <1>7 DEF Phase
<1>. QED  BY <1>8 DEF MergeIfPending, r

\* nxsched_add_blocked
LEMMA AddBlockedPhase ==
  ASSUME NEW s, Core(s), NEW t \in Task, NEW st \in BlockedState
  PROVE  Phase(AddBlocked(s, t, st)) = [Phase(s) EXCEPT ![t] = st]
<1>1. s \in SchedState /\ s.tstate \in [Task -> TState]
  BY DEF Core, SchedState
<1>. DEFINE r == AddBlocked(s, t, st)
<1>2. r.tstate = [s.tstate EXCEPT ![t] = st]
  BY <1>1 DEF AddBlocked, SchedState
<1>. HIDE DEF r
<1>3. \A x \in Task : Phase(r)[x] = [Phase(s) EXCEPT ![t] = st][x]
  BY <1>1, <1>2 DEF Phase
<1>. QED  BY <1>3 DEF Phase, r

\* nxsched_remove_blocked
LEMMA RemoveBlockedPhase ==
  ASSUME NEW s, Core(s), NEW t \in Task
  PROVE  Phase(RemoveBlocked(s, t)) = [Phase(s) EXCEPT ![t] = "INVALID"]
<1>1. s \in SchedState /\ s.tstate \in [Task -> TState]
  BY DEF Core, SchedState
<1>. DEFINE r == RemoveBlocked(s, t)
<1>2. r.tstate = [s.tstate EXCEPT ![t] = "INVALID"]
  BY <1>1 DEF RemoveBlocked, SchedState
<1>. HIDE DEF r
<1>3. \A x \in Task : Phase(r)[x] = [Phase(s) EXCEPT ![t] = "INVALID"][x]
  BY <1>1, <1>2 DEF Phase
<1>. QED  BY <1>3 DEF Phase, r

\* Only task_state decides the phase, and nxsched_resume_scheduler leaves it.
LEMMA PhaseFrame ==
  ASSUME NEW s, NEW old, Core(s)
  PROVE  /\ \A r : r.tstate = s.tstate => Phase(r) = Phase(s)
         /\ Phase(ResumeScheduler(s)) = Phase(s) /\ Phase(SwitchFrom(old, s)) = Phase(s)
<1>1. \A r : r.tstate = s.tstate => Phase(r) = Phase(s)
  BY DEF Phase
<1>2. ResumeScheduler(s).tstate = s.tstate
  BY ResumeFrame
<1>. QED  BY <1>1, <1>2 DEF SwitchFrom

\* up_block_task of the running task: it alone changes its phase.
LEMMA BlockTaskPhase ==
  ASSUME NEW s, Core(s), ThisTask(s) # Idle, NEW st \in BlockedState
  PROVE  Phase(BlockTask(s, ThisTask(s), st)) = [Phase(s) EXCEPT ![ThisTask(s)] = st]
<1>. DEFINE t == ThisTask(s)
            removed == RemoveReadyToRun(s, t)
            added == AddBlocked(removed, t, st)
            merged == MergeIfPending(added)
<1>1. t \in Task \ {Idle} /\ OnList(s.rtr, t)
  BY CoreFacts
<1>. HIDE DEF t
<1>2. /\ Core(removed) /\ removed.tstate[t] = "INVALID"
      /\ Phase(removed) = [Phase(s) EXCEPT ![t] = "INVALID"]
  BY <1>1, RemoveReadyToRunCore, RemoveReadyToRunPhase
<1>. HIDE DEF removed
<1>3. Core(added) /\ Phase(added) = [Phase(removed) EXCEPT ![t] = st]
  <2>1. t \in Task
    BY <1>1
  <2>2. Core(added)
    BY <1>2, <2>1, AddBlockedCore
  <2>3. Phase(added) = [Phase(removed) EXCEPT ![t] = st]
    BY <1>2, <2>1, AddBlockedPhase, ZenonT(30)
  <2>. QED  BY <2>2, <2>3
<1>. HIDE DEF added
<1>4. Core(merged) /\ Phase(merged) = Phase(added)
  BY <1>3, MergeIfPendingSafe, MergePendingPhase DEF Safe
<1>. HIDE DEF merged
<1>5. Phase(SwitchFrom(t, merged)) = Phase(merged)
  BY <1>4, PhaseFrame
<1>6. Phase(SwitchFrom(t, merged)) = [Phase(s) EXCEPT ![t] = st]
  BY <1>2, <1>3, <1>4, <1>5 DEF Phase
<1>. QED  BY <1>6 DEF BlockTask, merged, added, removed, t

\* up_unblock_task: the blocked task becomes ready, nobody else changes.
LEMMA UnblockTaskPhase ==
  ASSUME NEW s, Core(s), NEW t \in Task, s.tstate[t] \in BlockedState
  PROVE  Phase(UnblockTask(s, t)) = [Phase(s) EXCEPT ![t] = "READY"]
<1>. DEFINE removed == RemoveBlocked(s, t)
            added == AddReadyToRun(removed, t)
<1>1. /\ Core(removed) /\ removed.tstate[t] = "INVALID"
      /\ Phase(removed) = [Phase(s) EXCEPT ![t] = "INVALID"]
  BY RemoveBlockedCore, RemoveBlockedPhase
<1>. HIDE DEF removed
<1>2. Core(added) /\ Phase(added) = [Phase(removed) EXCEPT ![t] = "READY"]
  BY <1>1, AddReadyToRunCore, AddReadyToRunPhase
<1>. HIDE DEF added
<1>3. Phase(SwitchFrom(ThisTask(s), added)) = Phase(added)
  BY <1>2, PhaseFrame
<1>4. Phase(SwitchFrom(ThisTask(s), added)) = [Phase(s) EXCEPT ![t] = "READY"]
  BY <1>1, <1>2, <1>3 DEF Phase
<1>. QED  BY <1>4 DEF UnblockTask, added, removed

\* up_reprioritize_rtr and the other way nxsched_set_priority puts a ready task
\* back: it stays ready.
LEMMA ReinsertPhase ==
  ASSUME NEW s, Core(s), NEW t \in Task \ {Idle}, OnList(s.rtr, t), NEW p \in 0..MaxPrio
  PROVE  LET changed == [RemoveReadyToRun(s, t) EXCEPT !.prio = [s.prio EXCEPT ![t] = p]]
             added == AddReadyToRun(changed, t)
         IN  Core(added) /\ Phase(added) = Phase(s)
<1>. DEFINE removed == RemoveReadyToRun(s, t)
            q == [s.prio EXCEPT ![t] = p]
            changed == [removed EXCEPT !.prio = q]
            added == AddReadyToRun(changed, t)
<1>0. s \in SchedState /\ s.prio \in [Task -> 0..MaxPrio] /\ PlacedAt(s, t) /\ t \in Task
  BY CoreParts DEF SchedState
<1>1. /\ Core(removed) /\ removed.tstate[t] = "INVALID"
      /\ Phase(removed) = [Phase(s) EXCEPT ![t] = "INVALID"]
  BY RemoveReadyToRunCore, RemoveReadyToRunPhase
<1>. HIDE DEF removed
<1>2. q \in [Task -> 0..MaxPrio]
  BY <1>0
<1>. HIDE DEF q
<1>3. /\ changed \in SchedState /\ changed.rtr = removed.rtr /\ changed.pend = removed.pend
      /\ changed.blk = removed.blk /\ changed.tstate = removed.tstate
      /\ changed.policy[Idle] = "FIFO"
  BY <1>1, <1>2 DEF Core, SchedState
<1>. HIDE DEF changed
<1>4. Core(changed) /\ Phase(changed) = Phase(removed)
  BY <1>1, <1>3, CoreFrame DEF Phase
<1>5. Core(added) /\ Phase(added) = [Phase(changed) EXCEPT ![t] = "READY"]
  BY <1>0, <1>1, <1>3, <1>4, AddReadyToRunCore, AddReadyToRunPhase
<1>. HIDE DEF added
<1>6. Phase(s)[t] = "READY"
  BY <1>0 DEF PlacedAt, Phase, BlockedState, WaitState
<1>7. Phase(added) = Phase(s)
  BY <1>1, <1>4, <1>5, <1>6, PhaseType
<1>. QED  BY <1>5, <1>7 DEF added, changed, q, removed

\* nxsched_set_priority changes nobody's phase.
LEMMA SetPriorityPhase ==
  ASSUME NEW s, Core(s), NEW t \in Task \ {Idle}, NEW p \in 0..MaxPrio
  PROVE  Phase(SetPriority(s, t, p)) = Phase(s)
<1>. DEFINE added == AddReadyToRun([RemoveReadyToRun(s, t) EXCEPT
                                      !.prio = [s.prio EXCEPT ![t] = p]], t)
            r == SetPriority(s, t, p)
<1>1. PlacedAt(s, t) /\ s \in SchedState
  BY CoreParts
<1>2. CASE s.tstate[t] \in {"RUNNING", "READYTORUN"}
  <2>1. OnList(s.rtr, t)
    BY <1>1, <1>2 DEF PlacedAt
  <2>2. Core(added) /\ Phase(added) = Phase(s)
    BY <2>1, ReinsertPhase
  <2>3. \/ r = added \/ r = ResumeScheduler(MergeIfPending(added))
        \/ r = [s EXCEPT !.prio = [s.prio EXCEPT ![t] = p]]
    BY <1>2 DEF SetPriority, RunningSetPriority, ReadyToRunSetPriority, ReprioritizeRtr
  <2>. HIDE DEF added, r
  <2>4. Core(MergeIfPending(added)) /\ Phase(MergeIfPending(added)) = Phase(s)
    BY <2>2, MergeIfPendingSafe, MergePendingPhase DEF Safe
  <2>5. [s EXCEPT !.prio = [s.prio EXCEPT ![t] = p]].tstate = s.tstate
    BY <1>1 DEF SchedState
  <2>6. Phase([s EXCEPT !.prio = [s.prio EXCEPT ![t] = p]]) = Phase(s)
    BY <2>5, PhaseFrame
  <2>. QED  BY <2>2, <2>3, <2>4, <2>6, PhaseFrame DEF r
<1>3. CASE s.tstate[t] \notin {"RUNNING", "READYTORUN"}
  <2>1. r.tstate = s.tstate
    BY <1>1, <1>3 DEF SetPriority, BlockedSetPriority, SchedState
  <2>. HIDE DEF r
  <2>. QED  BY <2>1, PhaseFrame DEF r
<1>. QED  BY <1>2, <1>3

\* Nor do sched_lock and sched_unlock.
LEMMA LockPhase ==
  ASSUME NEW s, Core(s)
  PROVE  Phase(LockOp(s)) = Phase(s) /\ Phase(UnlockOp(s)) = Phase(s)
<1>. DEFINE cur == ThisTask(s)
            k == [s.lock EXCEPT ![cur] = @ - 1]
            less == [s EXCEPT !.lock = k]
            dec == IF s.lock[cur] > 0 THEN less ELSE s
            released == IF dec.pend = << >> THEN dec ELSE ReleasePending(dec)
            refilled == [released EXCEPT !.slice = [released.slice EXCEPT ![cur] = RRTicks]]
<1>1. cur \in Task /\ s.lock \in [Task -> Nat] /\ s \in SchedState
  BY CoreFacts DEF Core, SchedState
<1>2. UnlockOp(s) = dec \/ UnlockOp(s) = released \/ UnlockOp(s) = refilled
  BY DEF UnlockOp
<1>3. LockOp(s).tstate = s.tstate
  BY <1>1 DEF LockOp, SchedState
<1>. HIDE DEF cur
<1>4. s.lock[cur] > 0 => k \in [Task -> Nat]
  BY <1>1
<1>. HIDE DEF k
<1>5. /\ s.lock[cur] > 0 => Core(less)
      /\ less.tstate = s.tstate
  BY <1>1, <1>4, LockFrame DEF SchedState
<1>. HIDE DEF less
<1>6. Core(dec) /\ dec.tstate = s.tstate
  BY <1>5
<1>. HIDE DEF dec
<1>7. Core(MergePending(dec)) /\ Phase(MergePending(dec)) = Phase(dec)
  BY <1>6, MergePendingCore, MergePendingPhase
<1>8. Core(released) /\ Phase(released) = Phase(dec)
  BY <1>6, <1>7, ReleasePendingSafe, PhaseFrame DEF ReleasePending, Safe
<1>. HIDE DEF released
<1>9. refilled.tstate = released.tstate
  BY <1>8 DEF Core, SchedState
<1>. HIDE DEF refilled
<1>. QED  BY <1>2, <1>3, <1>6, <1>8, <1>9, PhaseFrame

\* dq_rem from the list that task_state names
LEMMA RemoveFromListPhase ==
  ASSUME NEW s, Core(s), NEW t \in Task \ {Idle}, t # ThisTask(s)
  PROVE  Phase(RemoveFromList(s, t)) = [Phase(s) EXCEPT ![t] = "INVALID"]
<1>. DEFINE r == RemoveFromList(s, t)
<1>1. s \in SchedState /\ s.tstate \in [Task -> TState]
  BY DEF Core, SchedState
<1>2. r.tstate = [s.tstate EXCEPT ![t] = "INVALID"]
  BY <1>1 DEF RemoveFromList, RemoveBlocked, SchedState
<1>. HIDE DEF r
<1>3. \A x \in Task : Phase(r)[x] = [Phase(s) EXCEPT ![t] = "INVALID"][x]
  BY <1>1, <1>2 DEF Phase
<1>. QED  BY <1>3 DEF Phase, r

(***************************************************************************)
(* nx_start                                                                *)
(***************************************************************************)
\* nx_start leaves a safe state.
LEMMA InitSafe == Safe(SchedInit)
<1>. DEFINE s == SchedInit
<1>1. << >> \in Seq(Task) /\ <<Idle>> \in Seq(Task)
  BY IdleIsTask
<1>2. 0 \in 0..MaxPrio /\ 0 \in 0..RRTicks /\ 0 \in Nat
  BY MaxPrioPositive, RRTicksPositive
<1>3. /\ s.rtr = <<Idle>> /\ s.pend = << >> /\ s.policy[Idle] = "FIFO"
      /\ s.blk = [st \in BlockedState |-> << >>]
      /\ s.tstate = [t \in Task |-> IF t = Idle THEN "RUNNING" ELSE "INVALID"]
  BY IdleIsTask DEF SchedInit
<1>4. s \in SchedState
  <2>. DEFINE l == <<Idle>>
              e == << >>
              b == [st \in BlockedState |-> e]
              ts == [t \in Task |-> IF t = Idle THEN "RUNNING" ELSE "INVALID"]
              z == [t \in Task |-> 0]
              f == [t \in Task |-> "FIFO"]
  <2>1. /\ l \in Seq(Task) /\ e \in Seq(Task) /\ b \in [BlockedState -> Seq(Task)]
        /\ ts \in [Task -> TState] /\ z \in [Task -> 0..MaxPrio] /\ z \in [Task -> Nat]
        /\ z \in [Task -> 0..RRTicks] /\ f \in [Task -> Policy]
    BY <1>1, <1>2 DEF TState, Policy
  <2>2. s = [rtr |-> l, pend |-> e, blk |-> b, tstate |-> ts, prio |-> z, init |-> z,
             lock |-> z, policy |-> f, slice |-> z]
    BY DEF SchedInit
  <2>. HIDE DEF s, l, e, b, ts, z, f
  <2>. QED  BY <2>1, <2>2 DEF SchedState
<1>. HIDE DEF s
<1>5. ThisTask(s) = Idle
  BY <1>3 DEF ThisTask
<1>6. \A x \in Task : ~OnList(<< >>, x) /\ (OnList(<<Idle>>, x) <=> x = Idle)
  BY DEF OnList
<1>7. NoRepeat(<<Idle>>) /\ NoRepeat(<< >>)
  BY DEF NoRepeat
<1>8. NoRepeats(s)
  BY <1>3, <1>7 DEF NoRepeats
<1>9. \A x \in Task : PlacedAt(s, x)
  BY <1>3, <1>5, <1>6 DEF PlacedAt, BlockedState, WaitState
<1>10. OnList(s.rtr, Idle)
  BY <1>3, <1>6, IdleIsTask
<1>11. Core(s)
  BY <1>3, <1>4, <1>8, <1>9, <1>10, CoreParts
<1>. QED  BY <1>3, <1>11 DEF Safe, PendingNeedsLock, s

\* nx_start leaves sorted lists.
LEMMA InitOrdered == Ordered(SchedInit)
<1>. DEFINE s == SchedInit
<1>1. /\ s.rtr = <<Idle>> /\ s.pend = << >> /\ s.blk = [st \in BlockedState |-> << >>]
      /\ s.tstate = [t \in Task |-> IF t = Idle THEN "RUNNING" ELSE "INVALID"]
      /\ s.prio = [t \in Task |-> 0]
  BY DEF SchedInit
<1>. HIDE DEF s
<1>2. Descending(<<Idle>>, s.prio) /\ Descending(<< >>, s.prio)
  BY DEF Descending
<1>3. \A st \in Prioritized : s.blk[st] = << >>
  BY <1>1 DEF Prioritized, BlockedState, WaitState
<1>4. Ranked(s)
  BY <1>1, IdleIsTask DEF Ranked
<1>. QED  BY <1>1, <1>2, <1>3, <1>4 DEF Ordered, Sorted, s
=============================================================================
