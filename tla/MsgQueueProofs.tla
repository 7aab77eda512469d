--------------------------- MODULE MsgQueueProofs ---------------------------
(***************************************************************************)
(* MsgQueue, for every set of tasks and queues and queues of any length.   *)
(* The invariant has a part about the record Kernel, which the functions   *)
(* of sched/mqueue work on: the scheduler's lists are in order, and        *)
(* nwaitnotempty and nwaitnotfull count the tasks on the two lists of      *)
(* waiters.  The other part says where the tasks are: only the running     *)
(* task is between sched_lock and sched_unlock of a call, the others wait. *)
(***************************************************************************)
EXTENDS MsgQueue, NxSchedLemmas, FiniteSetTheorems

Errcode == {"OK", "EINTR", "ETIMEDOUT"}
How == {"deleted", "restarted"}

\* Who is on the list of state st for q.
On(k, st, q) == {t \in Task : k.sched.tstate[t] = st /\ k.msgwaitq[t] = q}

IsKernel(k) ==
  k = [sched |-> k.sched, msglist |-> k.msglist, nwait |-> k.nwait, ntpid |-> k.ntpid,
       pool |-> k.pool, msgwaitq |-> k.msgwaitq, errcode |-> k.errcode, fault |-> k.fault,
       arrived |-> k.arrived, cut |-> k.cut]

KTypes(k) ==
  /\ k.nwait \in [MqWait -> [Mq -> Int]] /\ k.msgwaitq \in [Task -> Mq \cup {None}]
  /\ k.cut \in [Mq -> SUBSET How] /\ k.errcode \in [Task -> Errcode]
  /\ k.ntpid \in [Mq -> Task \cup {None}] /\ k.fault \in BOOLEAN

\* A task on a list of waiters waits for a queue.
Assigned(k) == \A t \in Task : k.sched.tstate[t] \in MqWait => k.msgwaitq[t] \in Mq

\* The counts are right unless a task was deleted while it waited: its share
\* stays in the count.
Counted(k) ==
  \A st \in MqWait, q \in Mq :
    /\ Cardinality(On(k, st, q)) <= k.nwait[st][q]
    /\ "deleted" \notin k.cut[q] => k.nwait[st][q] = Cardinality(On(k, st, q))

KInv(k) ==
  /\ IsKernel(k) /\ Safe(k.sched) /\ KTypes(k) /\ Assigned(k) /\ Counted(k)

Held == {"send", "alloc", "insert", "notify", "notified", "wake", "unlock", "recv", "deliver",
         "wakesender", "tcheck", "tsend", "discard"}
Waits == {"sendwait", "recvwait"}
Place == Held \cup Waits \cup {"run", "tlock", "trecv", "undog", "terminate"}
MsgType == {"FIXED", "IRQ", "DYN"}

CallTypes ==
  /\ pc \in [Task -> Place] /\ desc \in [Task -> Mq \cup {None}]
  /\ event \in [Task -> Task \cup {None}] /\ victim \in [Task -> Task \cup {None}]
  /\ waitdog \in [Task -> {"none", "created", "active"}]

PlaceOf(st) == IF st = "WAIT_MQNOTEMPTY" THEN "recvwait" ELSE "sendwait"

\* Who is on a list of waiters is in the wait of a call on that queue.
Parked(t) ==
  sched.tstate[t] \in MqWait => desc[t] = msgwaitq[t] /\ pc[t] = PlaceOf(sched.tstate[t])

\* Who is in a call has its queue and, where it needs one, somebody to notify or a
\* task to delete, which is on no list any more.
Equipped(t) ==
  /\ pc[t] \in Held \cup Waits \cup {"tlock"} => desc[t] \in Mq
  /\ pc[t] = "notified" => event[t] # None
  /\ pc[t] = "terminate" => victim[t] # None
  /\ victim[t] # None => victim[t] # Idle /\ sched.tstate[victim[t]] = "INVALID"

\* Only the running task is between sched_lock and sched_unlock, unless it waits.
Alone(t) ==
  /\ pc[t] \in Held => t = self
  /\ pc[t] \in Held \cup Waits => sched.lock[t] > 0

Calls == CallTypes /\ \A t \in Task : Parked(t) /\ Equipped(t) /\ Alone(t)

MqInv == KInv(Kernel) /\ Calls

(***************************************************************************)
(* The scheduler's part.                                                   *)
(***************************************************************************)
\* Phase tells blocked and freed tasks.
LEMMA PhaseTells ==
  ASSUME NEW s, NEW x \in Task, NEW st \in BlockedState \cup {"INVALID"}
  PROVE  Phase(s)[x] = st <=> s.tstate[x] = st
<1>1. st # "READY"
  BY DEF BlockedState, WaitState
<1>. QED  BY <1>1 DEF Phase

\* Nobody but t changes its phase.
Elsewhere(s, r, t) == \A x \in Task : x # t => Phase(r)[x] = Phase(s)[x]

\* Nobody but t goes on or off a list of waiters, or is freed or created.
LEMMA ElsewhereTells ==
  ASSUME NEW s, NEW r, NEW t, Elsewhere(s, r, t), NEW x \in Task, x # t
  PROVE  /\ r.tstate[x] = "INVALID" <=> s.tstate[x] = "INVALID"
         /\ \A st \in MqWait : r.tstate[x] = st <=> s.tstate[x] = st
         /\ r.tstate[x] \in MqWait <=> s.tstate[x] \in MqWait
         /\ r.tstate[x] \in MqWait => r.tstate[x] = s.tstate[x]
<1>1. Phase(r)[x] = Phase(s)[x]
  BY DEF Elsewhere
<1>2. \A st \in MqWait : st \in BlockedState
  BY DEF MqWait, BlockedState, WaitState
<1>3. \A st \in MqWait : r.tstate[x] = st <=> s.tstate[x] = st
  BY <1>1, <1>2, PhaseTells
<1>4. r.tstate[x] = "INVALID" <=> s.tstate[x] = "INVALID"
  BY <1>1, PhaseTells, ZenonT(30)
<1>. QED  BY <1>3, <1>4

\* While pre-emption is disabled the running task stays.
Stays(s, r) == r.lock = s.lock /\ (s.lock[ThisTask(s)] > 0 => ThisTask(r) = ThisTask(s))

\* up_unblock_task
LEMMA UnblockStays ==
  ASSUME NEW s, Safe(s), NEW t \in Task, s.tstate[t] \in BlockedState
  PROVE  LET r == UnblockTask(s, t)
         IN  /\ Safe(r) /\ Elsewhere(s, r, t) /\ Stays(s, r)
             /\ r.tstate[t] \notin BlockedState \cup {"INVALID"}
<1>. DEFINE off == RemoveBlocked(s, t)
            on == AddReadyToRun(off, t)
            r == UnblockTask(s, t)
<1>1. Core(s) /\ Safe(r) /\ r = SwitchFrom(ThisTask(s), on)
  BY UnblockTaskSafe DEF UnblockTask, Safe
<1>2. /\ Core(off) /\ off.tstate[t] = "INVALID" /\ ThisTask(off) = ThisTask(s)
      /\ off.lock = s.lock
  BY <1>1, RemoveBlockedSafe, RemoveBlockedCore
<1>. HIDE DEF off
<1>3. /\ Core(on) /\ on.lock = off.lock
      /\ off.lock[ThisTask(off)] > 0 => ThisTask(on) = ThisTask(off)
  <2>1. /\ Core(on) /\ on = [off EXCEPT !.rtr = on.rtr, !.pend = on.pend, !.tstate = on.tstate]
        /\ \/ ThisTask(on) = ThisTask(off)
           \/ off.lock[ThisTask(off)] = 0
    BY <1>2, AddReadyToRunCore
  <2>. HIDE DEF on
  <2>2. on.lock = off.lock
    BY <2>1, <1>2 DEF Core, SchedState
  <2>. QED  BY <2>1, <2>2
<1>. HIDE DEF on
<1>4. r.lock = on.lock /\ ThisTask(r) = ThisTask(on)
  <2>1. /\ ResumeScheduler(on).lock = on.lock
        /\ ResumeScheduler(on).rtr = on.rtr
    BY <1>3, ResumeFrame
  <2>. QED  BY <1>1, <2>1 DEF SwitchFrom, ThisTask
<1>5. Phase(r) = [Phase(s) EXCEPT ![t] = "READY"] /\ Phase(s) \in [Task -> BlockedState \cup {"INVALID", "READY"}]
  BY <1>1, UnblockTaskPhase, PhaseType
<1>. HIDE DEF r
<1>6. Elsewhere(s, r, t) /\ Phase(r)[t] = "READY"
  BY <1>5 DEF Elsewhere
<1>7. r.tstate[t] \notin BlockedState \cup {"INVALID"}
  <2>1. "READY" \notin BlockedState \cup {"INVALID"}
    BY DEF BlockedState, WaitState
  <2>. QED  BY <1>6, <2>1, PhaseTells
<1>8. Stays(s, r)
  BY <1>2, <1>3, <1>4 DEF Stays
<1>. QED  BY <1>1, <1>6, <1>7, <1>8 DEF r

\* up_block_task
LEMMA BlockStays ==
  ASSUME NEW s, Safe(s), ThisTask(s) # Idle, NEW st \in BlockedState
  PROVE  LET t == ThisTask(s)
             r == BlockTask(s, t, st)
         IN  /\ Safe(r) /\ Elsewhere(s, r, t) /\ r.lock = s.lock /\ r.tstate[t] = st /\ t \in Task
<1>. DEFINE t == ThisTask(s)
            removed == RemoveReadyToRun(s, t)
            added == AddBlocked(removed, t, st)
            merged == MergeIfPending(added)
            r == BlockTask(s, t, st)
<1>1. Core(s) /\ Safe(r) /\ r = SwitchFrom(t, merged)
  BY BlockTaskSafe DEF BlockTask, Safe
<1>2. t \in Task \ {Idle} /\ OnList(s.rtr, t)
  BY <1>1, CoreFacts
<1>3. Phase(r) = [Phase(s) EXCEPT ![t] = st] /\ Phase(s) \in [Task -> BlockedState \cup {"INVALID", "READY"}]
  BY <1>1, BlockTaskPhase, PhaseType
<1>. HIDE DEF t
<1>4. Core(removed) /\ removed.tstate[t] = "INVALID" /\ removed.lock = s.lock
  <2>1. /\ Core(removed) /\ removed.tstate[t] = "INVALID"
        /\ removed = [s EXCEPT !.rtr = removed.rtr, !.tstate = removed.tstate]
    BY <1>1, <1>2, RemoveReadyToRunCore
  <2>. HIDE DEF removed
  <2>. QED  BY <2>1, <1>1 DEF Core, SchedState
<1>. HIDE DEF removed
<1>5. Core(added) /\ added.lock = s.lock
  <2>1. Core(added) /\ added = [removed EXCEPT !.blk = added.blk, !.tstate = added.tstate]
    <3>1. t \in Task /\ Core(removed) /\ removed.tstate[t] = "INVALID"
      BY <1>2, <1>4
    <3>. QED  BY <3>1, AddBlockedCore, ZenonT(60)
  <2>. HIDE DEF added
  <2>. QED  BY <2>1, <1>4 DEF Core, SchedState
<1>. HIDE DEF added
<1>6. Core(merged) /\ merged.lock = s.lock
  <2>1. Safe(merged) /\ merged = [added EXCEPT !.rtr = merged.rtr, !.pend = merged.pend, !.tstate = merged.tstate]
    BY <1>5, MergeIfPendingSafe
  <2>. HIDE DEF merged
  <2>. QED  BY <2>1, <1>5 DEF Safe, Core, SchedState
<1>. HIDE DEF merged
<1>7. r.lock = s.lock
  <2>1. ResumeScheduler(merged).lock = merged.lock
    BY <1>6, ResumeFrame
  <2>. QED  BY <1>1, <1>6, <2>1 DEF SwitchFrom
<1>. HIDE DEF r
<1>8. Elsewhere(s, r, t) /\ r.tstate[t] = st
  BY <1>2, <1>3, PhaseTells DEF Elsewhere
<1>. QED  BY <1>1, <1>2, <1>7, <1>8 DEF r, t

(***************************************************************************)
(* Waiters and their counts.                                               *)
(***************************************************************************)
\* Sets of tasks are finite, and one task more or less is one.
LEMMA TaskSets ==
  ASSUME NEW S \in SUBSET Task
  PROVE  /\ IsFiniteSet(S) /\ Cardinality(S) \in Nat
         /\ Cardinality(S) = 0 <=> S = {}
         /\ \A t \in Task :
              /\ Cardinality(S \cup {t}) = IF t \in S THEN Cardinality(S) ELSE Cardinality(S) + 1
              /\ Cardinality(S \ {t}) = IF t \in S THEN Cardinality(S) - 1 ELSE Cardinality(S)
<1>1. IsFiniteSet(S)
  BY MqTasksFinite, FS_Subset
<1>2. Cardinality(S) \in Nat
  BY <1>1, FS_CardinalityType
<1>3. Cardinality(S) = 0 <=> S = {}
  BY <1>1, FS_EmptySet
<1>4. ASSUME NEW t \in Task
      PROVE  /\ Cardinality(S \cup {t}) = IF t \in S THEN Cardinality(S) ELSE Cardinality(S) + 1
             /\ Cardinality(S \ {t}) = IF t \in S THEN Cardinality(S) - 1 ELSE Cardinality(S)
  BY <1>1, FS_AddElement, FS_RemoveElement
<1>. QED  BY <1>1, <1>2, <1>3, <1>4

\* The cuts of r are those of k and more.
MoreCut(k, r) == \A q \in Mq : "deleted" \in k.cut[q] => "deleted" \in r.cut[q]

\* A step that leaves the waiters and the counts alone.
LEMMA KFrame ==
  ASSUME NEW k, KInv(k), NEW r, IsKernel(r), Safe(r.sched), KTypes(r), r.nwait = k.nwait,
         MoreCut(k, r),
         \A x \in Task : r.sched.tstate[x] \in MqWait => r.msgwaitq[x] = k.msgwaitq[x],
         \A x \in Task, st \in MqWait : r.sched.tstate[x] = st <=> k.sched.tstate[x] = st
  PROVE  KInv(r)
<1>1. KTypes(k) /\ Assigned(k) /\ Counted(k)
  BY DEF KInv
<1>2. \A st \in MqWait, q \in Mq : On(r, st, q) = On(k, st, q)
  BY DEF On
<1>3. Assigned(r)
  BY <1>1 DEF Assigned
<1>4. Counted(r)
  BY <1>1, <1>2 DEF Counted, MoreCut
<1>. QED  BY <1>3, <1>4 DEF KInv

\* A task leaves the list of waiters and is no longer counted, or is deleted.
LEMMA KLeave ==
  ASSUME NEW k, KInv(k), NEW t \in Task, k.sched.tstate[t] \in MqWait,
         NEW r, IsKernel(r), Safe(r.sched), KTypes(r), MoreCut(k, r),
         \/ r.nwait = [k.nwait EXCEPT ![k.sched.tstate[t]][k.msgwaitq[t]] = @ - 1]
         \/ r.nwait = k.nwait /\ "deleted" \in r.cut[k.msgwaitq[t]],
         r.sched.tstate[t] \notin MqWait, Elsewhere(k.sched, r.sched, t),
         \A x \in Task : x # t => r.msgwaitq[x] = k.msgwaitq[x]
  PROVE  KInv(r)
<1>. DEFINE st == k.sched.tstate[t]
            q == k.msgwaitq[t]
<1>1. KTypes(k) /\ Assigned(k) /\ Counted(k) /\ st \in MqWait /\ q \in Mq
  BY DEF KInv, Assigned
<1>2. ASSUME NEW s2 \in MqWait, NEW q2 \in Mq
      PROVE  On(r, s2, q2) = IF s2 = st /\ q2 = q THEN On(k, s2, q2) \ {t} ELSE On(k, s2, q2)
  <2>1. \A x \in Task : x # t => (r.sched.tstate[x] = s2 <=> k.sched.tstate[x] = s2)
    BY ElsewhereTells
  <2>. QED  BY <2>1 DEF On
<1>3. t \in On(k, st, q)
  BY DEF On
<1>4. Assigned(r)
  <2>. SUFFICES ASSUME NEW x \in Task, r.sched.tstate[x] \in MqWait PROVE r.msgwaitq[x] \in Mq
    BY DEF Assigned
  <2>1. x # t /\ k.sched.tstate[x] \in MqWait
    BY ElsewhereTells
  <2>. QED  BY <1>1, <2>1 DEF Assigned
<1>. HIDE DEF st, q
<1>5. ASSUME NEW s2 \in MqWait, NEW q2 \in Mq
      PROVE  /\ Cardinality(On(r, s2, q2)) <= r.nwait[s2][q2]
             /\ "deleted" \notin r.cut[q2] => r.nwait[s2][q2] = Cardinality(On(r, s2, q2))
  <2>1. /\ Cardinality(On(k, s2, q2)) <= k.nwait[s2][q2] /\ k.nwait[s2][q2] \in Int
        /\ "deleted" \notin r.cut[q2] => k.nwait[s2][q2] = Cardinality(On(k, s2, q2))
    BY <1>1 DEF Counted, MoreCut, KTypes
  <2>2. On(k, s2, q2) \in SUBSET Task
    BY DEF On
  <2>3. /\ Cardinality(On(k, s2, q2)) \in Nat
        /\ t \in On(k, s2, q2) => Cardinality(On(k, s2, q2) \ {t}) = Cardinality(On(k, s2, q2)) - 1
    <3>. DEFINE S == On(k, s2, q2)
    <3>. HIDE DEF S
    <3>1. S \in SUBSET Task
      BY <2>2 DEF S
    <3>2. Cardinality(S) \in Nat /\ (t \in S => Cardinality(S \ {t}) = Cardinality(S) - 1)
      BY <3>1, TaskSets
    <3>. QED  BY <3>2 DEF S
  <2>4. \/ r.nwait[s2][q2] = IF s2 = st /\ q2 = q THEN k.nwait[s2][q2] - 1 ELSE k.nwait[s2][q2]
        \/ r.nwait[s2][q2] = k.nwait[s2][q2] /\ (q2 = q => "deleted" \in r.cut[q2])
    BY <1>1 DEF KTypes, st, q
  <2>5. CASE s2 = st /\ q2 = q
    <3>1. On(r, s2, q2) = On(k, s2, q2) \ {t} /\ t \in On(k, s2, q2)
      BY <1>2, <1>3, <2>5
    <3>2. Cardinality(On(r, s2, q2)) = Cardinality(On(k, s2, q2)) - 1
      BY <2>3, <3>1
    <3>. QED  BY <2>1, <2>3, <2>4, <2>5, <3>2
  <2>6. CASE ~(s2 = st /\ q2 = q)
    BY <1>2, <2>1, <2>3, <2>4, <2>6
  <2>. QED  BY <2>5, <2>6
<1>. QED  BY <1>4, <1>5 DEF KInv, Counted

\* The running task goes on a list of waiters.
LEMMA KJoin ==
  ASSUME NEW k, KInv(k), NEW t \in Task, k.sched.tstate[t] \notin MqWait,
         NEW st \in MqWait, NEW q \in Mq,
         NEW r, IsKernel(r), Safe(r.sched), KTypes(r), MoreCut(k, r),
         r.nwait = [k.nwait EXCEPT ![st][q] = @ + 1],
         r.sched.tstate[t] = st, r.msgwaitq[t] = q, Elsewhere(k.sched, r.sched, t),
         \A x \in Task : x # t => r.msgwaitq[x] = k.msgwaitq[x]
  PROVE  KInv(r)
<1>1. KTypes(k) /\ Assigned(k) /\ Counted(k)
  BY DEF KInv
<1>2. ASSUME NEW s2 \in MqWait, NEW q2 \in Mq
      PROVE  /\ On(r, s2, q2) = IF s2 = st /\ q2 = q THEN On(k, s2, q2) \cup {t} ELSE On(k, s2, q2)
             /\ t \notin On(k, s2, q2)
  <2>1. \A x \in Task : x # t => (r.sched.tstate[x] = s2 <=> k.sched.tstate[x] = s2)
    BY ElsewhereTells
  <2>2. t \notin On(k, s2, q2)
    BY DEF On
  <2>3. ASSUME NEW x PROVE x \in On(r, s2, q2) <=> x \in On(k, s2, q2) \/ (x = t /\ s2 = st /\ q2 = q)
    BY <2>1, <2>2 DEF On
  <2>. QED  BY <2>2, <2>3
<1>4. Assigned(r)
  <2>. SUFFICES ASSUME NEW x \in Task, r.sched.tstate[x] \in MqWait PROVE r.msgwaitq[x] \in Mq
    BY DEF Assigned
  <2>1. CASE x # t
    <3>1. k.sched.tstate[x] \in MqWait
      BY <2>1, ElsewhereTells
    <3>. QED  BY <1>1, <2>1, <3>1 DEF Assigned
  <2>. QED  BY <2>1
<1>5. ASSUME NEW s2 \in MqWait, NEW q2 \in Mq
      PROVE  /\ Cardinality(On(r, s2, q2)) <= r.nwait[s2][q2]
             /\ "deleted" \notin r.cut[q2] => r.nwait[s2][q2] = Cardinality(On(r, s2, q2))
  <2>1. /\ Cardinality(On(k, s2, q2)) <= k.nwait[s2][q2] /\ k.nwait[s2][q2] \in Int
        /\ "deleted" \notin r.cut[q2] => k.nwait[s2][q2] = Cardinality(On(k, s2, q2))
    BY <1>1 DEF Counted, MoreCut, KTypes
  <2>2. On(k, s2, q2) \in SUBSET Task
    BY DEF On
  <2>3. /\ Cardinality(On(k, s2, q2)) \in Nat
        /\ Cardinality(On(k, s2, q2) \cup {t}) = Cardinality(On(k, s2, q2)) + 1
    <3>. DEFINE S == On(k, s2, q2)
    <3>. HIDE DEF S
    <3>1. S \in SUBSET Task /\ t \notin S
      BY <1>2, <2>2 DEF S
    <3>2. Cardinality(S) \in Nat /\ Cardinality(S \cup {t}) = Cardinality(S) + 1
      BY <3>1, TaskSets
    <3>. QED  BY <3>2 DEF S
  <2>4. r.nwait[s2][q2] = IF s2 = st /\ q2 = q THEN k.nwait[s2][q2] + 1 ELSE k.nwait[s2][q2]
    BY <1>1 DEF KTypes
  <2>5. CASE s2 = st /\ q2 = q
    <3>1. On(r, s2, q2) = On(k, s2, q2) \cup {t}
      BY <1>2, <2>5
    <3>2. Cardinality(On(r, s2, q2)) = Cardinality(On(k, s2, q2)) + 1
      BY <2>3, <3>1
    <3>. QED  BY <2>1, <2>3, <2>4, <2>5, <3>2
  <2>6. CASE ~(s2 = st /\ q2 = q)
    BY <1>2, <2>1, <2>3, <2>4, <2>6
  <2>. QED  BY <2>5, <2>6
<1>. QED  BY <1>4, <1>5 DEF KInv, Counted

(***************************************************************************)
(* The functions of sched/mqueue that end waits.                           *)
(***************************************************************************)
\* A step from k to r that nobody's call notices but for the waits it ends.
Gentle(k, r) ==
  /\ KInv(r) /\ Stays(k.sched, r.sched) /\ r.cut = k.cut
  /\ \A x \in Task : r.sched.tstate[x] \in MqWait =>
       r.sched.tstate[x] = k.sched.tstate[x] /\ r.msgwaitq[x] = k.msgwaitq[x]
  /\ \A x \in Task : r.sched.tstate[x] = "INVALID" <=> k.sched.tstate[x] = "INVALID"

\* The messages are where they were.
SameMsgs(k, r) == r.msglist = k.msglist /\ r.arrived = k.arrived /\ r.pool = k.pool

\* Two such steps in one critical section are one.
LEMMA GentleTwice ==
  ASSUME NEW k, NEW m, NEW r, Gentle(k, m), Gentle(m, r)
  PROVE  Gentle(k, r)
<1>1. Stays(k.sched, r.sched)
  BY DEF Gentle, Stays
<1>. QED  BY <1>1 DEF Gentle

\* The tasks stay as they are.
LEMMA GentleFrame ==
  ASSUME NEW k, KInv(k), NEW r, IsKernel(r), KTypes(r), r.sched = k.sched, r.nwait = k.nwait,
         r.msgwaitq = k.msgwaitq, r.cut = k.cut
  PROVE  Gentle(k, r)
<1>1. Safe(r.sched) /\ MoreCut(k, r)
  BY DEF KInv, MoreCut
<1>2. KInv(r)
  BY <1>1, KFrame
<1>. QED  BY <1>2 DEF Gentle, Stays

\* A waiter is made ready and is no longer counted.
LEMMA GentleLeave ==
  ASSUME NEW k, KInv(k), NEW t \in Task, k.sched.tstate[t] \in MqWait,
         NEW r, IsKernel(r), KTypes(r), r.cut = k.cut, r.sched = UnblockTask(k.sched, t),
         r.nwait = [k.nwait EXCEPT ![k.sched.tstate[t]][k.msgwaitq[t]] = @ - 1],
         r.msgwaitq = [k.msgwaitq EXCEPT ![t] = None]
  PROVE  Gentle(k, r)
<1>1. Safe(k.sched) /\ MoreCut(k, r) /\ k.msgwaitq \in [Task -> Mq \cup {None}]
  BY DEF KInv, MoreCut, KTypes
<1>2. k.sched.tstate[t] \in BlockedState /\ "INVALID" \notin MqWait
  BY DEF MqWait, BlockedState, WaitState
<1>3. /\ Safe(r.sched) /\ Elsewhere(k.sched, r.sched, t) /\ Stays(k.sched, r.sched)
      /\ r.sched.tstate[t] \notin BlockedState \cup {"INVALID"}
  BY <1>1, <1>2, UnblockStays
<1>4. r.sched.tstate[t] \notin MqWait
  BY <1>3 DEF MqWait, BlockedState, WaitState
<1>5. \A x \in Task : x # t => r.msgwaitq[x] = k.msgwaitq[x]
  BY <1>1
<1>6. KInv(r)
  <2>1. \/ r.nwait = [k.nwait EXCEPT ![k.sched.tstate[t]][k.msgwaitq[t]] = @ - 1]
        \/ r.nwait = k.nwait /\ "deleted" \in r.cut[k.msgwaitq[t]]
    OBVIOUS
  <2>2. /\ Safe(r.sched) /\ MoreCut(k, r) /\ r.sched.tstate[t] \notin MqWait
        /\ Elsewhere(k.sched, r.sched, t)
        /\ \A x \in Task : x # t => r.msgwaitq[x] = k.msgwaitq[x]
    BY <1>1, <1>3, <1>4, <1>5
  <2>. QED  BY <2>1, <2>2, KLeave, ZenonT(60)
<1>7. ASSUME NEW x \in Task
      PROVE  /\ r.sched.tstate[x] \in MqWait =>
                  r.sched.tstate[x] = k.sched.tstate[x] /\ r.msgwaitq[x] = k.msgwaitq[x]
             /\ r.sched.tstate[x] = "INVALID" <=> k.sched.tstate[x] = "INVALID"
  <2>1. CASE x = t
    BY <1>2, <1>3, <1>4, <2>1
  <2>2. CASE x # t
    BY <1>3, <1>5, <2>2, ElsewhereTells
  <2>. QED  BY <2>1, <2>2
<1>. QED  BY <1>3, <1>6, <1>7 DEF Gentle

\* The search of nxmq_do_send and nxmq_do_receive finds a task that waits for
\* the queue.
LEMMA FirstWaiterWaits ==
  ASSUME NEW k, KInv(k), NEW st \in MqWait, NEW q \in Mq, NEW t \in FirstWaiter(k, st, q)
  PROVE  t \in Task /\ k.sched.tstate[t] = st /\ k.msgwaitq[t] = q
<1>1. st \in BlockedState /\ Core(k.sched)
  BY DEF KInv, Safe, MqWait, BlockedState, WaitState
<1>2. k.sched.blk[st] \in Seq(Task)
  BY <1>1 DEF Core, SchedState
<1>3. PICK i \in 1..Len(k.sched.blk[st]) : t = k.sched.blk[st][i] /\ k.msgwaitq[t] = q
  BY DEF FirstWaiter
<1>4. t \in Task /\ OnList(k.sched.blk[st], t)
  BY <1>2, <1>3 DEF OnList
<1>. QED  BY <1>1, <1>3, <1>4 DEF Core, Placed

\* The wake-up of the first waiter, or the dereferenced null pointer.
LEMMA WakeFirstGentle ==
  ASSUME NEW k, KInv(k), NEW st \in MqWait, NEW q \in Mq
  PROVE  LET r == WakeFirst(k, st, q)
         IN  Gentle(k, r) /\ SameMsgs(k, r)
<1>. DEFINE r == WakeFirst(k, st, q)
            first == FirstWaiter(k, st, q)
<1>1. IsKernel(k) /\ KTypes(k)
  BY DEF KInv
<1>2. CASE first = {}
  <2>1. r = [k EXCEPT !.fault = TRUE]
    BY <1>2 DEF WakeFirst
  <2>2. /\ IsKernel(r) /\ r.sched = k.sched /\ r.nwait = k.nwait /\ r.msgwaitq = k.msgwaitq
        /\ r.cut = k.cut /\ r.errcode = k.errcode /\ r.ntpid = k.ntpid /\ r.fault = TRUE
        /\ SameMsgs(k, r)
    BY <1>1, <2>1 DEF IsKernel, SameMsgs
  <2>. HIDE DEF r
  <2>3. KTypes(r)
    BY <1>1, <2>2 DEF KTypes
  <2>4. Gentle(k, r)
    BY <2>2, <2>3, GentleFrame
  <2>. QED  BY <2>2, <2>4 DEF r
<1>3. CASE first # {}
  <2>. DEFINE t == CHOOSE x \in first : TRUE
  <2>1. t \in first
    BY <1>3
  <2>2. r = [k EXCEPT !.msgwaitq[t] = None, !.nwait[st][q] = @ - 1,
                      !.sched = UnblockTask(k.sched, t)]
    BY <1>3 DEF WakeFirst
  <2>. HIDE DEF t
  <2>3. t \in Task /\ k.sched.tstate[t] = st /\ k.msgwaitq[t] = q
    BY <2>1, FirstWaiterWaits
  <2>4. /\ IsKernel(r) /\ r.sched = UnblockTask(k.sched, t)
        /\ r.nwait = [k.nwait EXCEPT ![st][q] = @ - 1]
        /\ r.msgwaitq = [k.msgwaitq EXCEPT ![t] = None]
        /\ r.cut = k.cut /\ r.errcode = k.errcode /\ r.ntpid = k.ntpid /\ r.fault = k.fault
        /\ SameMsgs(k, r)
    BY <1>1, <2>2 DEF IsKernel, SameMsgs
  <2>. HIDE DEF r
  <2>5. r.nwait \in [MqWait -> [Mq -> Int]] /\ r.msgwaitq \in [Task -> Mq \cup {None}]
    <3>1. k.nwait \in [MqWait -> [Mq -> Int]] /\ k.msgwaitq \in [Task -> Mq \cup {None}]
      BY <1>1 DEF KTypes
    <3>. QED  BY <2>3, <2>4, <3>1
  <2>6. KTypes(r)
    BY <1>1, <2>4, <2>5 DEF KTypes
  <2>7. Gentle(k, r)
    BY <2>3, <2>4, <2>6, GentleLeave
  <2>. QED  BY <2>4, <2>7 DEF r
<1>. QED  BY <1>2, <1>3

\* The wake-up at the end of nxmq_do_send.
LEMMA WakeReceiverGentle ==
  ASSUME NEW k, KInv(k), NEW q \in Mq
  PROVE  LET r == WakeReceiver(k, q)
         IN  Gentle(k, r) /\ SameMsgs(k, r)
<1>1. Gentle(k, k) /\ SameMsgs(k, k)
  BY GentleFrame DEF KInv, SameMsgs
<1>2. "WAIT_MQNOTEMPTY" \in MqWait
  BY DEF MqWait
<1>. QED  BY <1>1, <1>2, WakeFirstGentle DEF WakeReceiver

\* nxmq_wait_irq: a signal or a timeout ends the wait of t, if it waits.
LEMMA WaitIrqGentle ==
  ASSUME NEW k, KInv(k), NEW t \in Task, NEW err \in Errcode
  PROVE  LET r == nxmq_wait_irq(k, t, err)
         IN  Gentle(k, r) /\ SameMsgs(k, r)
<1>. DEFINE r == nxmq_wait_irq(k, t, err)
            st == k.sched.tstate[t]
            q == k.msgwaitq[t]
<1>1. IsKernel(k) /\ KTypes(k) /\ Assigned(k)
  BY DEF KInv
<1>2. CASE st \notin MqWait
  <2>1. r = k
    BY <1>2 DEF nxmq_wait_irq
  <2>. QED  BY <1>1, <2>1, GentleFrame DEF SameMsgs
<1>3. CASE st \in MqWait
  <2>1. r = [k EXCEPT !.msgwaitq[t] = None, !.errcode[t] = err, !.nwait[st][q] = @ - 1,
                      !.sched = UnblockTask(k.sched, t)]
    BY <1>3 DEF nxmq_wait_irq
  <2>2. q \in Mq
    BY <1>1, <1>3 DEF Assigned
  <2>3. /\ IsKernel(r) /\ r.sched = UnblockTask(k.sched, t)
        /\ r.nwait = [k.nwait EXCEPT ![st][q] = @ - 1]
        /\ r.msgwaitq = [k.msgwaitq EXCEPT ![t] = None]
        /\ r.errcode = [k.errcode EXCEPT ![t] = err]
        /\ r.cut = k.cut /\ r.ntpid = k.ntpid /\ r.fault = k.fault
        /\ SameMsgs(k, r)
    BY <1>1, <2>1 DEF IsKernel, SameMsgs
  <2>. HIDE DEF r
  <2>4. /\ r.nwait \in [MqWait -> [Mq -> Int]] /\ r.msgwaitq \in [Task -> Mq \cup {None}]
        /\ r.errcode \in [Task -> Errcode]
    <3>1. /\ k.nwait \in [MqWait -> [Mq -> Int]] /\ k.msgwaitq \in [Task -> Mq \cup {None}]
          /\ k.errcode \in [Task -> Errcode]
      BY <1>1 DEF KTypes
    <3>2. r.nwait \in [MqWait -> [Mq -> Int]]
      BY <1>3, <2>2, <2>3, <3>1
    <3>3. r.msgwaitq \in [Task -> Mq \cup {None}] /\ r.errcode \in [Task -> Errcode]
      BY <1>1, <2>3, <3>1
    <3>. QED  BY <3>2, <3>3
  <2>5. KTypes(r)
    BY <1>1, <2>3, <2>4 DEF KTypes
  <2>6. Gentle(k, r)
    BY <1>3, <2>3, <2>5, GentleLeave
  <2>. QED  BY <2>3, <2>6 DEF r
<1>. QED  BY <1>2, <1>3

\* The notification is detached and ends the wait of the task it goes to.
LEMMA NotifiedGentle ==
  ASSUME NEW k, KInv(k), NEW q \in Mq, NEW t \in Task, NEW unmasked \in BOOLEAN
  PROVE  LET r == Notified(k, q, t, unmasked)
         IN  Gentle(k, r) /\ SameMsgs(k, r)
<1>. DEFINE sent == [k EXCEPT !.ntpid[q] = None]
            r == Notified(k, q, t, unmasked)
<1>1. IsKernel(k) /\ KTypes(k)
  BY DEF KInv
<1>2. /\ IsKernel(sent) /\ sent.sched = k.sched /\ sent.nwait = k.nwait
      /\ sent.msgwaitq = k.msgwaitq /\ sent.cut = k.cut /\ sent.errcode = k.errcode
      /\ sent.ntpid = [k.ntpid EXCEPT ![q] = None] /\ sent.fault = k.fault /\ SameMsgs(k, sent)
  BY <1>1 DEF IsKernel, SameMsgs
<1>3. r = IF unmasked THEN nxmq_wait_irq(sent, t, "EINTR") ELSE sent
  BY DEF Notified
<1>. HIDE DEF sent, r
<1>4. KTypes(sent)
  BY <1>1, <1>2 DEF KTypes
<1>5. Gentle(k, sent)
  BY <1>2, <1>4, GentleFrame
<1>6. CASE unmasked
  <2>1. KInv(sent) /\ "EINTR" \in Errcode
    BY <1>5 DEF Gentle, Errcode
  <2>2. Gentle(sent, r) /\ SameMsgs(sent, r)
    BY <1>3, <1>6, <2>1, WaitIrqGentle
  <2>. QED  BY <1>2, <1>5, <2>2, GentleTwice DEF SameMsgs, r
<1>7. CASE ~unmasked
  BY <1>2, <1>3, <1>5, <1>7 DEF r
<1>. QED  BY <1>6, <1>7

(***************************************************************************)
(* The functions that handle messages leave the tasks alone.               *)
(***************************************************************************)
SameTasks(k, r) ==
  /\ IsKernel(r) /\ r.sched = k.sched /\ r.nwait = k.nwait /\ r.msgwaitq = k.msgwaitq
  /\ r.cut = k.cut /\ r.errcode = k.errcode /\ r.ntpid = k.ntpid /\ r.fault = k.fault

\* Nobody's call notices.
LEMMA SameTasksGentle ==
  ASSUME NEW k, KInv(k), NEW r, SameTasks(k, r)
  PROVE  Gentle(k, r)
<1>1. KTypes(r)
  BY DEF SameTasks, KInv, KTypes
<1>. QED  BY <1>1, GentleFrame DEF SameTasks

\* Inserting, taking, allocating and freeing a message.
LEMMA MessagesOnly ==
  ASSUME NEW k, KInv(k), NEW q, NEW msg, NEW type
  PROVE  /\ SameTasks(k, AddMsg(k, q, msg)) /\ AddMsg(k, q, msg).pool = k.pool
         /\ SameTasks(k, TakeFirst(k, q)) /\ TakeFirst(k, q).pool = k.pool
         /\ SameTasks(k, [k EXCEPT !.pool[type] = @ - 1])
         /\ SameTasks(k, [k EXCEPT !.pool.FIXED = @ - 1])
         /\ SameTasks(k, FreeMsg(k, msg))
<1>1. IsKernel(k)
  BY DEF KInv
<1>2. SameTasks(k, AddMsg(k, q, msg)) /\ AddMsg(k, q, msg).pool = k.pool
  <2>. DEFINE l == [k.msglist EXCEPT ![q] = InsertAtPos(@, MsgPos(@, msg.prio), msg)]
              a == [k.arrived EXCEPT ![q] = Append(@, msg)]
              r == AddMsg(k, q, msg)
  <2>1. r = [k EXCEPT !.msglist = l, !.arrived = a]
    BY <1>1 DEF AddMsg, IsKernel
  <2>. HIDE DEF l, a, r
  <2>2. SameTasks(k, r) /\ r.pool = k.pool
    BY <1>1, <2>1 DEF SameTasks, IsKernel
  <2>. QED  BY <2>2 DEF r
<1>3. SameTasks(k, TakeFirst(k, q)) /\ TakeFirst(k, q).pool = k.pool
  <2>. DEFINE msg1 == Head(k.msglist[q])
              i == CHOOSE j \in 1..Len(k.arrived[q]) :
                     k.arrived[q][j] = msg1 /\ \A h \in 1..(j - 1) : k.arrived[q][h] # msg1
              l == [k.msglist EXCEPT ![q] = Tail(@)]
              a == [k.arrived EXCEPT ![q] = SubSeq(@, 1, i - 1) \o SubSeq(@, i + 1, Len(@))]
              r == TakeFirst(k, q)
  <2>1. r = [k EXCEPT !.msglist = l, !.arrived = a]
    BY <1>1 DEF TakeFirst, IsKernel
  <2>. HIDE DEF l, a, r
  <2>2. SameTasks(k, r) /\ r.pool = k.pool
    BY <1>1, <2>1 DEF SameTasks, IsKernel
  <2>. QED  BY <2>2 DEF r
<1>4. /\ SameTasks(k, [k EXCEPT !.pool[type] = @ - 1])
      /\ SameTasks(k, [k EXCEPT !.pool.FIXED = @ - 1])
  BY <1>1 DEF SameTasks, IsKernel
<1>5. SameTasks(k, FreeMsg(k, msg))
  BY <1>1 DEF FreeMsg, SameTasks, IsKernel
<1>. QED  BY <1>2, <1>3, <1>4, <1>5

(***************************************************************************)
(* Blocking, deletion, restart and the scheduler lock.                     *)
(***************************************************************************)
\* sched_lock and sched_unlock change the lock count of the running task.
LEMMA LockCounts ==
  ASSUME NEW s, Safe(s)
  PROVE  LET t == ThisTask(s)
             l == LockOp(s)
             u == UnlockOp(s)
         IN  /\ Safe(l) /\ Phase(l) = Phase(s) /\ ThisTask(l) = t /\ l.lock[t] > 0
             /\ Safe(u) /\ Phase(u) = Phase(s)
             /\ \A x \in Task : x # t => l.lock[x] = s.lock[x] /\ u.lock[x] = s.lock[x]
<1>. DEFINE t == ThisTask(s)
            l == LockOp(s)
            u == UnlockOp(s)
<1>1. Core(s) /\ Safe(l) /\ Safe(u) /\ Phase(l) = Phase(s) /\ Phase(u) = Phase(s)
  BY LockOpSafe, UnlockOpSafe, LockPhase DEF Safe
<1>2. t \in Task /\ s.lock \in [Task -> Nat] /\ s \in SchedState
  BY <1>1, CoreFacts DEF Core, SchedState
<1>3. l.lock = [s.lock EXCEPT ![t] = @ + 1] /\ ThisTask(l) = t
  BY <1>2 DEF LockOp, ThisTask, SchedState
<1>4. l.lock[t] > 0 /\ \A x \in Task : x # t => l.lock[x] = s.lock[x]
  <2>. HIDE DEF t, l
  <2>. QED  BY <1>2, <1>3
<1>5. \A x \in Task : x # t => u.lock[x] = s.lock[x]
  <2>. DEFINE less == [s.lock EXCEPT ![t] = @ - 1]
              dec == IF s.lock[t] > 0 THEN [s EXCEPT !.lock = less] ELSE s
              released == IF dec.pend = << >> THEN dec ELSE ReleasePending(dec)
  <2>1. /\ Core(dec) /\ ThisTask(dec) = t
        /\ \A x \in Task : x # t => dec.lock[x] = s.lock[x]
    <3>1. CASE s.lock[t] > 0
      <4>1. less \in [Task -> Nat] /\ \A x \in Task : x # t => less[x] = s.lock[x]
        <5>. HIDE DEF t
        <5>. QED  BY <1>2, <3>1
      <4>. HIDE DEF less
      <4>2. dec = [s EXCEPT !.lock = less]
        BY <3>1
      <4>. QED  BY <1>1, <4>1, <4>2, LockFrame
    <3>2. CASE ~(s.lock[t] > 0)
      BY <1>1, <3>2
    <3>. QED  BY <3>1, <3>2
  <2>2. /\ u.lock = dec.lock \/ u.lock = released.lock
    <3>1. /\ u = IF dec.lock[t] > 0 THEN dec
                 ELSE IF /\ released.policy[t] = "RR" /\ released.slice[t] = 0
                         /\ ThisTask(released) # t
                      THEN [released EXCEPT !.slice = [released.slice EXCEPT ![t] = RRTicks]]
                      ELSE released
      BY DEF UnlockOp
    <3>2. released \in SchedState
      <4>. HIDE DEF dec
      <4>. QED  BY <2>1, ReleasePendingSafe DEF Safe, Core
    <3>. HIDE DEF u, dec, released
    <3>. QED  BY <3>1, <3>2 DEF SchedState
  <2>. HIDE DEF dec
  <2>3. released.lock = dec.lock
    <3>. DEFINE m == MergePending(dec)
    <3>1. Core(m) /\ m = [dec EXCEPT !.rtr = m.rtr, !.pend = m.pend, !.tstate = m.tstate]
      BY <2>1, MergePendingCore
    <3>2. ReleasePending(dec) = SwitchFrom(ThisTask(dec), m)
      BY DEF ReleasePending
    <3>. HIDE DEF m
    <3>3. m.lock = dec.lock
      BY <2>1, <3>1 DEF Core, SchedState
    <3>4. ResumeScheduler(m).lock = m.lock
      BY <3>1, ResumeFrame
    <3>. QED  BY <3>2, <3>3, <3>4 DEF SwitchFrom
  <2>. HIDE DEF u, released, t
  <2>. QED  BY <2>1, <2>2, <2>3
<1>. QED  BY <1>1, <1>3, <1>4, <1>5

\* nxtask_activate of a task that was on no list: z is s but for the priorities
\* and the lock count of t.
LEMMA ActivatedStays ==
  ASSUME NEW s, Safe(s), NEW t \in Task, s.tstate[t] = "INVALID", NEW z \in SchedState,
         z.rtr = s.rtr, z.pend = s.pend, z.blk = s.blk, z.tstate = s.tstate,
         z.policy = s.policy, \A x \in Task : x # t => z.lock[x] = s.lock[x]
  PROVE  LET r == Activated(z, t)
         IN  /\ Safe(r) /\ Elsewhere(s, r, t) /\ r.lock = z.lock
             /\ s.lock[ThisTask(s)] > 0 => ThisTask(r) = ThisTask(s)
             /\ r.tstate[t] \notin BlockedState \cup {"INVALID"}
<1>. DEFINE ts == [s.tstate EXCEPT ![t] = "INACTIVE"]
            b == [s.blk EXCEPT !["INACTIVE"] = AddFirst(s.blk["INACTIVE"], t)]
            a == [z EXCEPT !.tstate = ts, !.blk = b]
            r == Activated(z, t)
<1>1. /\ Core(s) /\ s \in SchedState /\ s.policy[Idle] = "FIFO"
      /\ s.tstate \in [Task -> TState] /\ s.blk \in [BlockedState -> Seq(Task)]
      /\ ThisTask(s) \in Task /\ ThisTask(s) # t /\ "INACTIVE" \in BlockedState
  BY CoreFacts, InvalidOnNoList DEF Safe, Core, SchedState, BlockedState
<1>2. ts \in [Task -> TState] /\ ts[t] = "INACTIVE" /\ \A x \in Task : x # t => ts[x] = s.tstate[x]
  BY <1>1 DEF TState
<1>3. b \in [BlockedState -> Seq(Task)]
  <2>. DEFINE old == s.blk["INACTIVE"]
  <2>1. old \in Seq(Task)
    BY <1>1
  <2>. HIDE DEF old
  <2>2. AddFirst(old, t) \in Seq(Task)
    <3>1. 1 \in 1..(Len(old) + 1)
      BY <2>1
    <3>. QED  BY <2>1, <3>1, InsertAtPosType DEF AddFirst
  <2>. QED  BY <1>1, <2>2 DEF old
<1>4. r = UnblockTask(a, t)
  BY <1>1 DEF Activated, SchedState
<1>. HIDE DEF r
<1>5. ts = [s.tstate EXCEPT ![t] = "INACTIVE"]
      /\ b = [s.blk EXCEPT !["INACTIVE"] = AddFirst(s.blk["INACTIVE"], t)]
  OBVIOUS
<1>. HIDE DEF ts, b
<1>6. /\ a \in SchedState /\ a.rtr = s.rtr /\ a.pend = s.pend /\ a.policy = s.policy
      /\ a.blk = b /\ a.tstate = ts /\ a.lock = z.lock
  BY <1>2, <1>3 DEF SchedState
<1>. HIDE DEF a
<1>7. Safe(a)
  <2>1. /\ a.blk = [s.blk EXCEPT !["INACTIVE"] = AddFirst(s.blk["INACTIVE"], t)]
        /\ a.tstate = [s.tstate EXCEPT ![t] = "INACTIVE"] /\ a.policy[Idle] = "FIFO"
        /\ \A x \in Task : x # t => a.lock[x] = s.lock[x]
    BY <1>1, <1>5, <1>6
  <2>. QED  BY <1>6, <2>1, AddInactiveSafe
<1>8. a.tstate[t] \in BlockedState /\ ThisTask(a) = ThisTask(s)
  BY <1>1, <1>2, <1>6 DEF ThisTask
<1>9. /\ Safe(r) /\ Elsewhere(a, r, t) /\ Stays(a, r)
      /\ r.tstate[t] \notin BlockedState \cup {"INVALID"}
  BY <1>4, <1>7, <1>8, UnblockStays
<1>10. Elsewhere(s, a, t)
  BY <1>2, <1>6 DEF Elsewhere, Phase
<1>11. Elsewhere(s, r, t)
  BY <1>9, <1>10 DEF Elsewhere
<1>12. a.lock[ThisTask(a)] = s.lock[ThisTask(s)]
  BY <1>1, <1>6, <1>8
<1>. QED  BY <1>6, <1>8, <1>9, <1>11, <1>12 DEF Stays, r

\* A task goes off its list, as in nxtask_terminate and task_restart.
LEMMA TakeOff ==
  ASSUME NEW s, Safe(s), NEW t \in Task \ {Idle}, t # ThisTask(s), s.tstate[t] # "INVALID"
  PROVE  LET r == RemoveFromList(s, t)
         IN  /\ Safe(r) /\ r.tstate[t] = "INVALID" /\ ThisTask(r) = ThisTask(s)
             /\ r.lock = s.lock /\ Elsewhere(s, r, t)
<1>. DEFINE r == RemoveFromList(s, t)
<1>1. Safe(r) /\ r.tstate[t] = "INVALID" /\ ThisTask(r) = ThisTask(s) /\ r.lock = s.lock
  BY RemoveFromListSafe
<1>2. Phase(r) = [Phase(s) EXCEPT ![t] = "INVALID"] /\ Phase(s) \in [Task -> BlockedState \cup {"INVALID", "READY"}]
  BY RemoveFromListPhase, PhaseType DEF Safe
<1>. HIDE DEF r
<1>3. Elsewhere(s, r, t)
  BY <1>2 DEF Elsewhere
<1>. QED  BY <1>1, <1>3 DEF r

(***************************************************************************)
(* The steps of the specification.                                         *)
(***************************************************************************)
\* The parts of Kernel, and the running task.
LEMMA KernelParts ==
  ASSUME MqInv
  PROVE  /\ Kernel.sched = sched /\ Kernel.msgwaitq = msgwaitq /\ Kernel.nwait = nwait
         /\ Kernel.cut = cut /\ Kernel.msglist = msglist /\ Kernel.ntpid = ntpid
         /\ Kernel.pool = pool /\ Kernel.arrived = arrived
         /\ IsKernel(Kernel) /\ KInv(Kernel) /\ KTypes(Kernel) /\ Safe(sched) /\ Core(sched)
         /\ self \in Task /\ self = ThisTask(sched) /\ sched.tstate[self] = "RUNNING"
         /\ self \in {x \in Task : sched.tstate[x] \notin MqWait \cup {"INVALID"}}
         /\ ntpid \in [Mq -> Task \cup {None}] /\ sched.lock \in [Task -> Nat]
<1>1. /\ Kernel.sched = sched /\ Kernel.msgwaitq = msgwaitq /\ Kernel.nwait = nwait
      /\ Kernel.cut = cut /\ Kernel.msglist = msglist /\ Kernel.ntpid = ntpid
      /\ Kernel.pool = pool /\ Kernel.arrived = arrived
  BY DEF Kernel
<1>2. IsKernel(Kernel) /\ KInv(Kernel) /\ KTypes(Kernel) /\ Safe(sched) /\ Core(sched)
  BY <1>1 DEF MqInv, KInv, Safe
<1>3. self \in Task /\ self = ThisTask(sched) /\ sched.tstate[self] = "RUNNING"
  BY <1>2, CoreFacts DEF self
<1>4. ntpid \in [Mq -> Task \cup {None}] /\ sched.lock \in [Task -> Nat]
  BY <1>1, <1>2 DEF KTypes, Core, SchedState
<1>5. self \in {x \in Task : sched.tstate[x] \notin MqWait \cup {"INVALID"}}
  BY <1>3 DEF MqWait
<1>. QED  BY <1>1, <1>2, <1>3, <1>4, <1>5

\* The step calls one of the functions on Kernel.
LEMMA BecomesIs ==
  ASSUME NEW r, IsKernel(r), Becomes(r)
  PROVE  /\ Kernel' = r /\ sched' = r.sched /\ msgwaitq' = r.msgwaitq /\ nwait' = r.nwait
         /\ cut' = r.cut /\ self' = ThisTask(r.sched) /\ msglist' = r.msglist
         /\ pool' = r.pool /\ arrived' = r.arrived
BY DEF Becomes, Kernel, IsKernel, self

\* A task that takes no part in a step.
LEMMA Bystander ==
  ASSUME MqInv, NEW x \in Task, pc'[x] = pc[x], desc'[x] = desc[x],
         event'[x] = event[x], victim'[x] = victim[x],
         sched'.tstate[x] \in MqWait =>
           sched'.tstate[x] = sched.tstate[x] /\ msgwaitq'[x] = msgwaitq[x],
         victim[x] # None => sched'.tstate[victim[x]] = "INVALID",
         sched'.lock[x] = sched.lock[x],
         pc[x] \in Held => self' = self
  PROVE  Parked(x)' /\ Equipped(x)' /\ Alone(x)'
<1>1. Parked(x) /\ Equipped(x) /\ Alone(x)
  BY DEF MqInv, Calls
<1>2. Parked(x)'
  BY <1>1 DEF Parked
<1>3. Equipped(x)'
  BY <1>1 DEF Equipped
<1>4. Alone(x)'
  BY <1>1 DEF Alone
<1>. QED  BY <1>2, <1>3, <1>4

\* The running task, or an interrupt while it runs, moves the running task's call
\* and otherwise only ends waits.
LEMMA MoveKeeps ==
  ASSUME MqInv, NEW r, Gentle(Kernel, r), Becomes(r),
         NEW place \in Place, NEW d \in Mq \cup {None},
         NEW e \in Task \cup {None},
         pc' = [pc EXCEPT ![self] = place], desc' = [desc EXCEPT ![self] = d],
         event' = [event EXCEPT ![self] = e],
         victim' = victim, waitdog' \in [Task -> {"none", "created", "active"}],
         place \in Held \cup Waits => pc[self] \in Held \cup Waits,
         place = "terminate" => pc[self] = "terminate",
         place \in Held \cup Waits \cup {"tlock"} => d \in Mq,
         place = "notified" => e # None
  PROVE  MqInv'
<1>1. /\ KInv(Kernel) /\ CallTypes /\ \A x \in Task : Parked(x) /\ Equipped(x) /\ Alone(x)
      /\ self \in Task /\ self = ThisTask(sched) /\ Kernel.sched = sched
      /\ Kernel.msgwaitq = msgwaitq /\ sched.tstate[self] \notin MqWait \cup {"INVALID"}
  BY KernelParts DEF MqInv, Calls
<1>2. KInv(r) /\ IsKernel(r)
  BY DEF Gentle, KInv
<1>3. /\ Kernel' = r /\ sched' = r.sched /\ msgwaitq' = r.msgwaitq /\ self' = ThisTask(r.sched)
  BY <1>2, BecomesIs
<1>4. sched'.lock = sched.lock /\ (sched.lock[self] > 0 => self' = self)
  BY <1>1, <1>3 DEF Gentle, Stays
<1>5. \A x \in Task :
        /\ sched'.tstate[x] \in MqWait =>
             sched'.tstate[x] = sched.tstate[x] /\ msgwaitq'[x] = msgwaitq[x]
        /\ sched.tstate[x] = "INVALID" => sched'.tstate[x] = "INVALID"
  BY <1>1, <1>3 DEF Gentle
<1>6. CallTypes'
  BY <1>1 DEF CallTypes
<1>7. /\ pc'[self] = place /\ desc'[self] = d /\ event'[self] = e
      /\ \A x \in Task : x # self => /\ pc'[x] = pc[x] /\ desc'[x] = desc[x]
                                     /\ event'[x] = event[x]
  BY <1>1 DEF CallTypes
<1>8. \A x \in Task : victim[x] # None => victim[x] \in Task /\ victim[x] # Idle /\ sched'.tstate[victim[x]] = "INVALID"
  BY <1>1, <1>5 DEF Equipped, CallTypes
<1>9. ASSUME NEW x \in Task, x # self PROVE Parked(x)' /\ Equipped(x)' /\ Alone(x)'
  <2>1. pc[x] \notin Held
    BY <1>1, <1>9 DEF Alone
  <2>. QED  BY <1>4, <1>5, <1>7, <1>8, <1>9, <2>1, Bystander
<1>. PICK me \in Task : me = self
  BY <1>1
<1>10. Parked(me)'
  BY <1>1, <1>5 DEF Parked
<1>11. Equipped(me)'
  BY <1>1, <1>7, <1>8 DEF Equipped
<1>12. Alone(me)'
  <2>1. pc[self] \in Held \cup Waits => sched.lock[self] > 0
    BY <1>1 DEF Alone
  <2>. QED  BY <1>4, <1>7, <2>1 DEF Alone
<1>13. \A x \in Task : Parked(x)' /\ Equipped(x)' /\ Alone(x)'
  BY <1>9, <1>10, <1>11, <1>12
<1>. QED  BY <1>2, <1>3, <1>6, <1>13 DEF MqInv, Calls

\* Only the scheduler's state changes, and nobody goes on or off a list of
\* waiters.
LEMMA SchedOnly ==
  ASSUME MqInv, NEW s, Safe(s), SchedBecomes(s),
         \A x \in Task, st \in MqWait : s.tstate[x] = st <=> sched.tstate[x] = st
  PROVE  /\ KInv(Kernel') /\ sched' = s /\ msgwaitq' = msgwaitq /\ self' = ThisTask(s)
         /\ msglist' = msglist
<1>. DEFINE r == [Kernel EXCEPT !.sched = s]
<1>1. KInv(Kernel) /\ IsKernel(Kernel) /\ Kernel.sched = sched /\ KTypes(Kernel)
  BY KernelParts
<1>2. /\ IsKernel(r) /\ r.sched = s /\ r.nwait = Kernel.nwait /\ r.msgwaitq = Kernel.msgwaitq
      /\ r.cut = Kernel.cut /\ r.errcode = Kernel.errcode /\ r.ntpid = Kernel.ntpid
      /\ r.fault = Kernel.fault /\ r.msglist = Kernel.msglist
  BY <1>1 DEF IsKernel
<1>3. Becomes(r)
  BY DEF SchedBecomes
<1>. HIDE DEF r
<1>4. KTypes(r) /\ MoreCut(Kernel, r)
  BY <1>1, <1>2 DEF KTypes, MoreCut
<1>5. /\ \A x \in Task, st \in MqWait : r.sched.tstate[x] = st <=> Kernel.sched.tstate[x] = st
      /\ \A x \in Task : r.sched.tstate[x] \in MqWait => r.msgwaitq[x] = Kernel.msgwaitq[x]
  BY <1>1, <1>2
<1>6. KInv(r)
  BY <1>1, <1>2, <1>4, <1>5, KFrame
<1>. QED  BY <1>2, <1>3, <1>6, BecomesIs, KernelParts

\* The phases of all tasks are the same.
LEMMA SamePhase ==
  ASSUME NEW s, NEW r, Phase(r) = Phase(s), NEW x \in Task
  PROVE  /\ r.tstate[x] = "INVALID" <=> s.tstate[x] = "INVALID"
         /\ \A st \in MqWait : r.tstate[x] = st <=> s.tstate[x] = st
         /\ r.tstate[x] \in MqWait => r.tstate[x] = s.tstate[x]
<1>1. Elsewhere(s, r, None) /\ x # None
  BY MqNoneIsNull DEF Elsewhere
<1>. QED  BY <1>1, ElsewhereTells

\* sched_lock at the beginning of a call, and sched_unlock at its end.
LEMMA LockKeeps ==
  ASSUME MqInv, NEW place, NEW d \in Mq \cup {None},
         \/ /\ SchedBecomes(LockOp(sched)) /\ d \in Mq
            /\ place \in {"send", "recv", "tcheck"}
         \/ /\ SchedBecomes(UnlockOp(sched)) /\ place \in {"run", "undog"},
         pc' = [pc EXCEPT ![self] = place], desc' = [desc EXCEPT ![self] = d],
         UNCHANGED <<waitdog, event, victim>>
  PROVE  MqInv'
<1>1. /\ CallTypes /\ \A x \in Task : Parked(x) /\ Equipped(x) /\ Alone(x)
      /\ self \in Task /\ self = ThisTask(sched) /\ Safe(sched)
      /\ sched.tstate[self] \notin MqWait \cup {"INVALID"}
  BY KernelParts DEF MqInv, Calls
<1>2. PICK s : /\ SchedBecomes(s) /\ Safe(s) /\ Phase(s) = Phase(sched)
               /\ \A x \in Task : x # self => s.lock[x] = sched.lock[x]
               /\ place \in Held => ThisTask(s) = self /\ s.lock[self] > 0
  <2>1. CASE SchedBecomes(LockOp(sched))
    BY <1>1, <2>1, LockCounts
  <2>2. CASE SchedBecomes(UnlockOp(sched)) /\ place \in {"run", "undog"}
    <3>1. place \notin Held
      BY <2>2 DEF Held
    <3>. QED  BY <1>1, <2>2, <3>1, LockCounts
  <2>. QED  BY <2>1, <2>2
<1>3. \A x \in Task :
        /\ s.tstate[x] = "INVALID" <=> sched.tstate[x] = "INVALID"
        /\ \A st \in MqWait : s.tstate[x] = st <=> sched.tstate[x] = st
        /\ s.tstate[x] \in MqWait => s.tstate[x] = sched.tstate[x]
  BY <1>2, SamePhase
<1>4. KInv(Kernel') /\ sched' = s /\ msgwaitq' = msgwaitq /\ self' = ThisTask(s)
  BY <1>2, <1>3, SchedOnly
<1>5. /\ place \in Place /\ place \notin Waits \cup {"tlock", "terminate", "notified"}
      /\ place \in Held => d \in Mq
  BY DEF Place, Held, Waits
<1>6. CallTypes'
  BY <1>1, <1>5 DEF CallTypes
<1>7. /\ pc'[self] = place /\ desc'[self] = d
      /\ \A x \in Task : x # self => pc'[x] = pc[x] /\ desc'[x] = desc[x]
  BY <1>1 DEF CallTypes
<1>8. \A x \in Task : victim[x] # None => victim[x] \in Task /\ victim[x] # Idle /\ sched'.tstate[victim[x]] = "INVALID"
  BY <1>1, <1>3, <1>4 DEF Equipped, CallTypes
<1>9. ASSUME NEW x \in Task, x # self PROVE Parked(x)' /\ Equipped(x)' /\ Alone(x)'
  <2>1. pc[x] \notin Held
    BY <1>1, <1>9 DEF Alone
  <2>. QED  BY <1>2, <1>3, <1>4, <1>7, <1>8, <1>9, <2>1, Bystander
<1>. PICK me \in Task : me = self
  BY <1>1
<1>10. Parked(me)'
  BY <1>1, <1>3, <1>4 DEF Parked
<1>11. Equipped(me)'
  BY <1>5, <1>7, <1>8 DEF Equipped
<1>12. Alone(me)'
  BY <1>2, <1>4, <1>5, <1>7 DEF Alone
<1>. QED  BY <1>4, <1>6, <1>9, <1>10, <1>11, <1>12 DEF MqInv, Calls

\* The running task goes on a list of waiters.
LEMMA BlockOnJoins ==
  ASSUME NEW k, KInv(k), NEW t \in Task, t = ThisTask(k.sched), t # Idle,
         k.sched.tstate[t] \notin MqWait, NEW st \in MqWait, NEW q \in Mq
  PROVE  LET r == BlockOn(k, t, st, q)
         IN  /\ KInv(r) /\ Elsewhere(k.sched, r.sched, t) /\ r.sched.lock = k.sched.lock
             /\ r.sched.tstate[t] = st /\ r.msgwaitq[t] = q
             /\ \A x \in Task : x # t => r.msgwaitq[x] = k.msgwaitq[x]
             /\ SameMsgs(k, r)
<1>. DEFINE r == BlockOn(k, t, st, q)
<1>1. IsKernel(k) /\ KTypes(k) /\ Safe(k.sched)
  BY DEF KInv
<1>2. r = [k EXCEPT !.msgwaitq[t] = q, !.nwait[st][q] = @ + 1, !.errcode[t] = "OK",
                    !.sched = BlockTask(k.sched, t, st)]
  BY DEF BlockOn
<1>3. /\ IsKernel(r) /\ r.sched = BlockTask(k.sched, t, st)
      /\ r.nwait = [k.nwait EXCEPT ![st][q] = @ + 1]
      /\ r.msgwaitq = [k.msgwaitq EXCEPT ![t] = q]
      /\ r.errcode = [k.errcode EXCEPT ![t] = "OK"]
      /\ r.cut = k.cut /\ r.ntpid = k.ntpid /\ r.fault = k.fault /\ SameMsgs(k, r)
  BY <1>1, <1>2 DEF IsKernel, SameMsgs
<1>. HIDE DEF r
<1>4. KTypes(r)
  <2>1. r.nwait \in [MqWait -> [Mq -> Int]]
    BY <1>1, <1>3 DEF KTypes
  <2>2. r.msgwaitq \in [Task -> Mq \cup {None}] /\ r.errcode \in [Task -> Errcode]
    BY <1>1, <1>3 DEF KTypes, Errcode
  <2>. QED  BY <1>1, <1>3, <2>1, <2>2 DEF KTypes
<1>5. /\ Safe(r.sched) /\ Elsewhere(k.sched, r.sched, t) /\ r.sched.lock = k.sched.lock
      /\ r.sched.tstate[t] = st
  <2>1. st \in BlockedState
    BY DEF MqWait, BlockedState, WaitState
  <2>. QED  BY <1>1, <1>3, <2>1, BlockStays
<1>6. r.msgwaitq[t] = q /\ \A x \in Task : x # t => r.msgwaitq[x] = k.msgwaitq[x]
  BY <1>1, <1>3 DEF KTypes
<1>7. KInv(r)
  <2>1. MoreCut(k, r)
    BY <1>3 DEF MoreCut
  <2>2. IsKernel(r) /\ r.nwait = [k.nwait EXCEPT ![st][q] = @ + 1]
    BY <1>3
  <2>. QED  BY <1>4, <1>5, <1>6, <2>1, <2>2, KJoin
<1>. QED  BY <1>3, <1>5, <1>6, <1>7 DEF r

\* nxmq_wait_send and nxmq_wait_receive block.
LEMMA BlockKeeps ==
  ASSUME MqInv, self # Idle, NEW st \in MqWait, pc[self] \in Held \cup Waits,
         Becomes(BlockOn(Kernel, self, st, desc[self])),
         pc' = [pc EXCEPT ![self] = PlaceOf(st)],
         waitdog' \in [Task -> {"none", "created", "active"}],
         UNCHANGED <<desc, event, victim>>
  PROVE  MqInv'
<1>1. /\ KInv(Kernel) /\ CallTypes /\ \A x \in Task : Parked(x) /\ Equipped(x) /\ Alone(x)
      /\ self = ThisTask(sched) /\ Kernel.sched = sched /\ Safe(sched)
      /\ Kernel.msgwaitq = msgwaitq /\ sched.tstate[self] \notin MqWait \cup {"INVALID"}
      /\ IsKernel(Kernel) /\ KTypes(Kernel)
  BY KernelParts DEF MqInv, Calls
<1>. PICK me \in Task : me = self
  BY KernelParts
<1>. DEFINE q == desc[me]
            r == BlockOn(Kernel, me, st, q)
<1>2. q \in Mq /\ sched.lock[me] > 0
  BY <1>1 DEF Equipped, Alone
<1>3. /\ KInv(r) /\ Elsewhere(sched, r.sched, me) /\ r.sched.lock = sched.lock
      /\ r.sched.tstate[me] = st /\ r.msgwaitq[me] = q
      /\ \A x \in Task : x # me => r.msgwaitq[x] = msgwaitq[x]
  <2>1. me = ThisTask(Kernel.sched) /\ Kernel.sched.tstate[me] \notin MqWait
    BY <1>1
  <2>. QED  BY <1>1, <1>2, <2>1, BlockOnJoins
<1>4. Becomes(r) /\ IsKernel(r)
  BY <1>3 DEF KInv
<1>. HIDE DEF r
<1>9. /\ Kernel' = r /\ sched' = r.sched /\ msgwaitq' = r.msgwaitq
  BY <1>4, BecomesIs
<1>10. PlaceOf(st) \in Waits /\ Waits \subseteq Place /\ PlaceOf(st) \notin Held
  BY DEF PlaceOf, Waits, Place, Held
<1>11. CallTypes'
  BY <1>1, <1>10 DEF CallTypes
<1>12. /\ pc'[me] = PlaceOf(st) /\ \A x \in Task : x # me => pc'[x] = pc[x]
  BY <1>1 DEF CallTypes
<1>13. \A x \in Task : x # me =>
         /\ sched'.tstate[x] \in MqWait =>
              sched'.tstate[x] = sched.tstate[x] /\ msgwaitq'[x] = msgwaitq[x]
         /\ sched'.tstate[x] = "INVALID" <=> sched.tstate[x] = "INVALID"
  BY <1>3, <1>9, ElsewhereTells
<1>14. \A x \in Task : victim[x] # None => victim[x] \in Task /\ victim[x] # Idle /\ sched'.tstate[victim[x]] = "INVALID"
  BY <1>1, <1>13 DEF Equipped, CallTypes
<1>15. ASSUME NEW x \in Task, x # me PROVE Parked(x)' /\ Equipped(x)' /\ Alone(x)'
  <2>1. pc[x] \notin Held
    BY <1>1, <1>15 DEF Alone
  <2>. QED  BY <1>3, <1>9, <1>12, <1>13, <1>14, <1>15, <2>1, Bystander
<1>16. Parked(me)'
  BY <1>3, <1>9, <1>12 DEF Parked
<1>17. Equipped(me)'
  <2>1. PlaceOf(st) \notin {"notified", "terminate"}
    BY DEF PlaceOf
  <2>. QED  BY <1>2, <1>12, <1>14, <2>1 DEF Equipped
<1>18. Alone(me)'
  BY <1>2, <1>3, <1>9, <1>10, <1>12 DEF Alone
<1>. QED  BY <1>3, <1>9, <1>11, <1>15, <1>16, <1>17, <1>18 DEF MqInv, Calls

\* Nobody goes on a list of waiters but perhaps t off it; who was INVALID before
\* still is, but perhaps t.
Else(s, r, t) ==
  \A x \in Task : x # t =>
    /\ r.tstate[x] = "INVALID" <=> s.tstate[x] = "INVALID"
    /\ r.tstate[x] \in MqWait <=> s.tstate[x] \in MqWait
    /\ r.tstate[x] \in MqWait => r.tstate[x] = s.tstate[x]
    /\ \A st \in MqWait : r.tstate[x] = st <=> s.tstate[x] = st

\* What Elsewhere says of the states.
LEMMA ElsewhereElse ==
  ASSUME NEW s, NEW r, NEW t, Elsewhere(s, r, t)
  PROVE  Else(s, r, t)
BY ElsewhereTells DEF Else

\* A task is created and activated.
LEMMA StartKeeps ==
  ASSUME MqInv, NEW t \in Task, Start(t)
  PROVE  MqInv'
<1>. DEFINE p == BasePrio[t]
            z == [sched EXCEPT !.prio[t] = p, !.init[t] = p]
            s == Activated(z, t)
<1>1. /\ CallTypes /\ \A x \in Task : Parked(x) /\ Equipped(x) /\ Alone(x)
      /\ Safe(sched) /\ Core(sched) /\ self = ThisTask(sched)
  BY KernelParts DEF MqInv, Calls
<1>2. /\ t # Idle /\ sched.tstate[t] = "INVALID" /\ ~Victim(t) /\ SchedBecomes(s)
      /\ UNCHANGED <<waitdog, pc, desc, event, victim>>
  BY DEF Start, callvars
<1>3. sched \in SchedState /\ p \in 0..MaxPrio
  BY <1>1, <1>2, MqBasePrioTyped, MaxPrioPositive DEF Core, Priority
<1>. HIDE DEF p
<1>4. /\ z \in SchedState /\ z.rtr = sched.rtr /\ z.pend = sched.pend /\ z.blk = sched.blk
      /\ z.tstate = sched.tstate /\ z.policy = sched.policy /\ z.lock = sched.lock
  BY <1>3 DEF SchedState
<1>. HIDE DEF z
<1>5. /\ Safe(s) /\ Elsewhere(sched, s, t) /\ s.lock = sched.lock
      /\ sched.lock[self] > 0 => ThisTask(s) = self
      /\ s.tstate[t] \notin BlockedState \cup {"INVALID"}
  BY <1>1, <1>2, <1>4, ActivatedStays
<1>. HIDE DEF s
<1>6. s.tstate[t] \notin MqWait /\ sched.tstate[t] \notin MqWait
  BY <1>2, <1>5 DEF MqWait, BlockedState, WaitState
<1>7. Else(sched, s, t)
  BY <1>5, ElsewhereElse
<1>8. \A x \in Task, st \in MqWait : s.tstate[x] = st <=> sched.tstate[x] = st
  BY <1>6, <1>7 DEF Else
<1>9. KInv(Kernel') /\ sched' = s /\ msgwaitq' = msgwaitq /\ self' = ThisTask(s)
  BY <1>2, <1>5, <1>8, SchedOnly
<1>10. ASSUME NEW x \in Task PROVE Parked(x)' /\ Equipped(x)' /\ Alone(x)'
  <2>1. sched'.tstate[x] \in MqWait => sched'.tstate[x] = sched.tstate[x] /\ msgwaitq'[x] = msgwaitq[x]
    BY <1>8, <1>9
  <2>2. victim[x] # None => sched'.tstate[victim[x]] = "INVALID"
    <3>. SUFFICES ASSUME victim[x] # None PROVE sched'.tstate[victim[x]] = "INVALID"
      OBVIOUS
    <3>1. victim[x] \in Task /\ sched.tstate[victim[x]] = "INVALID" /\ victim[x] # t
      BY <1>1, <1>2 DEF Equipped, CallTypes, Victim
    <3>. QED  BY <1>7, <1>9, <3>1 DEF Else
  <2>3. pc[x] \in Held => self' = self
    BY <1>1, <1>5, <1>9 DEF Alone
  <2>. QED  BY <1>2, <1>5, <1>9, <2>1, <2>2, <2>3, Bystander
<1>11. CallTypes'
  BY <1>1, <1>2 DEF CallTypes
<1>. QED  BY <1>9, <1>10, <1>11 DEF MqInv, Calls

\* k with t taken out of its call.
CutOf(k, t, how) == [q \in Mq |-> IF q = desc[t] THEN k.cut[q] \cup {how} ELSE k.cut[q]]

\* The call of t is cut short.
LEMMA CutFacts ==
  ASSUME NEW k, IsKernel(k), KTypes(k), NEW t, NEW how \in How
  PROVE  LET r == CutShort(k, t, how)
         IN  /\ IsKernel(r) /\ r.cut = CutOf(k, t, how) /\ r.cut \in [Mq -> SUBSET How]
             /\ MoreCut(k, r) /\ (desc[t] \in Mq => how \in r.cut[desc[t]])
             /\ r.sched = k.sched /\ r.nwait = k.nwait /\ r.msgwaitq = k.msgwaitq
             /\ r.errcode = k.errcode /\ r.ntpid = k.ntpid /\ r.fault = k.fault
             /\ SameMsgs(k, r)
<1>. DEFINE c == CutOf(k, t, how)
            r == CutShort(k, t, how)
<1>1. r = [k EXCEPT !.cut = c]
  BY DEF CutShort, CutOf
<1>2. /\ c \in [Mq -> SUBSET How] /\ (desc[t] \in Mq => how \in c[desc[t]])
      /\ \A q \in Mq : k.cut[q] \subseteq c[q]
  BY DEF CutOf, KTypes
<1>. HIDE DEF c, r
<1>3. /\ IsKernel(r) /\ r.cut = c
      /\ r.sched = k.sched /\ r.nwait = k.nwait /\ r.msgwaitq = k.msgwaitq
      /\ r.errcode = k.errcode /\ r.ntpid = k.ntpid /\ r.fault = k.fault /\ SameMsgs(k, r)
  BY <1>1 DEF IsKernel, SameMsgs
<1>4. MoreCut(k, r)
  BY <1>2, <1>3 DEF MoreCut
<1>. QED  BY <1>2, <1>3, <1>4 DEF c, r

\* nxtask_terminate takes t off its list; its share stays in the count.
LEMMA TerminateKeeps ==
  ASSUME MqInv, NEW t \in Task, Terminate(t)
  PROVE  MqInv'
<1>. DEFINE s == RemoveFromList(sched, t)
            k == [Kernel EXCEPT !.sched = s]
            r == CutShort(k, t, "deleted")
<1>1. /\ CallTypes /\ \A x \in Task : Parked(x) /\ Equipped(x) /\ Alone(x)
      /\ Safe(sched) /\ self = ThisTask(sched) /\ KInv(Kernel) /\ IsKernel(Kernel)
      /\ KTypes(Kernel) /\ Kernel.sched = sched /\ Kernel.msgwaitq = msgwaitq
      /\ sched.tstate[self] \notin MqWait \cup {"INVALID"} /\ Assigned(Kernel)
  BY KernelParts DEF MqInv, Calls, KInv
<1>. PICK me \in Task : me = self
  BY KernelParts
<1>2. /\ pc[me] = "run" /\ t \in Task \ {Idle} /\ t # me /\ sched.tstate[t] # "INVALID" /\ Becomes(r)
      /\ victim' = [victim EXCEPT ![me] = t] /\ pc' = [pc EXCEPT ![me] = "terminate"]
      /\ UNCHANGED <<waitdog, desc, event>>
  BY MqTaskSets DEF Terminate, Running, GoTo
<1>3. /\ Safe(s) /\ s.tstate[t] = "INVALID" /\ ThisTask(s) = me
      /\ s.lock = sched.lock /\ Elsewhere(sched, s, t)
  BY <1>1, <1>2, TakeOff
<1>4. Else(sched, s, t)
  BY <1>3, ElsewhereElse
<1>. HIDE DEF s
<1>5. /\ IsKernel(k) /\ k.sched = s /\ k.nwait = Kernel.nwait /\ k.msgwaitq = Kernel.msgwaitq
      /\ k.cut = Kernel.cut /\ k.errcode = Kernel.errcode /\ k.ntpid = Kernel.ntpid
      /\ k.fault = Kernel.fault
  BY <1>1 DEF IsKernel
<1>. HIDE DEF k
<1>6. KTypes(k) /\ "deleted" \in How
  BY <1>1, <1>5 DEF KTypes, How
<1>7. /\ IsKernel(r) /\ r.cut \in [Mq -> SUBSET How] /\ MoreCut(k, r)
      /\ desc[t] \in Mq => "deleted" \in r.cut[desc[t]]
      /\ r.sched = k.sched /\ r.nwait = k.nwait /\ r.msgwaitq = k.msgwaitq
      /\ r.errcode = k.errcode /\ r.ntpid = k.ntpid /\ r.fault = k.fault
  BY <1>5, <1>6, CutFacts
<1>. HIDE DEF r
<1>8. KTypes(r) /\ MoreCut(Kernel, r)
  BY <1>5, <1>6, <1>7 DEF KTypes, MoreCut
<1>9. KInv(r)
  <2>1. CASE sched.tstate[t] \in MqWait
    <3>1. msgwaitq[t] \in Mq /\ desc[t] = msgwaitq[t]
      BY <1>1, <2>1 DEF Parked, Assigned
    <3>2. /\ \/ r.nwait = [Kernel.nwait EXCEPT ![Kernel.sched.tstate[t]][Kernel.msgwaitq[t]] = @ - 1]
             \/ r.nwait = Kernel.nwait /\ "deleted" \in r.cut[Kernel.msgwaitq[t]]
      BY <1>1, <1>5, <1>7, <3>1
    <3>3. /\ Kernel.sched.tstate[t] \in MqWait /\ Safe(r.sched) /\ r.sched.tstate[t] \notin MqWait
          /\ Elsewhere(Kernel.sched, r.sched, t)
          /\ \A x \in Task : x # t => r.msgwaitq[x] = Kernel.msgwaitq[x]
      BY <1>1, <1>3, <1>5, <1>7, <2>1 DEF MqWait
    <3>. QED  BY <1>1, <1>7, <1>8, <3>2, <3>3, KLeave
  <2>2. CASE sched.tstate[t] \notin MqWait
    <3>1. s.tstate[t] \notin MqWait
      BY <1>3 DEF MqWait
    <3>2. \A x \in Task, st \in MqWait : s.tstate[x] = st <=> sched.tstate[x] = st
      BY <1>4, <2>2, <3>1 DEF Else
    <3>3. /\ \A x \in Task, st \in MqWait : r.sched.tstate[x] = st <=> Kernel.sched.tstate[x] = st
          /\ \A x \in Task : r.sched.tstate[x] \in MqWait => r.msgwaitq[x] = Kernel.msgwaitq[x]
          /\ Safe(r.sched) /\ r.nwait = Kernel.nwait
      BY <1>1, <1>3, <1>5, <1>7, <3>2
    <3>. QED  BY <1>1, <1>7, <1>8, <3>3, KFrame
  <2>. QED  BY <2>1, <2>2
<1>10. Kernel' = r /\ sched' = s /\ msgwaitq' = msgwaitq /\ self' = me
  BY <1>1, <1>2, <1>3, <1>5, <1>7, BecomesIs
<1>11. CallTypes'
  <2>1. "terminate" \in Place
    BY DEF Place
  <2>. QED  BY <1>1, <1>2, <2>1 DEF CallTypes
<1>12. /\ pc'[me] = "terminate" /\ victim'[me] = t /\ t # None
       /\ \A x \in Task : x # me => pc'[x] = pc[x] /\ victim'[x] = victim[x]
  BY <1>1, <1>2, MqNoneIsNull DEF CallTypes
<1>13. \A x \in Task : sched'.tstate[x] \in MqWait =>
         sched'.tstate[x] = sched.tstate[x] /\ msgwaitq'[x] = msgwaitq[x]
  <2>1. s.tstate[t] \notin MqWait
    BY <1>3 DEF MqWait
  <2>. QED  BY <1>4, <1>10, <2>1 DEF Else
<1>14. ASSUME NEW x \in Task, x # me PROVE Parked(x)' /\ Equipped(x)' /\ Alone(x)'
  <2>1. pc[x] \notin Held
    BY <1>1, <1>14 DEF Alone
  <2>2. victim[x] # None => sched'.tstate[victim[x]] = "INVALID"
    <3>. SUFFICES ASSUME victim[x] # None PROVE sched'.tstate[victim[x]] = "INVALID"
      OBVIOUS
    <3>1. victim[x] \in Task /\ sched.tstate[victim[x]] = "INVALID" /\ victim[x] # t
      BY <1>1, <1>2 DEF Equipped, CallTypes
    <3>. QED  BY <1>4, <1>10, <3>1 DEF Else
  <2>. QED  BY <1>2, <1>3, <1>10, <1>12, <1>13, <1>14, <2>1, <2>2, Bystander
<1>15. Parked(me)'
  BY <1>1, <1>13 DEF Parked
<1>16. Equipped(me)'
  <2>1. "terminate" \notin Held \cup Waits
    BY DEF Held, Waits
  <2>. QED  BY <1>2, <1>3, <1>10, <1>12, <2>1 DEF Equipped
<1>17. Alone(me)'
  <2>1. "terminate" \notin Held \cup Waits
    BY DEF Held, Waits
  <2>. QED  BY <1>12, <2>1 DEF Alone
<1>. QED  BY <1>9, <1>10, <1>11, <1>14, <1>15, <1>16, <1>17 DEF MqInv, Calls

\* nxsched_release_tcb clears the TCB of t.
ClearedSched(s, t) ==
  [s EXCEPT !.prio = [@ EXCEPT ![t] = 0], !.init = [@ EXCEPT ![t] = 0],
            !.lock = [@ EXCEPT ![t] = 0]]

ClearedState(k, t) ==
  [k EXCEPT !.msgwaitq[t] = None, !.errcode[t] = "OK",
            !.sched.prio[t] = 0, !.sched.init[t] = 0, !.sched.lock[t] = 0]

\* r, with scheduler s, is k with the TCB of t cleared and nothing else changed.
IsCleared(k, t, r, s) ==
  /\ IsKernel(r) /\ r.sched = s /\ r.nwait = k.nwait
  /\ r.msgwaitq = [k.msgwaitq EXCEPT ![t] = None]
  /\ r.errcode = [k.errcode EXCEPT ![t] = "OK"]
  /\ r.cut = k.cut /\ r.ntpid = k.ntpid /\ r.fault = k.fault /\ SameMsgs(k, r)
  /\ s \in SchedState /\ s.rtr = k.sched.rtr /\ s.pend = k.sched.pend
  /\ s.blk = k.sched.blk /\ s.tstate = k.sched.tstate /\ s.policy = k.sched.policy
  /\ s.lock = [k.sched.lock EXCEPT ![t] = 0]

\* The TCB of t is cleared.
LEMMA ClearedIs ==
  ASSUME NEW k, IsKernel(k), k.sched \in SchedState, NEW t \in Task
  PROVE  IsCleared(k, t, ClearedState(k, t), ClearedSched(k.sched, t))
<1>. DEFINE s == ClearedSched(k.sched, t)
            w == [k.msgwaitq EXCEPT ![t] = None]
            e == [k.errcode EXCEPT ![t] = "OK"]
            r == ClearedState(k, t)
<1>1. r = [k EXCEPT !.msgwaitq = w, !.errcode = e, !.sched = s]
  BY DEF IsKernel, SchedState, ClearedSched, ClearedState
<1>2. /\ s \in SchedState /\ s.rtr = k.sched.rtr /\ s.pend = k.sched.pend
      /\ s.blk = k.sched.blk /\ s.tstate = k.sched.tstate /\ s.policy = k.sched.policy
      /\ s.lock = [k.sched.lock EXCEPT ![t] = 0]
  <2>1. 0 \in 0..MaxPrio
    BY MaxPrioPositive
  <2>. QED  BY <2>1 DEF SchedState, ClearedSched
<1>. HIDE DEF s, r, w, e
<1>3. /\ IsKernel(r) /\ r.sched = s /\ r.nwait = k.nwait /\ r.msgwaitq = w /\ r.errcode = e
      /\ r.cut = k.cut /\ r.ntpid = k.ntpid /\ r.fault = k.fault /\ SameMsgs(k, r)
  BY <1>1 DEF IsKernel, SameMsgs
<1>4. IsCleared(k, t, r, s)
  BY <1>2, <1>3 DEF IsCleared, w, e
<1>. QED  BY <1>4 DEF r, s

\* nxmq_recover finds the task INVALID and does nothing; the TCB is cleared.
LEMMA ExitHookKeeps ==
  ASSUME MqInv, ExitHook
  PROVE  MqInv'
<1>. PICK me \in Task : me = self
  BY KernelParts
<1>0. victim[me] \in Task
  BY DEF ExitHook, Running, MqInv, Calls, CallTypes, Equipped
<1>. PICK t \in Task : t = victim[me]
  BY <1>0
<1>. DEFINE r == ClearedState(Kernel, t)
            s == ClearedSched(Kernel.sched, t)
<1>1. /\ CallTypes /\ \A x \in Task : Parked(x) /\ Equipped(x) /\ Alone(x)
      /\ Safe(sched) /\ me = ThisTask(sched) /\ KInv(Kernel) /\ IsKernel(Kernel)
      /\ KTypes(Kernel) /\ Kernel.sched = sched /\ Kernel.msgwaitq = msgwaitq
      /\ sched.tstate[me] \notin MqWait \cup {"INVALID"} /\ Core(sched)
  BY KernelParts DEF MqInv, Calls, KInv
<1>2. pc[me] = "terminate"
  BY DEF ExitHook, Running
<1>3. t \in Task \ {Idle} /\ sched.tstate[t] = "INVALID" /\ t # me
  BY <1>1, <1>2 DEF Equipped, CallTypes
<1>4. nxmq_recover(Kernel, t) = Kernel
  BY <1>1, <1>3 DEF nxmq_recover, MqWait
<1>5. /\ Becomes(r) /\ victim' = [victim EXCEPT ![me] = None]
      /\ pc' = [pc EXCEPT ![me] = "run", ![t] = "run"] /\ desc' = [desc EXCEPT ![t] = None]
      /\ event' = [event EXCEPT ![t] = None]
      /\ waitdog' = [waitdog EXCEPT ![t] = "none"]
  BY <1>4 DEF ExitHook, ClearedState
<1>7. /\ s \in SchedState /\ s.rtr = sched.rtr /\ s.pend = sched.pend /\ s.blk = sched.blk
      /\ s.tstate = sched.tstate /\ s.policy = sched.policy
      /\ s.lock = [sched.lock EXCEPT ![t] = 0] /\ sched.lock \in [Task -> Nat]
      /\ IsKernel(r) /\ r.sched = s /\ r.nwait = Kernel.nwait
      /\ r.msgwaitq = [Kernel.msgwaitq EXCEPT ![t] = None]
      /\ r.errcode = [Kernel.errcode EXCEPT ![t] = "OK"]
      /\ r.cut = Kernel.cut /\ r.ntpid = Kernel.ntpid /\ r.fault = Kernel.fault
  <2>1. Kernel.sched \in SchedState /\ sched.lock \in [Task -> Nat]
    BY <1>1 DEF Core, SchedState
  <2>2. /\ s \in SchedState /\ s.rtr = Kernel.sched.rtr /\ s.pend = Kernel.sched.pend
        /\ s.blk = Kernel.sched.blk /\ s.tstate = Kernel.sched.tstate
        /\ s.policy = Kernel.sched.policy /\ s.lock = [Kernel.sched.lock EXCEPT ![t] = 0]
        /\ IsKernel(r) /\ r.sched = s /\ r.nwait = Kernel.nwait
        /\ r.msgwaitq = [Kernel.msgwaitq EXCEPT ![t] = None]
        /\ r.errcode = [Kernel.errcode EXCEPT ![t] = "OK"]
        /\ r.cut = Kernel.cut /\ r.ntpid = Kernel.ntpid /\ r.fault = Kernel.fault
    <3>1. IsKernel(Kernel) /\ Kernel.sched \in SchedState
      BY <1>1, <2>1
    <3>2. IsCleared(Kernel, t, r, s)
      BY <3>1, ClearedIs
    <3>. HIDE DEF r, s
    <3>. QED  BY <3>2 DEF IsCleared
  <2>. HIDE DEF r, s
  <2>. QED  BY <1>1, <2>1, <2>2
<1>. HIDE DEF r, s
<1>9. Safe(s)
  <2>1. Core(s) /\ ThisTask(s) = me
    BY <1>1, <1>7, CoreFrame DEF Core
  <2>2. s.lock[me] = sched.lock[me]
    BY <1>3, <1>7
  <2>. QED  BY <1>1, <1>7, <2>1, <2>2 DEF Safe, PendingNeedsLock
<1>10. KTypes(r) /\ MoreCut(Kernel, r)
  <2>1. r.msgwaitq \in [Task -> Mq \cup {None}] /\ r.errcode \in [Task -> Errcode]
    <3>1. Kernel.msgwaitq \in [Task -> Mq \cup {None}] /\ Kernel.errcode \in [Task -> Errcode]
      BY <1>1 DEF KTypes
    <3>2. "OK" \in Errcode
      BY DEF Errcode
    <3>. QED  BY <1>7, <3>1, <3>2
  <2>. QED  BY <1>1, <1>7, <2>1 DEF KTypes, MoreCut
<1>11. \A x \in Task : x # t => r.msgwaitq[x] = msgwaitq[x]
  BY <1>1, <1>7 DEF KTypes
<1>12. KInv(r)
  <2>1. /\ \A x \in Task, st \in MqWait : r.sched.tstate[x] = st <=> Kernel.sched.tstate[x] = st
        /\ \A x \in Task : r.sched.tstate[x] \in MqWait => r.msgwaitq[x] = Kernel.msgwaitq[x]
        /\ Safe(r.sched)
    <3>1. sched.tstate[t] \notin MqWait
      BY <1>3 DEF MqWait
    <3>. QED  BY <1>1, <1>7, <1>9, <1>11, <3>1
  <2>2. IsKernel(r) /\ r.nwait = Kernel.nwait /\ KInv(Kernel)
    BY <1>1, <1>7
  <2>. QED  BY <1>10, <2>1, <2>2, KFrame
<1>13. Kernel' = r /\ sched' = s /\ msgwaitq' = r.msgwaitq
  BY <1>5, <1>7, BecomesIs
<1>14. CallTypes'
  <2>1. "run" \in Place
    BY DEF Place
  <2>. QED  BY <1>1, <1>3, <1>5, <2>1 DEF CallTypes
<1>15. /\ pc'[me] = "run" /\ pc'[t] = "run" /\ victim'[me] = None /\ victim'[t] = victim[t]
       /\ \A x \in Task : x # me /\ x # t =>
            /\ pc'[x] = pc[x] /\ desc'[x] = desc[x]
            /\ event'[x] = event[x] /\ victim'[x] = victim[x]
  BY <1>1, <1>3, <1>5 DEF CallTypes
<1>16. sched'.tstate = sched.tstate /\ \A x \in Task : x # t => sched'.lock[x] = sched.lock[x]
  BY <1>7, <1>13
<1>17. ASSUME NEW x \in Task, x # me, x # t PROVE Parked(x)' /\ Equipped(x)' /\ Alone(x)'
  <2>1. pc[x] \notin Held
    BY <1>1, <1>17 DEF Alone
  <2>2. victim[x] # None => sched'.tstate[victim[x]] = "INVALID"
    BY <1>1, <1>16 DEF Equipped
  <2>. QED  BY <1>11, <1>13, <1>15, <1>16, <1>17, <2>1, <2>2, Bystander
<1>18. "run" \notin Held \cup Waits
  BY DEF Held, Waits
<1>19. Parked(me)' /\ Equipped(me)' /\ Alone(me)'
  <2>1. Parked(me)'
    BY <1>1, <1>16 DEF Parked
  <2>. QED  BY <1>15, <1>18, <2>1 DEF Equipped, Alone
<1>20. Parked(t)' /\ Equipped(t)' /\ Alone(t)'
  <2>1. Parked(t)'
    BY <1>3, <1>16 DEF Parked, MqWait
  <2>2. Equipped(t)'
    BY <1>1, <1>15, <1>16, <1>18 DEF Equipped
  <2>3. Alone(t)'
    BY <1>15, <1>18 DEF Alone
  <2>. QED  BY <2>1, <2>2, <2>3
<1>. QED  BY <1>12, <1>13, <1>14, <1>17, <1>19, <1>20 DEF MqInv, Calls

\* task_restart without the auxiliary variable.
RestartedSched(s, t) == [s EXCEPT !.prio[t] = s.init[t], !.lock[t] = 0]

RestartState(k, t) ==
  LET m == nxmq_recover(k, t)
  IN  [m EXCEPT !.sched = Activated(RestartedSched(RemoveFromList(m.sched, t), t), t)]

\* nxmq_recover takes the task out of the count while it is still on its list;
\* then the task is ready again.
LEMMA KRestart ==
  ASSUME NEW k, KInv(k), NEW t \in Task \ {Idle}, t # ThisTask(k.sched),
         k.sched.tstate[t] # "INVALID"
  PROVE  LET r == RestartState(k, t)
         IN  /\ KInv(r) /\ Elsewhere(k.sched, r.sched, t) /\ r.msgwaitq = k.msgwaitq
             /\ r.sched.tstate[t] \notin MqWait \cup {"INVALID"} /\ r.cut = k.cut
             /\ \A x \in Task : x # t => r.sched.lock[x] = k.sched.lock[x]
             /\ SameMsgs(k, r)
<1>. DEFINE m == nxmq_recover(k, t)
            s == RemoveFromList(k.sched, t)
            z == RestartedSched(s, t)
            a == Activated(z, t)
            r == RestartState(k, t)
            st == k.sched.tstate[t]
            q == k.msgwaitq[t]
            n == [k.nwait EXCEPT ![st][q] = @ - 1]
<1>1. IsKernel(k) /\ KTypes(k) /\ Safe(k.sched) /\ Assigned(k)
  BY DEF KInv
<1>2. m = IF st \in MqWait THEN [k EXCEPT !.nwait[st][q] = @ - 1] ELSE k
  BY DEF nxmq_recover
<1>3. /\ IsKernel(m) /\ m.sched = k.sched /\ m.msgwaitq = k.msgwaitq /\ m.cut = k.cut
      /\ m.errcode = k.errcode /\ m.ntpid = k.ntpid /\ m.fault = k.fault /\ SameMsgs(k, m)
      /\ m.nwait = IF st \in MqWait THEN n ELSE k.nwait
  <2>1. CASE st \in MqWait
    BY <1>1, <1>2, <2>1 DEF IsKernel, SameMsgs
  <2>2. CASE st \notin MqWait
    BY <1>1, <1>2, <2>2 DEF SameMsgs
  <2>. QED  BY <2>1, <2>2
<1>4. r = [m EXCEPT !.sched = a]
  BY <1>3 DEF RestartState
<1>5. /\ Safe(s) /\ s.tstate[t] = "INVALID" /\ ThisTask(s) = ThisTask(k.sched)
      /\ s.lock = k.sched.lock /\ Elsewhere(k.sched, s, t)
  BY <1>1, TakeOff
<1>. HIDE DEF s
<1>6. /\ z \in SchedState /\ z.rtr = s.rtr /\ z.pend = s.pend /\ z.blk = s.blk
      /\ z.tstate = s.tstate /\ z.policy = s.policy
      /\ \A x \in Task : x # t => z.lock[x] = s.lock[x]
  <2>1. s \in SchedState
    BY <1>5 DEF Safe, Core
  <2>. QED  BY <2>1 DEF SchedState, RestartedSched
<1>. HIDE DEF z
<1>7. /\ Safe(a) /\ Elsewhere(s, a, t) /\ a.lock = z.lock
      /\ a.tstate[t] \notin BlockedState \cup {"INVALID"}
  BY <1>5, <1>6, ActivatedStays
<1>. HIDE DEF a
<1>8. /\ Elsewhere(k.sched, a, t) /\ a.tstate[t] \notin MqWait \cup {"INVALID"}
      /\ \A x \in Task : x # t => a.lock[x] = k.sched.lock[x]
  BY <1>5, <1>6, <1>7 DEF Elsewhere, MqWait, BlockedState, WaitState
<1>. HIDE DEF r, m
<1>9. CASE st \in MqWait
  <2>1. q \in Mq
    BY <1>1, <1>9 DEF Assigned
  <2>2. n \in [MqWait -> [Mq -> Int]] /\ n = [k.nwait EXCEPT ![st][q] = @ - 1]
    BY <1>1, <1>9, <2>1 DEF KTypes
  <2>. HIDE DEF n
  <2>3. m.nwait = n
    BY <1>3, <1>9
  <2>4. /\ IsKernel(r) /\ r.sched = a /\ r.nwait = n /\ r.msgwaitq = k.msgwaitq
        /\ r.cut = k.cut /\ r.errcode = k.errcode /\ r.ntpid = k.ntpid /\ r.fault = k.fault
        /\ SameMsgs(k, r)
    BY <1>3, <1>4, <2>3 DEF IsKernel, SameMsgs
  <2>5. KTypes(r) /\ MoreCut(k, r)
    BY <1>1, <2>2, <2>4 DEF KTypes, MoreCut
  <2>6. /\ \/ r.nwait = [k.nwait EXCEPT ![k.sched.tstate[t]][k.msgwaitq[t]] = @ - 1]
           \/ r.nwait = k.nwait /\ "deleted" \in r.cut[k.msgwaitq[t]]
    BY <2>2, <2>4
  <2>7. /\ Safe(r.sched) /\ r.sched.tstate[t] \notin MqWait /\ Elsewhere(k.sched, r.sched, t)
        /\ \A x \in Task : x # t => r.msgwaitq[x] = k.msgwaitq[x]
    BY <1>7, <1>8, <2>4
  <2>8. IsKernel(r) /\ k.sched.tstate[t] \in MqWait /\ t \in Task
    BY <1>9, <2>4
  <2>9. KInv(r)
    BY <2>5, <2>6, <2>7, <2>8, KLeave
  <2>. QED  BY <1>8, <2>4, <2>9 DEF r
<1>10. CASE st \notin MqWait
  <2>1. m = k
    BY <1>2, <1>10
  <2>2. /\ IsKernel(r) /\ r.sched = a /\ r.nwait = k.nwait /\ r.msgwaitq = k.msgwaitq
        /\ r.cut = k.cut /\ r.errcode = k.errcode /\ r.ntpid = k.ntpid /\ r.fault = k.fault
        /\ SameMsgs(k, r)
    BY <1>1, <1>4, <2>1 DEF IsKernel, SameMsgs
  <2>3. KTypes(r) /\ MoreCut(k, r)
    BY <1>1, <2>2 DEF KTypes, MoreCut
  <2>4. Else(k.sched, a, t)
    BY <1>8, ElsewhereElse
  <2>5. /\ \A x \in Task, s2 \in MqWait : r.sched.tstate[x] = s2 <=> k.sched.tstate[x] = s2
        /\ \A x \in Task : r.sched.tstate[x] \in MqWait => r.msgwaitq[x] = k.msgwaitq[x]
        /\ Safe(r.sched)
    BY <1>7, <1>8, <1>10, <2>2, <2>4 DEF Else
  <2>6. IsKernel(r) /\ r.nwait = k.nwait
    BY <2>2
  <2>7. KInv(r)
    BY <2>3, <2>5, <2>6, KFrame
  <2>. QED  BY <1>8, <2>2, <2>7 DEF r
<1>. QED  BY <1>9, <1>10

\* task_restart
LEMMA RestartKeeps ==
  ASSUME MqInv, NEW t \in Task, Restart(t)
  PROVE  MqInv'
<1>. PICK me \in Task : me = self
  BY KernelParts
<1>. DEFINE k == RestartState(Kernel, t)
            r == CutShort(k, t, "restarted")
<1>1. /\ CallTypes /\ \A x \in Task : Parked(x) /\ Equipped(x) /\ Alone(x)
      /\ me = ThisTask(sched) /\ KInv(Kernel) /\ Kernel.sched = sched
      /\ Kernel.msgwaitq = msgwaitq
  BY KernelParts DEF MqInv, Calls, KInv
<1>2. /\ pc[me] = "run" /\ t \in Task \ {Idle} /\ t # me /\ sched.tstate[t] # "INVALID"
      /\ victim' = victim
      /\ pc' = [pc EXCEPT ![t] = "run"] /\ desc' = [desc EXCEPT ![t] = None]
      /\ event' = [event EXCEPT ![t] = None]
      /\ waitdog' = [waitdog EXCEPT ![t] = "none"]
  BY MqTaskSets DEF Restart, Running
<1>3. Becomes(r)
  BY DEF Restart, RestartState, RestartedSched
<1>4. /\ KInv(k) /\ Elsewhere(sched, k.sched, t) /\ k.msgwaitq = msgwaitq
      /\ k.sched.tstate[t] \notin MqWait \cup {"INVALID"}
      /\ \A x \in Task : x # t => k.sched.lock[x] = sched.lock[x]
  BY <1>1, <1>2, KRestart
<1>. HIDE DEF k
<1>5. IsKernel(k) /\ KTypes(k) /\ "restarted" \in How /\ Safe(k.sched)
  BY <1>4 DEF KInv, How
<1>6. /\ IsKernel(r) /\ r.cut \in [Mq -> SUBSET How] /\ MoreCut(k, r)
      /\ r.sched = k.sched /\ r.nwait = k.nwait /\ r.msgwaitq = k.msgwaitq
      /\ r.errcode = k.errcode /\ r.ntpid = k.ntpid /\ r.fault = k.fault
  BY <1>5, CutFacts
<1>. HIDE DEF r
<1>7. KInv(r)
  <2>1. KTypes(r) /\ Safe(r.sched)
    BY <1>5, <1>6 DEF KTypes
  <2>2. /\ \A x \in Task, st \in MqWait : r.sched.tstate[x] = st <=> k.sched.tstate[x] = st
        /\ \A x \in Task : r.sched.tstate[x] \in MqWait => r.msgwaitq[x] = k.msgwaitq[x]
        /\ IsKernel(r) /\ r.nwait = k.nwait /\ MoreCut(k, r)
    BY <1>6
  <2>. QED  BY <1>4, <2>1, <2>2, KFrame
<1>8. Kernel' = r /\ sched' = k.sched /\ msgwaitq' = msgwaitq
  BY <1>3, <1>4, <1>6, BecomesIs
<1>9. CallTypes'
  <2>1. "run" \in Place
    BY DEF Place
  <2>. QED  BY <1>1, <1>2, <2>1 DEF CallTypes
<1>10. /\ pc'[t] = "run" /\ \A x \in Task : x # t =>
            /\ pc'[x] = pc[x] /\ desc'[x] = desc[x]
            /\ event'[x] = event[x]
  BY <1>1, <1>2 DEF CallTypes
<1>11. Else(sched, k.sched, t)
  BY <1>4, ElsewhereElse
<1>12. "run" \notin Held \cup Waits
  BY DEF Held, Waits
<1>13. \A x \in Task : victim[x] # None => victim[x] # Idle /\ sched'.tstate[victim[x]] = "INVALID"
  <2>. SUFFICES ASSUME NEW x \in Task, victim[x] # None
                PROVE  victim[x] # Idle /\ sched'.tstate[victim[x]] = "INVALID"
    OBVIOUS
  <2>1. /\ victim[x] \in Task /\ sched.tstate[victim[x]] = "INVALID" /\ victim[x] # t
        /\ victim[x] # Idle
    BY <1>1, <1>2 DEF Equipped, CallTypes
  <2>. QED  BY <1>8, <1>11, <2>1 DEF Else
<1>14. ASSUME NEW x \in Task, x # t PROVE Parked(x)' /\ Equipped(x)' /\ Alone(x)'
  <2>1. pc[x] \notin Held
    BY <1>1, <1>2, <1>12 DEF Alone
  <2>2. sched'.tstate[x] \in MqWait => sched'.tstate[x] = sched.tstate[x] /\ msgwaitq'[x] = msgwaitq[x]
    BY <1>8, <1>11, <1>14 DEF Else
  <2>. QED  BY <1>2, <1>4, <1>8, <1>10, <1>13, <1>14, <2>1, <2>2, Bystander
<1>15. Parked(t)' /\ Equipped(t)' /\ Alone(t)'
  <2>1. Parked(t)'
    BY <1>4, <1>8 DEF Parked
  <2>2. Equipped(t)'
    BY <1>2, <1>10, <1>12, <1>13 DEF Equipped
  <2>3. Alone(t)'
    BY <1>10, <1>12 DEF Alone
  <2>. QED  BY <2>1, <2>2, <2>3
<1>. QED  BY <1>7, <1>8, <1>9, <1>14, <1>15 DEF MqInv, Calls

\* The variables of the running task's call.
LEMMA CallParts ==
  ASSUME MqInv
  PROVE  /\ self \in Task /\ pc[self] \in Place /\ pc = [pc EXCEPT ![self] = pc[self]]
         /\ desc[self] \in Mq \cup {None} /\ desc = [desc EXCEPT ![self] = desc[self]]
         /\ event[self] \in Task \cup {None} /\ event = [event EXCEPT ![self] = event[self]]
         /\ \A t \in Task, d \in {"none", "created", "active"} :
              [waitdog EXCEPT ![t] = d] \in [Task -> {"none", "created", "active"}]
         /\ Cancelled(self) \in [Task -> {"none", "created", "active"}]
         /\ waitdog \in [Task -> {"none", "created", "active"}]
         /\ Equipped(self) /\ Gentle(Kernel, Kernel) /\ (UNCHANGED kvars => Becomes(Kernel))
<1>1. CallTypes /\ self \in Task /\ Equipped(self) /\ KInv(Kernel)
  BY KernelParts DEF MqInv, Calls
<1>2. Gentle(Kernel, Kernel)
  BY <1>1, GentleFrame DEF KInv
<1>3. UNCHANGED kvars => Becomes(Kernel)
  BY DEF kvars, Becomes, Kernel
<1>4. /\ \A t \in Task, d \in {"none", "created", "active"} :
           [waitdog EXCEPT ![t] = d] \in [Task -> {"none", "created", "active"}]
      /\ Cancelled(self) \in [Task -> {"none", "created", "active"}]
      /\ waitdog \in [Task -> {"none", "created", "active"}]
  BY <1>1 DEF CallTypes, Cancelled
<1>5. /\ pc[self] \in Place /\ pc = [pc EXCEPT ![self] = pc[self]]
      /\ desc[self] \in Mq \cup {None} /\ desc = [desc EXCEPT ![self] = desc[self]]
      /\ event[self] \in Task \cup {None} /\ event = [event EXCEPT ![self] = event[self]]
  BY <1>1 DEF CallTypes
<1>. QED  BY <1>1, <1>2, <1>3, <1>4, <1>5

\* The running task goes on to another place of its call.
LEMMA InCallKeeps ==
  ASSUME MqInv, pc[self] \in Held \cup Waits, NEW r, Gentle(Kernel, r), Becomes(r),
         NEW place \in Held \ {"notified"}, pc' = [pc EXCEPT ![self] = place],
         UNCHANGED <<desc, event, victim>>,
         waitdog' \in [Task -> {"none", "created", "active"}]
  PROVE  MqInv'
<1>1. desc[self] \in Mq /\ place \in Place /\ place # "terminate"
  BY CallParts DEF Equipped, Place, Held, Waits
<1>2. /\ desc' = [desc EXCEPT ![self] = desc[self]] /\ event' = [event EXCEPT ![self] = event[self]]
      /\ event[self] \in Task \cup {None} /\ desc[self] \in Mq \cup {None}
  BY CallParts
<1>. QED  BY <1>1, <1>2, MoveKeeps

\* An interrupt ends waits.
LEMMA InterruptKeeps ==
  ASSUME MqInv, NEW r, Gentle(Kernel, r), Becomes(r), UNCHANGED callvars,
         waitdog' \in [Task -> {"none", "created", "active"}]
  PROVE  MqInv'
<1>1. Equipped(self) /\ pc[self] \in Place /\ desc[self] \in Mq \cup {None}
      /\ event[self] \in Task \cup {None}
  BY CallParts
<1>2. /\ pc' = [pc EXCEPT ![self] = pc[self]] /\ desc' = [desc EXCEPT ![self] = desc[self]]
      /\ event' = [event EXCEPT ![self] = event[self]] /\ victim' = victim
  BY CallParts DEF callvars
<1>3. /\ pc[self] \in Held \cup Waits \cup {"tlock"} => desc[self] \in Mq
      /\ pc[self] = "notified" => event[self] # None
  BY <1>1 DEF Equipped
<1>. QED  BY <1>1, <1>2, <1>3, MoveKeeps

\* The steps of a send before the message is inserted.
LEMMA SendKeeps ==
  ASSUME MqInv, SendCheck \/ SendResume \/ TimedSendCheck \/ TimedSendWait
  PROVE  MqInv'
<1>. DEFINE Dogs == [Task -> {"none", "created", "active"}]
<1>1. /\ Gentle(Kernel, Kernel) /\ (UNCHANGED kvars => Becomes(Kernel))
      /\ waitdog \in Dogs /\ Cancelled(self) \in Dogs
      /\ \A d \in {"none", "created", "active"} : [waitdog EXCEPT ![self] = d] \in Dogs
  BY CallParts
<1>2. ASSUME NEW place \in Held \ {"notified"}, pc[self] \in Held \cup Waits, UNCHANGED kvars,
             pc' = [pc EXCEPT ![self] = place],
             UNCHANGED <<desc, event, victim>>, waitdog' \in Dogs
      PROVE  MqInv'
  BY <1>1, <1>2, InCallKeeps
<1>3. ASSUME pc[self] \in Held \cup Waits, self # Idle,
             Becomes(BlockOn(Kernel, self, "WAIT_MQNOTFULL", desc[self])),
             pc' = [pc EXCEPT ![self] = "sendwait"], UNCHANGED <<desc, event, victim>>,
             waitdog' \in Dogs
      PROVE  MqInv'
  <2>1. "WAIT_MQNOTFULL" \in MqWait /\ PlaceOf("WAIT_MQNOTFULL") = "sendwait"
    BY DEF MqWait, PlaceOf
  <2>. QED  BY <1>3, <2>1, BlockKeeps
<1>4. /\ {"alloc", "unlock", "insert", "discard", "tsend"} \subseteq Held \ {"notified"}
      /\ {"send", "sendwait", "tcheck", "tsend"} \subseteq Held \cup Waits
  BY DEF Held, Waits
<1>5. CASE SendCheck
  BY <1>1, <1>2, <1>3, <1>4, <1>5 DEF SendCheck, Running, GoTo
<1>6. CASE TimedSendCheck
  <2>1. pc[self] = "tcheck"
    BY <1>6 DEF TimedSendCheck, Running
  <2>. QED  BY <1>1, <1>2, <1>4, <1>6, <2>1 DEF TimedSendCheck, GoTo
<1>7. CASE TimedSendWait
  <2>1. pc[self] = "tsend" /\ self # Idle
    BY <1>7 DEF TimedSendWait, Running
  <2>. QED  BY <1>1, <1>2, <1>3, <1>4, <1>7, <2>1 DEF TimedSendWait, GoTo
<1>8. CASE SendResume
  <2>1. pc[self] = "sendwait" /\ self # Idle /\ UNCHANGED <<desc, event, victim>>
    BY <1>8 DEF SendResume, Running
  <2>2. CASE GoTo(IF mqmsg[self] # None THEN "discard" ELSE "unlock")
             /\ waitdog' = Cancelled(self) /\ UNCHANGED kvars
    BY <1>1, <1>2, <1>4, <2>1, <2>2 DEF GoTo
  <2>3. CASE GoTo(IF mqmsg[self] # None THEN "insert" ELSE "alloc")
             /\ waitdog' = Cancelled(self) /\ UNCHANGED kvars
    BY <1>1, <1>2, <1>4, <2>1, <2>3 DEF GoTo
  <2>4. CASE Becomes(BlockOn(Kernel, self, "WAIT_MQNOTFULL", desc[self]))
             /\ UNCHANGED <<waitdog, pc>>
    <3>1. pc' = [pc EXCEPT ![self] = "sendwait"]
      BY <2>1, <2>4, CallParts
    <3>. QED  BY <1>1, <1>3, <1>4, <2>1, <2>4, <3>1
  <2>. QED  BY <1>8, <2>2, <2>3, <2>4 DEF SendResume
<1>. QED  BY <1>5, <1>6, <1>7, <1>8

\* A message is allocated.
LEMMA AllocKeeps ==
  ASSUME MqInv, SendAlloc \/ \E q \in Mq : TimedSend(q)
  PROVE  MqInv'
<1>1. /\ event[self] \in Task \cup {None} /\ event = [event EXCEPT ![self] = event[self]]
      /\ Gentle(Kernel, Kernel) /\ (UNCHANGED kvars => Becomes(Kernel))
      /\ waitdog \in [Task -> {"none", "created", "active"}]
  BY CallParts
<1>. DEFINE less == [Kernel EXCEPT !.pool.FIXED = @ - 1]
<1>2. Gentle(Kernel, less)
  BY KernelParts, MessagesOnly, SameTasksGentle
<1>. HIDE DEF less
<1>3. ASSUME NEW place, NEW failed, Alloc(place, failed)
      PROVE  /\ UNCHANGED <<waitdog, event, victim>>
             /\ \E r : Gentle(Kernel, r) /\ Becomes(r)
             /\ \E to \in {place, failed} : pc' = [pc EXCEPT ![self] = to]
  <2>1. Becomes(less) \/ UNCHANGED kvars
    BY <1>3 DEF Alloc, less
  <2>. QED  BY <1>1, <1>2, <1>3, <2>1 DEF Alloc, GoTo
<1>4. CASE SendAlloc
  <2>1. pc[self] = "alloc" /\ Alloc("insert", "unlock") /\ UNCHANGED desc
    BY <1>4 DEF SendAlloc, Running
  <2>2. PICK r : Gentle(Kernel, r) /\ Becomes(r)
    BY <1>3, <2>1
  <2>3. PICK to \in {"insert", "unlock"} : pc' = [pc EXCEPT ![self] = to]
    BY <1>3, <2>1
  <2>4. pc[self] \in Held \cup Waits /\ to \in Held \ {"notified"}
    BY <2>1 DEF Held
  <2>. QED  BY <1>1, <1>3, <2>1, <2>2, <2>3, <2>4, InCallKeeps
<1>5. ASSUME NEW q \in Mq, TimedSend(q)
      PROVE  MqInv'
  <2>1. pc[self] = "run" /\ Alloc("tlock", "run") /\ desc' = [desc EXCEPT ![self] = q]
    BY <1>5 DEF TimedSend, Running
  <2>2. PICK r : Gentle(Kernel, r) /\ Becomes(r)
    BY <1>3, <2>1
  <2>3. PICK to \in {"tlock", "run"} : pc' = [pc EXCEPT ![self] = to]
    BY <1>3, <2>1
  <2>4. to \in Place /\ to \notin Held \cup Waits /\ to # "terminate" /\ to # "notified"
    BY DEF Place, Held, Waits
  <2>5. /\ event' = [event EXCEPT ![self] = event[self]] /\ q \in Mq \cup {None}
        /\ waitdog' \in [Task -> {"none", "created", "active"}] /\ victim' = victim
    BY <1>1, <1>3, <2>1
  <2>. QED  BY <1>1, <2>1, <2>2, <2>3, <2>4, <2>5, MoveKeeps
<1>. QED  BY <1>4, <1>5

\* The insertion, the notification and the wake-up of nxmq_do_send, and the error
\* exits of nxmq_timedsend.
LEMMA DoSendKeeps ==
  ASSUME MqInv, \/ Discard \/ NotifyRead \/ Wake \/ \E prio \in MsgPrio : Insert(prio)
                \/ \E unmasked \in BOOLEAN : NotifySend(unmasked)
  PROVE  MqInv'
<1>. DEFINE Dogs == [Task -> {"none", "created", "active"}]
<1>1. /\ event[self] \in Task \cup {None} /\ event = [event EXCEPT ![self] = event[self]]
      /\ desc[self] \in Mq \cup {None} /\ desc = [desc EXCEPT ![self] = desc[self]]
      /\ Gentle(Kernel, Kernel) /\ (UNCHANGED kvars => Becomes(Kernel))
      /\ waitdog \in Dogs /\ Equipped(self) /\ self \in Task
      /\ \A d \in {"none", "created", "active"} : [waitdog EXCEPT ![self] = d] \in Dogs
  BY CallParts
<1>2. ASSUME NEW prio, Insert(prio) PROVE MqInv'
  <2>. DEFINE r == AddMsg(Kernel, desc[self], [prio |-> prio, type |-> mqmsg[self], from |-> "task"])
  <2>1. Gentle(Kernel, r)
    BY KernelParts, MessagesOnly, SameTasksGentle
  <2>2. /\ pc[self] = "insert" /\ Becomes(r)
        /\ pc' = [pc EXCEPT ![self] = "notify"] /\ UNCHANGED <<waitdog, desc, event, victim>>
    BY <1>2 DEF Insert, Running, GoTo
  <2>3. pc[self] \in Held \cup Waits /\ "notify" \in Held \ {"notified"}
    BY <2>2 DEF Held
  <2>. HIDE DEF r
  <2>. QED  BY <1>1, <2>1, <2>2, <2>3, InCallKeeps
<1>3. CASE Discard
  <2>. DEFINE r == FreeMsg(Kernel, [prio |-> 0, type |-> mqmsg[self]])
  <2>1. Gentle(Kernel, r)
    BY KernelParts, MessagesOnly, SameTasksGentle
  <2>2. /\ pc[self] = "discard" /\ Becomes(r)
        /\ waitdog' = [waitdog EXCEPT ![self] = "none"]
        /\ pc' = [pc EXCEPT ![self] = "unlock"] /\ UNCHANGED <<desc, event, victim>>
    BY <1>3 DEF Discard, Running, GoTo
  <2>3. pc[self] \in Held \cup Waits /\ "unlock" \in Held \ {"notified"}
    BY <2>2 DEF Held
  <2>. HIDE DEF r
  <2>. QED  BY <1>1, <2>1, <2>2, <2>3, InCallKeeps
<1>4. CASE Wake
  <2>. DEFINE r == WakeReceiver(Kernel, desc[self])
  <2>1. /\ pc[self] = "wake" /\ Becomes(r) /\ pc' = [pc EXCEPT ![self] = "unlock"]
        /\ UNCHANGED <<waitdog, desc, event, victim>>
    BY <1>4 DEF Wake, Running, GoTo
  <2>2. pc[self] \in Held \cup Waits /\ "unlock" \in Held \ {"notified"}
    BY <2>1 DEF Held
  <2>3. desc[self] \in Mq
    BY <1>1, <2>2 DEF Equipped
  <2>4. Gentle(Kernel, r)
    BY <2>3, KernelParts, WakeReceiverGentle
  <2>. HIDE DEF r
  <2>. QED  BY <1>1, <2>1, <2>2, <2>4, InCallKeeps
<1>5. CASE NotifyRead
  <2>. DEFINE e == ntpid[desc[self]]
              to == IF e = None THEN "wake" ELSE "notified"
  <2>1. /\ pc[self] = "notify" /\ UNCHANGED kvars /\ pc' = [pc EXCEPT ![self] = to]
        /\ event' = [event EXCEPT ![self] = e] /\ UNCHANGED <<waitdog, desc, victim>>
    BY <1>5 DEF NotifyRead, Running, GoTo
  <2>2. pc[self] \in Held \cup Waits
    BY <2>1 DEF Held
  <2>3. desc[self] \in Mq
    BY <1>1, <2>2 DEF Equipped
  <2>4. e \in Task \cup {None}
    BY <2>3, KernelParts
  <2>. HIDE DEF e
  <2>5. /\ to \in Place /\ to # "terminate" /\ (to = "notified" => e # None)
    BY DEF Place, Held
  <2>. HIDE DEF to
  <2>6. Becomes(Kernel) /\ Gentle(Kernel, Kernel) /\ waitdog' \in Dogs
        /\ desc' = [desc EXCEPT ![self] = desc[self]]
    BY <1>1, <2>1
  <2>. QED  BY <1>1, <2>1, <2>2, <2>3, <2>4, <2>5, <2>6, MoveKeeps
<1>6. ASSUME NEW unmasked \in BOOLEAN, NotifySend(unmasked) PROVE MqInv'
  <2>. DEFINE r == Notified(Kernel, desc[self], event[self], unmasked)
  <2>1. /\ pc[self] = "notified" /\ Becomes(r) /\ pc' = [pc EXCEPT ![self] = "wake"]
        /\ event' = [event EXCEPT ![self] = None] /\ UNCHANGED <<waitdog, desc, victim>>
    BY <1>6 DEF NotifySend, Running, GoTo
  <2>2. pc[self] \in Held \cup Waits
    BY <2>1 DEF Held
  <2>3. desc[self] \in Mq /\ event[self] \in Task
    BY <1>1, <2>1, <2>2 DEF Equipped
  <2>4. Gentle(Kernel, r)
    BY <2>3, KernelParts, NotifiedGentle
  <2>. HIDE DEF r
  <2>5. "wake" \in Place
    BY DEF Place, Held
  <2>6. /\ waitdog' \in Dogs
        /\ desc' = [desc EXCEPT ![self] = desc[self]]
        /\ None \in Task \cup {None}
    BY <1>1, <2>1
  <2>. QED  BY <1>1, <2>1, <2>2, <2>3, <2>4, <2>5, <2>6, MoveKeeps
<1>. QED  BY <1>2, <1>3, <1>4, <1>5, <1>6

\* The steps of a receive.
LEMMA ReceiveKeeps ==
  ASSUME MqInv, RecvCheck \/ RecvResume \/ Deliver \/ WakeSender
  PROVE  MqInv'
<1>. DEFINE Dogs == [Task -> {"none", "created", "active"}]
<1>1. /\ Gentle(Kernel, Kernel) /\ (UNCHANGED kvars => Becomes(Kernel))
      /\ waitdog \in Dogs /\ Equipped(self) /\ self \in Task /\ Cancelled(self) \in Dogs
      /\ \A d \in {"none", "created", "active"} : [waitdog EXCEPT ![self] = d] \in Dogs
  BY CallParts
<1>2. ASSUME pc[self] \in Held \cup Waits, UNCHANGED <<kvars, desc, event, victim>>,
             pc' = [pc EXCEPT ![self] = "unlock"], waitdog' \in Dogs
      PROVE  MqInv'
  <2>1. "unlock" \in Held \ {"notified"}
    BY DEF Held
  <2>. QED  BY <1>1, <1>2, <2>1, InCallKeeps
<1>3. ASSUME pc[self] \in Held \cup Waits, GetMsg, UNCHANGED <<desc, event, victim>>, waitdog' \in Dogs
      PROVE  MqInv'
  <2>. DEFINE r == TakeFirst(Kernel, desc[self])
  <2>1. Becomes(r) /\ pc' = [pc EXCEPT ![self] = "deliver"]
    BY <1>3 DEF GetMsg, GoTo
  <2>2. Gentle(Kernel, r)
    BY KernelParts, MessagesOnly, SameTasksGentle
  <2>3. "deliver" \in Held \ {"notified"}
    BY DEF Held
  <2>. HIDE DEF r
  <2>. QED  BY <1>3, <2>1, <2>2, <2>3, InCallKeeps
<1>4. ASSUME pc[self] \in Held \cup Waits, self # Idle, BlockEmpty, UNCHANGED <<desc, event, victim>>,
             waitdog' \in Dogs
      PROVE  MqInv'
  <2>1. "WAIT_MQNOTEMPTY" \in MqWait /\ PlaceOf("WAIT_MQNOTEMPTY") = "recvwait"
    BY DEF MqWait, PlaceOf
  <2>. QED  BY <1>4, <2>1, BlockKeeps DEF BlockEmpty, GoTo
<1>5. /\ "recv" \in Held \cup Waits /\ "recvwait" \in Held \cup Waits
      /\ "deliver" \in Held \cup Waits /\ "wakesender" \in Held \cup Waits
  BY DEF Held, Waits
<1>6. CASE RecvCheck
  <2>1. pc[self] = "recv" /\ self # Idle /\ UNCHANGED <<desc, event, victim>>
    BY <1>6 DEF RecvCheck, Running
  <2>2. [waitdog EXCEPT ![self] = IF @ = "created" THEN "active" ELSE @] \in Dogs
    BY <1>1
  <2>. QED  BY <1>1, <1>2, <1>3, <1>4, <1>5, <1>6, <2>1, <2>2 DEF RecvCheck, GoTo
<1>7. CASE RecvResume
  <2>1. pc[self] = "recvwait" /\ self # Idle /\ UNCHANGED <<desc, event, victim>>
    BY <1>7 DEF RecvResume, Running
  <2>. QED  BY <1>1, <1>2, <1>3, <1>4, <1>5, <1>7, <2>1 DEF RecvResume, GoTo
<1>8. CASE Deliver
  <2>. DEFINE r == FreeMsg(Kernel, [prio |-> 0, type |-> mqmsg[self]])
              to == IF nwait["WAIT_MQNOTFULL"][desc[self]] > 0 THEN "wakesender" ELSE "unlock"
  <2>1. Gentle(Kernel, r)
    BY KernelParts, MessagesOnly, SameTasksGentle
  <2>2. /\ pc[self] = "deliver" /\ Becomes(r)
        /\ pc' = [pc EXCEPT ![self] = to] /\ UNCHANGED <<waitdog, desc, event, victim>>
    BY <1>8 DEF Deliver, Running, GoTo
  <2>3. to \in Held \ {"notified"}
    BY DEF Held
  <2>. HIDE DEF r, to
  <2>. QED  BY <1>1, <1>5, <2>1, <2>2, <2>3, InCallKeeps
<1>9. CASE WakeSender
  <2>. DEFINE r == WakeFirst(Kernel, "WAIT_MQNOTFULL", desc[self])
  <2>1. /\ pc[self] = "wakesender" /\ Becomes(r) /\ pc' = [pc EXCEPT ![self] = "unlock"]
        /\ UNCHANGED <<waitdog, desc, event, victim>>
    BY <1>9 DEF WakeSender, Running, GoTo
  <2>2. "unlock" \in Held \ {"notified"}
    BY DEF Held
  <2>3. desc[self] \in Mq /\ "WAIT_MQNOTFULL" \in MqWait
    BY <1>1, <1>5, <2>1 DEF Equipped, MqWait
  <2>4. Gentle(Kernel, r)
    BY <2>3, KernelParts, WakeFirstGentle
  <2>. HIDE DEF r
  <2>. QED  BY <1>1, <1>5, <2>1, <2>2, <2>4, InCallKeeps
<1>. QED  BY <1>6, <1>7, <1>8, <1>9


\* sched_lock and sched_unlock, and what surrounds them.
LEMMA EndsKeep ==
  ASSUME MqInv,
         \/ \E q \in Mq : SendLock(q) \/ Receive(q) \/ TimedReceiveLock(q)
         \/ TimedSendLock \/ Unlock \/ TimedReceive \/ DeleteDog
  PROVE  MqInv'
<1>. DEFINE Dogs == [Task -> {"none", "created", "active"}]
<1>1. /\ event[self] \in Task \cup {None} /\ event = [event EXCEPT ![self] = event[self]]
      /\ desc[self] \in Mq \cup {None} /\ desc = [desc EXCEPT ![self] = desc[self]]
      /\ Gentle(Kernel, Kernel) /\ (UNCHANGED kvars => Becomes(Kernel))
      /\ Equipped(self) /\ self \in Task
      /\ \A d \in {"none", "created", "active"} : [waitdog EXCEPT ![self] = d] \in Dogs
  BY CallParts
<1>2. ASSUME NEW q \in Mq, SendLock(q) PROVE MqInv'
  BY <1>2, LockKeeps DEF SendLock, GoTo
<1>3. ASSUME NEW q \in Mq, NEW place, RecvLock(q, place) PROVE MqInv'
  BY <1>3, LockKeeps DEF RecvLock, GoTo
<1>4. CASE TimedSendLock
  <2>1. /\ pc[self] = "tlock" /\ SchedBecomes(LockOp(sched))
        /\ pc' = [pc EXCEPT ![self] = "tcheck"] /\ UNCHANGED <<waitdog, desc, event, victim>>
    BY <1>4 DEF TimedSendLock, Running, GoTo
  <2>2. desc[self] \in Mq /\ desc' = [desc EXCEPT ![self] = desc[self]]
    BY <1>1, <2>1 DEF Equipped
  <2>. QED  BY <2>1, <2>2, LockKeeps
<1>5. CASE Unlock
  <2>. DEFINE to == IF waitdog[self] = "none" THEN "run" ELSE "undog"
  <2>1. /\ SchedBecomes(UnlockOp(sched)) /\ pc' = [pc EXCEPT ![self] = to]
        /\ desc' = [desc EXCEPT ![self] = None] /\ UNCHANGED <<waitdog, event, victim>>
    BY <1>5 DEF Unlock, GoTo
  <2>2. to \in {"run", "undog"}
    OBVIOUS
  <2>. HIDE DEF to
  <2>. QED  BY <2>1, <2>2, LockKeeps
<1>6. ASSUME NEW place \in {"trecv", "run"}, pc' = [pc EXCEPT ![self] = place], waitdog' \in Dogs,
             UNCHANGED <<kvars, desc, event, victim>>
      PROVE  MqInv'
  <2>1. /\ place \in Place /\ place # "terminate" /\ place # "notified"
        /\ place \notin Held \cup Waits \cup {"tlock"}
    BY DEF Place, Held, Waits
  <2>. QED  BY <1>1, <1>6, <2>1, MoveKeeps
<1>7. CASE TimedReceive
  BY <1>1, <1>6, <1>7 DEF TimedReceive, GoTo
<1>8. CASE DeleteDog
  BY <1>1, <1>6, <1>8 DEF DeleteDog, GoTo
<1>. QED  BY <1>2, <1>3, <1>4, <1>5, <1>7, <1>8 DEF Receive, TimedReceiveLock

\* mq_notify.
LEMMA RegisterKeeps ==
  ASSUME MqInv, NEW q \in Mq, Register(q) \/ Detach(q)
  PROVE  MqInv'
<1>1. IsKernel(Kernel) /\ KInv(Kernel) /\ KTypes(Kernel) /\ self \in Task
  BY KernelParts
<1>2. PICK n \in Task \cup {None} : /\ Becomes([Kernel EXCEPT !.ntpid[q] = n])
                                    /\ UNCHANGED <<waitdog, callvars>>
  BY <1>1 DEF Register, Detach
<1>. DEFINE r == [Kernel EXCEPT !.ntpid[q] = n]
<1>3. /\ IsKernel(r) /\ r.sched = Kernel.sched /\ r.nwait = Kernel.nwait
      /\ r.msgwaitq = Kernel.msgwaitq /\ r.cut = Kernel.cut /\ r.errcode = Kernel.errcode
      /\ r.ntpid = [Kernel.ntpid EXCEPT ![q] = n] /\ r.fault = Kernel.fault
  BY <1>1 DEF IsKernel
<1>4. Becomes(r)
  BY <1>2
<1>. HIDE DEF r
<1>5. KTypes(r)
  BY <1>1, <1>3 DEF KTypes
<1>6. Gentle(Kernel, r)
  BY <1>1, <1>3, <1>5, GentleFrame
<1>. QED  BY <1>2, <1>4, <1>6, InterruptKeeps, CallParts

\* What an interrupt handler's nxmq_send does before its wake-up, and after it.
IrqAdded(q, prio, type) ==
  AddMsg([Kernel EXCEPT !.pool[type] = @ - 1], q, [prio |-> prio, type |-> type, from |-> "irq"])
IrqTold(q, prio, type, unmasked) ==
  IF ntpid[q] # None THEN Notified(IrqAdded(q, prio, type), q, ntpid[q], unmasked)
  ELSE IrqAdded(q, prio, type)

\* It ends waits, and puts the message into the list.
LEMMA IrqSendGentle ==
  ASSUME MqInv, NEW q \in Mq, NEW prio, NEW type, NEW unmasked \in BOOLEAN
  PROVE  LET a == IrqAdded(q, prio, type)
             r == WakeReceiver(IrqTold(q, prio, type, unmasked), q)
         IN  Gentle(Kernel, r) /\ SameMsgs(a, r)
<1>. DEFINE msg == [prio |-> prio, type |-> type, from |-> "irq"]
            l == [Kernel EXCEPT !.pool[type] = @ - 1]
            a == IrqAdded(q, prio, type)
            b == IrqTold(q, prio, type, unmasked)
            r == WakeReceiver(b, q)
<1>1. KInv(Kernel) /\ ntpid \in [Mq -> Task \cup {None}]
  BY KernelParts
<1>2. Gentle(Kernel, l)
  BY <1>1, MessagesOnly, SameTasksGentle
<1>3. KInv(l) /\ a = AddMsg(l, q, msg)
  BY <1>2 DEF Gentle, IrqAdded
<1>. HIDE DEF l, msg, a
<1>4. Gentle(l, a)
  BY <1>3, MessagesOnly, SameTasksGentle
<1>5. Gentle(Kernel, a) /\ KInv(a)
  BY <1>2, <1>4, GentleTwice DEF Gentle
<1>6. Gentle(a, b) /\ SameMsgs(a, b)
  <2>1. CASE ntpid[q] = None
    <3>1. b = a
      BY <2>1 DEF IrqTold, a
    <3>. QED  BY <1>5, <3>1, GentleFrame DEF KInv, SameMsgs
  <2>2. CASE ntpid[q] # None
    <3>1. b = Notified(a, q, ntpid[q], unmasked) /\ ntpid[q] \in Task
      BY <1>1, <2>2 DEF IrqTold, a
    <3>. QED  BY <1>5, <3>1, NotifiedGentle
  <2>. QED  BY <2>1, <2>2
<1>. HIDE DEF b
<1>7. Gentle(b, r) /\ SameMsgs(b, r)
  BY <1>6, WakeReceiverGentle DEF Gentle
<1>. HIDE DEF r
<1>8. Gentle(Kernel, r)
  BY <1>5, <1>6, <1>7, GentleTwice
<1>. QED  BY <1>6, <1>7, <1>8 DEF SameMsgs, r, b, a

\* What the step calls.
LEMMA IrqSendIs ==
  ASSUME NEW q \in Mq, NEW prio, NEW unmasked, IrqSend(q, prio, unmasked)
  PROVE  LET type == IF pool.FIXED > 0 THEN "FIXED" ELSE "IRQ"
         IN  /\ Becomes(WakeReceiver(IrqTold(q, prio, type, unmasked), q))
             /\ pool[type] > 0 /\ Len(msglist[q]) < MaxLen /\ UNCHANGED <<waitdog, callvars>>
BY DEF IrqSend, IrqTold, IrqAdded

\* Interrupts: a message, a signal, a watchdog.
LEMMA IrqKeeps ==
  ASSUME MqInv,
         \/ \E q \in Mq, prio \in MsgPrio, unmasked \in BOOLEAN : IrqSend(q, prio, unmasked)
         \/ \E t \in Task : Signal(t) \/ Timeout(t)
  PROVE  MqInv'
<1>1. KInv(Kernel) /\ {"EINTR", "ETIMEDOUT"} \subseteq Errcode
  BY KernelParts DEF Errcode
<1>2. ASSUME NEW q \in Mq, NEW prio \in MsgPrio, NEW unmasked \in BOOLEAN, IrqSend(q, prio, unmasked)
      PROVE  MqInv'
  <2>. DEFINE type == IF pool.FIXED > 0 THEN "FIXED" ELSE "IRQ"
              r == WakeReceiver(IrqTold(q, prio, type, unmasked), q)
  <2>1. Becomes(r) /\ UNCHANGED <<waitdog, callvars>>
    BY <1>2, IrqSendIs
  <2>. HIDE DEF type
  <2>2. Gentle(Kernel, r)
    BY IrqSendGentle
  <2>. HIDE DEF r
  <2>. QED  BY <2>1, <2>2, InterruptKeeps, CallParts
<1>3. ASSUME NEW t \in Task, NEW err \in Errcode, Becomes(nxmq_wait_irq(Kernel, t, err)),
             UNCHANGED callvars, waitdog' \in [Task -> {"none", "created", "active"}]
      PROVE  MqInv'
  <2>1. Gentle(Kernel, nxmq_wait_irq(Kernel, t, err))
    BY <1>1, WaitIrqGentle
  <2>. QED  BY <1>3, <2>1, InterruptKeeps
<1>4. ASSUME NEW t \in Task, Signal(t) PROVE MqInv'
  BY <1>1, <1>3, <1>4, CallParts DEF Signal
<1>5. ASSUME NEW t \in Task, Timeout(t) PROVE MqInv'
  BY <1>1, <1>3, <1>5, CallParts DEF Timeout
<1>. QED  BY <1>2, <1>4, <1>5

\* Every step keeps the invariant.
LEMMA NextInv ==
  ASSUME MqInv, [Next]_vars
  PROVE  MqInv'
<1>1. CASE UNCHANGED vars
  <2>1. UNCHANGED <<kvars, waitdog, callvars>>
    BY <1>1 DEF vars
  <2>. QED  BY <2>1, InterruptKeeps, CallParts
<1>2. CASE InCall
  BY <1>2, SendKeeps, AllocKeeps, DoSendKeeps, ReceiveKeeps, EndsKeep, ExitHookKeeps DEF InCall
<1>3. CASE TimedReceive
  BY <1>3, EndsKeep
<1>4. CASE Halted
  BY <1>1, <1>4 DEF Halted
<1>5. ASSUME NEW q \in Mq,
             \/ SendLock(q) \/ TimedSend(q) \/ Receive(q) \/ Register(q) \/ Detach(q)
             \/ \E prio \in MsgPrio, unmasked \in BOOLEAN : IrqSend(q, prio, unmasked)
      PROVE  MqInv'
  BY <1>5, AllocKeeps, EndsKeep, RegisterKeeps, IrqKeeps
<1>6. ASSUME NEW t \in Task, Signal(t) \/ Timeout(t) \/ Start(t) \/ Terminate(t) \/ Restart(t)
      PROVE  MqInv'
  BY <1>6, IrqKeeps, StartKeeps, TerminateKeeps, RestartKeeps
<1>. QED  BY <1>1, <1>2, <1>3, <1>4, <1>5, <1>6 DEF Next

\* nx_start leaves nobody in a call.
LEMMA InitInv == Init => MqInv
<1>. SUFFICES ASSUME Init PROVE MqInv
  OBVIOUS
<1>1. Safe(sched) /\ sched = SchedInit
  BY InitSafe DEF Init
<1>2. \A t \in Task : sched.tstate[t] \notin MqWait
  BY <1>1 DEF SchedInit, MqWait
<1>3. /\ Kernel.sched = sched /\ Kernel.nwait = nwait /\ Kernel.msgwaitq = msgwaitq
      /\ Kernel.cut = cut /\ Kernel.errcode = errcode /\ Kernel.ntpid = ntpid
      /\ Kernel.fault = fault /\ IsKernel(Kernel)
  BY DEF Kernel, IsKernel
<1>4. KTypes(Kernel)
  <2>1. nwait \in [MqWait -> [Mq -> Int]] /\ msgwaitq \in [Task -> Mq \cup {None}]
    BY DEF Init
  <2>2. /\ cut \in [Mq -> SUBSET How] /\ errcode \in [Task -> Errcode]
        /\ ntpid \in [Mq -> Task \cup {None}] /\ fault \in BOOLEAN
    BY DEF Init, How, Errcode
  <2>. QED  BY <1>3, <2>1, <2>2 DEF KTypes
<1>5. \A st \in MqWait, q \in Mq : On(Kernel, st, q) = {} /\ nwait[st][q] = 0
  BY <1>2, <1>3 DEF On, Init
<1>6. Counted(Kernel)
  <2>1. Cardinality({}) = 0
    BY FS_EmptySet
  <2>. QED  BY <1>3, <1>5, <2>1 DEF Counted
<1>7. Assigned(Kernel)
  BY <1>2, <1>3 DEF Assigned
<1>8. CallTypes
  BY DEF Init, CallTypes, Place
<1>9. ASSUME NEW t \in Task PROVE Parked(t) /\ Equipped(t) /\ Alone(t)
  <2>1. pc[t] = "run" /\ victim[t] = None
    BY DEF Init
  <2>2. "run" \notin Held \cup Waits \cup {"tlock"}
    BY DEF Held, Waits
  <2>. QED  BY <1>2, <2>1, <2>2 DEF Parked, Equipped, Alone
<1>. QED  BY <1>1, <1>3, <1>4, <1>6, <1>7, <1>8, <1>9 DEF MqInv, KInv, Calls

\* The invariant: the counts are right, and only the running task is inside a
\* call that does not wait.
THEOREM InvAlways == Spec => []MqInv
<1>1. MqInv /\ [Next]_vars => MqInv'
  BY NextInv
<1>. QED  BY InitInv, <1>1, PTL DEF Spec

\* nwaitnotempty and nwaitnotfull count the tasks on the lists of waiters, unless
\* a task was deleted inside a call on the queue.
THEOREM CountsAgree == Spec => []WaitCountsAgree
<1>1. MqInv => WaitCountsAgree
  <2>. SUFFICES ASSUME MqInv, NEW st \in MqWait, NEW q \in Mq, "deleted" \notin cut[q]
                PROVE  nwait[st][q] = Cardinality(Blocked(st, q))
    BY DEF WaitCountsAgree
  <2>1. On(Kernel, st, q) = Blocked(st, q)
    BY KernelParts DEF On, Blocked
  <2>. QED  BY <2>1, KernelParts DEF KInv, Counted
<1>. QED  BY InvAlways, <1>1, PTL

(***************************************************************************)
(* The messages.                                                           *)
(***************************************************************************)
\* The messages of the set M that are in queues of the set Q.
Slots(list, Q, M) ==
  {at \in Q \X (1..(MaxLen + Cardinality(Task))) :
     at[2] <= Len(list[at[1]]) /\ list[at[1]][at[2]] \in M}

FromTasks == {m \in Message : m.from = "task"}
OfType(type) == {m \in Message : m.type = type}

\* Who holds a message, and what type of message.
Holding == {"insert", "discard", "deliver", "tlock", "tcheck", "tsend"}
HeldOf(type) == {t \in Task : mqmsg[t] = type}
Pool == {"FIXED", "IRQ"}
Total(type) == IF type = "FIXED" THEN Prealloc ELSE IrqPrealloc

MsgTypes == mqmsg \in [Task -> MsgType \cup {None}] /\ pool \in [Pool -> Nat]

\* The list is the messages as they arrived, the most urgent first and those of
\* one priority in the order of their arrival: f is where they are in arr.
SortedBy(f, list, arr) ==
  /\ f \in [1..Len(list) -> 1..Len(arr)]
  /\ \A j \in 1..Len(arr) : \E i \in 1..Len(list) : f[i] = j
  /\ \A i \in 1..Len(list) : list[i] = arr[f[i]]
  /\ \A i, j \in 1..Len(list) : i < j =>
       list[j].prio <= list[i].prio /\ (list[j].prio = list[i].prio => f[i] < f[j])

StableSort(list, arr) == \E f \in [1..Len(list) -> 1..Len(arr)] : SortedBy(f, list, arr)

\* Every list is sorted.  Interrupts may fill a queue up to MaxLen, and a sender
\* that has found room before may add one more.
StablySorted(list, arr) ==
  /\ list \in [Mq -> Seq(Message)] /\ arr \in [Mq -> Seq(Message)]
  /\ \A q \in Mq : StableSort(list[q], arr[q]) /\ Len(list[q]) <= MaxLen + 1

\* How many messages of tasks a queue holds, and whether there is room for one more.
TaskCount(list, q) == Cardinality(Slots(list, {q}, FromTasks))
RoomIn(list, q) == TaskCount(list, q) < MaxMsgs /\ Len(list[q]) <= MaxLen

\* A sender that has found room still has it; who must have a message has it, and
\* a message is only held where it is used.
Claims(t) ==
  /\ pc[t] \in {"alloc", "insert"} => RoomIn(msglist, desc[t])
  /\ pc[t] \in Holding => mqmsg[t] # None
  /\ mqmsg[t] # None => pc[t] \in Holding \cup {"sendwait"}

\* A deleted task that holds a message was taken out of a call.
Mourned(t) ==
  victim[t] # None /\ mqmsg[victim[t]] # None => cut[desc[victim[t]]] # {}

\* The messages of a pool are free, held by a task or in a queue, and those of a
\* task that was taken out of a call are nowhere.
InQueues(type) == Slots(msglist, Mq, OfType(type))
Sum(type) == pool[type] + Cardinality(HeldOf(type)) + Cardinality(InQueues(type))
Accounted(type) ==
  /\ IsFiniteSet(InQueues(type)) /\ Sum(type) <= Total(type)
  /\ (\A q \in Mq : cut[q] = {}) => Sum(type) = Total(type)

MsgInv ==
  /\ StablySorted(msglist, arrived) /\ MsgTypes
  /\ \A q \in Mq : TaskCount(msglist, q) <= MaxMsgs
  /\ \A t \in Task : Claims(t) /\ Mourned(t)
  /\ \A type \in Pool : Accounted(type)

\* Taking the tuple apart.
LEMMA SlotIs ==
  ASSUME NEW list, NEW Q, NEW M, NEW at
  PROVE  at \in Slots(list, Q, M) <=>
           \E q \in Q, i \in 1..(MaxLen + Cardinality(Task)) :
             at = <<q, i>> /\ i <= Len(list[q]) /\ list[q][i] \in M
BY DEF Slots

\* There is place for at least one message more than interrupts may send.
LEMMA Capacity ==
  /\ MaxLen \in Nat /\ MaxMsgs \in Nat /\ MaxMsgs <= MaxLen
  /\ MaxLen + Cardinality(Task) \in Nat /\ MaxLen + 1 <= MaxLen + Cardinality(Task)
<1>1. Cardinality(Task) \in Nat /\ Cardinality(Task) # 0
  BY TaskSets, IdleIsTask
<1>. QED  BY <1>1, MaxMsgsPositive

\* T is a finite set with one element more or less than S, if b, and else with
\* as many.
OneMore(S, T, b) ==
  IsFiniteSet(T) /\ Cardinality(T) = IF b THEN Cardinality(S) + 1 ELSE Cardinality(S)
OneLess(S, T, b) ==
  IsFiniteSet(T) /\ Cardinality(T) = IF b THEN Cardinality(S) - 1 ELSE Cardinality(S)

\* A message more in the list of q.
LEMMA SlotsInsert ==
  ASSUME NEW old \in [Mq -> Seq(Message)], NEW q \in Mq, NEW msg \in Message,
         NEW pos \in 1..(Len(old[q]) + 1), Len(old[q]) <= MaxLen,
         NEW Q \in SUBSET Mq, q \in Q, NEW M \in SUBSET Message, IsFiniteSet(Slots(old, Q, M)),
         NEW new, new[q] = InsertAtPos(old[q], pos, msg), \A p \in Mq : p # q => new[p] = old[p]
  PROVE  OneMore(Slots(old, Q, M), Slots(new, Q, M), msg \in M)
<1>. DEFINE N == MaxLen + Cardinality(Task)
            l == old[q]
            res == InsertAtPos(l, pos, msg)
            S == Slots(old, Q, M)
            T == Slots(new, Q, M)
            here == <<q, pos>>
            f == [at \in S |-> IF at[1] = q /\ at[2] >= pos THEN <<q, at[2] + 1>> ELSE at]
<1>1. l \in Seq(Message) /\ N \in Nat /\ MaxLen + 1 <= N /\ Len(l) \in Nat /\ pos \in Nat /\ Len(l) <= MaxLen /\ MaxLen \in Nat
  BY Capacity
<1>2. /\ Len(res) = Len(l) + 1
      /\ \A j \in 1..(Len(l) + 1) :
           res[j] = IF j < pos THEN l[j] ELSE IF j = pos THEN msg ELSE l[j - 1]
  BY <1>1, InsertAtPosType
<1>3. new[q] = res /\ \A p \in Mq : p # q => new[p] = old[p]
  OBVIOUS
<1>. HIDE DEF res, l
<1>4. ASSUME NEW at PROVE at \in S <=> \E p \in Q, i \in 1..N : at = <<p, i>> /\ i <= Len(old[p]) /\ old[p][i] \in M
  BY SlotIs
<1>5. ASSUME NEW at PROVE at \in T <=> \E p \in Q, i \in 1..N : at = <<p, i>> /\ i <= Len(new[p]) /\ new[p][i] \in M
  BY SlotIs
<1>. HIDE DEF S, T, N
<1>6. ASSUME NEW at \in S PROVE f[at] \in T \ {here}
  <2>1. PICK p \in Q, i \in 1..N : at = <<p, i>> /\ i <= Len(old[p]) /\ old[p][i] \in M
    BY <1>4
  <2>2. CASE p # q
    <3>1. new[p] = old[p] /\ f[at] = at /\ at # here
      BY <1>3, <2>1, <2>2
    <3>. QED  BY <1>5, <2>1, <3>1
  <2>3. CASE p = q /\ i < pos
    <3>1. f[at] = at /\ at # here /\ new[q][i] = old[q][i] /\ i <= Len(new[q])
      BY <1>1, <1>2, <1>3, <2>1, <2>3 DEF l
    <3>. QED  BY <1>5, <2>1, <2>3, <3>1
  <2>4. CASE p = q /\ ~(i < pos)
    <3>1. f[at] = <<q, i + 1>> /\ f[at] # here
      BY <1>1, <2>1, <2>4
    <3>2. i + 1 \in 1..(Len(l) + 1) /\ i + 1 \in 1..N /\ i + 1 <= Len(new[q])
      BY <1>1, <1>2, <1>3, <2>1, <2>4 DEF l
    <3>3. new[q][i + 1] = old[q][i]
      BY <1>1, <1>2, <1>3, <2>1, <2>4, <3>2 DEF l
    <3>. HIDE DEF f
    <3>. QED  BY <1>5, <2>1, <2>4, <3>1, <3>2, <3>3
  <2>. QED  BY <2>2, <2>3, <2>4
<1>7. ASSUME NEW a \in S, NEW b \in S, f[a] = f[b] PROVE a = b
  <2>1. PICK p \in Q, i \in 1..N : a = <<p, i>>
    BY <1>4
  <2>2. PICK o \in Q, j \in 1..N : b = <<o, j>>
    BY <1>4
  <2>3. f[a] = (IF p = q /\ i >= pos THEN <<q, i + 1>> ELSE <<p, i>>)
        /\ f[b] = (IF o = q /\ j >= pos THEN <<q, j + 1>> ELSE <<o, j>>)
    BY <2>1, <2>2
  <2>. QED  BY <1>1, <1>7, <2>1, <2>2, <2>3
<1>8. ASSUME NEW b \in T \ {here} PROVE \E a \in S : f[a] = b
  <2>1. PICK p \in Q, i \in 1..N : b = <<p, i>> /\ i <= Len(new[p]) /\ new[p][i] \in M
    BY <1>5
  <2>2. CASE p # q
    <3>1. new[p] = old[p]
      BY <1>3, <2>2
    <3>2. b \in S
      BY <1>4, <2>1, <3>1
    <3>. QED  BY <2>1, <2>2, <3>2
  <2>3. CASE p = q /\ i < pos
    <3>1. old[q][i] = new[q][i] /\ i <= Len(old[q])
      BY <1>1, <1>2, <1>3, <2>1, <2>3 DEF l
    <3>2. b \in S
      BY <1>4, <2>1, <2>3, <3>1
    <3>3. f[b] = b
      <4>1. b[1] = q /\ b[2] = i /\ ~(i >= pos)
        BY <1>1, <2>1, <2>3
      <4>. QED  BY <3>2, <4>1
    <3>. QED  BY <3>2, <3>3
  <2>4. CASE p = q /\ ~(i < pos)
    <3>1. i # pos /\ i > pos
      BY <1>1, <2>1, <2>4
    <3>2. i - 1 \in 1..N /\ i - 1 <= Len(old[q]) /\ i - 1 >= pos
      BY <1>1, <1>2, <1>3, <2>1, <2>4, <3>1 DEF l
    <3>3. old[q][i - 1] = new[q][i]
      BY <1>1, <1>2, <1>3, <2>1, <2>4, <3>1 DEF l
    <3>4. <<q, i - 1>> \in S
      BY <1>4, <2>1, <2>4, <3>2, <3>3
    <3>5. f[<<q, i - 1>>] = <<q, i - 1 + 1>> /\ i - 1 + 1 = i
      BY <2>1, <3>2, <3>4
    <3>. QED  BY <2>1, <2>4, <3>4, <3>5
  <2>. QED  BY <2>2, <2>3, <2>4
<1>9. ExistsBijection(S, T \ {here})
  <2>1. f \in [S -> T \ {here}]
    <3>1. f = [at \in S |-> f[at]]
      OBVIOUS
    <3>. HIDE DEF f
    <3>. QED  BY <1>6, <3>1
  <2>. HIDE DEF f
  <2>2. f \in Injection(S, T \ {here}) /\ f \in Surjection(S, T \ {here})
    BY <1>7, <1>8, <2>1 DEF Injection, IsInjective, Surjection
  <2>. QED  BY <2>2 DEF ExistsBijection, Bijection
<1>10. IsFiniteSet(T \ {here}) /\ Cardinality(T \ {here}) = Cardinality(S) /\ Cardinality(S) \in Nat
  BY <1>9, FS_Bijection, FS_CardinalityType DEF S
<1>11. here \in T <=> msg \in M
  <2>1. pos \in 1..(Len(l) + 1) /\ pos \in 1..N /\ pos <= Len(new[q])
    BY <1>1, <1>2, <1>3 DEF l
  <2>2. new[q][pos] = msg
    BY <1>1, <1>2, <1>3, <2>1
  <2>. QED  BY <1>5, <2>1, <2>2
<1>12. CASE msg \in M
  <2>1. T = (T \ {here}) \cup {here}
    BY <1>11, <1>12
  <2>2. IsFiniteSet((T \ {here}) \cup {here}) /\ Cardinality((T \ {here}) \cup {here}) = Cardinality(T \ {here}) + 1
    BY <1>10, FS_AddElement
  <2>. QED  BY <1>10, <1>12, <2>1, <2>2 DEF OneMore, S, T
<1>13. CASE msg \notin M
  <2>1. T = T \ {here}
    BY <1>11, <1>13
  <2>. QED  BY <1>10, <1>13, <2>1 DEF OneMore, S, T
<1>. QED  BY <1>12, <1>13

\* A message less in the list of q.
LEMMA SlotsTail ==
  ASSUME NEW old \in [Mq -> Seq(Message)], NEW q \in Mq, old[q] # << >>,
         Len(old[q]) <= MaxLen + 1,
         NEW Q \in SUBSET Mq, q \in Q, NEW M \in SUBSET Message, IsFiniteSet(Slots(old, Q, M)),
         NEW new, new[q] = Tail(old[q]), \A p \in Mq : p # q => new[p] = old[p]
  PROVE  OneLess(Slots(old, Q, M), Slots(new, Q, M), Head(old[q]) \in M)
<1>. DEFINE N == MaxLen + Cardinality(Task)
            l == old[q]
            res == Tail(l)
            S == Slots(new, Q, M)
            T == Slots(old, Q, M)
            here == <<q, 1>>
            f == [at \in S |-> IF at[1] = q THEN <<q, at[2] + 1>> ELSE at]
<1>1. l \in Seq(Message) /\ N \in Nat /\ MaxLen + 1 <= N /\ Len(l) \in Nat /\ Len(l) <= MaxLen + 1 /\ MaxLen \in Nat /\ Len(l) >= 1
  BY Capacity
<1>2. Len(res) = Len(l) - 1 /\ \A j \in 1..(Len(l) - 1) : res[j] = l[j + 1]
  BY <1>1
<1>3. new[q] = res /\ \A p \in Mq : p # q => new[p] = old[p]
  OBVIOUS
<1>4. Head(l) = l[1]
  OBVIOUS
<1>. HIDE DEF res, l
<1>5. ASSUME NEW at PROVE at \in S <=> \E p \in Q, i \in 1..N : at = <<p, i>> /\ i <= Len(new[p]) /\ new[p][i] \in M
  BY SlotIs
<1>6. ASSUME NEW at PROVE at \in T <=> \E p \in Q, i \in 1..N : at = <<p, i>> /\ i <= Len(old[p]) /\ old[p][i] \in M
  BY SlotIs
<1>. HIDE DEF S, T, N
<1>7. ASSUME NEW at \in S PROVE f[at] \in T \ {here}
  <2>1. PICK p \in Q, i \in 1..N : at = <<p, i>> /\ i <= Len(new[p]) /\ new[p][i] \in M
    BY <1>5
  <2>2. CASE p # q
    <3>1. new[p] = old[p] /\ f[at] = at /\ at # here
      BY <1>3, <2>1, <2>2
    <3>. QED  BY <1>6, <2>1, <3>1
  <2>3. CASE p = q
    <3>1. f[at] = <<q, i + 1>> /\ f[at] # here
      BY <1>1, <2>1, <2>3
    <3>2. i \in 1..(Len(l) - 1) /\ i + 1 \in 1..N /\ i + 1 <= Len(old[q])
      BY <1>1, <1>2, <1>3, <2>1, <2>3 DEF l
    <3>3. old[q][i + 1] = new[q][i]
      BY <1>2, <1>3, <2>3, <3>2 DEF l
    <3>. HIDE DEF f
    <3>. QED  BY <1>6, <2>1, <2>3, <3>1, <3>2, <3>3
  <2>. QED  BY <2>2, <2>3
<1>8. ASSUME NEW a \in S, NEW b \in S, f[a] = f[b] PROVE a = b
  <2>1. PICK p \in Q, i \in 1..N : a = <<p, i>>
    BY <1>5
  <2>2. PICK o \in Q, j \in 1..N : b = <<o, j>>
    BY <1>5
  <2>3. f[a] = (IF p = q THEN <<q, i + 1>> ELSE <<p, i>>)
        /\ f[b] = (IF o = q THEN <<q, j + 1>> ELSE <<o, j>>)
    BY <2>1, <2>2
  <2>. QED  BY <1>1, <1>8, <2>1, <2>2, <2>3
<1>9. ASSUME NEW b \in T \ {here} PROVE \E a \in S : f[a] = b
  <2>1. PICK p \in Q, i \in 1..N : b = <<p, i>> /\ i <= Len(old[p]) /\ old[p][i] \in M
    BY <1>6
  <2>2. CASE p # q
    <3>1. new[p] = old[p]
      BY <1>3, <2>2
    <3>2. b \in S
      BY <1>5, <2>1, <3>1
    <3>. QED  BY <2>1, <2>2, <3>2
  <2>3. CASE p = q
    <3>1. i # 1 /\ i - 1 \in 1..N /\ i - 1 \in 1..(Len(l) - 1) /\ i - 1 <= Len(new[q])
      BY <1>1, <1>2, <1>3, <2>1, <2>3 DEF l
    <3>2. new[q][i - 1] = old[q][i]
      <4>1. i - 1 + 1 = i
        OBVIOUS
      <4>. QED  BY <1>2, <1>3, <3>1, <4>1 DEF l
    <3>3. <<q, i - 1>> \in S
      BY <1>5, <2>1, <2>3, <3>1, <3>2
    <3>4. f[<<q, i - 1>>] = <<q, i - 1 + 1>> /\ i - 1 + 1 = i
      BY <3>3
    <3>. QED  BY <2>1, <2>3, <3>3, <3>4
  <2>. QED  BY <2>2, <2>3
<1>10. f \in Injection(S, T \ {here}) /\ f \in Surjection(S, T \ {here})
  <2>1. f \in [S -> T \ {here}]
    <3>1. f = [at \in S |-> f[at]]
      OBVIOUS
    <3>. HIDE DEF f
    <3>. QED  BY <1>7, <3>1
  <2>. HIDE DEF f
  <2>. QED  BY <1>8, <1>9, <2>1 DEF Injection, IsInjective, Surjection
<1>. HIDE DEF f
<1>11. here \in T <=> Head(l) \in M
  <2>1. 1 \in 1..N /\ 1 <= Len(old[q])
    BY <1>1 DEF l
  <2>. QED  BY <1>4, <1>6, <2>1 DEF l
<1>12. /\ IsFiniteSet(T \ {here}) /\ Cardinality(T) \in Nat
       /\ Cardinality(T \ {here}) = IF Head(l) \in M THEN Cardinality(T) - 1 ELSE Cardinality(T)
  <2>1. IsFiniteSet(T)
    BY DEF T
  <2>. HIDE DEF here
  <2>. QED  BY <1>11, <2>1, FS_RemoveElement, FS_CardinalityType
<1>13. IsFiniteSet(S) /\ Cardinality(S) = Cardinality(T \ {here})
  BY <1>10, <1>12, FS_Injection
<1>. QED  BY <1>12, <1>13 DEF OneLess, S, T, l

\* The messages of one queue are its entries.
LEMMA SlotsOne ==
  ASSUME NEW list \in [Mq -> Seq(Message)], NEW q \in Mq, Len(list[q]) <= MaxLen + 1,
         NEW M \in SUBSET Message
  PROVE  LET S == Slots(list, {q}, M)
             I == {i \in 1..Len(list[q]) : list[q][i] \in M}
         IN  IsFiniteSet(S) /\ Cardinality(S) = Cardinality(I) /\ Cardinality(S) <= Len(list[q])
<1>. DEFINE N == MaxLen + Cardinality(Task)
            S == Slots(list, {q}, M)
            n == Len(list[q])
            I == {i \in 1..n : list[q][i] \in M}
            f == [i \in I |-> <<q, i>>]
<1>1. n \in Nat /\ N \in Nat /\ n <= N
  BY Capacity
<1>2. ASSUME NEW at PROVE at \in S <=> \E i \in I : at = <<q, i>>
  BY <1>1, SlotIs
<1>3. IsFiniteSet(I) /\ Cardinality(I) <= n /\ Cardinality(I) \in Nat
  <2>2. I \in SUBSET (1..n)
    OBVIOUS
  <2>. HIDE DEF I, n
  <2>1. IsFiniteSet(1..n) /\ Cardinality(1..n) = n
    BY <1>1, FS_Interval
  <2>. QED  BY <2>1, <2>2, FS_Subset, FS_CardinalityType
<1>. HIDE DEF S, I, n, N
<1>4. f \in Injection(I, S) /\ f \in Surjection(I, S)
  <2>1. \A i \in I : <<q, i>> \in S
    BY <1>2
  <2>2. \A i, j \in I : <<q, i>> = <<q, j>> => i = j
    OBVIOUS
  <2>3. \A at \in S : \E i \in I : f[i] = at
    BY <1>2
  <2>. QED  BY <2>1, <2>2, <2>3 DEF Injection, IsInjective, Surjection
<1>5. ExistsBijection(I, S)
  BY <1>4 DEF ExistsBijection, Bijection
<1>6. IsFiniteSet(S) /\ Cardinality(S) = Cardinality(I)
  BY <1>3, <1>5, FS_Bijection
<1>. QED  BY <1>3, <1>6 DEF S, I, n

\* Another queue's list has nothing to do with it.
LEMMA SlotsOther ==
  ASSUME NEW old, NEW new, NEW p, new[p] = old[p], NEW M
  PROVE  Slots(new, {p}, M) = Slots(old, {p}, M)
BY DEF Slots

\* Priorities can be compared.
LEMMA PriosCompare ==
  ASSUME NEW m \in Message
  PROVE  m.prio \in Nat
<1>1. m.prio \in MsgPrio
  BY DEF Message
<1>. QED  BY <1>1, MsgPrioNat

\* nxmq_do_send finds the place for a message: behind those that are at least as
\* urgent and in front of one that is less urgent, if there is one.
LEMMA MsgPosFound ==
  ASSUME NEW list \in Seq(Message), NEW prio \in Nat
  PROVE  LET pos == MsgPos(list, prio)
         IN  /\ pos \in 1..(Len(list) + 1)
             /\ \A j \in 1..(pos - 1) : prio <= list[j].prio
             /\ pos <= Len(list) => list[pos].prio < prio
<1>. DEFINE n == Len(list)
            B == {i \in 1..n : list[i].prio < prio} \cup {n + 1}
<1>1. B \in SUBSET Nat /\ B # {} /\ n \in Nat
  OBVIOUS
<1>2. PICK m \in B : \A i \in B : m <= i
  <2>. HIDE DEF B
  <2>. QED  BY <1>1, LeastNat
<1>3. \A i \in 1..n : list[i].prio \in Nat
  BY PriosCompare
<1>4. m \in 1..(n + 1) /\ \A j \in 1..(m - 1) : prio <= list[j].prio
  <2>1. m \in 1..(n + 1)
    BY <1>1
  <2>2. ASSUME NEW j \in 1..(m - 1) PROVE prio <= list[j].prio
    <3>1. j \in 1..n /\ j \notin B /\ list[j].prio \in Nat
      BY <1>2, <1>3, <2>1
    <3>. QED  BY <3>1
  <2>. QED  BY <2>1, <2>2
<1>5. m <= n => list[m].prio < prio
  BY <1>1
<1>. QED  BY <1>4, <1>5 DEF MsgPos

\* The list stays sorted when a message is sent, and it goes to the end of the
\* messages that arrived.
LEMMA SortedInsert ==
  ASSUME NEW list \in Seq(Message), NEW arr \in Seq(Message), StableSort(list, arr),
         NEW msg \in Message
  PROVE  StableSort(InsertAtPos(list, MsgPos(list, msg.prio), msg), Append(arr, msg))
<1>. DEFINE pos == MsgPos(list, msg.prio)
            n == Len(list)
            m == Len(arr)
            l2 == InsertAtPos(list, pos, msg)
            a2 == Append(arr, msg)
<1>1. PICK f \in [1..n -> 1..m] : SortedBy(f, list, arr)
  BY DEF StableSort
<1>2. /\ pos \in 1..(n + 1) /\ (\A j \in 1..(pos - 1) : msg.prio <= list[j].prio)
      /\ (pos <= n => list[pos].prio < msg.prio)
      /\ n \in Nat /\ m \in Nat /\ msg.prio \in Nat
      /\ \A i \in 1..n : list[i].prio \in Nat
  <2>1. msg.prio \in Nat /\ \A i \in 1..n : list[i].prio \in Nat
    <3>1. msg.prio \in Nat
      BY PriosCompare
    <3>2. ASSUME NEW i \in 1..n PROVE list[i].prio \in Nat
      <4>1. list[i] \in Message
        OBVIOUS
      <4>. QED  BY <4>1, PriosCompare
    <3>. QED  BY <3>1, <3>2
  <2>2. PICK p \in Nat : p = msg.prio
    BY <2>1
  <2>3. /\ pos \in 1..(n + 1) /\ (\A j \in 1..(pos - 1) : p <= list[j].prio)
        /\ (pos <= n => list[pos].prio < p)
    BY <2>2, MsgPosFound
  <2>4. n \in Nat /\ m \in Nat
    OBVIOUS
  <2>. HIDE DEF pos, n, m
  <2>. QED  BY <2>1, <2>2, <2>3, <2>4
<1>. HIDE DEF pos
<1>3. /\ Len(l2) = n + 1
      /\ \A j \in 1..(n + 1) : l2[j] = IF j < pos THEN list[j] ELSE IF j = pos THEN msg ELSE list[j - 1]
  BY <1>2, InsertAtPosType
<1>4. Len(a2) = m + 1 /\ a2[m + 1] = msg /\ \A j \in 1..m : a2[j] = arr[j]
  OBVIOUS
<1>. DEFINE g == [j \in 1..(n + 1) |-> IF j < pos THEN f[j] ELSE IF j = pos THEN m + 1 ELSE f[j - 1]]
<1>5. /\ f \in [1..n -> 1..m] /\ (\A j \in 1..m : \E i \in 1..n : f[i] = j)
      /\ (\A i \in 1..n : list[i] = arr[f[i]])
      /\ \A i, j \in 1..n : i < j =>
           list[j].prio <= list[i].prio /\ (list[j].prio = list[i].prio => f[i] < f[j])
  BY <1>1 DEF SortedBy
<1>. HIDE DEF l2, a2, n, m
<1>6. g \in [1..(n + 1) -> 1..(m + 1)]
  <2>. SUFFICES ASSUME NEW j \in 1..(n + 1)
                PROVE  (IF j < pos THEN f[j] ELSE IF j = pos THEN m + 1 ELSE f[j - 1]) \in 1..(m + 1)
    OBVIOUS
  <2>1. CASE j < pos
    <3>1. j \in 1..n
      BY <1>2, <2>1
    <3>. QED  BY <1>2, <1>5, <2>1, <3>1
  <2>2. CASE j = pos
    BY <1>2, <2>2
  <2>3. CASE j > pos
    <3>1. j - 1 \in 1..n
      BY <1>2, <2>3
    <3>2. PICK k \in 1..n : k = j - 1
      BY <3>1
    <3>3. f[k] \in 1..m
      BY <1>5
    <3>4. f[k] \in 1..(m + 1)
      BY <1>2, <3>3
    <3>5. ~(j < pos) /\ j # pos
      BY <1>2, <2>3
    <3>. QED  BY <3>2, <3>4, <3>5
  <2>. QED  BY <1>2, <2>1, <2>2, <2>3
<1>7. ASSUME NEW j \in 1..(m + 1) PROVE \E i \in 1..(n + 1) : g[i] = j
  <2>1. CASE j = m + 1
    <3>1. g[pos] = m + 1
      BY <1>2
    <3>. HIDE DEF g
    <3>. QED  BY <1>2, <2>1, <3>1
  <2>2. CASE j # m + 1
    <3>1. PICK i \in 1..n : f[i] = j
      BY <1>2, <1>5, <2>2
    <3>2. CASE i < pos
      <4>1. i \in 1..(n + 1) /\ g[i] = f[i]
        BY <1>2, <3>2
      <4>. QED  BY <3>1, <4>1
    <3>3. CASE ~(i < pos)
      <4>1. i + 1 \in 1..(n + 1) /\ i + 1 > pos /\ i + 1 - 1 = i
        BY <1>2, <3>3
      <4>2. g[i + 1] = f[i]
        BY <1>2, <4>1
      <4>. QED  BY <3>1, <4>1, <4>2
    <3>. QED  BY <3>2, <3>3
  <2>. QED  BY <2>1, <2>2
<1>8. ASSUME NEW i \in 1..(n + 1) PROVE l2[i] = a2[g[i]]
  <2>1. CASE i < pos
    <3>1. i \in 1..n /\ g[i] = f[i] /\ l2[i] = list[i] /\ f[i] \in 1..m
      BY <1>2, <1>3, <1>5, <2>1
    <3>. HIDE DEF g
    <3>. QED  BY <1>4, <1>5, <3>1
  <2>2. CASE i = pos
    BY <1>2, <1>3, <1>4, <2>2
  <2>3. CASE i > pos
    <3>1. i - 1 \in 1..n /\ g[i] = f[i - 1] /\ l2[i] = list[i - 1]
      BY <1>2, <1>3, <2>3
    <3>. HIDE DEF g
    <3>2. f[i - 1] \in 1..m
      BY <1>5, <3>1
    <3>. QED  BY <1>4, <1>5, <3>1, <3>2
  <2>. QED  BY <1>2, <2>1, <2>2, <2>3
<1>9. ASSUME NEW i \in 1..(n + 1), NEW j \in 1..(n + 1), i < j
      PROVE  l2[j].prio <= l2[i].prio /\ (l2[j].prio = l2[i].prio => g[i] < g[j])
  <2>1. CASE j < pos
    <3>1. i \in 1..n /\ j \in 1..n /\ g[i] = f[i] /\ g[j] = f[j] /\ l2[i] = list[i] /\ l2[j] = list[j]
      BY <1>2, <1>3, <1>9, <2>1
    <3>. HIDE DEF g
    <3>. QED  BY <1>5, <1>9, <3>1
  <2>2. CASE j = pos
    <3>1. i \in 1..n /\ i \in 1..(pos - 1) /\ g[i] = f[i] /\ g[j] = m + 1 /\ l2[i] = list[i]
      BY <1>2, <1>3, <1>9, <2>2
    <3>. HIDE DEF g
    <3>2. f[i] \in 1..m /\ l2[j] = msg /\ msg.prio <= list[i].prio
      <4>1. f[i] \in 1..m
        BY <1>5, <3>1
      <4>2. l2[j] = msg
        BY <1>2, <1>3, <2>2
      <4>3. msg.prio <= list[i].prio
        BY <1>2, <3>1
      <4>. QED  BY <4>1, <4>2, <4>3
    <3>. QED  BY <1>2, <3>1, <3>2
  <2>3. CASE j > pos /\ i < pos
    <3>2. /\ i \in 1..n /\ j - 1 \in 1..n /\ i < j - 1 /\ g[i] = f[i] /\ g[j] = f[j - 1]
          /\ l2[i] = list[i] /\ l2[j] = list[j - 1]
      BY <1>2, <1>3, <1>9, <2>3
    <3>. HIDE DEF g
    <3>. QED  BY <1>5, <3>2
  <2>4. CASE j > pos /\ i = pos
    <3>1. j - 1 \in 1..n /\ pos \in 1..n /\ l2[i] = msg /\ l2[j] = list[j - 1]
      <4>1. j - 1 \in 1..n /\ pos \in 1..n
        BY <1>2, <1>9, <2>4
      <4>2. l2[i] = msg
        BY <1>2, <1>3, <2>4
      <4>3. l2[j] = list[j - 1]
        BY <1>2, <1>3, <2>4
      <4>. QED  BY <4>1, <4>2, <4>3
    <3>2. PICK k \in 1..n : k = j - 1
      BY <3>1
    <3>. HIDE DEF g
    <3>3. pos <= n /\ list[pos].prio < msg.prio /\ list[pos].prio \in Nat /\ list[k].prio \in Nat
      BY <1>2, <3>1
    <3>4. list[k].prio <= list[pos].prio
      <4>1. pos = k \/ pos < k
        BY <1>2, <2>4, <3>2
      <4>2. CASE pos = k
        BY <3>3, <4>2
      <4>3. CASE pos < k
        BY <1>5, <3>1, <4>3
      <4>. QED  BY <4>1, <4>2, <4>3
    <3>5. l2[j].prio = list[k].prio /\ l2[i].prio = msg.prio
      BY <3>1, <3>2
    <3>6. msg.prio \in Nat
      BY <1>2
    <3>7. l2[j].prio < l2[i].prio /\ l2[j].prio \in Nat /\ l2[i].prio \in Nat
      BY <3>3, <3>4, <3>5, <3>6
    <3>. QED  BY <3>7
  <2>5. CASE i > pos
    <3>1. i - 1 \in 1..n /\ j - 1 \in 1..n /\ i - 1 < j - 1 /\ ~(i < pos) /\ i # pos /\ ~(j < pos) /\ j # pos
      <4>1. n \in Nat /\ pos \in 1..(n + 1) /\ i \in 1..(n + 1) /\ j \in 1..(n + 1) /\ i < j /\ pos < i
        BY <1>2, <1>9, <2>5
      <4>. HIDE DEF g
      <4>. QED  BY <4>1
    <3>2. l2[i] = list[i - 1] /\ l2[j] = list[j - 1]
      BY <1>3, <3>1
    <3>3. g[i] = f[i - 1] /\ g[j] = f[j - 1]
      BY <3>1
    <3>4. PICK i1 \in 1..n : i1 = i - 1
      BY <3>1
    <3>5. PICK j1 \in 1..n : j1 = j - 1
      BY <3>1
    <3>. HIDE DEF g
    <3>6. i1 < j1 /\ l2[i] = list[i1] /\ l2[j] = list[j1] /\ g[i] = f[i1] /\ g[j] = f[j1]
      BY <3>1, <3>2, <3>3, <3>4, <3>5
    <3>. QED  BY <1>5, <3>6
  <2>. QED  BY <1>2, <1>9, <2>1, <2>2, <2>3, <2>4, <2>5
<1>. HIDE DEF g
<1>10. SortedBy(g, l2, a2)
  BY <1>3, <1>4, <1>6, <1>7, <1>8, <1>9 DEF SortedBy
<1>. QED  BY <1>3, <1>4, <1>6, <1>10 DEF StableSort, l2, a2, pos

\* When the first message came, and the others without it.
Came(arr, msg) == CHOOSE j \in 1..Len(arr) : arr[j] = msg /\ \A h \in 1..(j - 1) : arr[h] # msg
Others(arr, i) == SubSeq(arr, 1, i - 1) \o SubSeq(arr, i + 1, Len(arr))

\* Taking one out.
LEMMA OthersAre ==
  ASSUME NEW arr \in Seq(Message), NEW i \in 1..Len(arr)
  PROVE  /\ Others(arr, i) \in Seq(Message) /\ Len(Others(arr, i)) = Len(arr) - 1
         /\ \A j \in 1..(Len(arr) - 1) : Others(arr, i)[j] = IF j < i THEN arr[j] ELSE arr[j + 1]
<1>. DEFINE m == Len(arr)
            a == SubSeq(arr, 1, i - 1)
            b == SubSeq(arr, i + 1, m)
<1>1. m \in Nat /\ i \in Nat /\ 1 <= i /\ i <= m
  OBVIOUS
<1>2. a \in Seq(Message) /\ Len(a) = i - 1 /\ \A j \in 1..(i - 1) : a[j] = arr[j]
  <2>1. \A j \in 1..(i - 1) : j \in 1..m
    BY <1>1
  <2>. QED  BY <1>1, <2>1
<1>3. b \in Seq(Message) /\ Len(b) = m - i /\ \A j \in 1..(m - i) : b[j] = arr[j + i]
  <2>1. \A j \in (i + 1)..m : j \in 1..m
    BY <1>1
  <2>. QED  BY <1>1, <2>1
<1>. HIDE DEF a, b
<1>4. /\ a \o b \in Seq(Message) /\ Len(a \o b) = m - 1
      /\ \A j \in 1..(m - 1) : (a \o b)[j] = IF j < i THEN a[j] ELSE b[j - (i - 1)]
  <2>0. a \in Seq(Message) /\ b \in Seq(Message)
    BY <1>2, <1>3
  <2>1. a \o b \in Seq(Message) /\ Len(a \o b) = Len(a) + Len(b)
    BY <2>0
  <2>2. \A j \in 1..(Len(a) + Len(b)) : (a \o b)[j] = IF j <= Len(a) THEN a[j] ELSE b[j - Len(a)]
    BY <1>2, <1>3
  <2>. QED  BY <1>1, <1>2, <1>3, <2>1, <2>2
<1>5. ASSUME NEW j \in 1..(m - 1) PROVE (a \o b)[j] = IF j < i THEN arr[j] ELSE arr[j + 1]
  <2>1. CASE j < i
    BY <1>1, <1>2, <1>4, <2>1
  <2>2. CASE ~(j < i)
    <3>1. j - (i - 1) \in 1..(m - i) /\ j - (i - 1) + i = j + 1
      BY <1>1, <2>2
    <3>2. b[j - (i - 1)] = arr[j - (i - 1) + i]
      BY <1>3, <3>1
    <3>. QED  BY <1>4, <2>2, <3>1, <3>2
  <2>. QED  BY <2>1, <2>2
<1>6. Others(arr, i) = a \o b
  BY DEF Others, a, b
<1>. QED  BY <1>4, <1>5, <1>6

\* The first of the list is the oldest of the highest priority, and the rest stays
\* sorted.
LEMMA SortedTake ==
  ASSUME NEW list \in Seq(Message), NEW arr \in Seq(Message), StableSort(list, arr), list # << >>
  PROVE  LET i == Came(arr, Head(list))
         IN  /\ i \in 1..Len(arr)
             /\ \A j \in 1..Len(arr) :
                  arr[j].prio <= arr[i].prio /\ (j < i => arr[j].prio < arr[i].prio)
             /\ StableSort(Tail(list), Others(arr, i))
<1>. DEFINE n == Len(list)
            m == Len(arr)
            msg == Head(list)
            i == Came(arr, msg)
            l2 == Tail(list)
            a2 == Others(arr, i)
<1>1. n \in Nat /\ n >= 1 /\ m \in Nat /\ 1 \in 1..n /\ msg = list[1]
  OBVIOUS
<1>2. PICK f \in [1..n -> 1..m] : SortedBy(f, list, arr)
  BY DEF StableSort
<1>3. /\ f \in [1..n -> 1..m] /\ (\A j \in 1..m : \E k \in 1..n : f[k] = j)
      /\ (\A k \in 1..n : list[k] = arr[f[k]])
      /\ \A k, j \in 1..n : k < j =>
           list[j].prio <= list[k].prio /\ (list[j].prio = list[k].prio => f[k] < f[j])
  BY <1>2 DEF SortedBy
<1>4. \A k \in 1..n : list[k].prio \in Nat
  <2>. SUFFICES ASSUME NEW k \in 1..n PROVE list[k].prio \in Nat
    OBVIOUS
  <2>1. list[k] \in Message
    OBVIOUS
  <2>. QED  BY <2>1, PriosCompare
<1>5. Len(l2) = n - 1 /\ \A k \in 1..(n - 1) : l2[k] = list[k + 1]
  BY <1>1
<1>. HIDE DEF n, m, l2, msg
<1>6. PICK p \in 1..m : p = f[1]
  BY <1>1, <1>3
<1>7. arr[p] = msg /\ msg.prio \in Nat
  BY <1>1, <1>3, <1>4, <1>6
<1>8. ASSUME NEW j \in 1..m
      PROVE  arr[j].prio \in Nat /\ arr[j].prio <= msg.prio /\ (j < p => arr[j].prio < msg.prio)
  <2>1. PICK k \in 1..n : f[k] = j
    BY <1>3
  <2>2. arr[j] = list[k] /\ list[k].prio \in Nat
    BY <1>3, <1>4, <2>1
  <2>3. CASE k = 1
    <3>1. j = p
      BY <1>6, <2>1, <2>3
    <3>. QED  BY <1>7, <3>1
  <2>4. CASE k # 1
    <3>1. 1 < k
      BY <1>1, <2>4
    <3>2. list[k].prio <= list[1].prio /\ (list[k].prio = list[1].prio => f[1] < f[k])
      BY <1>1, <1>3, <3>1
    <3>. QED  BY <1>1, <1>6, <1>7, <2>1, <2>2, <3>2
  <2>. QED  BY <2>3, <2>4
<1>9. i = p
  <2>1. ASSUME NEW j \in 1..m, j < p PROVE arr[j] # msg
    <3>1. arr[j].prio < msg.prio /\ arr[j].prio \in Nat
      BY <1>8, <2>1
    <3>. QED  BY <1>7, <3>1
  <2>2. arr[p] = msg /\ \A h \in 1..(p - 1) : arr[h] # msg
    <3>1. \A h \in 1..(p - 1) : h \in 1..m /\ h < p
      BY <1>1
    <3>. QED  BY <1>7, <2>1, <3>1
  <2>3. i = CHOOSE j \in 1..m : arr[j] = msg /\ \A h \in 1..(j - 1) : arr[h] # msg
    BY DEF Came, m
  <2>. HIDE DEF i
  <2>4. i \in 1..m /\ arr[i] = msg /\ \A h \in 1..(i - 1) : arr[h] # msg
    BY <2>2, <2>3
  <2>5. ~(i < p)
    BY <2>1, <2>4
  <2>6. ~(p < i)
    <3>. SUFFICES ASSUME p < i PROVE FALSE
      OBVIOUS
    <3>1. p \in 1..(i - 1)
      BY <1>1, <2>4
    <3>. QED  BY <1>7, <2>4, <3>1
  <2>. QED  BY <1>1, <2>4, <2>5, <2>6
<1>10. /\ Len(a2) = m - 1 /\ \A j \in 1..(m - 1) : a2[j] = IF j < p THEN arr[j] ELSE arr[j + 1]
  BY <1>9, OthersAre DEF m
<1>. HIDE DEF i, a2
<1>. DEFINE g == [k \in 1..(n - 1) |-> IF f[k + 1] < p THEN f[k + 1] ELSE f[k + 1] - 1]
<1>11. ASSUME NEW k \in 1..(n - 1)
       PROVE  /\ k + 1 \in 1..n /\ f[k + 1] \in 1..m /\ f[k + 1] # p
              /\ list[k + 1] = arr[f[k + 1]] /\ list[k + 1].prio \in Nat
  <2>1. k + 1 \in 1..n /\ 1 < k + 1
    BY <1>1
  <2>2. f[k + 1] \in 1..m /\ list[k + 1] = arr[f[k + 1]] /\ list[k + 1].prio \in Nat
    BY <1>3, <1>4, <2>1
  <2>3. f[k + 1] # p
    <3>1. list[k + 1].prio = list[1].prio => f[1] < f[k + 1]
      BY <1>1, <1>3, <2>1
    <3>2. f[k + 1] = p => list[k + 1] = list[1]
      BY <1>1, <1>7, <2>2
    <3>3. ~(p < p)
      BY <1>1
    <3>. QED  BY <1>6, <3>1, <3>2, <3>3
  <2>. QED  BY <2>1, <2>2, <2>3
<1>12. ASSUME NEW k \in 1..(n - 1)
       PROVE  g[k] \in 1..(m - 1) /\ a2[g[k]] = list[k + 1]
  <2>1. PICK x \in 1..m : x = f[k + 1] /\ x # p /\ list[k + 1] = arr[x]
    BY <1>11
  <2>2. g[k] = IF x < p THEN x ELSE x - 1
    BY <2>1
  <2>. HIDE DEF g
  <2>3. CASE x < p
    <3>1. x \in 1..(m - 1)
      BY <1>1, <2>3
    <3>. QED  BY <1>10, <2>1, <2>2, <2>3, <3>1
  <2>4. CASE ~(x < p)
    <3>1. PICK y \in 1..(m - 1) : y = x - 1 /\ ~(y < p) /\ y + 1 = x
      BY <1>1, <2>1, <2>4
    <3>. QED  BY <1>10, <2>1, <2>2, <2>4, <3>1
  <2>. QED  BY <2>3, <2>4
<1>13. g \in [1..(n - 1) -> 1..(m - 1)]
  <2>1. g = [k \in 1..(n - 1) |-> g[k]]
    OBVIOUS
  <2>. HIDE DEF g
  <2>. QED  BY <1>12, <2>1
<1>14. ASSUME NEW j \in 1..(m - 1) PROVE \E k \in 1..(n - 1) : g[k] = j
  <2>1. PICK x \in 1..m : x = IF j < p THEN j ELSE j + 1
    BY <1>1
  <2>2. x # p /\ j = IF x < p THEN x ELSE x - 1
    BY <1>1, <2>1
  <2>3. PICK k \in 1..n : f[k] = x
    BY <1>3
  <2>4. k # 1
    BY <1>6, <2>2, <2>3
  <2>5. PICK h \in 1..(n - 1) : h + 1 = k
    <3>1. k - 1 \in 1..(n - 1) /\ k - 1 + 1 = k
      BY <1>1, <2>4
    <3>. QED  BY <3>1
  <2>6. g[h] = IF x < p THEN x ELSE x - 1
    BY <2>3, <2>5
  <2>. QED  BY <2>2, <2>6
<1>15. ASSUME NEW k \in 1..(n - 1), NEW j \in 1..(n - 1), k < j
       PROVE  l2[j].prio <= l2[k].prio /\ (l2[j].prio = l2[k].prio => g[k] < g[j])
  <2>1. PICK x \in 1..m : x = f[k + 1] /\ x # p
    BY <1>11
  <2>2. PICK y \in 1..m : y = f[j + 1] /\ y # p
    BY <1>11
  <2>3. g[k] = (IF x < p THEN x ELSE x - 1) /\ g[j] = (IF y < p THEN y ELSE y - 1)
    BY <2>1, <2>2
  <2>. HIDE DEF g
  <2>4. PICK k1 \in 1..n : k1 = k + 1
    BY <1>11
  <2>5. PICK j1 \in 1..n : j1 = j + 1
    BY <1>11
  <2>6. k1 < j1
    BY <1>1, <1>15, <2>4, <2>5
  <2>7. list[j1].prio <= list[k1].prio /\ (list[j1].prio = list[k1].prio => x < y)
    BY <1>3, <2>1, <2>2, <2>4, <2>5, <2>6
  <2>8. l2[j] = list[j1] /\ l2[k] = list[k1]
    BY <1>5, <2>4, <2>5
  <2>9. x < y => g[k] < g[j]
    <3>1. x \in Nat /\ y \in Nat /\ p \in Nat /\ x # p /\ y # p
      BY <1>1, <2>1, <2>2
    <3>. QED  BY <2>3, <3>1
  <2>10. l2[j].prio <= l2[k].prio
    BY <2>7, <2>8
  <2>11. l2[j].prio = l2[k].prio => x < y
    BY <2>7, <2>8
  <2>. QED  BY <2>9, <2>10, <2>11
<1>. HIDE DEF g
<1>16. SortedBy(g, l2, a2)
  BY <1>5, <1>10, <1>12, <1>13, <1>14, <1>15 DEF SortedBy
<1>17. StableSort(l2, a2)
  BY <1>5, <1>10, <1>13, <1>16 DEF StableSort
<1>. QED  BY <1>7, <1>8, <1>9, <1>17 DEF l2, a2, i, m, msg

AddedTo(list, q, msg) == [list EXCEPT ![q] = InsertAtPos(@, MsgPos(@, msg.prio), msg)]
TakenFrom(list, q) == [list EXCEPT ![q] = Tail(@)]

\* The sets of messages that are counted.
LEMMA CountedSets ==
  /\ FromTasks \in SUBSET Message /\ \A type : OfType(type) \in SUBSET Message
  /\ \A m \in Message : (m \in FromTasks <=> m.from = "task") /\ m.type \in MsgType
  /\ \A type : \A m \in Message : m \in OfType(type) <=> m.type = type
BY DEF FromTasks, OfType, Message, MsgType

\* A message is inserted.
LEMMA AddedFacts ==
  ASSUME NEW l, NEW a, StablySorted(l, a), NEW q \in Mq, NEW msg \in Message, Len(l[q]) <= MaxLen
  PROVE  LET l2 == AddedTo(l, q, msg)
             a2 == [a EXCEPT ![q] = Append(@, msg)]
         IN  /\ StablySorted(l2, a2)
             /\ Len(l2[q]) = Len(l[q]) + 1 /\ (\A p \in Mq : p # q => l2[p] = l[p])
             /\ \A p \in Mq : OneMore(Slots(l, {p}, FromTasks), Slots(l2, {p}, FromTasks),
                                      p = q /\ msg.from = "task")
             /\ \A type : IsFiniteSet(Slots(l, Mq, OfType(type))) =>
                  OneMore(Slots(l, Mq, OfType(type)), Slots(l2, Mq, OfType(type)), msg.type = type)
<1>. DEFINE pos == MsgPos(l[q], msg.prio)
            res == InsertAtPos(l[q], pos, msg)
            l2 == AddedTo(l, q, msg)
            a2 == [a EXCEPT ![q] = Append(@, msg)]
<1>1. /\ l \in [Mq -> Seq(Message)] /\ a \in [Mq -> Seq(Message)]
      /\ \A p \in Mq : StableSort(l[p], a[p]) /\ Len(l[p]) <= MaxLen + 1
  BY DEF StablySorted
<1>2. pos \in 1..(Len(l[q]) + 1)
  <2>1. l[q] \in Seq(Message) /\ msg.prio \in Nat
    BY <1>1, PriosCompare
  <2>. QED  BY <2>1, MsgPosFound
<1>3. l2 = [l EXCEPT ![q] = res]
  BY <1>1 DEF AddedTo
<1>4. StableSort(res, Append(a[q], msg))
  <2>1. l[q] \in Seq(Message) /\ a[q] \in Seq(Message) /\ StableSort(l[q], a[q])
    BY <1>1
  <2>. QED  BY <2>1, SortedInsert
<1>. HIDE DEF pos
<1>5. res \in Seq(Message) /\ Len(res) = Len(l[q]) + 1
  BY <1>1, <1>2, InsertAtPosType
<1>. HIDE DEF res, l2
<1>8. /\ l2 \in [Mq -> Seq(Message)] /\ l2[q] = res /\ \A p \in Mq : p # q => l2[p] = l[p]
  BY <1>1, <1>3, <1>5
<1>12. ASSUME NEW Q \in SUBSET Mq, q \in Q, NEW M \in SUBSET Message, IsFiniteSet(Slots(l, Q, M))
       PROVE  OneMore(Slots(l, Q, M), Slots(l2, Q, M), msg \in M)
  <2>1. l2[q] = InsertAtPos(l[q], pos, msg)
    BY <1>8 DEF res
  <2>2. \A p \in Mq : p # q => l2[p] = l[p]
    BY <1>8
  <2>. QED  BY <1>1, <1>2, <1>12, <2>1, <2>2, SlotsInsert
<1>6. ASSUME NEW type, IsFiniteSet(Slots(l, Mq, OfType(type)))
      PROVE  OneMore(Slots(l, Mq, OfType(type)), Slots(l2, Mq, OfType(type)), msg.type = type)
  <2>1. OfType(type) \in SUBSET Message /\ (msg \in OfType(type) <=> msg.type = type) /\ Mq \in SUBSET Mq
    BY CountedSets
  <2>3. OneMore(Slots(l, Mq, OfType(type)), Slots(l2, Mq, OfType(type)), msg \in OfType(type))
    BY <1>6, <1>12, <2>1
  <2>. QED  BY <2>1, <2>3 DEF OneMore, OneLess
<1>7. ASSUME NEW p \in Mq
      PROVE  OneMore(Slots(l, {p}, FromTasks), Slots(l2, {p}, FromTasks), p = q /\ msg.from = "task")
  <2>1. CASE p # q
    <3>1. l2[p] = l[p]
      BY <1>8, <2>1
    <3>2. Slots(l2, {p}, FromTasks) = Slots(l, {p}, FromTasks)
      BY <3>1, SlotsOther
    <3>3. FromTasks \in SUBSET Message
      BY CountedSets
    <3>4. IsFiniteSet(Slots(l, {p}, FromTasks))
      BY <1>1, <3>3, SlotsOne
    <3>. QED  BY <2>1, <3>2, <3>4 DEF OneMore
  <2>2. CASE p = q
    <3>1. FromTasks \in SUBSET Message /\ (msg \in FromTasks <=> msg.from = "task") /\ {q} \in SUBSET Mq /\ q \in {q}
      BY CountedSets
    <3>2. IsFiniteSet(Slots(l, {q}, FromTasks))
      BY <1>1, <3>1, SlotsOne
    <3>4. OneMore(Slots(l, {q}, FromTasks), Slots(l2, {q}, FromTasks), msg \in FromTasks)
      BY <1>12, <3>1, <3>2
    <3>. QED  BY <2>2, <3>1, <3>4 DEF OneMore
  <2>. QED  BY <2>1, <2>2
<1>9. /\ a2 \in [Mq -> Seq(Message)] /\ a2[q] = Append(a[q], msg) /\ \A p \in Mq : p # q => a2[p] = a[p]
  BY <1>1
<1>. HIDE DEF a2
<1>10. StablySorted(l2, a2)
  <2>. SUFFICES ASSUME NEW p \in Mq PROVE StableSort(l2[p], a2[p]) /\ Len(l2[p]) <= MaxLen + 1
    BY <1>8, <1>9 DEF StablySorted
  <2>1. CASE p # q
    BY <1>1, <1>8, <1>9, <2>1
  <2>2. CASE p = q
    <3>1. Len(l[q]) \in Nat /\ MaxLen \in Nat
      BY <1>1, Capacity
    <3>2. StableSort(l2[q], a2[q])
      BY <1>4, <1>8, <1>9
    <3>3. Len(l2[q]) <= MaxLen + 1
      BY <1>5, <1>8, <3>1
    <3>. QED  BY <2>2, <3>2, <3>3
  <2>. QED  BY <2>1, <2>2
<1>. QED  BY <1>5, <1>6, <1>7, <1>8, <1>10 DEF l2, a2

\* The first message is taken.
LEMMA TakenFacts ==
  ASSUME NEW l, NEW a, StablySorted(l, a), NEW q \in Mq, l[q] # << >>
  PROVE  LET l2 == TakenFrom(l, q)
             i == Came(a[q], Head(l[q]))
             a2 == [a EXCEPT ![q] = Others(@, i)]
         IN  /\ StablySorted(l2, a2) /\ Head(l[q]) \in Message
             /\ i \in 1..Len(a[q])
             /\ \A j \in 1..Len(a[q]) :
                  a[q][j].prio <= a[q][i].prio /\ (j < i => a[q][j].prio < a[q][i].prio)
             /\ Len(l2[q]) = Len(l[q]) - 1 /\ (\A p \in Mq : p # q => l2[p] = l[p])
             /\ \A p \in Mq : Cardinality(Slots(l2, {p}, FromTasks)) <= Cardinality(Slots(l, {p}, FromTasks))
             /\ \A type : IsFiniteSet(Slots(l, Mq, OfType(type))) =>
                  OneLess(Slots(l, Mq, OfType(type)), Slots(l2, Mq, OfType(type)), Head(l[q]).type = type)
<1>. DEFINE msg == Head(l[q])
            i == Came(a[q], msg)
            res == Tail(l[q])
            l2 == TakenFrom(l, q)
            a2 == [a EXCEPT ![q] = Others(@, i)]
<1>1. /\ l \in [Mq -> Seq(Message)] /\ a \in [Mq -> Seq(Message)]
      /\ \A p \in Mq : StableSort(l[p], a[p]) /\ Len(l[p]) <= MaxLen + 1
      /\ l[q] \in Seq(Message) /\ a[q] \in Seq(Message) /\ StableSort(l[q], a[q])
      /\ Len(l[q]) <= MaxLen + 1
  BY DEF StablySorted
<1>2. l2 = [l EXCEPT ![q] = res] /\ l2 = [l EXCEPT ![q] = Tail(@)]
  BY <1>1 DEF TakenFrom
<1>3. /\ i \in 1..Len(a[q]) /\ StableSort(res, Others(a[q], i))
      /\ \A j \in 1..Len(a[q]) :
           a[q][j].prio <= a[q][i].prio /\ (j < i => a[q][j].prio < a[q][i].prio)
  BY <1>1, SortedTake
<1>4. res \in Seq(Message) /\ Len(res) = Len(l[q]) - 1 /\ msg \in Message /\ Len(l[q]) \in Nat
  BY <1>1
<1>. HIDE DEF i
<1>5. Others(a[q], i) \in Seq(Message)
  BY <1>1, <1>3, OthersAre
<1>. HIDE DEF res, l2, msg
<1>8. /\ l2 \in [Mq -> Seq(Message)] /\ l2[q] = res /\ \A p \in Mq : p # q => l2[p] = l[p]
  BY <1>1, <1>2, <1>4
<1>12. ASSUME NEW Q \in SUBSET Mq, q \in Q, NEW M \in SUBSET Message, IsFiniteSet(Slots(l, Q, M))
       PROVE  OneLess(Slots(l, Q, M), Slots(l2, Q, M), msg \in M)
  <2>1. l2[q] = Tail(l[q]) /\ msg = Head(l[q])
    BY <1>8 DEF res, msg
  <2>2. \A p \in Mq : p # q => l2[p] = l[p]
    BY <1>8
  <2>. QED  BY <1>1, <1>12, <2>1, <2>2, SlotsTail
<1>6. ASSUME NEW type, IsFiniteSet(Slots(l, Mq, OfType(type)))
      PROVE  OneLess(Slots(l, Mq, OfType(type)), Slots(l2, Mq, OfType(type)), msg.type = type)
  <2>1. OfType(type) \in SUBSET Message /\ (msg \in OfType(type) <=> msg.type = type) /\ Mq \in SUBSET Mq
    BY <1>4, CountedSets
  <2>3. OneLess(Slots(l, Mq, OfType(type)), Slots(l2, Mq, OfType(type)), msg \in OfType(type))
    BY <1>6, <1>12, <2>1
  <2>. QED  BY <2>1, <2>3 DEF OneMore, OneLess
<1>7. ASSUME NEW p \in Mq
      PROVE  Cardinality(Slots(l2, {p}, FromTasks)) <= Cardinality(Slots(l, {p}, FromTasks))
  <2>0. FromTasks \in SUBSET Message /\ {q} \in SUBSET Mq /\ q \in {q}
    BY CountedSets
  <2>3. IsFiniteSet(Slots(l, {p}, FromTasks)) /\ Cardinality(Slots(l, {p}, FromTasks)) \in Nat
    BY <1>1, <2>0, SlotsOne, FS_CardinalityType
  <2>1. CASE p # q
    <3>1. l2[p] = l[p]
      BY <1>8, <2>1
    <3>2. Slots(l2, {p}, FromTasks) = Slots(l, {p}, FromTasks)
      BY <3>1, SlotsOther
    <3>. QED  BY <2>3, <3>2
  <2>2. CASE p = q
    <3>1. IsFiniteSet(Slots(l, {q}, FromTasks))
      BY <2>2, <2>3
    <3>2. OneLess(Slots(l, {q}, FromTasks), Slots(l2, {q}, FromTasks), msg \in FromTasks)
      BY <1>12, <2>0, <3>1
    <3>. QED  BY <2>2, <2>3, <3>2 DEF OneLess
  <2>. QED  BY <2>1, <2>2
<1>9. /\ a2 \in [Mq -> Seq(Message)] /\ a2[q] = Others(a[q], i) /\ \A p \in Mq : p # q => a2[p] = a[p]
  BY <1>1, <1>5
<1>. HIDE DEF a2
<1>10. StablySorted(l2, a2)
  <2>. SUFFICES ASSUME NEW p \in Mq PROVE StableSort(l2[p], a2[p]) /\ Len(l2[p]) <= MaxLen + 1
    BY <1>8, <1>9 DEF StablySorted
  <2>1. CASE p # q
    BY <1>1, <1>8, <1>9, <2>1
  <2>2. CASE p = q
    <3>1. MaxLen \in Nat
      BY Capacity
    <3>. QED  BY <1>1, <1>3, <1>4, <1>8, <1>9, <2>2, <3>1
  <2>. QED  BY <2>1, <2>2
<1>. QED  BY <1>3, <1>4, <1>6, <1>7, <1>8, <1>10 DEF l2, a2, i, msg

(***************************************************************************)
(* The steps, and the messages.                                            *)
(***************************************************************************)
\* The invariant, part by part.
LEMMA MsgParts ==
  ASSUME MqInv, MsgInv
  PROVE  /\ StablySorted(msglist, arrived) /\ MsgTypes /\ (\A t \in Task : Claims(t) /\ Mourned(t))
         /\ (\A q \in Mq : TaskCount(msglist, q) <= MaxMsgs /\ TaskCount(msglist, q) \in Nat)
         /\ (\A type \in Pool : Accounted(type)) /\ msglist \in [Mq -> Seq(Message)]
         /\ (\A q \in Mq : Len(msglist[q]) \in Nat /\ Len(msglist[q]) <= MaxLen + 1)
         /\ self \in Task /\ Equipped(self) /\ Claims(self)
         /\ pc[self] \in Place /\ pc = [pc EXCEPT ![self] = pc[self]]
         /\ mqmsg[self] \in MsgType \cup {None}
<1>1. /\ StablySorted(msglist, arrived) /\ MsgTypes /\ (\A t \in Task : Claims(t) /\ Mourned(t))
      /\ (\A q \in Mq : TaskCount(msglist, q) <= MaxMsgs) /\ (\A type \in Pool : Accounted(type))
  BY DEF MsgInv
<1>2. /\ msglist \in [Mq -> Seq(Message)]
      /\ (\A q \in Mq : Len(msglist[q]) \in Nat /\ Len(msglist[q]) <= MaxLen + 1)
  BY <1>1 DEF StablySorted
<1>3. ASSUME NEW q \in Mq PROVE TaskCount(msglist, q) \in Nat
  <2>1. IsFiniteSet(Slots(msglist, {q}, FromTasks))
    BY <1>2, SlotsOne, CountedSets
  <2>. QED  BY <2>1, FS_CardinalityType DEF TaskCount
<1>4. self \in Task /\ Equipped(self) /\ pc[self] \in Place /\ pc = [pc EXCEPT ![self] = pc[self]]
  BY CallParts, KernelParts
<1>. QED  BY <1>1, <1>2, <1>3, <1>4 DEF MsgTypes

\* A queue that is not full has room for one more.
LEMMA RoomFound ==
  ASSUME MqInv, MsgInv, NEW q \in Mq, ~Full(q)
  PROVE  RoomIn(msglist, q)
<1>1. msglist \in [Mq -> Seq(Message)] /\ Len(msglist[q]) \in Nat /\ Len(msglist[q]) <= MaxLen + 1
  BY MsgParts
<1>2. MaxLen \in Nat /\ MaxMsgs \in Nat /\ MaxMsgs <= MaxLen /\ FromTasks \in SUBSET Message
  BY Capacity, CountedSets
<1>3. TaskCount(msglist, q) <= Len(msglist[q]) /\ TaskCount(msglist, q) \in Nat
  BY <1>1, <1>2, SlotsOne, MsgParts DEF TaskCount
<1>. QED  BY <1>1, <1>2, <1>3 DEF Full, RoomIn

\* One task more or less that holds a message of the type.
LEMMA HeldChange ==
  ASSUME MsgTypes, NEW t \in Task, NEW v, mqmsg' = [mqmsg EXCEPT ![t] = v], NEW type
  PROVE  /\ Cardinality(HeldOf(type)) \in Nat /\ Cardinality(HeldOf(type)') \in Nat
         /\ mqmsg[t] # type /\ v # type => Cardinality(HeldOf(type)') = Cardinality(HeldOf(type))
         /\ mqmsg[t] # type /\ v = type => Cardinality(HeldOf(type)') = Cardinality(HeldOf(type)) + 1
         /\ mqmsg[t] = type /\ v # type => Cardinality(HeldOf(type)') = Cardinality(HeldOf(type)) - 1
<1>. DEFINE S == HeldOf(type)
            T == HeldOf(type)'
<1>1. /\ mqmsg'[t] = v /\ \A x \in Task : x # t => mqmsg'[x] = mqmsg[x]
  BY DEF MsgTypes
<1>2. S \in SUBSET Task /\ T \in SUBSET Task /\ (t \in S <=> mqmsg[t] = type)
  BY DEF HeldOf
<1>3. /\ mqmsg[t] # type /\ v # type => T = S
      /\ mqmsg[t] # type /\ v = type => T = S \cup {t}
      /\ mqmsg[t] = type /\ v # type => T = S \ {t}
  BY <1>1 DEF HeldOf
<1>. HIDE DEF S, T
<1>4. Cardinality(S) \in Nat /\ Cardinality(T) \in Nat
  BY <1>2, TaskSets
<1>5. /\ t \notin S => Cardinality(S \cup {t}) = Cardinality(S) + 1
      /\ t \in S => Cardinality(S \ {t}) = Cardinality(S) - 1
  BY <1>2, TaskSets
<1>. QED  BY <1>2, <1>3, <1>4, <1>5 DEF S, T

\* The running task moves its call; the others hold what they held.
LEMMA ClaimsMove ==
  ASSUME MqInv, MsgInv, UNCHANGED <<victim, cut>>,
         \A x \in Task : x # self => pc'[x] = pc[x] /\ desc'[x] = desc[x] /\ mqmsg'[x] = mqmsg[x],
         pc'[self] \in {"alloc", "insert"} => RoomIn(msglist', desc'[self]),
         pc'[self] \in Holding => mqmsg'[self] # None,
         mqmsg'[self] # None => pc'[self] \in Holding \cup {"sendwait"}
  PROVE  \A t \in Task : Claims(t)' /\ Mourned(t)'
<1>1. /\ \A t \in Task : Claims(t) /\ Mourned(t) /\ Equipped(t) /\ Alone(t)
      /\ sched.tstate[self] # "INVALID" /\ CallTypes
  BY KernelParts DEF MsgInv, MqInv, Calls
<1>. PICK me \in Task : me = self
  BY KernelParts
<1>2. ASSUME NEW t \in Task PROVE Claims(t)'
  <2>1. CASE t = me
    BY <2>1 DEF Claims
  <2>2. CASE t # me
    <3>1. pc[t] \notin {"alloc", "insert"}
      BY <1>1, <2>2 DEF Alone, Held
    <3>. QED  BY <1>1, <2>2, <3>1 DEF Claims
  <2>. QED  BY <2>1, <2>2
<1>3. ASSUME NEW t \in Task PROVE Mourned(t)'
  <2>1. victim[t] # None => victim[t] # me /\ victim[t] \in Task
    BY <1>1 DEF Equipped, CallTypes
  <2>. QED  BY <1>1, <2>1 DEF Mourned
<1>. QED  BY <1>2, <1>3

\* No message moves.
LEMMA QuietKeeps ==
  ASSUME MqInv, MsgInv, UNCHANGED <<msglist, arrived, pool, mqmsg, cut, victim>>,
         \A x \in Task : x # self => pc'[x] = pc[x] /\ desc'[x] = desc[x],
         pc'[self] \in {"alloc", "insert"} => RoomIn(msglist, desc'[self]),
         pc'[self] \in Holding => mqmsg[self] # None,
         mqmsg[self] # None => pc'[self] \in Holding \cup {"sendwait"}
  PROVE  MsgInv'
<1>1. \A t \in Task : Claims(t)' /\ Mourned(t)'
  BY ClaimsMove
<1>2. StablySorted(msglist, arrived)' /\ MsgTypes' /\ \A q \in Mq : TaskCount(msglist, q)' <= MaxMsgs
  BY DEF MsgInv, StablySorted, MsgTypes, TaskCount
<1>3. ASSUME NEW type \in Pool PROVE Accounted(type)'
  <2>1. InQueues(type)' = InQueues(type) /\ HeldOf(type)' = HeldOf(type) /\ Accounted(type)
    BY DEF InQueues, HeldOf, MsgInv
  <2>. QED  BY <2>1 DEF Accounted, Sum
<1>. QED  BY <1>1, <1>2, <1>3 DEF MsgInv

\* What a step does to the queues that AbstractMq speaks of.
Mails == [Mailbox!MailNext]_arrived

\* A step that moves no message and takes nobody out of a call.
Quiet == UNCHANGED <<msglist, arrived, pool, cut>>

\* The functions that move no message.
LEMMA QuietSteps ==
  ASSUME MqInv
  PROVE  /\ UNCHANGED kvars => Quiet
         /\ \A s : SchedBecomes(s) => Quiet
         /\ \A r : Becomes(r) /\ r.cut = Kernel.cut /\ SameMsgs(Kernel, r) => Quiet
<1>1. UNCHANGED kvars => Quiet
  BY DEF kvars, Quiet
<1>2. ASSUME NEW r, Becomes(r), r.cut = Kernel.cut, SameMsgs(Kernel, r) PROVE Quiet
  BY <1>2, KernelParts DEF Becomes, SameMsgs, Quiet
<1>3. ASSUME NEW s, SchedBecomes(s) PROVE Quiet
  <2>. DEFINE r == [Kernel EXCEPT !.sched = s]
  <2>1. r.cut = Kernel.cut /\ SameMsgs(Kernel, r)
    BY KernelParts DEF IsKernel, SameMsgs
  <2>2. Becomes(r)
    BY <1>3 DEF SchedBecomes
  <2>. HIDE DEF r
  <2>. QED  BY <1>2, <2>1, <2>2
<1>. QED  BY <1>1, <1>2, <1>3

\* The running task goes on and keeps what it holds.
LEMMA QuietMove ==
  ASSUME MqInv, MsgInv, Quiet, UNCHANGED <<mqmsg, victim>>,
         NEW place, pc' = [pc EXCEPT ![self] = place],
         NEW d, desc' = [desc EXCEPT ![self] = d],
         place \in {"alloc", "insert"} => RoomIn(msglist, d),
         place \in Holding => mqmsg[self] # None,
         mqmsg[self] # None => place \in Holding \cup {"sendwait"}
  PROVE  MsgInv' /\ Mails
<1>1. CallTypes /\ self \in Task
  BY KernelParts DEF MqInv, Calls
<1>2. /\ pc'[self] = place /\ desc'[self] = d
      /\ \A x \in Task : x # self => pc'[x] = pc[x] /\ desc'[x] = desc[x]
  BY <1>1 DEF CallTypes
<1>3. UNCHANGED <<msglist, arrived, pool, mqmsg, cut, victim>>
  BY DEF Quiet
<1>4. MsgInv'
  BY <1>2, <1>3, QuietKeeps
<1>. QED  BY <1>3, <1>4 DEF Mails

\* A step of an interrupt or of the scheduler.
LEMMA QuietInterrupt ==
  ASSUME MqInv, MsgInv, Quiet, UNCHANGED callvars
  PROVE  MsgInv' /\ Mails
<1>1. /\ pc' = [pc EXCEPT ![self] = pc[self]] /\ desc' = [desc EXCEPT ![self] = desc[self]]
      /\ UNCHANGED <<mqmsg, victim>>
  BY CallParts DEF callvars
<1>2. Claims(self)
  BY MsgParts
<1>. QED  BY <1>1, <1>2, QuietMove DEF Claims

\* The steps of a send that look for room.
LEMMA SendMsgs ==
  ASSUME MqInv, MsgInv, SendCheck \/ SendResume \/ TimedSendCheck \/ TimedSendWait
  PROVE  MsgInv' /\ Mails
<1>1. /\ Claims(self) /\ Equipped(self) /\ self \in Task
      /\ desc = [desc EXCEPT ![self] = desc[self]]
      /\ (UNCHANGED kvars => Quiet)
  BY MsgParts, CallParts, QuietSteps
<1>2. ASSUME NEW st \in MqWait, pc[self] \in Held \cup Waits, self # Idle,
             Becomes(BlockOn(Kernel, self, st, desc[self]))
      PROVE  Quiet
  <2>1. desc[self] \in Mq /\ Kernel.sched.tstate[self] \notin MqWait /\ self = ThisTask(Kernel.sched)
        /\ KInv(Kernel)
    BY <1>1, <1>2, KernelParts DEF Equipped
  <2>2. SameMsgs(Kernel, BlockOn(Kernel, self, st, desc[self]))
    BY <1>1, <1>2, <2>1, BlockOnJoins
  <2>3. BlockOn(Kernel, self, st, desc[self]).cut = Kernel.cut
    BY KernelParts DEF BlockOn, IsKernel
  <2>. QED  BY <1>2, <2>2, <2>3, QuietSteps
<1>3. "WAIT_MQNOTFULL" \in MqWait /\ {"send", "sendwait", "tcheck", "tsend"} \subseteq Held \cup Waits
  BY DEF MqWait, Held, Waits
<1>4. {"sendwait", "unlock"} \cap (Holding \cup {"alloc", "insert"}) = {} /\ {"discard", "tsend", "insert", "tcheck"} \subseteq Holding
      /\ "send" \notin Holding \cup {"sendwait"}
  BY DEF Holding
<1>5. ASSUME NEW place, Quiet, UNCHANGED <<mqmsg, victim, desc>>, pc' = [pc EXCEPT ![self] = place],
             place \in {"alloc", "insert"} => desc[self] \in Mq /\ ~Full(desc[self]),
             place \in Holding => mqmsg[self] # None,
             mqmsg[self] # None => place \in Holding \cup {"sendwait"}
      PROVE  MsgInv' /\ Mails
  <2>1. place \in {"alloc", "insert"} => RoomIn(msglist, desc[self])
    BY <1>5, RoomFound
  <2>2. desc' = [desc EXCEPT ![self] = desc[self]]
    BY <1>1, <1>5
  <2>. QED  BY <1>5, <2>1, <2>2, QuietMove
<1>6. CASE SendCheck
  <2>1. pc[self] = "send" /\ self # Idle /\ UNCHANGED <<mqmsg, victim, desc>>
    BY <1>6 DEF SendCheck, Running
  <2>2. mqmsg[self] = None /\ desc[self] \in Mq
    BY <1>1, <1>3, <1>4, <2>1 DEF Claims, Equipped
  <2>3. CASE Full(desc[self]) /\ GoTo("sendwait") /\ Quiet
    BY <1>4, <1>5, <2>1, <2>2, <2>3 DEF GoTo
  <2>4. CASE Full(desc[self]) /\ GoTo("unlock") /\ UNCHANGED kvars
    BY <1>1, <1>4, <1>5, <2>1, <2>2, <2>4 DEF GoTo
  <2>5. CASE ~Full(desc[self]) /\ GoTo("alloc") /\ UNCHANGED kvars
    BY <1>1, <1>5, <2>1, <2>2, <2>5 DEF GoTo, Holding
  <2>. QED  BY <1>2, <1>3, <1>6, <2>1, <2>3, <2>4, <2>5 DEF SendCheck
<1>7. CASE TimedSendCheck
  <2>1. pc[self] = "tcheck" /\ self # Idle /\ UNCHANGED <<mqmsg, victim, desc>> /\ Quiet
    BY <1>1, <1>7 DEF TimedSendCheck, Running
  <2>2. mqmsg[self] # None /\ desc[self] \in Mq
    BY <1>1, <1>3, <1>4, <2>1 DEF Claims, Equipped
  <2>3. CASE ~Full(desc[self]) /\ GoTo("insert")
    BY <1>4, <1>5, <2>1, <2>2, <2>3 DEF GoTo
  <2>4. ASSUME NEW to \in {"discard", "tsend"}, GoTo(to) PROVE MsgInv' /\ Mails
    BY <1>4, <1>5, <2>1, <2>2, <2>4 DEF GoTo
  <2>. QED  BY <1>7, <2>3, <2>4 DEF TimedSendCheck
<1>8. CASE TimedSendWait
  <2>1. pc[self] = "tsend" /\ self # Idle /\ UNCHANGED <<mqmsg, victim, desc>>
    BY <1>8 DEF TimedSendWait, Running
  <2>2. mqmsg[self] # None /\ desc[self] \in Mq
    BY <1>1, <1>3, <1>4, <2>1 DEF Claims, Equipped
  <2>3. CASE GoTo("sendwait") /\ Quiet
    BY <1>4, <1>5, <2>1, <2>2, <2>3 DEF GoTo
  <2>4. CASE GoTo("discard") /\ UNCHANGED kvars
    BY <1>1, <1>4, <1>5, <2>1, <2>2, <2>4 DEF GoTo
  <2>. QED  BY <1>2, <1>3, <1>8, <2>1, <2>3, <2>4 DEF TimedSendWait
<1>9. CASE SendResume
  <2>1. pc[self] = "sendwait" /\ self # Idle /\ UNCHANGED <<mqmsg, victim, desc>>
    BY <1>9 DEF SendResume, Running
  <2>2. desc[self] \in Mq
    BY <1>1, <1>3, <2>1 DEF Equipped
  <2>3. CASE GoTo(IF mqmsg[self] # None THEN "discard" ELSE "unlock") /\ UNCHANGED kvars
    BY <1>1, <1>4, <1>5, <2>1, <2>3 DEF GoTo
  <2>4. CASE ~Full(desc[self]) /\ GoTo(IF mqmsg[self] # None THEN "insert" ELSE "alloc") /\ UNCHANGED kvars
    <3>1. CASE mqmsg[self] # None
      BY <1>1, <1>4, <1>5, <2>1, <2>2, <2>4, <3>1 DEF GoTo
    <3>2. CASE mqmsg[self] = None
      BY <1>1, <1>4, <1>5, <2>1, <2>2, <2>4, <3>2 DEF GoTo, Holding
    <3>. QED  BY <3>1, <3>2
  <2>5. CASE UNCHANGED pc /\ Quiet
    <3>1. pc' = [pc EXCEPT ![self] = "sendwait"]
      BY <2>1, <2>5, CallParts
    <3>. QED  BY <1>4, <1>5, <2>1, <2>5, <3>1
  <2>. QED  BY <1>2, <1>3, <1>9, <2>1, <2>3, <2>4, <2>5 DEF SendResume
<1>. QED  BY <1>6, <1>7, <1>8, <1>9

\* sched_lock and sched_unlock, and what surrounds them.
LEMMA EndMsgs ==
  ASSUME MqInv, MsgInv,
         \/ \E q \in Mq : SendLock(q) \/ Receive(q) \/ TimedReceiveLock(q)
         \/ TimedSendLock \/ Unlock \/ TimedReceive \/ DeleteDog
  PROVE  MsgInv' /\ Mails
<1>1. /\ Claims(self) /\ self \in Task /\ desc = [desc EXCEPT ![self] = desc[self]]
      /\ (UNCHANGED kvars => Quiet) /\ (\A s : SchedBecomes(s) => Quiet)
  BY MsgParts, CallParts, QuietSteps
<1>2. ASSUME NEW place \in {"send", "recv", "run", "undog", "trecv"}, NEW d, Quiet,
             UNCHANGED <<mqmsg, victim>>, mqmsg[self] = None,
             pc' = [pc EXCEPT ![self] = place], desc' = [desc EXCEPT ![self] = d]
      PROVE  MsgInv' /\ Mails
  <2>1. place \notin Holding /\ place \notin {"alloc", "insert"}
    BY DEF Holding
  <2>. QED  BY <1>2, <2>1, QuietMove
<1>3. pc[self] \in {"run", "trecv", "unlock", "undog"} => mqmsg[self] = None
  BY <1>1 DEF Claims, Holding
<1>4. ASSUME NEW q \in Mq, SendLock(q) PROVE MsgInv' /\ Mails
  BY <1>1, <1>2, <1>3, <1>4 DEF SendLock, Running, GoTo
<1>5. ASSUME NEW q \in Mq, NEW place \in {"run", "trecv"}, RecvLock(q, place) PROVE MsgInv' /\ Mails
  BY <1>1, <1>2, <1>3, <1>5 DEF RecvLock, Running, GoTo
<1>6. CASE TimedSendLock
  <2>1. /\ pc[self] = "tlock" /\ Quiet /\ pc' = [pc EXCEPT ![self] = "tcheck"]
        /\ UNCHANGED <<mqmsg, victim>> /\ desc' = [desc EXCEPT ![self] = desc[self]]
    BY <1>1, <1>6 DEF TimedSendLock, Running, GoTo
  <2>2. mqmsg[self] # None
    BY <1>1, <2>1 DEF Claims, Holding
  <2>3. "tcheck" \in Holding /\ "tcheck" \notin {"alloc", "insert"}
    BY DEF Holding
  <2>. QED  BY <2>1, <2>2, <2>3, QuietMove
<1>7. CASE Unlock
  <2>1. /\ pc[self] = "unlock" /\ Quiet /\ UNCHANGED <<mqmsg, victim>>
        /\ desc' = [desc EXCEPT ![self] = None]
        /\ \E place \in {"run", "undog"} : pc' = [pc EXCEPT ![self] = place]
    BY <1>1, <1>7 DEF Unlock, Running, GoTo
  <2>. QED  BY <1>2, <1>3, <2>1
<1>8. CASE TimedReceive
  BY <1>1, <1>2, <1>3, <1>8 DEF TimedReceive, Running, GoTo
<1>9. CASE DeleteDog
  BY <1>1, <1>2, <1>3, <1>9 DEF DeleteDog, Running, GoTo
<1>. QED  BY <1>4, <1>5, <1>6, <1>7, <1>8, <1>9 DEF Receive, TimedReceiveLock

\* The notification and the wake-ups.
LEMMA WakeMsgs ==
  ASSUME MqInv, MsgInv,
         NotifyRead \/ Wake \/ WakeSender \/ \E unmasked \in BOOLEAN : NotifySend(unmasked)
  PROVE  MsgInv' /\ Mails
<1>1. /\ Claims(self) /\ Equipped(self) /\ self \in Task /\ KInv(Kernel)
      /\ desc = [desc EXCEPT ![self] = desc[self]] /\ event[self] \in Task \cup {None}
      /\ (UNCHANGED kvars => Quiet)
      /\ \A r : Becomes(r) /\ r.cut = Kernel.cut /\ SameMsgs(Kernel, r) => Quiet
  BY MsgParts, CallParts, KernelParts, QuietSteps
<1>2. ASSUME NEW place \in {"wake", "notified", "unlock"}, Quiet,
             UNCHANGED <<mqmsg, victim, desc>>, mqmsg[self] = None,
             pc' = [pc EXCEPT ![self] = place]
      PROVE  MsgInv' /\ Mails
  <2>1. place \notin Holding /\ place \notin {"alloc", "insert"}
    BY DEF Holding
  <2>2. desc' = [desc EXCEPT ![self] = desc[self]]
    BY <1>1, <1>2
  <2>. QED  BY <1>2, <2>1, <2>2, QuietMove
<1>3. pc[self] \in {"notify", "notified", "wake", "wakesender"} => mqmsg[self] = None /\ desc[self] \in Mq
  BY <1>1 DEF Claims, Equipped, Holding, Held
<1>4. CASE NotifyRead
  <2>1. /\ pc[self] = "notify" /\ Quiet /\ UNCHANGED <<mqmsg, victim, desc>>
        /\ \E place \in {"wake", "notified"} : pc' = [pc EXCEPT ![self] = place]
    BY <1>1, <1>4 DEF NotifyRead, Running, GoTo
  <2>. QED  BY <1>2, <1>3, <2>1
<1>5. CASE Wake
  <2>. DEFINE r == WakeReceiver(Kernel, desc[self])
  <2>1. /\ pc[self] = "wake" /\ Becomes(r) /\ UNCHANGED <<mqmsg, victim, desc>>
        /\ pc' = [pc EXCEPT ![self] = "unlock"]
    BY <1>5 DEF Wake, Running, GoTo
  <2>2. Gentle(Kernel, r) /\ SameMsgs(Kernel, r)
    BY <1>1, <1>3, <2>1, WakeReceiverGentle
  <2>. QED  BY <1>1, <1>2, <1>3, <2>1, <2>2 DEF Gentle
<1>6. CASE WakeSender
  <2>. DEFINE r == WakeFirst(Kernel, "WAIT_MQNOTFULL", desc[self])
  <2>1. /\ pc[self] = "wakesender" /\ Becomes(r) /\ UNCHANGED <<mqmsg, victim, desc>>
        /\ pc' = [pc EXCEPT ![self] = "unlock"]
    BY <1>6 DEF WakeSender, Running, GoTo
  <2>2. "WAIT_MQNOTFULL" \in MqWait
    BY DEF MqWait
  <2>3. Gentle(Kernel, r) /\ SameMsgs(Kernel, r)
    BY <1>1, <1>3, <2>1, <2>2, WakeFirstGentle
  <2>. QED  BY <1>1, <1>2, <1>3, <2>1, <2>3 DEF Gentle
<1>7. ASSUME NEW unmasked \in BOOLEAN, NotifySend(unmasked) PROVE MsgInv' /\ Mails
  <2>. DEFINE r == Notified(Kernel, desc[self], event[self], unmasked)
  <2>1. /\ pc[self] = "notified" /\ Becomes(r) /\ UNCHANGED <<mqmsg, victim, desc>>
        /\ pc' = [pc EXCEPT ![self] = "wake"]
    BY <1>7 DEF NotifySend, Running, GoTo
  <2>2. event[self] \in Task
    BY <1>1, <2>1 DEF Equipped
  <2>3. Gentle(Kernel, r) /\ SameMsgs(Kernel, r)
    BY <1>1, <1>3, <2>1, <2>2, NotifiedGentle
  <2>. QED  BY <1>1, <1>2, <1>3, <2>1, <2>3 DEF Gentle
<1>. QED  BY <1>4, <1>5, <1>6, <1>7

\* mq_notify, signals, watchdogs and new tasks.
LEMMA OtherMsgs ==
  ASSUME MqInv, MsgInv,
         \/ UNCHANGED vars \/ \E q \in Mq : Register(q) \/ Detach(q)
         \/ \E t \in Task : Signal(t) \/ Timeout(t) \/ Start(t)
  PROVE  MsgInv' /\ Mails
<1>1. /\ IsKernel(Kernel) /\ KInv(Kernel) /\ self \in Task
      /\ (UNCHANGED kvars => Quiet) /\ (\A s : SchedBecomes(s) => Quiet)
      /\ \A r : Becomes(r) /\ r.cut = Kernel.cut /\ SameMsgs(Kernel, r) => Quiet
  BY KernelParts, QuietSteps
<1>2. CASE UNCHANGED vars
  BY <1>1, <1>2, QuietInterrupt DEF vars
<1>3. ASSUME NEW q \in Mq, Register(q) \/ Detach(q) PROVE MsgInv' /\ Mails
  <2>1. PICK n : Becomes([Kernel EXCEPT !.ntpid[q] = n]) /\ UNCHANGED callvars
    BY <1>3 DEF Register, Detach
  <2>. DEFINE r == [Kernel EXCEPT !.ntpid[q] = n]
  <2>2. r.cut = Kernel.cut /\ SameMsgs(Kernel, r)
    BY <1>1 DEF IsKernel, SameMsgs
  <2>. QED  BY <1>1, <2>1, <2>2, QuietInterrupt
<1>4. ASSUME NEW t \in Task, NEW err \in Errcode, Becomes(nxmq_wait_irq(Kernel, t, err)),
             UNCHANGED callvars
      PROVE  MsgInv' /\ Mails
  <2>. DEFINE r == nxmq_wait_irq(Kernel, t, err)
  <2>1. Gentle(Kernel, r) /\ SameMsgs(Kernel, r)
    BY <1>1, WaitIrqGentle
  <2>. QED  BY <1>1, <1>4, <2>1, QuietInterrupt DEF Gentle
<1>5. {"EINTR", "ETIMEDOUT"} \subseteq Errcode
  BY DEF Errcode
<1>6. ASSUME NEW t \in Task, Signal(t) PROVE MsgInv' /\ Mails
  BY <1>4, <1>5, <1>6 DEF Signal
<1>7. ASSUME NEW t \in Task, Timeout(t) PROVE MsgInv' /\ Mails
  BY <1>4, <1>5, <1>7 DEF Timeout
<1>8. ASSUME NEW t \in Task, Start(t) PROVE MsgInv' /\ Mails
  BY <1>1, <1>8, QuietInterrupt DEF Start
<1>. QED  BY <1>2, <1>3, <1>6, <1>7, <1>8


\* What nxmq_do_send does to the messages.
LEMMA AddMsgMoves ==
  ASSUME NEW k, IsKernel(k), NEW q, NEW msg
  PROVE  LET r == AddMsg(k, q, msg)
         IN  /\ r.msglist = AddedTo(k.msglist, q, msg) /\ r.pool = k.pool /\ r.cut = k.cut
             /\ r.arrived = [k.arrived EXCEPT ![q] = Append(@, msg)]
<1>. DEFINE l == [k.msglist EXCEPT ![q] = InsertAtPos(@, MsgPos(@, msg.prio), msg)]
            a == [k.arrived EXCEPT ![q] = Append(@, msg)]
            r == AddMsg(k, q, msg)
<1>1. r = [k EXCEPT !.msglist = l, !.arrived = a] /\ l = AddedTo(k.msglist, q, msg)
  BY DEF AddMsg, IsKernel, AddedTo
<1>. HIDE DEF l, r
<1>. QED  BY <1>1 DEF IsKernel, r

\* sq_remfirst
LEMMA TakeFirstMoves ==
  ASSUME NEW k, IsKernel(k), NEW q
  PROVE  LET r == TakeFirst(k, q)
         IN  /\ r.msglist = TakenFrom(k.msglist, q) /\ r.pool = k.pool /\ r.cut = k.cut
             /\ r.arrived = [k.arrived EXCEPT ![q] = Others(@, Came(k.arrived[q], Head(k.msglist[q])))]
<1>. DEFINE msg == Head(k.msglist[q])
            i == CHOOSE j \in 1..Len(k.arrived[q]) :
                   k.arrived[q][j] = msg /\ \A h \in 1..(j - 1) : k.arrived[q][h] # msg
            l == [k.msglist EXCEPT ![q] = Tail(@)]
            a == [k.arrived EXCEPT ![q] = SubSeq(@, 1, i - 1) \o SubSeq(@, i + 1, Len(@))]
            r == TakeFirst(k, q)
<1>1. r = [k EXCEPT !.msglist = l, !.arrived = a] /\ l = TakenFrom(k.msglist, q)
  BY DEF TakeFirst, IsKernel, TakenFrom
<1>2. i = Came(k.arrived[q], msg)
  BY DEF Came
<1>. HIDE DEF i
<1>3. a = [k.arrived EXCEPT ![q] = Others(@, i)]
  BY DEF Others
<1>. HIDE DEF l, r, a
<1>4. r.msglist = l /\ r.arrived = a /\ r.pool = k.pool /\ r.cut = k.cut
  BY <1>1 DEF IsKernel
<1>. QED  BY <1>1, <1>2, <1>3, <1>4 DEF r

\* One message less in a pool.
LEMMA PoolMoves ==
  ASSUME NEW k, IsKernel(k), NEW type
  PROVE  LET r == [k EXCEPT !.pool[type] = @ - 1]
         IN  /\ r.pool = [k.pool EXCEPT ![type] = @ - 1] /\ r.msglist = k.msglist
             /\ r.arrived = k.arrived /\ r.cut = k.cut /\ IsKernel(r)
BY DEF IsKernel

\* nxmq_free_msg
LEMMA FreeMsgMoves ==
  ASSUME NEW k, IsKernel(k), NEW msg
  PROVE  /\ FreeMsg(k, msg).pool = IF msg.type = "DYN" THEN k.pool ELSE [k.pool EXCEPT ![msg.type] = @ + 1]
         /\ FreeMsg(k, msg).msglist = k.msglist /\ FreeMsg(k, msg).arrived = k.arrived
BY DEF IsKernel, FreeMsg

\* A message goes from one place to another.
LEMMA MovedKeeps ==
  ASSUME MqInv, MsgInv, UNCHANGED <<victim, cut>>,
         StablySorted(msglist', arrived'), MsgTypes',
         \A q \in Mq : TaskCount(msglist', q) <= MaxMsgs,
         \A type \in Pool : IsFiniteSet(InQueues(type)') /\ Sum(type)' = Sum(type),
         \A x \in Task : x # self => pc'[x] = pc[x] /\ desc'[x] = desc[x] /\ mqmsg'[x] = mqmsg[x],
         pc'[self] \in {"alloc", "insert"} => RoomIn(msglist', desc'[self]),
         pc'[self] \in Holding => mqmsg'[self] # None,
         mqmsg'[self] # None => pc'[self] \in Holding \cup {"sendwait"}
  PROVE  MsgInv'
<1>1. \A t \in Task : Claims(t)' /\ Mourned(t)'
  BY ClaimsMove
<1>2. ASSUME NEW type \in Pool PROVE Accounted(type)'
  <2>1. Accounted(type)
    BY DEF MsgInv
  <2>2. IsFiniteSet(InQueues(type)') /\ Sum(type)' = Sum(type)
    OBVIOUS
  <2>3. (\A q \in Mq : cut[q] = {})' <=> (\A q \in Mq : cut[q] = {})
    OBVIOUS
  <2>. HIDE DEF Sum, InQueues
  <2>. QED  BY <2>1, <2>2, <2>3 DEF Accounted
<1>3. StablySorted(msglist, arrived)' /\ \A q \in Mq : TaskCount(msglist, q)' <= MaxMsgs
  BY DEF StablySorted, TaskCount
<1>. QED  BY <1>1, <1>2, <1>3 DEF MsgInv

\* The numbers in the account.
LEMMA AccountTypes ==
  ASSUME MsgInv, NEW type \in Pool
  PROVE  /\ pool[type] \in Nat /\ Cardinality(HeldOf(type)) \in Nat
         /\ IsFiniteSet(InQueues(type)) /\ Cardinality(InQueues(type)) \in Nat
         /\ Sum(type) = pool[type] + Cardinality(HeldOf(type)) + Cardinality(InQueues(type))
<1>1. MsgTypes /\ Accounted(type)
  BY DEF MsgInv
<1>2. HeldOf(type) \in SUBSET Task
  BY DEF HeldOf
<1>3. Cardinality(HeldOf(type)) \in Nat
  BY <1>2, TaskSets
<1>4. IsFiniteSet(InQueues(type)) /\ Cardinality(InQueues(type)) \in Nat
  BY <1>1, FS_CardinalityType DEF Accounted
<1>. QED  BY <1>1, <1>3, <1>4 DEF MsgTypes, Sum

\* The share of one message in the account of a type.
Share(m, type) == IF m = type THEN 1 ELSE 0

\* The running task holds v instead of what it held.
LEMMA HandChange ==
  ASSUME MsgTypes, NEW t \in Task, NEW v, mqmsg' = [mqmsg EXCEPT ![t] = v], NEW type
  PROVE  /\ Cardinality(HeldOf(type)) \in Nat /\ Cardinality(HeldOf(type)') \in Nat
         /\ Cardinality(HeldOf(type)') + Share(mqmsg[t], type) = Cardinality(HeldOf(type)) + Share(v, type)
<1>. DEFINE c == Cardinality(HeldOf(type))
            d == Cardinality(HeldOf(type)')
<1>1. /\ c \in Nat /\ d \in Nat
      /\ mqmsg[t] # type /\ v # type => d = c
      /\ mqmsg[t] # type /\ v = type => d = c + 1
      /\ mqmsg[t] = type /\ v # type => d = c - 1
  BY HeldChange
<1>2. mqmsg[t] = type /\ v = type => d = c
  BY DEF HeldOf, MsgTypes
<1>. HIDE DEF c, d
<1>3. d + Share(mqmsg[t], type) = c + Share(v, type)
  BY <1>1, <1>2 DEF Share
<1>. QED  BY <1>1, <1>3 DEF c, d

\* The running task takes a message from a pool or gives one back.
LEMMA PoolMove ==
  ASSUME MqInv, MsgInv, UNCHANGED <<msglist, arrived, cut, victim>>,
         NEW v \in MsgType \cup {None}, mqmsg' = [mqmsg EXCEPT ![self] = v], pool' \in [Pool -> Nat],
         \A type \in Pool : pool'[type] + Share(v, type) = pool[type] + Share(mqmsg[self], type),
         NEW place, pc' = [pc EXCEPT ![self] = place], NEW d, desc' = [desc EXCEPT ![self] = d],
         place \in {"alloc", "insert"} => RoomIn(msglist, d),
         place \in Holding <=> v # None
  PROVE  MsgInv' /\ Mails
<1>1. /\ StablySorted(msglist, arrived) /\ MsgTypes /\ self \in Task /\ CallTypes
      /\ (\A q \in Mq : TaskCount(msglist, q) <= MaxMsgs)
  BY MsgParts DEF MqInv, Calls
<1>2. /\ pc'[self] = place /\ desc'[self] = d /\ mqmsg'[self] = v
      /\ \A x \in Task : x # self => pc'[x] = pc[x] /\ desc'[x] = desc[x] /\ mqmsg'[x] = mqmsg[x]
  BY <1>1 DEF CallTypes, MsgTypes
<1>3. MsgTypes'
  BY <1>1 DEF MsgTypes
<1>4. ASSUME NEW type \in Pool PROVE IsFiniteSet(InQueues(type)') /\ Sum(type)' = Sum(type)
  <2>1. InQueues(type)' = InQueues(type)
    BY DEF InQueues
  <2>2. /\ pool[type] \in Nat /\ pool'[type] \in Nat
        /\ IsFiniteSet(InQueues(type)) /\ Cardinality(InQueues(type)) \in Nat
        /\ pool'[type] + Share(v, type) = pool[type] + Share(mqmsg[self], type)
    BY AccountTypes
  <2>3. /\ Cardinality(HeldOf(type)) \in Nat /\ Cardinality(HeldOf(type)') \in Nat
        /\ Cardinality(HeldOf(type)') + Share(mqmsg[self], type) = Cardinality(HeldOf(type)) + Share(v, type)
    BY <1>1, HandChange
  <2>4. Share(v, type) \in Nat /\ Share(mqmsg[self], type) \in Nat
    BY DEF Share
  <2>5. pool'[type] + Cardinality(HeldOf(type)') = pool[type] + Cardinality(HeldOf(type))
    BY <2>2, <2>3, <2>4
  <2>. QED  BY <2>1, <2>2, <2>3, <2>5 DEF Sum
<1>5. StablySorted(msglist', arrived') /\ \A q \in Mq : TaskCount(msglist', q) <= MaxMsgs
  BY <1>1
<1>6. MsgInv'
  BY <1>2, <1>3, <1>4, <1>5, MovedKeeps
<1>. QED  BY <1>6 DEF Mails

\* nxmq_alloc_msg
LEMMA AllocMsgs ==
  ASSUME MqInv, MsgInv, SendAlloc \/ \E q \in Mq : TimedSend(q)
  PROVE  MsgInv' /\ Mails
<1>1. /\ Claims(self) /\ self \in Task /\ MsgTypes /\ desc = [desc EXCEPT ![self] = desc[self]]
      /\ IsKernel(Kernel) /\ Kernel.pool = pool /\ Kernel.msglist = msglist
      /\ Kernel.arrived = arrived /\ Kernel.cut = cut
      /\ (UNCHANGED kvars => Quiet)
  BY MsgParts, CallParts, KernelParts, QuietSteps
<1>2. ASSUME NEW place \in Holding, NEW failed, failed \notin Holding \cup {"alloc", "insert"},
             mqmsg[self] = None, Alloc(place, failed),
             NEW d, desc' = [desc EXCEPT ![self] = d], place = "insert" => RoomIn(msglist, d)
      PROVE  MsgInv' /\ Mails
  <2>0. place \in {"alloc", "insert"} => RoomIn(msglist, d)
    BY <1>2 DEF Holding
  <2>1. CASE /\ pool.FIXED > 0 /\ Becomes([Kernel EXCEPT !.pool.FIXED = @ - 1])
             /\ mqmsg' = [mqmsg EXCEPT ![self] = "FIXED"] /\ GoTo(place) /\ UNCHANGED victim
    <3>. DEFINE r == [Kernel EXCEPT !.pool.FIXED = @ - 1]
                p == [pool EXCEPT !["FIXED"] = @ - 1]
    <3>1. r.pool = p /\ r.msglist = msglist /\ r.arrived = arrived /\ r.cut = cut
      BY <1>1 DEF IsKernel
    <3>2. pool' = p /\ UNCHANGED <<msglist, arrived, cut, victim>>
      BY <2>1, <3>1 DEF Becomes
    <3>3. pool["FIXED"] > 0 /\ pool \in [Pool -> Nat]
      BY <1>1, <2>1 DEF MsgTypes
    <3>4. pool' \in [Pool -> Nat] /\ \A type \in Pool : pool'[type] + Share("FIXED", type) = pool[type] + 0
      BY <3>2, <3>3 DEF Pool, Share
    <3>5. /\ "FIXED" \in MsgType \cup {None} /\ "FIXED" # None
          /\ \A type \in Pool : Share(mqmsg[self], type) = 0
      BY <1>2, MqNoneIsNull DEF MsgType, Share, Pool
    <3>6. \A type \in Pool : pool'[type] + Share("FIXED", type) = pool[type] + Share(mqmsg[self], type)
      BY <3>4, <3>5
    <3>. QED  BY <1>2, <2>0, <2>1, <3>2, <3>4, <3>5, <3>6, PoolMove DEF GoTo
  <2>2. CASE /\ mqmsg' = [mqmsg EXCEPT ![self] = "DYN"] /\ GoTo(place) /\ UNCHANGED kvars /\ UNCHANGED victim
    <3>1. UNCHANGED <<msglist, arrived, cut, victim, pool>>
      BY <1>1, <2>2 DEF Quiet
    <3>2. /\ "DYN" \in MsgType \cup {None} /\ "DYN" # None
          /\ \A type \in Pool : Share(mqmsg[self], type) = 0 /\ Share("DYN", type) = 0
      BY <1>2, MqNoneIsNull DEF MsgType, Share, Pool
    <3>3. pool' \in [Pool -> Nat]
      BY <1>1, <3>1 DEF MsgTypes
    <3>4. \A type \in Pool : pool'[type] + Share("DYN", type) = pool[type] + Share(mqmsg[self], type)
      BY <3>1, <3>2
    <3>. QED  BY <1>2, <2>0, <2>2, <3>1, <3>2, <3>3, <3>4, PoolMove DEF GoTo
  <2>3. CASE GoTo(failed) /\ UNCHANGED <<kvars, mqmsg, victim>>
    BY <1>1, <1>2, <2>3, QuietMove DEF GoTo
  <2>. QED  BY <1>2, <2>1, <2>2, <2>3 DEF Alloc
<1>3. /\ {"insert", "tlock"} \subseteq Holding /\ "unlock" \notin Holding \cup {"alloc", "insert"}
      /\ "run" \notin Holding \cup {"alloc", "insert"} /\ "tlock" # "insert"
  BY DEF Holding
<1>4. CASE SendAlloc
  <2>1. pc[self] = "alloc" /\ Alloc("insert", "unlock") /\ desc' = [desc EXCEPT ![self] = desc[self]]
    BY <1>1, <1>4 DEF SendAlloc, Running
  <2>2. mqmsg[self] = None /\ RoomIn(msglist, desc[self])
    BY <1>1, <2>1 DEF Claims, Holding
  <2>. QED  BY <1>2, <1>3, <2>1, <2>2
<1>5. ASSUME NEW q \in Mq, TimedSend(q) PROVE MsgInv' /\ Mails
  <2>1. pc[self] = "run" /\ Alloc("tlock", "run") /\ desc' = [desc EXCEPT ![self] = q]
    BY <1>5 DEF TimedSend, Running
  <2>2. mqmsg[self] = None
    BY <1>1, <2>1 DEF Claims, Holding
  <2>. QED  BY <1>2, <1>3, <2>1, <2>2
<1>. QED  BY <1>4, <1>5

\* nxmq_free_msg
LEMMA FreeMsgs ==
  ASSUME MqInv, MsgInv, Discard \/ Deliver
  PROVE  MsgInv' /\ Mails
<1>. DEFINE m == mqmsg[self]
            r == FreeMsg(Kernel, [prio |-> 0, type |-> m])
<1>1. /\ Claims(self) /\ self \in Task /\ MsgTypes /\ desc = [desc EXCEPT ![self] = desc[self]]
      /\ IsKernel(Kernel) /\ KInv(Kernel) /\ Kernel.pool = pool /\ Kernel.msglist = msglist
      /\ Kernel.arrived = arrived /\ Kernel.cut = cut
  BY MsgParts, CallParts, KernelParts
<1>2. /\ pc[self] \in {"discard", "deliver"} /\ Becomes(r) /\ mqmsg' = [mqmsg EXCEPT ![self] = None]
      /\ \E place \in {"unlock", "wakesender"} : pc' = [pc EXCEPT ![self] = place]
      /\ UNCHANGED <<desc, victim>>
  BY DEF Discard, Deliver, Running, GoTo
<1>3. m \in MsgType
  BY <1>1, <1>2 DEF Claims, Holding, MsgTypes
<1>4. /\ r.pool = IF m = "DYN" THEN pool ELSE [pool EXCEPT ![m] = @ + 1]
      /\ r.msglist = msglist /\ r.arrived = arrived /\ r.cut = cut
  <2>. DEFINE c == [prio |-> 0, type |-> m]
  <2>1. c.type = m
    OBVIOUS
  <2>. HIDE DEF c
  <2>2. /\ FreeMsg(Kernel, c).pool = IF c.type = "DYN" THEN pool ELSE [pool EXCEPT ![c.type] = @ + 1]
        /\ FreeMsg(Kernel, c).msglist = msglist /\ FreeMsg(Kernel, c).arrived = arrived
    BY <1>1, FreeMsgMoves
  <2>3. FreeMsg(Kernel, c).cut = cut
    BY <1>1, MessagesOnly DEF SameTasks
  <2>. QED  BY <2>1, <2>2, <2>3 DEF c
<1>. HIDE DEF r, m
<1>5. /\ pool' = IF m = "DYN" THEN pool ELSE [pool EXCEPT ![m] = @ + 1]
      /\ UNCHANGED <<msglist, arrived, cut, victim>>
  BY <1>2, <1>4 DEF Becomes
<1>6. /\ pool' \in [Pool -> Nat]
      /\ \A type \in Pool : pool'[type] = pool[type] + Share(m, type)
  BY <1>1, <1>3, <1>5 DEF MsgTypes, Pool, MsgType, Share
<1>7. \A type \in Pool : pool'[type] \in Nat /\ Share(None, type) = 0
  BY <1>6, MqNoneIsNull DEF Pool, Share
<1>8. \A type \in Pool : pool'[type] + Share(None, type) = pool[type] + Share(mqmsg[self], type)
  BY <1>6, <1>7 DEF m
<1>9. PICK place \in {"unlock", "wakesender"} : pc' = [pc EXCEPT ![self] = place]
  BY <1>2
<1>10. place \notin Holding /\ place \notin {"alloc", "insert"} /\ None \in MsgType \cup {None}
       /\ desc' = [desc EXCEPT ![self] = desc[self]]
  BY <1>1, <1>2 DEF Holding
<1>. QED  BY <1>2, <1>5, <1>6, <1>8, <1>9, <1>10, PoolMove

\* A message is put into the list of q.
LEMMA AddedKeeps ==
  ASSUME MqInv, MsgInv, UNCHANGED <<victim, cut>>, MsgTypes',
         NEW q \in Mq, NEW msg \in Message, Len(msglist[q]) <= MaxLen,
         msg.from = "task" => TaskCount(msglist, q) < MaxMsgs,
         msglist' = AddedTo(msglist, q, msg), arrived' = [arrived EXCEPT ![q] = Append(@, msg)],
         \A type \in Pool :
           /\ Cardinality(HeldOf(type)') \in Nat
           /\ pool'[type] + Cardinality(HeldOf(type)') + Share(msg.type, type)
                = pool[type] + Cardinality(HeldOf(type)),
         \A x \in Task : x # self => pc'[x] = pc[x] /\ desc'[x] = desc[x] /\ mqmsg'[x] = mqmsg[x],
         pc'[self] \in {"alloc", "insert"} =>
           /\ desc'[self] \in Mq /\ RoomIn(msglist, desc'[self])
           /\ msg.from # "task" /\ Len(msglist[q]) < MaxLen,
         pc'[self] \in Holding => mqmsg'[self] # None,
         mqmsg'[self] # None => pc'[self] \in Holding \cup {"sendwait"}
  PROVE  MsgInv' /\ Mails
<1>1. /\ StablySorted(msglist, arrived) /\ self \in Task
      /\ (\A p \in Mq : TaskCount(msglist, p) <= MaxMsgs /\ TaskCount(msglist, p) \in Nat)
      /\ (\A p \in Mq : Len(msglist[p]) \in Nat)
      /\ MaxLen \in Nat /\ MaxMsgs \in Nat
  BY MsgParts, Capacity
<1>2. /\ StablySorted(msglist', arrived')
      /\ Len(msglist'[q]) = Len(msglist[q]) + 1 /\ (\A p \in Mq : p # q => msglist'[p] = msglist[p])
      /\ \A p \in Mq : OneMore(Slots(msglist, {p}, FromTasks), Slots(msglist', {p}, FromTasks),
                               p = q /\ msg.from = "task")
      /\ \A type : IsFiniteSet(Slots(msglist, Mq, OfType(type))) =>
           OneMore(Slots(msglist, Mq, OfType(type)), Slots(msglist', Mq, OfType(type)), msg.type = type)
  <2>. DEFINE l2 == AddedTo(msglist, q, msg)
              a2 == [arrived EXCEPT ![q] = Append(@, msg)]
  <2>1. /\ StablySorted(l2, a2)
        /\ Len(l2[q]) = Len(msglist[q]) + 1 /\ (\A p \in Mq : p # q => l2[p] = msglist[p])
        /\ \A p \in Mq : OneMore(Slots(msglist, {p}, FromTasks), Slots(l2, {p}, FromTasks),
                                 p = q /\ msg.from = "task")
        /\ \A type : IsFiniteSet(Slots(msglist, Mq, OfType(type))) =>
             OneMore(Slots(msglist, Mq, OfType(type)), Slots(l2, Mq, OfType(type)), msg.type = type)
    BY <1>1, AddedFacts
  <2>2. msglist' = l2 /\ arrived' = a2
    OBVIOUS
  <2>. HIDE DEF l2, a2
  <2>. QED  BY <2>1, <2>2
<1>3. ASSUME NEW p \in Mq
      PROVE  /\ TaskCount(msglist', p) <= MaxMsgs
             /\ ~(p = q /\ msg.from = "task") => TaskCount(msglist', p) = TaskCount(msglist, p)
  <2>1. TaskCount(msglist', p) =
          IF p = q /\ msg.from = "task" THEN TaskCount(msglist, p) + 1 ELSE TaskCount(msglist, p)
    BY <1>2 DEF OneMore, TaskCount
  <2>. QED  BY <1>1, <2>1
<1>4. ASSUME NEW type \in Pool PROVE IsFiniteSet(InQueues(type)') /\ Sum(type)' = Sum(type)
  <2>1. /\ pool[type] \in Nat /\ pool'[type] \in Nat /\ Cardinality(HeldOf(type)) \in Nat
        /\ IsFiniteSet(InQueues(type)) /\ Cardinality(InQueues(type)) \in Nat
        /\ Sum(type) = pool[type] + Cardinality(HeldOf(type)) + Cardinality(InQueues(type))
    BY AccountTypes DEF MsgTypes
  <2>2. OneMore(InQueues(type), InQueues(type)', msg.type = type)
    BY <1>2, <2>1 DEF InQueues
  <2>3. /\ IsFiniteSet(InQueues(type)')
        /\ Cardinality(InQueues(type)') = Cardinality(InQueues(type)) + Share(msg.type, type)
    BY <2>1, <2>2 DEF OneMore, Share
  <2>4. Share(msg.type, type) \in Nat
    BY DEF Share
  <2>5. /\ Cardinality(HeldOf(type)') \in Nat
        /\ pool'[type] + Cardinality(HeldOf(type)') + Share(msg.type, type)
             = pool[type] + Cardinality(HeldOf(type))
    OBVIOUS
  <2>6. pool'[type] + Cardinality(HeldOf(type)') + Cardinality(InQueues(type)') = Sum(type)
    BY <2>1, <2>3, <2>4, <2>5
  <2>. QED  BY <2>3, <2>6 DEF Sum
<1>5. ASSUME pc'[self] \in {"alloc", "insert"} PROVE RoomIn(msglist', desc'[self])
  <2>1. /\ desc'[self] \in Mq /\ RoomIn(msglist, desc'[self])
        /\ msg.from # "task" /\ Len(msglist[q]) < MaxLen
    BY <1>5
  <2>2. TaskCount(msglist', desc'[self]) = TaskCount(msglist, desc'[self])
    BY <1>3, <2>1
  <2>3. Len(msglist'[desc'[self]]) <= MaxLen
    BY <1>1, <1>2, <2>1 DEF RoomIn
  <2>. QED  BY <2>1, <2>2, <2>3 DEF RoomIn
<1>6. MsgInv'
  BY <1>2, <1>3, <1>4, <1>5, MovedKeeps
<1>7. Mails
  BY DEF Mails, Mailbox!MailNext, Mailbox!Put
<1>. QED  BY <1>6, <1>7

\* nxmq_do_send
LEMMA InsertMsgs ==
  ASSUME MqInv, MsgInv, NEW prio \in MsgPrio, Insert(prio)
  PROVE  MsgInv' /\ Mails
<1>. DEFINE m == mqmsg[self]
            q == desc[self]
            msg == [prio |-> prio, type |-> m, from |-> "task"]
            r == AddMsg(Kernel, q, msg)
<1>1. /\ Claims(self) /\ Equipped(self) /\ self \in Task /\ MsgTypes /\ CallTypes
      /\ IsKernel(Kernel) /\ KInv(Kernel) /\ Kernel.pool = pool /\ Kernel.msglist = msglist
      /\ Kernel.arrived = arrived /\ Kernel.cut = cut
  BY MsgParts, KernelParts DEF MqInv, Calls
<1>2. /\ pc[self] = "insert" /\ Becomes(r) /\ mqmsg' = [mqmsg EXCEPT ![self] = None]
      /\ pc' = [pc EXCEPT ![self] = "notify"] /\ UNCHANGED <<desc, victim>>
  BY DEF Insert, Running, GoTo
<1>3. m \in MsgType /\ q \in Mq /\ RoomIn(msglist, q)
  BY <1>1, <1>2 DEF Claims, Equipped, Holding, Held, MsgTypes
<1>4. msg \in Message /\ msg.from = "task" /\ msg.type = m
  BY <1>3 DEF Message, MsgType
<1>. HIDE DEF msg
<1>5. /\ r.msglist = AddedTo(msglist, q, msg) /\ r.arrived = [arrived EXCEPT ![q] = Append(@, msg)]
      /\ r.pool = pool /\ r.cut = cut
  BY <1>1, AddMsgMoves
<1>. HIDE DEF r, m, q
<1>7. /\ msglist' = AddedTo(msglist, q, msg) /\ arrived' = [arrived EXCEPT ![q] = Append(@, msg)]
      /\ pool' = pool /\ cut' = cut
  BY <1>2, <1>5 DEF Becomes
<1>8. /\ pc'[self] = "notify" /\ mqmsg'[self] = None
      /\ \A x \in Task : x # self => pc'[x] = pc[x] /\ desc'[x] = desc[x] /\ mqmsg'[x] = mqmsg[x]
  BY <1>1, <1>2 DEF CallTypes, MsgTypes
<1>9. MsgTypes'
  BY <1>1, <1>2, <1>7 DEF MsgTypes
<1>10. ASSUME NEW type \in Pool
       PROVE  /\ Cardinality(HeldOf(type)') \in Nat
              /\ pool'[type] + Cardinality(HeldOf(type)') + Share(msg.type, type)
                   = pool[type] + Cardinality(HeldOf(type))
  <2>1. /\ Cardinality(HeldOf(type)) \in Nat /\ Cardinality(HeldOf(type)') \in Nat
        /\ Cardinality(HeldOf(type)') + Share(mqmsg[self], type) = Cardinality(HeldOf(type)) + Share(None, type)
    BY <1>1, <1>2, HandChange
  <2>2. Share(None, type) = 0 /\ Share(m, type) \in Nat /\ pool[type] \in Nat
    BY AccountTypes, MqNoneIsNull DEF Share, Pool
  <2>. QED  BY <1>4, <1>7, <2>1, <2>2 DEF m
<1>11. /\ "notify" \notin Holding /\ "notify" \notin {"alloc", "insert"}
       /\ TaskCount(msglist, q) < MaxMsgs /\ Len(msglist[q]) <= MaxLen
  BY <1>3 DEF Holding, RoomIn
<1>. QED  BY <1>2, <1>3, <1>4, <1>7, <1>8, <1>9, <1>10, <1>11, AddedKeeps

\* nxmq_send from an interrupt handler
LEMMA IrqMsgs ==
  ASSUME MqInv, MsgInv, NEW q \in Mq, NEW prio \in MsgPrio, NEW unmasked \in BOOLEAN,
         IrqSend(q, prio, unmasked)
  PROVE  MsgInv' /\ Mails
<1>. DEFINE type0 == IF pool.FIXED > 0 THEN "FIXED" ELSE "IRQ"
            msg == [prio |-> prio, type |-> type0, from |-> "irq"]
            l == [Kernel EXCEPT !.pool[type0] = @ - 1]
            a == IrqAdded(q, prio, type0)
            r == WakeReceiver(IrqTold(q, prio, type0, unmasked), q)
<1>1. /\ Claims(self) /\ Equipped(self) /\ self \in Task /\ MsgTypes /\ CallTypes
      /\ IsKernel(Kernel) /\ KInv(Kernel) /\ Kernel.pool = pool /\ Kernel.msglist = msglist
      /\ Kernel.arrived = arrived /\ Kernel.cut = cut
      /\ Len(msglist[q]) \in Nat /\ MaxLen \in Nat
  BY MsgParts, KernelParts, Capacity DEF MqInv, Calls
<1>2. /\ Becomes(r) /\ pool[type0] > 0 /\ Len(msglist[q]) < MaxLen /\ UNCHANGED callvars
  BY IrqSendIs
<1>3. type0 \in Pool
  BY DEF Pool
<1>. HIDE DEF type0
<1>4. msg \in Message /\ msg.from = "irq" /\ msg.type = type0
  BY <1>3 DEF Message, Pool
<1>5. Gentle(Kernel, r) /\ SameMsgs(a, r)
  BY IrqSendGentle
<1>6. /\ IsKernel(l) /\ l.pool = [pool EXCEPT ![type0] = @ - 1] /\ l.msglist = msglist /\ l.arrived = arrived
  BY <1>1, PoolMoves
<1>14. a = AddMsg(l, q, msg)
  BY DEF IrqAdded
<1>. HIDE DEF msg, l, a, r
<1>7. /\ a.msglist = AddedTo(msglist, q, msg) /\ a.arrived = [arrived EXCEPT ![q] = Append(@, msg)]
      /\ a.pool = l.pool
  <2>1. LET x == AddMsg(l, q, msg)
        IN  /\ x.msglist = AddedTo(l.msglist, q, msg) /\ x.pool = l.pool
            /\ x.arrived = [l.arrived EXCEPT ![q] = Append(@, msg)]
    BY <1>6, AddMsgMoves
  <2>. QED  BY <1>6, <1>14, <2>1
<1>8. /\ msglist' = AddedTo(msglist, q, msg) /\ arrived' = [arrived EXCEPT ![q] = Append(@, msg)]
      /\ pool' = [pool EXCEPT ![type0] = @ - 1] /\ cut' = cut /\ UNCHANGED <<pc, desc, mqmsg, victim>>
  BY <1>1, <1>2, <1>5, <1>6, <1>7 DEF Becomes, Gentle, SameMsgs, callvars
<1>9. /\ pool' \in [Pool -> Nat]
      /\ \A type \in Pool : pool'[type] + Share(type0, type) = pool[type]
  BY <1>1, <1>2, <1>3, <1>8 DEF MsgTypes, Share
<1>10. MsgTypes'
  BY <1>1, <1>8, <1>9 DEF MsgTypes
<1>11. ASSUME NEW type \in Pool
       PROVE  /\ Cardinality(HeldOf(type)') \in Nat
              /\ pool'[type] + Cardinality(HeldOf(type)') + Share(msg.type, type)
                   = pool[type] + Cardinality(HeldOf(type))
  <2>1. HeldOf(type)' = HeldOf(type) /\ Cardinality(HeldOf(type)) \in Nat
    BY <1>8, AccountTypes DEF HeldOf
  <2>2. pool'[type] \in Nat /\ Share(type0, type) \in Nat /\ pool'[type] + Share(type0, type) = pool[type]
    BY <1>9 DEF Share
  <2>. QED  BY <1>4, <2>1, <2>2
<1>12. pc'[self] \in {"alloc", "insert"} =>
         /\ desc'[self] \in Mq /\ RoomIn(msglist, desc'[self])
         /\ msg.from # "task" /\ Len(msglist[q]) < MaxLen
  BY <1>1, <1>2, <1>4, <1>8 DEF Claims, Equipped, Held
<1>13. /\ pc'[self] \in Holding => mqmsg'[self] # None
       /\ mqmsg'[self] # None => pc'[self] \in Holding \cup {"sendwait"}
       /\ Len(msglist[q]) <= MaxLen
  BY <1>1, <1>2, <1>8 DEF Claims
<1>. QED  BY <1>4, <1>8, <1>10, <1>11, <1>12, <1>13, AddedKeeps

\* nxmq_wait_receive finds a message and takes it.
LEMMA GetMsgs ==
  ASSUME MqInv, MsgInv, GetMsg, pc[self] \in {"recv", "recvwait"}, UNCHANGED <<desc, victim>>
  PROVE  MsgInv' /\ Mails
<1>. DEFINE q == desc[self]
            m == Head(msglist[q]).type
            i == Came(arrived[q], Head(msglist[q]))
            l2 == TakenFrom(msglist, q)
            a2 == [arrived EXCEPT ![q] = Others(@, i)]
            r == TakeFirst(Kernel, q)
<1>1. /\ Claims(self) /\ Equipped(self) /\ self \in Task /\ MsgTypes /\ CallTypes
      /\ StablySorted(msglist, arrived) /\ IsKernel(Kernel) /\ Kernel.pool = pool
      /\ Kernel.msglist = msglist /\ Kernel.arrived = arrived /\ Kernel.cut = cut
      /\ (\A p \in Mq : TaskCount(msglist, p) <= MaxMsgs /\ TaskCount(msglist, p) \in Nat)
      /\ MaxMsgs \in Nat
  BY MsgParts, KernelParts, Capacity DEF MqInv, Calls
<1>2. /\ msglist[q] # << >> /\ Becomes(r) /\ mqmsg' = [mqmsg EXCEPT ![self] = m]
      /\ pc' = [pc EXCEPT ![self] = "deliver"]
  BY DEF GetMsg, GoTo
<1>3. q \in Mq /\ mqmsg[self] = None
  BY <1>1 DEF Claims, Equipped, Holding, Held, Waits
<1>4. r.msglist = l2 /\ r.arrived = a2 /\ r.pool = pool /\ r.cut = cut
  <2>1. /\ r.msglist = TakenFrom(Kernel.msglist, q) /\ r.pool = Kernel.pool /\ r.cut = Kernel.cut
        /\ r.arrived = [Kernel.arrived EXCEPT ![q] = Others(@, Came(Kernel.arrived[q], Head(Kernel.msglist[q])))]
    <3>1. IsKernel(Kernel)
      BY <1>1
    <3>. HIDE DEF q, i
    <3>. QED  BY <3>1, TakeFirstMoves
  <2>. HIDE DEF r
  <2>. QED  BY <1>1, <2>1
<1>. HIDE DEF r
<1>5. msglist' = l2 /\ arrived' = a2 /\ pool' = pool /\ cut' = cut
  BY <1>2, <1>4 DEF Becomes
<1>6. /\ StablySorted(l2, a2) /\ Head(msglist[q]) \in Message /\ i \in 1..Len(arrived[q])
      /\ \A j \in 1..Len(arrived[q]) :
           arrived[q][j].prio <= arrived[q][i].prio /\ (j < i => arrived[q][j].prio < arrived[q][i].prio)
      /\ \A p \in Mq : Cardinality(Slots(l2, {p}, FromTasks)) <= Cardinality(Slots(msglist, {p}, FromTasks))
      /\ \A type : IsFiniteSet(Slots(msglist, Mq, OfType(type))) =>
           OneLess(Slots(msglist, Mq, OfType(type)), Slots(l2, Mq, OfType(type)), m = type)
  BY <1>1, <1>2, <1>3, TakenFacts
<1>7. Mails
  <2>. HIDE DEF q, i
  <2>1. /\ arrived' = [arrived EXCEPT ![q] = SubSeq(@, 1, i - 1) \o SubSeq(@, i + 1, Len(@))]
    BY <1>5 DEF Others
  <2>2. Mailbox!Take(q)
    BY <1>6, <2>1 DEF Mailbox!Take, Mailbox!Due
  <2>. QED  BY <1>3, <2>2 DEF Mails, Mailbox!MailNext
<1>8. m \in MsgType /\ m # None
  BY <1>6, CountedSets, MqNoneIsNull DEF MsgType
<1>. HIDE DEF m, l2, a2, i
<1>9. /\ pc'[self] = "deliver" /\ mqmsg'[self] = m
      /\ \A x \in Task : x # self => pc'[x] = pc[x] /\ desc'[x] = desc[x] /\ mqmsg'[x] = mqmsg[x]
  BY <1>1, <1>2 DEF CallTypes, MsgTypes
<1>10. MsgTypes'
  BY <1>1, <1>2, <1>5, <1>8 DEF MsgTypes
<1>11. ASSUME NEW p \in Mq PROVE TaskCount(msglist', p) <= MaxMsgs
  <2>1. TaskCount(msglist', p) <= TaskCount(msglist, p)
    BY <1>5, <1>6 DEF TaskCount
  <2>2. FromTasks \in SUBSET Message /\ msglist' \in [Mq -> Seq(Message)] /\ Len(msglist'[p]) <= MaxLen + 1
    BY <1>5, <1>6, CountedSets DEF StablySorted
  <2>3. TaskCount(msglist', p) \in Nat
    BY <2>2, SlotsOne, FS_CardinalityType DEF TaskCount
  <2>. QED  BY <1>1, <2>1, <2>3
<1>12. ASSUME NEW type \in Pool PROVE IsFiniteSet(InQueues(type)') /\ Sum(type)' = Sum(type)
  <2>1. /\ pool[type] \in Nat
        /\ IsFiniteSet(InQueues(type)) /\ Cardinality(InQueues(type)) \in Nat
        /\ Sum(type) = pool[type] + Cardinality(HeldOf(type)) + Cardinality(InQueues(type))
    BY AccountTypes
  <2>2. OneLess(InQueues(type), InQueues(type)', m = type)
    BY <1>5, <1>6, <2>1 DEF InQueues
  <2>3. Share(m, type) \in Nat /\ Share(None, type) = 0
    BY MqNoneIsNull DEF Share, Pool
  <2>4. /\ IsFiniteSet(InQueues(type)')
        /\ Cardinality(InQueues(type)') = Cardinality(InQueues(type)) - Share(m, type)
    BY <2>1, <2>2 DEF OneLess, Share
  <2>5. /\ Cardinality(HeldOf(type)) \in Nat /\ Cardinality(HeldOf(type)') \in Nat
        /\ Cardinality(HeldOf(type)') + Share(mqmsg[self], type) = Cardinality(HeldOf(type)) + Share(m, type)
    BY <1>1, <1>2, HandChange
  <2>6. Cardinality(HeldOf(type)') = Cardinality(HeldOf(type)) + Share(m, type)
    BY <1>3, <2>3, <2>5
  <2>7. pool[type] + Cardinality(HeldOf(type)') + Cardinality(InQueues(type)') = Sum(type)
    BY <2>1, <2>3, <2>4, <2>5, <2>6
  <2>. QED  BY <1>5, <2>4, <2>7 DEF Sum
<1>13. "deliver" \in Holding /\ "deliver" \notin {"alloc", "insert"}
  BY DEF Holding
<1>14. StablySorted(msglist', arrived') /\ UNCHANGED <<victim, cut>>
  BY <1>5, <1>6
<1>15. MsgInv'
  BY <1>8, <1>9, <1>10, <1>11, <1>12, <1>13, <1>14, MovedKeeps
<1>. QED  BY <1>7, <1>15

\* The critical section of a receive.
LEMMA ReceiveMsgs ==
  ASSUME MqInv, MsgInv, RecvCheck \/ RecvResume
  PROVE  MsgInv' /\ Mails
<1>1. /\ Claims(self) /\ Equipped(self) /\ self \in Task
      /\ desc = [desc EXCEPT ![self] = desc[self]] /\ (UNCHANGED kvars => Quiet)
  BY MsgParts, CallParts, QuietSteps
<1>2. pc[self] \in {"recv", "recvwait"} /\ self # Idle /\ UNCHANGED <<desc, event, victim>>
  BY DEF RecvCheck, RecvResume, Running
<1>3. mqmsg[self] = None /\ desc[self] \in Mq
  BY <1>1, <1>2 DEF Claims, Equipped, Holding, Held, Waits
<1>4. ASSUME NEW place \in {"unlock", "recvwait"}, GoTo(place), Quiet, UNCHANGED mqmsg
      PROVE  MsgInv' /\ Mails
  <2>1. place \notin Holding /\ place \notin {"alloc", "insert"}
    BY DEF Holding
  <2>2. desc' = [desc EXCEPT ![self] = desc[self]]
    BY <1>1, <1>2
  <2>. QED  BY <1>2, <1>3, <1>4, <2>1, <2>2, QuietMove DEF GoTo
<1>5. CASE BlockEmpty
  <2>. DEFINE r == BlockOn(Kernel, self, "WAIT_MQNOTEMPTY", desc[self])
  <2>1. Kernel.sched.tstate[self] \notin MqWait /\ self = ThisTask(Kernel.sched) /\ KInv(Kernel)
        /\ "WAIT_MQNOTEMPTY" \in MqWait
    BY KernelParts DEF MqWait
  <2>2. SameMsgs(Kernel, r)
    BY <1>1, <1>2, <1>3, <2>1, BlockOnJoins
  <2>3. r.cut = Kernel.cut
    BY KernelParts DEF BlockOn, IsKernel
  <2>4. Quiet
    BY <1>5, <2>2, <2>3, QuietSteps DEF BlockEmpty
  <2>. QED  BY <1>4, <1>5, <2>4 DEF BlockEmpty
<1>6. CASE GetMsg
  BY <1>2, <1>6, GetMsgs
<1>7. CASE GoTo("unlock") /\ UNCHANGED <<kvars, mqmsg>>
  BY <1>1, <1>4, <1>7
<1>. QED  BY <1>5, <1>6, <1>7 DEF RecvCheck, RecvResume

\* nxtask_terminate takes t out of its call; what it holds is lost from now on.
LEMMA TerminateMsgs ==
  ASSUME MqInv, MsgInv, NEW t \in Task, Terminate(t)
  PROVE  MsgInv' /\ Mails
<1>. DEFINE k == [Kernel EXCEPT !.sched = RemoveFromList(sched, t)]
            r == CutShort(k, t, "deleted")
<1>. PICK me \in Task : me = self
  BY KernelParts
<1>1. /\ CallTypes /\ (\A x \in Task : Equipped(x) /\ Claims(x) /\ Mourned(x)) /\ MsgTypes
      /\ IsKernel(Kernel) /\ KTypes(Kernel) /\ Kernel.cut = cut /\ Kernel.msglist = msglist
      /\ Kernel.arrived = arrived /\ Kernel.pool = pool
  BY KernelParts DEF MqInv, Calls, MsgInv
<1>2. /\ pc[me] = "run" /\ t # me /\ Becomes(r)
      /\ victim' = [victim EXCEPT ![me] = t] /\ pc' = [pc EXCEPT ![me] = "terminate"]
      /\ UNCHANGED <<desc, mqmsg>> /\ sched.tstate[t] # "INVALID"
  BY DEF Terminate, Running, GoTo
<1>3. /\ IsKernel(k) /\ KTypes(k) /\ SameMsgs(Kernel, k) /\ k.cut = Kernel.cut /\ "deleted" \in How
  BY <1>1 DEF IsKernel, KTypes, SameMsgs, How
<1>. HIDE DEF k
<1>4. /\ r.cut = CutOf(k, t, "deleted") /\ SameMsgs(k, r) /\ r.cut \in [Mq -> SUBSET How]
      /\ (desc[t] \in Mq => "deleted" \in r.cut[desc[t]])
  BY <1>3, CutFacts
<1>. HIDE DEF r
<1>5. /\ UNCHANGED <<msglist, arrived, pool>> /\ cut' = r.cut /\ k.cut = cut
  BY <1>1, <1>2, <1>3, <1>4 DEF Becomes, SameMsgs
<1>6. \A q \in Mq : cut[q] \subseteq cut'[q]
  BY <1>4, <1>5 DEF CutOf
<1>7. /\ pc'[me] = "terminate" /\ victim'[me] = t
      /\ \A x \in Task : x # me => pc'[x] = pc[x] /\ victim'[x] = victim[x]
  BY <1>1, <1>2 DEF CallTypes
<1>8. \A x \in Task : mqmsg[x] # None => desc[x] \in Mq
  BY <1>1 DEF Claims, Equipped, Holding, Held, Waits
<1>9. ASSUME NEW x \in Task PROVE Claims(x)'
  <2>1. CASE x = me
    <3>1. mqmsg[me] = None /\ "terminate" \notin Holding \cup {"alloc", "insert"}
      BY <1>1, <1>2 DEF Claims, Holding
    <3>. QED  BY <1>2, <1>7, <2>1, <3>1 DEF Claims
  <2>2. CASE x # me
    BY <1>1, <1>2, <1>5, <1>7, <2>2 DEF Claims, RoomIn, TaskCount
  <2>. QED  BY <2>1, <2>2
<1>10. ASSUME NEW x \in Task PROVE Mourned(x)'
  <2>1. CASE x = me
    BY <1>2, <1>4, <1>5, <1>7, <1>8, <2>1 DEF Mourned
  <2>2. CASE x # me
    <3>. SUFFICES ASSUME victim[x] # None, mqmsg[victim[x]] # None PROVE cut'[desc[victim[x]]] # {}
      BY <1>2, <1>7, <2>2 DEF Mourned
    <3>1. victim[x] \in Task
      BY <1>1 DEF CallTypes
    <3>. QED  BY <1>1, <1>6, <1>8, <3>1 DEF Mourned
  <2>. QED  BY <2>1, <2>2
<1>11. ASSUME NEW type \in Pool PROVE Accounted(type)'
  <2>1. InQueues(type)' = InQueues(type) /\ HeldOf(type)' = HeldOf(type) /\ Accounted(type)
    BY <1>2, <1>5 DEF InQueues, HeldOf, MsgInv
  <2>2. Sum(type)' = Sum(type)
    BY <1>5, <2>1 DEF Sum
  <2>3. (\A q \in Mq : cut'[q] = {}) => (\A q \in Mq : cut[q] = {})
    BY <1>6
  <2>. QED  BY <2>1, <2>2, <2>3 DEF Accounted
<1>12. StablySorted(msglist, arrived)' /\ MsgTypes' /\ \A q \in Mq : TaskCount(msglist, q)' <= MaxMsgs
  BY <1>2, <1>5 DEF MsgInv, StablySorted, MsgTypes, TaskCount
<1>. QED  BY <1>5, <1>9, <1>10, <1>11, <1>12 DEF MsgInv, Mails

\* What t held is lost: the account of its type is short.
LEMMA LostAccount ==
  ASSUME MqInv, MsgInv, UNCHANGED <<msglist, pool>>, NEW t \in Task,
         mqmsg' = [mqmsg EXCEPT ![t] = None],
         \A q \in Mq : cut[q] \subseteq cut'[q],
         mqmsg[t] # None => \E q \in Mq : cut'[q] # {}
  PROVE  \A type \in Pool : Accounted(type)'
<1>. SUFFICES ASSUME NEW type \in Pool PROVE Accounted(type)'
  OBVIOUS
<1>1. /\ pool[type] \in Nat /\ IsFiniteSet(InQueues(type)) /\ Cardinality(InQueues(type)) \in Nat
      /\ Sum(type) = pool[type] + Cardinality(HeldOf(type)) + Cardinality(InQueues(type))
      /\ Accounted(type) /\ MsgTypes
  BY AccountTypes DEF MsgInv
<1>2. /\ Cardinality(HeldOf(type)) \in Nat /\ Cardinality(HeldOf(type)') \in Nat
      /\ Cardinality(HeldOf(type)') + Share(mqmsg[t], type) = Cardinality(HeldOf(type)) + Share(None, type)
  BY <1>1, HandChange
<1>3. /\ Share(None, type) = 0 /\ Share(mqmsg[t], type) \in Nat
      /\ (mqmsg[t] = None => Share(mqmsg[t], type) = 0)
  BY MqNoneIsNull DEF Share, Pool
<1>4. InQueues(type)' = InQueues(type)
  BY DEF InQueues
<1>5. Sum(type)' = pool[type] + Cardinality(HeldOf(type)') + Cardinality(InQueues(type))
  BY <1>4 DEF Sum
<1>6. Sum(type)' + Share(mqmsg[t], type) = Sum(type) /\ Sum(type) \in Nat /\ Sum(type)' \in Nat
  BY <1>1, <1>2, <1>3, <1>5
<1>7. Total(type) \in Nat
  BY PoolsNat DEF Total
<1>8. Sum(type)' <= Total(type)
  BY <1>1, <1>3, <1>6, <1>7 DEF Accounted
<1>9. (\A q \in Mq : cut'[q] = {}) => Sum(type)' = Total(type)
  <2>. SUFFICES ASSUME \A q \in Mq : cut'[q] = {} PROVE Sum(type)' = Total(type)
    OBVIOUS
  <2>1. mqmsg[t] = None /\ \A q \in Mq : cut[q] = {}
    OBVIOUS
  <2>. QED  BY <1>1, <1>3, <1>6, <2>1 DEF Accounted
<1>. QED  BY <1>1, <1>4, <1>8, <1>9 DEF Accounted

\* Who is not in a call any more holds nothing; the others hold what they held.
LEMMA CallEnds ==
  ASSUME MqInv, MsgInv, UNCHANGED <<msglist, arrived, pool>>, NEW t \in Task,
         mqmsg' = [mqmsg EXCEPT ![t] = None], desc' = [desc EXCEPT ![t] = None], pc'[t] = "run",
         \A x \in Task : x # t => pc'[x] = pc[x] \/ (pc[x] = "terminate" /\ pc'[x] = "run"),
         \A x \in Task : victim'[x] = victim[x] \/ victim'[x] = None,
         \A q \in Mq : cut[q] \subseteq cut'[q],
         mqmsg[t] # None => \E q \in Mq : cut'[q] # {}
  PROVE  MsgInv' /\ Mails
<1>1. /\ CallTypes /\ MsgTypes /\ (\A x \in Task : Claims(x) /\ Mourned(x) /\ Equipped(x))
  BY DEF MqInv, Calls, MsgInv
<1>2. /\ mqmsg'[t] = None
      /\ \A x \in Task : x # t => mqmsg'[x] = mqmsg[x] /\ desc'[x] = desc[x]
  BY <1>1 DEF CallTypes, MsgTypes
<1>3. "run" \notin Holding \cup {"alloc", "insert"} /\ "terminate" \notin Holding \cup {"sendwait"}
  BY DEF Holding
<1>4. ASSUME NEW x \in Task PROVE Claims(x)'
  <2>1. CASE x = t
    BY <1>2, <1>3, <2>1 DEF Claims
  <2>2. CASE x # t /\ pc'[x] = pc[x]
    BY <1>1, <1>2, <2>2 DEF Claims, RoomIn, TaskCount
  <2>3. CASE x # t /\ pc[x] = "terminate" /\ pc'[x] = "run"
    BY <1>1, <1>2, <1>3, <2>3 DEF Claims
  <2>. QED  BY <2>1, <2>2, <2>3
<1>5. ASSUME NEW x \in Task PROVE Mourned(x)'
  <2>. SUFFICES ASSUME victim'[x] # None, mqmsg'[victim'[x]] # None PROVE cut'[desc'[victim'[x]]] # {}
    BY DEF Mourned
  <2>1. victim'[x] = victim[x] /\ victim[x] \in Task /\ victim[x] # t
    BY <1>1, <1>2 DEF CallTypes
  <2>2. mqmsg[victim[x]] # None /\ desc'[victim[x]] = desc[victim[x]]
    BY <1>2, <2>1
  <2>3. cut[desc[victim[x]]] # {}
    BY <1>1, <2>1, <2>2 DEF Mourned
  <2>4. desc[victim[x]] \in Mq
    BY <1>1, <2>1, <2>2 DEF Claims, Equipped, Holding, Held, Waits
  <2>. QED  BY <2>1, <2>2, <2>3, <2>4
<1>6. \A type \in Pool : Accounted(type)'
  BY LostAccount
<1>7. StablySorted(msglist, arrived)' /\ MsgTypes' /\ \A q \in Mq : TaskCount(msglist, q)' <= MaxMsgs
  BY <1>1 DEF MsgInv, StablySorted, MsgTypes, TaskCount
<1>. QED  BY <1>4, <1>5, <1>6, <1>7 DEF MsgInv, Mails

\* The exit hook finishes a deletion.
LEMMA ExitHookMsgs ==
  ASSUME MqInv, MsgInv, ExitHook
  PROVE  MsgInv' /\ Mails
<1>. PICK me \in Task : me = self
  BY KernelParts
<1>0. victim[me] \in Task
  BY DEF ExitHook, Running, MqInv, Calls, CallTypes, Equipped
<1>. PICK t \in Task : t = victim[me]
  BY <1>0
<1>. DEFINE r == ClearedState(Kernel, t)
<1>1. /\ CallTypes /\ MsgTypes /\ (\A x \in Task : Equipped(x) /\ Claims(x) /\ Mourned(x))
      /\ Core(sched) /\ IsKernel(Kernel) /\ Kernel.sched = sched /\ sched.tstate[me] # "INVALID"
      /\ Kernel.msglist = msglist /\ Kernel.arrived = arrived /\ Kernel.pool = pool /\ Kernel.cut = cut
  BY KernelParts DEF MqInv, Calls, MsgInv
<1>2. pc[me] = "terminate"
  BY DEF ExitHook, Running
<1>3. sched.tstate[t] = "INVALID" /\ t # me /\ t # None
  BY <1>1, <1>2, MqNoneIsNull DEF Equipped, CallTypes
<1>4. nxmq_recover(Kernel, t) = Kernel
  BY <1>1, <1>3 DEF nxmq_recover, MqWait
<1>5. /\ Becomes(r) /\ victim' = [victim EXCEPT ![me] = None]
      /\ pc' = [pc EXCEPT ![me] = "run", ![t] = "run"] /\ desc' = [desc EXCEPT ![t] = None]
      /\ mqmsg' = [mqmsg EXCEPT ![t] = None]
  BY <1>4 DEF ExitHook, ClearedState
<1>6. SameMsgs(Kernel, r) /\ r.cut = Kernel.cut
  <2>1. IsKernel(Kernel) /\ Kernel.sched \in SchedState
    BY <1>1 DEF Core
  <2>2. IsCleared(Kernel, t, r, ClearedSched(Kernel.sched, t))
    BY <2>1, ClearedIs
  <2>. HIDE DEF r
  <2>. QED  BY <2>2 DEF IsCleared
<1>. HIDE DEF r
<1>7. UNCHANGED <<msglist, arrived, pool, cut>>
  BY <1>1, <1>5, <1>6 DEF Becomes, SameMsgs
<1>8. /\ pc'[t] = "run" /\ pc'[me] = "run" /\ (\A x \in Task : x # t /\ x # me => pc'[x] = pc[x])
      /\ \A x \in Task : victim'[x] = victim[x] \/ victim'[x] = None
  BY <1>1, <1>3, <1>5 DEF CallTypes
<1>9. ASSUME mqmsg[t] # None PROVE \E q \in Mq : cut'[q] # {}
  <2>1. desc[t] \in Mq
    BY <1>1, <1>9 DEF Claims, Equipped, Holding, Held, Waits
  <2>2. cut[desc[t]] # {}
    BY <1>1, <1>3, <1>9 DEF Mourned
  <2>. QED  BY <1>7, <2>1, <2>2
<1>10. \A x \in Task : x # t => pc'[x] = pc[x] \/ (pc[x] = "terminate" /\ pc'[x] = "run")
  BY <1>2, <1>8
<1>11. \A q \in Mq : cut[q] \subseteq cut'[q]
  BY <1>7
<1>. QED  BY <1>5, <1>7, <1>8, <1>9, <1>10, <1>11, CallEnds

\* task_restart takes t out of its call.
LEMMA RestartMsgs ==
  ASSUME MqInv, MsgInv, NEW t \in Task, Restart(t)
  PROVE  MsgInv' /\ Mails
<1>. DEFINE k == RestartState(Kernel, t)
            r == CutShort(k, t, "restarted")
<1>1. /\ CallTypes /\ MsgTypes /\ (\A x \in Task : Equipped(x) /\ Claims(x))
      /\ self = ThisTask(sched) /\ KInv(Kernel) /\ Kernel.sched = sched
      /\ Kernel.msglist = msglist /\ Kernel.arrived = arrived /\ Kernel.pool = pool /\ Kernel.cut = cut
  BY KernelParts DEF MqInv, Calls, MsgInv
<1>2. /\ t \in Task \ {Idle} /\ t # self /\ sched.tstate[t] # "INVALID" /\ victim' = victim
      /\ pc' = [pc EXCEPT ![t] = "run"] /\ desc' = [desc EXCEPT ![t] = None]
      /\ mqmsg' = [mqmsg EXCEPT ![t] = None]
  BY MqTaskSets DEF Restart, Running
<1>3. Becomes(r)
  BY DEF Restart, RestartState, RestartedSched
<1>4. KInv(k) /\ k.cut = Kernel.cut /\ SameMsgs(Kernel, k)
  BY <1>1, <1>2, KRestart
<1>. HIDE DEF k
<1>5. IsKernel(k) /\ KTypes(k) /\ "restarted" \in How
  BY <1>4 DEF KInv, How
<1>6. /\ r.cut = CutOf(k, t, "restarted") /\ SameMsgs(k, r)
      /\ (desc[t] \in Mq => "restarted" \in r.cut[desc[t]])
  BY <1>5, CutFacts
<1>. HIDE DEF r
<1>7. UNCHANGED <<msglist, arrived, pool>> /\ cut' = r.cut /\ k.cut = cut
  BY <1>1, <1>3, <1>4, <1>6 DEF Becomes, SameMsgs
<1>8. \A q \in Mq : cut[q] \subseteq cut'[q]
  BY <1>6, <1>7 DEF CutOf
<1>9. mqmsg[t] # None => \E q \in Mq : cut'[q] # {}
  <2>1. mqmsg[t] # None => desc[t] \in Mq
    BY <1>1 DEF Claims, Equipped, Holding, Held, Waits
  <2>. QED  BY <1>6, <1>7, <2>1
<1>10. pc'[t] = "run" /\ \A x \in Task : x # t => pc'[x] = pc[x]
  BY <1>1, <1>2 DEF CallTypes
<1>. QED  BY <1>2, <1>7, <1>8, <1>9, <1>10, CallEnds

\* Every step keeps the account and the order of the messages.
LEMMA NextMsgs ==
  ASSUME MqInv, MsgInv, [Next]_vars
  PROVE  MsgInv' /\ Mails
<1>1. CASE UNCHANGED vars
  BY <1>1, OtherMsgs
<1>2. CASE InCall
  BY <1>2, SendMsgs, AllocMsgs, FreeMsgs, InsertMsgs, WakeMsgs, ReceiveMsgs, EndMsgs, ExitHookMsgs DEF InCall
<1>3. CASE TimedReceive
  BY <1>3, EndMsgs
<1>4. CASE Halted
  BY <1>1, <1>4 DEF Halted
<1>5. ASSUME NEW q \in Mq,
             \/ SendLock(q) \/ TimedSend(q) \/ Receive(q) \/ Register(q) \/ Detach(q)
             \/ \E prio \in MsgPrio, unmasked \in BOOLEAN : IrqSend(q, prio, unmasked)
      PROVE  MsgInv' /\ Mails
  BY <1>5, AllocMsgs, EndMsgs, OtherMsgs, IrqMsgs
<1>6. ASSUME NEW t \in Task, Signal(t) \/ Timeout(t) \/ Start(t) \/ Terminate(t) \/ Restart(t)
      PROVE  MsgInv' /\ Mails
  BY <1>6, OtherMsgs, TerminateMsgs, RestartMsgs
<1>. QED  BY <1>1, <1>2, <1>3, <1>4, <1>5, <1>6 DEF Next

\* All messages are free at first.
LEMMA InitMsgs == Init => MsgInv
<1>. SUFFICES ASSUME Init PROVE MsgInv
  OBVIOUS
<1>1. /\ msglist = [q \in Mq |-> << >>] /\ arrived = [q \in Mq |-> << >>]
      /\ pool = [FIXED |-> Prealloc, IRQ |-> IrqPrealloc]
      /\ mqmsg = [t \in Task |-> None] /\ pc = [t \in Task |-> "run"] /\ victim = [t \in Task |-> None]
  BY DEF Init
<1>2. ASSUME NEW Q \in SUBSET Mq, NEW M PROVE Slots(msglist, Q, M) = {}
  <2>1. \A q \in Q : Len(msglist[q]) = 0
    BY <1>1
  <2>. QED  BY <2>1, SlotIs
<1>3. Cardinality({}) = 0 /\ IsFiniteSet({})
  BY FS_EmptySet
<1>4. ASSUME NEW q \in Mq
      PROVE  TaskCount(msglist, q) <= MaxMsgs /\ StableSort(msglist[q], arrived[q]) /\ Len(msglist[q]) <= MaxLen + 1
  <2>1. TaskCount(msglist, q) = 0
    BY <1>2, <1>3 DEF TaskCount
  <2>2. msglist[q] = << >> /\ arrived[q] = << >> /\ MaxMsgs \in Nat /\ MaxLen \in Nat
    BY <1>1, Capacity
  <2>3. StableSort(<< >>, << >>)
    <3>. DEFINE f == [i \in 1..0 |-> i]
    <3>1. f \in [1..0 -> 1..0] /\ Len(<< >>) = 0
      OBVIOUS
    <3>2. SortedBy(f, << >>, << >>)
      BY <3>1 DEF SortedBy
    <3>. QED  BY <3>1, <3>2 DEF StableSort
  <2>. QED  BY <2>1, <2>2, <2>3
<1>5. StablySorted(msglist, arrived)
  BY <1>1, <1>4 DEF StablySorted
<1>6. MsgTypes
  BY <1>1, PoolsNat DEF MsgTypes, Pool
<1>7. ASSUME NEW t \in Task PROVE Claims(t) /\ Mourned(t)
  <2>1. "run" \notin Holding \cup {"alloc", "insert"} /\ pc[t] = "run" /\ mqmsg[t] = None /\ victim[t] = None
    BY <1>1 DEF Holding
  <2>. QED  BY <2>1 DEF Claims, Mourned
<1>8. ASSUME NEW type \in Pool PROVE Accounted(type)
  <2>1. InQueues(type) = {}
    BY <1>2 DEF InQueues
  <2>2. HeldOf(type) = {}
    BY <1>1, MqNoneIsNull DEF HeldOf, Pool
  <2>3. pool[type] = Total(type) /\ Total(type) \in Nat
    BY <1>1, PoolsNat DEF Total, Pool
  <2>4. Sum(type) = Total(type)
    BY <1>3, <2>1, <2>2, <2>3 DEF Sum
  <2>. QED  BY <1>3, <2>1, <2>3, <2>4 DEF Accounted
<1>. QED  BY <1>4, <1>5, <1>6, <1>7, <1>8 DEF MsgInv

\* The invariant of the messages: every list is the stable sort of what arrived,
\* senders keep the room they found, and every message of a pool is accounted for.
THEOREM MsgInvAlways == Spec => []MsgInv
<1>1. MqInv /\ MsgInv /\ [Next]_vars => MsgInv'
  BY NextMsgs
<1>. QED  BY InvAlways, InitMsgs, <1>1, PTL DEF Spec

\* The queues are the mailboxes of AbstractMq: a receive takes the oldest message of
\* the highest priority, and no other step than a send or a receive changes a queue.
THEOREM QueuesAreMailboxes == Spec => ImplementsMailbox
<1>1. Init => Mailbox!MailInit
  BY DEF Init, Mailbox!MailInit
<1>2. MqInv /\ MsgInv /\ [Next]_vars => [Mailbox!MailNext]_arrived
  BY NextMsgs DEF Mails
<1>. QED  BY InvAlways, MsgInvAlways, <1>1, <1>2, PTL DEF Spec, ImplementsMailbox, Mailbox!MailSpec

\* Tasks never put more than maxmsgs messages into a queue.
THEOREM LimitAlways == Spec => []LimitKept
<1>1. MqInv /\ MsgInv => LimitKept
  <2>. SUFFICES ASSUME MqInv, MsgInv, NEW q \in Mq
                PROVE  Cardinality({i \in 1..Len(msglist[q]) : msglist[q][i].from = "task"}) <= MaxMsgs
    BY DEF LimitKept
  <2>. DEFINE I == {i \in 1..Len(msglist[q]) : msglist[q][i] \in FromTasks}
              J == {i \in 1..Len(msglist[q]) : msglist[q][i].from = "task"}
  <2>1. /\ msglist \in [Mq -> Seq(Message)] /\ Len(msglist[q]) <= MaxLen + 1
        /\ TaskCount(msglist, q) <= MaxMsgs /\ FromTasks \in SUBSET Message
    BY MsgParts, CountedSets
  <2>2. I = J
    BY <2>1, CountedSets
  <2>3. TaskCount(msglist, q) = Cardinality(I)
    BY <2>1, SlotsOne DEF TaskCount
  <2>. QED  BY <2>1, <2>2, <2>3
<1>. QED  BY InvAlways, MsgInvAlways, <1>1, PTL

\* No message of the two pools is lost or freed twice.
THEOREM PoolAlways == Spec => []PoolConserved
<1>1. MqInv /\ MsgInv => PoolConserved
  <2>. SUFFICES ASSUME MqInv, MsgInv, \A q \in Mq : cut[q] = {}, NEW type \in Pool
                PROVE  pool[type] + Cardinality({t \in Task : mqmsg[t] = type})
                         + Cardinality({at \in Mq \X (1..(MaxLen + Cardinality(Task))) :
                                          /\ at[2] <= Len(msglist[at[1]])
                                          /\ msglist[at[1]][at[2]].type = type})
                         = IF type = "FIXED" THEN Prealloc ELSE IrqPrealloc
    BY DEF PoolConserved, Pool
  <2>. DEFINE S == {at \in Mq \X (1..(MaxLen + Cardinality(Task))) :
                      /\ at[2] <= Len(msglist[at[1]]) /\ msglist[at[1]][at[2]].type = type}
  <2>1. S = InQueues(type)
    <3>1. msglist \in [Mq -> Seq(Message)]
      BY MsgParts
    <3>2. ASSUME NEW q \in Mq, NEW i \in 1..(MaxLen + Cardinality(Task)), i <= Len(msglist[q])
          PROVE  msglist[q][i] \in OfType(type) <=> msglist[q][i].type = type
      <4>1. msglist[q] \in Seq(Message) /\ i \in 1..Len(msglist[q])
        BY <3>1, <3>2, Capacity
      <4>. QED  BY <4>1, CountedSets
    <3>. QED  BY <3>2 DEF InQueues, Slots
  <2>2. Sum(type) = Total(type)
    BY DEF MsgInv, Accounted
  <2>. QED  BY <2>1, <2>2 DEF Sum, Total, HeldOf
<1>. QED  BY InvAlways, MsgInvAlways, <1>1, PTL

\* The type invariant: among other things the lists agree with task_state, and senders
\* that found room before interrupts filled the queue add no more than the tasks there are.
THEOREM TypesAlways == Spec => []TypeOK
<1>1. MqInv /\ MsgInv => TypeOK
  <2>. SUFFICES ASSUME MqInv, MsgInv PROVE TypeOK
    OBVIOUS
  <2>1. sched \in SchedState /\ Placed(sched)
    BY KernelParts DEF Core
  <2>2. ASSUME NEW q \in Mq
        PROVE  /\ msglist[q] \in Seq(Message) /\ arrived[q] \in Seq(Message)
               /\ Len(msglist[q]) <= MaxLen + Cardinality(Task)
    BY MsgParts, Capacity DEF StablySorted
  <2>3. /\ nwait \in [MqWait -> [Mq -> Int]] /\ ntpid \in [Mq -> Task \cup {None}]
        /\ msgwaitq \in [Task -> Mq \cup {None}] /\ errcode \in [Task -> {"OK", "EINTR", "ETIMEDOUT"}]
        /\ cut \in [Mq -> SUBSET {"deleted", "restarted"}]
    <3>1. KTypes(Kernel) /\ Kernel.errcode = errcode
      BY KernelParts DEF Kernel
    <3>. QED  BY <3>1, KernelParts DEF KTypes, Errcode, How
  <2>4. /\ desc \in [Task -> Mq \cup {None}] /\ event \in [Task -> Task \cup {None}]
        /\ victim \in [Task -> Task \cup {None}] /\ waitdog \in [Task -> {"none", "created", "active"}]
        /\ mqmsg \in [Task -> {"FIXED", "IRQ", "DYN", None}]
    BY MsgParts DEF MqInv, Calls, CallTypes, MsgTypes, MsgType
  <2>5. pool \in [FIXED : 0..Prealloc, IRQ : 0..IrqPrealloc]
    <3>1. ASSUME NEW type \in Pool PROVE pool[type] \in 0..Total(type)
      <4>1. /\ pool[type] \in Nat /\ Cardinality(HeldOf(type)) \in Nat /\ Cardinality(InQueues(type)) \in Nat
            /\ Sum(type) = pool[type] + Cardinality(HeldOf(type)) + Cardinality(InQueues(type))
        BY AccountTypes
      <4>2. Sum(type) <= Total(type) /\ Total(type) \in Nat
        BY PoolsNat DEF MsgInv, Accounted, Total
      <4>. QED  BY <4>1, <4>2
    <3>2. pool \in [Pool -> Nat]
      BY MsgParts DEF MsgTypes
    <3>3. pool["FIXED"] \in 0..Prealloc /\ pool["IRQ"] \in 0..IrqPrealloc
      BY <3>1 DEF Pool, Total
    <3>. QED  BY <3>2, <3>3 DEF Pool
  <2>. QED  BY <2>1, <2>2, <2>3, <2>4, <2>5 DEF TypeOK
<1>. QED  BY InvAlways, MsgInvAlways, <1>1, PTL

(***************************************************************************)
(* Nobody is left behind: for each message in a queue that somebody waits  *)
(* on there is a task on its way to take it or to wake a receiver, and for *)
(* each free place one that will fill it or wake a sender.                 *)
(***************************************************************************)
UsedAt(st) ==
  IF st = "WAIT_MQNOTEMPTY" THEN {"notify", "notified", "wake"}
  ELSE {"alloc", "insert", "deliver", "wakesender"}

\* t is on its way: a waiter that a signal or a timeout took off the list is not.
Uses(t, st, q) ==
  /\ desc[t] = q
  /\ \/ pc[t] \in UsedAt(st)
     \/ pc[t] = PlaceOf(st) /\ sched.tstate[t] \notin MqWait /\ errcode[t] = "OK"
Users(st, q) == {t \in Task : Uses(t, st, q)}

Need(st, q) == IF st = "WAIT_MQNOTEMPTY" THEN Len(msglist[q]) ELSE MaxMsgs - Len(msglist[q])

Served(st, q) ==
  ~fault /\ cut[q] = {} /\ Blocked(st, q) # {} => Need(st, q) <= Cardinality(Users(st, q))

\* errcode is OK while a task waits.
Rested(t) == sched.tstate[t] \in MqWait => errcode[t] = "OK"

\* The call of a task that is being deleted was cut short.
Missed(t) == victim[t] # None /\ desc[victim[t]] # None => cut[desc[victim[t]]] # {}

\* A sender that was woken and gets no memory gives up, and the place stays free.
Watched == IF MallocFails THEN {"WAIT_MQNOTEMPTY"} ELSE MqWait

WakeInv ==
  /\ \A t \in Task : Rested(t) /\ Missed(t)
  /\ \A st \in Watched, q \in Mq : Served(st, q)

\* A step from k to r that goes on no list of waiters, and changes errcode only of
\* tasks that it takes off one.
Eases(k, r) ==
  /\ r.cut = k.cut /\ (k.fault => r.fault)
  /\ \A x \in Task :
       /\ r.sched.tstate[x] \in MqWait =>
            r.sched.tstate[x] = k.sched.tstate[x] /\ r.msgwaitq[x] = k.msgwaitq[x]
       /\ \/ r.errcode[x] = k.errcode[x]
          \/ k.sched.tstate[x] \in MqWait /\ r.sched.tstate[x] \notin MqWait

\* Two such steps in one critical section are one.
LEMMA EasesTwice ==
  ASSUME NEW k, NEW m, NEW r, Eases(k, m), Eases(m, r)
  PROVE  Eases(k, r)
BY DEF Eases

\* The functions that move messages.
LEMMA SameTasksEases ==
  ASSUME NEW k, NEW r, SameTasks(k, r)
  PROVE  Eases(k, r)
BY DEF SameTasks, Eases

\* Most steps are gentle and leave errcode alone.
LEMMA GentleEases ==
  ASSUME NEW k, NEW r, Gentle(k, r), k.fault => r.fault,
         \A x \in Task : \/ r.errcode[x] = k.errcode[x]
                         \/ k.sched.tstate[x] \in MqWait /\ r.sched.tstate[x] \notin MqWait
  PROVE  Eases(k, r)
BY DEF Gentle, Eases

\* nxmq_wait_irq sets errcode of the task it takes off the list.
LEMMA WaitIrqEases ==
  ASSUME NEW k, KInv(k), NEW t \in Task, NEW err \in Errcode
  PROVE  Eases(k, nxmq_wait_irq(k, t, err)) /\ nxmq_wait_irq(k, t, err).fault = k.fault
<1>. DEFINE r == nxmq_wait_irq(k, t, err)
            st == k.sched.tstate[t]
            q == k.msgwaitq[t]
<1>1. IsKernel(k) /\ KTypes(k) /\ Safe(k.sched)
  BY DEF KInv
<1>2. Gentle(k, r)
  BY WaitIrqGentle
<1>3. CASE st \notin MqWait
  <2>1. r = k
    BY <1>3 DEF nxmq_wait_irq
  <2>. QED  BY <2>1 DEF Eases
<1>4. CASE st \in MqWait
  <2>1. r = [k EXCEPT !.msgwaitq[t] = None, !.errcode[t] = err, !.nwait[st][q] = @ - 1,
                      !.sched = UnblockTask(k.sched, t)]
    BY <1>4 DEF nxmq_wait_irq
  <2>2. /\ r.sched = UnblockTask(k.sched, t) /\ r.fault = k.fault
        /\ r.errcode = [k.errcode EXCEPT ![t] = err] /\ k.errcode \in [Task -> Errcode]
    BY <1>1, <2>1 DEF IsKernel, KTypes
  <2>3. r.sched.tstate[t] \notin MqWait
    <3>1. k.sched.tstate[t] \in BlockedState
      BY <1>4 DEF MqWait, BlockedState, WaitState
    <3>2. r.sched.tstate[t] \notin BlockedState
      BY <1>1, <2>2, <3>1, UnblockStays
    <3>. QED  BY <3>2 DEF MqWait, BlockedState, WaitState
  <2>. HIDE DEF r
  <2>4. \A x \in Task : \/ r.errcode[x] = k.errcode[x]
                        \/ k.sched.tstate[x] \in MqWait /\ r.sched.tstate[x] \notin MqWait
    BY <1>4, <2>2, <2>3
  <2>. QED  BY <1>2, <2>2, <2>4, GentleEases DEF r
<1>. QED  BY <1>3, <1>4

\* The notification.
LEMMA NotifiedEases ==
  ASSUME NEW k, KInv(k), NEW q \in Mq, NEW t \in Task, NEW unmasked \in BOOLEAN
  PROVE  Eases(k, Notified(k, q, t, unmasked)) /\ Notified(k, q, t, unmasked).fault = k.fault
<1>. DEFINE sent == [k EXCEPT !.ntpid[q] = None]
            r == Notified(k, q, t, unmasked)
<1>1. IsKernel(k) /\ KTypes(k)
  BY DEF KInv
<1>2. /\ IsKernel(sent) /\ sent.sched = k.sched /\ sent.nwait = k.nwait
      /\ sent.msgwaitq = k.msgwaitq /\ sent.cut = k.cut /\ sent.errcode = k.errcode
      /\ sent.ntpid = [k.ntpid EXCEPT ![q] = None] /\ sent.fault = k.fault
  BY <1>1 DEF IsKernel
<1>3. r = IF unmasked THEN nxmq_wait_irq(sent, t, "EINTR") ELSE sent
  BY DEF Notified
<1>. HIDE DEF sent, r
<1>4. KTypes(sent)
  BY <1>1, <1>2 DEF KTypes
<1>5. Gentle(k, sent) /\ Eases(k, sent)
  BY <1>2, <1>4, GentleFrame DEF Eases
<1>6. CASE unmasked
  <2>1. KInv(sent) /\ "EINTR" \in Errcode
    BY <1>5 DEF Gentle, Errcode
  <2>2. Eases(sent, r) /\ r.fault = sent.fault
    BY <1>3, <1>6, <2>1, WaitIrqEases
  <2>. QED  BY <1>2, <1>5, <2>2, EasesTwice DEF r
<1>7. CASE ~unmasked
  BY <1>2, <1>3, <1>5, <1>7 DEF r
<1>. QED  BY <1>6, <1>7

\* A waiter for q is taken off the list with its errcode as it was, unless there
\* is none left.
Woke(k, r, st, q) ==
  \/ r.fault
  \/ On(r, st, q) = {}
  \/ \E w \in Task : /\ k.sched.tstate[w] = st /\ k.msgwaitq[w] = q
                     /\ r.sched.tstate[w] \notin MqWait /\ r.errcode[w] = k.errcode[w]

\* What precedes the wake-up in the critical section goes on no list.
LEMMA WokeAfter ==
  ASSUME NEW k, NEW m, NEW r, Eases(k, m), NEW st \in MqWait, NEW q, Woke(m, r, st, q)
  PROVE  Woke(k, r, st, q)
<1>1. CASE r.fault \/ On(r, st, q) = {}
  BY <1>1 DEF Woke
<1>2. CASE ~r.fault /\ On(r, st, q) # {}
  <2>1. PICK w \in Task : /\ m.sched.tstate[w] = st /\ m.msgwaitq[w] = q
                          /\ r.sched.tstate[w] \notin MqWait /\ r.errcode[w] = m.errcode[w]
    BY <1>2 DEF Woke
  <2>2. k.sched.tstate[w] = st /\ k.msgwaitq[w] = q /\ m.errcode[w] = k.errcode[w]
    BY <2>1 DEF Eases
  <2>. QED  BY <2>1, <2>2 DEF Woke
<1>. QED  BY <1>1, <1>2

\* The wake-up of the first waiter.
LEMMA WakeFirstWakes ==
  ASSUME NEW k, KInv(k), NEW st \in MqWait, NEW q \in Mq
  PROVE  Eases(k, WakeFirst(k, st, q)) /\ Woke(k, WakeFirst(k, st, q), st, q)
<1>. DEFINE r == WakeFirst(k, st, q)
            first == FirstWaiter(k, st, q)
<1>1. IsKernel(k) /\ KTypes(k) /\ Safe(k.sched)
  BY DEF KInv
<1>2. Gentle(k, r)
  BY WakeFirstGentle
<1>3. CASE first = {}
  <2>1. r = [k EXCEPT !.fault = TRUE]
    BY <1>3 DEF WakeFirst
  <2>2. r.errcode = k.errcode /\ r.fault = TRUE
    BY <1>1, <2>1 DEF IsKernel
  <2>. HIDE DEF r
  <2>3. Eases(k, r)
    BY <1>2, <2>2, GentleEases
  <2>. QED  BY <2>2, <2>3 DEF Woke, r
<1>4. CASE first # {}
  <2>. DEFINE t == CHOOSE x \in first : TRUE
  <2>1. t \in first
    BY <1>4
  <2>2. r = [k EXCEPT !.msgwaitq[t] = None, !.nwait[st][q] = @ - 1,
                      !.sched = UnblockTask(k.sched, t)]
    BY <1>4 DEF WakeFirst
  <2>. HIDE DEF t
  <2>3. t \in Task /\ k.sched.tstate[t] = st /\ k.msgwaitq[t] = q
    BY <2>1, FirstWaiterWaits
  <2>4. r.sched = UnblockTask(k.sched, t) /\ r.errcode = k.errcode /\ r.fault = k.fault
    BY <1>1, <2>2 DEF IsKernel
  <2>5. r.sched.tstate[t] \notin MqWait
    <3>1. k.sched.tstate[t] \in BlockedState
      BY <2>3 DEF MqWait, BlockedState, WaitState
    <3>2. r.sched.tstate[t] \notin BlockedState
      BY <1>1, <2>3, <2>4, <3>1, UnblockStays
    <3>. QED  BY <3>2 DEF MqWait, BlockedState, WaitState
  <2>. HIDE DEF r
  <2>6. Eases(k, r)
    BY <1>2, <2>4, GentleEases
  <2>7. Woke(k, r, st, q)
    BY <2>3, <2>4, <2>5 DEF Woke
  <2>. QED  BY <2>6, <2>7 DEF r
<1>. QED  BY <1>3, <1>4

\* A count that is not positive means that nobody waits.
LEMMA NobodyCounted ==
  ASSUME NEW k, KInv(k), NEW st \in MqWait, NEW q \in Mq, ~(k.nwait[st][q] > 0)
  PROVE  On(k, st, q) = {}
<1>1. Cardinality(On(k, st, q)) <= k.nwait[st][q] /\ k.nwait[st][q] \in Int
  BY DEF KInv, Counted, KTypes
<1>2. On(k, st, q) \in SUBSET Task
  BY DEF On
<1>3. Cardinality(On(k, st, q)) \in Nat
  BY <1>2, TaskSets
<1>4. Cardinality(On(k, st, q)) = 0
  BY <1>1, <1>3
<1>. QED  BY <1>2, <1>4, TaskSets

\* The wake-up at the end of nxmq_do_send.
LEMMA WakeReceiverWakes ==
  ASSUME NEW k, KInv(k), NEW q \in Mq
  PROVE  Eases(k, WakeReceiver(k, q)) /\ Woke(k, WakeReceiver(k, q), "WAIT_MQNOTEMPTY", q)
<1>1. "WAIT_MQNOTEMPTY" \in MqWait
  BY DEF MqWait
<1>2. CASE k.nwait["WAIT_MQNOTEMPTY"][q] > 0
  BY <1>1, <1>2, WakeFirstWakes DEF WakeReceiver
<1>3. CASE ~(k.nwait["WAIT_MQNOTEMPTY"][q] > 0)
  <2>1. WakeReceiver(k, q) = k
    BY <1>3 DEF WakeReceiver
  <2>2. On(k, "WAIT_MQNOTEMPTY", q) = {}
    BY <1>1, <1>3, NobodyCounted
  <2>. QED  BY <2>1, <2>2 DEF Eases, Woke
<1>. QED  BY <1>2, <1>3

\* One more part of Kernel.
LEMMA KernelErr ==
  /\ Kernel.errcode = errcode /\ Kernel.fault = fault
  /\ \A r : Becomes(r) => errcode' = r.errcode /\ fault' = r.fault /\ sched' = r.sched
                           /\ msgwaitq' = r.msgwaitq /\ cut' = r.cut /\ msglist' = r.msglist
BY DEF Kernel, Becomes

\* The tasks on their way, when the running task me alone goes on in its call.
LEMMA Drift ==
  ASSUME MqInv, \A x \in Task : Rested(x), NEW r, Eases(Kernel, r), Becomes(r),
         NEW me \in Task, me = self,
         \A x \in Task : x # me => pc'[x] = pc[x] /\ desc'[x] = desc[x]
  PROVE  /\ (\A x \in Task : Rested(x)') /\ cut' = cut /\ (fault => fault')
         /\ \A st \in MqWait, q \in Mq : /\ Blocked(st, q)' \subseteq Blocked(st, q)
                                         /\ Users(st, q) \ {me} \subseteq Users(st, q)'
         /\ sched.tstate[me] \notin MqWait /\ sched'.tstate[me] \notin MqWait
         /\ errcode'[me] = errcode[me]
<1>1. /\ Kernel.sched = sched /\ Kernel.msgwaitq = msgwaitq /\ Kernel.cut = cut
      /\ sched.tstate[me] \notin MqWait
  BY KernelParts
<1>2. /\ cut' = cut /\ (fault => fault')
      /\ \A x \in Task :
           /\ sched'.tstate[x] \in MqWait =>
                sched'.tstate[x] = sched.tstate[x] /\ msgwaitq'[x] = msgwaitq[x]
           /\ \/ errcode'[x] = errcode[x]
              \/ sched.tstate[x] \in MqWait /\ sched'.tstate[x] \notin MqWait
  BY <1>1, KernelErr DEF Eases
<1>3. \A x \in Task : Rested(x)'
  BY <1>2 DEF Rested
<1>4. sched'.tstate[me] \notin MqWait /\ errcode'[me] = errcode[me]
  BY <1>1, <1>2
<1>5. ASSUME NEW st \in MqWait, NEW q \in Mq PROVE Blocked(st, q)' \subseteq Blocked(st, q)
  BY <1>2 DEF Blocked
<1>6. ASSUME NEW st \in MqWait, NEW q \in Mq, NEW x \in Users(st, q) \ {me}
      PROVE  x \in Users(st, q)'
  <2>1. x \in Task /\ Uses(x, st, q)
    BY <1>6 DEF Users
  <2>2. pc'[x] = pc[x] /\ desc'[x] = desc[x]
    BY <1>6, <2>1
  <2>3. sched.tstate[x] \notin MqWait => sched'.tstate[x] \notin MqWait /\ errcode'[x] = errcode[x]
    BY <1>2, <2>1
  <2>4. Uses(x, st, q)'
    BY <2>1, <2>2, <2>3 DEF Uses
  <2>. QED  BY <2>1, <2>4 DEF Users
<1>. QED  BY <1>1, <1>2, <1>3, <1>4, <1>5, <1>6

\* A set of tasks loses at most me, and may gain w.
LEMMA GainOrLose ==
  ASSUME NEW U \in SUBSET Task, NEW V \in SUBSET Task, NEW me \in Task, U \ {me} \subseteq V
  PROVE  /\ Cardinality(U) \in Nat /\ Cardinality(V) \in Nat
         /\ Cardinality(U) <= Cardinality(V) + 1
         /\ (me \in U => me \in V) => Cardinality(U) <= Cardinality(V)
         /\ (\E w \in V : w \notin U) => Cardinality(U) <= Cardinality(V)
         /\ (me \in U => me \in V) /\ (\E w \in V : w \notin U) =>
              Cardinality(U) + 1 <= Cardinality(V)
<1>1. IsFiniteSet(U) /\ IsFiniteSet(V) /\ Cardinality(U) \in Nat /\ Cardinality(V) \in Nat
  BY TaskSets
<1>2. ASSUME NEW A \in SUBSET Task, NEW B \in SUBSET Task, A \subseteq B
      PROVE  Cardinality(A) <= Cardinality(B)
  <2>1. IsFiniteSet(B)
    BY TaskSets
  <2>. QED  BY <1>2, <2>1, FS_Subset
<1>3. /\ Cardinality(U \ {me}) \in Nat
      /\ Cardinality(U \ {me}) = IF me \in U THEN Cardinality(U) - 1 ELSE Cardinality(U)
  <2>1. U \ {me} \in SUBSET Task
    OBVIOUS
  <2>. QED  BY <2>1, TaskSets
<1>4. Cardinality(U \ {me}) <= Cardinality(V)
  BY <1>2
<1>5. Cardinality(U) <= Cardinality(V) + 1
  BY <1>1, <1>3, <1>4
<1>6. (me \in U => me \in V) => Cardinality(U) <= Cardinality(V)
  BY <1>2
<1>7. ASSUME NEW w \in V, w \notin U
      PROVE  /\ Cardinality(U) <= Cardinality(V)
             /\ (me \in U => me \in V) => Cardinality(U) + 1 <= Cardinality(V)
  <2>. DEFINE W == V \ {w}
  <2>1. W \in SUBSET Task /\ w \in Task
    OBVIOUS
  <2>2. Cardinality(W) = Cardinality(V) - 1 /\ Cardinality(W) \in Nat
    BY <2>1, TaskSets
  <2>3. U \ {me} \subseteq W /\ ((me \in U => me \in V) => U \subseteq W)
    BY <1>7
  <2>. HIDE DEF W
  <2>4. Cardinality(U \ {me}) <= Cardinality(W)
    BY <1>2, <2>1, <2>3
  <2>5. Cardinality(U) <= Cardinality(V)
    BY <1>1, <1>3, <2>2, <2>4
  <2>6. (me \in U => me \in V) => Cardinality(U) <= Cardinality(W)
    BY <1>2, <2>1, <2>3
  <2>7. (me \in U => me \in V) => Cardinality(U) + 1 <= Cardinality(V)
    BY <1>1, <2>2, <2>6
  <2>. QED  BY <2>5, <2>7
<1>. QED  BY <1>1, <1>5, <1>6, <1>7

\* The balance of a step: what is needed changes no more than the tasks on their way.
Balanced(st, q, me) ==
  \/ Need(st, q)' <= 0
  \/ Need(st, q)' <= Need(st, q) /\ (me \in Users(st, q) => me \in Users(st, q)')
  \/ Need(st, q)' <= Need(st, q) - 1
  \/ Need(st, q)' <= Need(st, q) /\ \E w \in Users(st, q)' : w \notin Users(st, q)
  \/ /\ Need(st, q)' <= Need(st, q) + 1 /\ (me \in Users(st, q) => me \in Users(st, q)')
     /\ \E w \in Users(st, q)' : w \notin Users(st, q)

\* Then who waits is still served.
LEMMA Serve ==
  ASSUME NEW st \in MqWait, NEW q \in Mq, Served(st, q), cut' = cut, fault => fault',
         Need(st, q) \in Int, Need(st, q)' \in Int, NEW me \in Task,
         Blocked(st, q)' \subseteq Blocked(st, q) \/ Need(st, q)' <= 0,
         Users(st, q) \ {me} \subseteq Users(st, q)', Balanced(st, q, me)
  PROVE  Served(st, q)'
<1>. DEFINE U == Users(st, q)
            V == Users(st, q)'
            n == Need(st, q)
            m == Need(st, q)'
<1>. SUFFICES ASSUME ~fault', cut'[q] = {}, Blocked(st, q)' # {}
              PROVE  m <= Cardinality(V)
  BY DEF Served
<1>1. U \in SUBSET Task /\ V \in SUBSET Task
  BY DEF Users
<1>2. /\ Cardinality(U) \in Nat /\ Cardinality(V) \in Nat
      /\ Cardinality(U) <= Cardinality(V) + 1
      /\ (me \in U => me \in V) => Cardinality(U) <= Cardinality(V)
      /\ (\E w \in V : w \notin U) => Cardinality(U) <= Cardinality(V)
      /\ (me \in U => me \in V) /\ (\E w \in V : w \notin U) =>
           Cardinality(U) + 1 <= Cardinality(V)
  BY <1>1, GainOrLose
<1>3. m \in Int /\ n \in Int /\ (m <= 0 \/ n <= Cardinality(U))
  BY DEF Served
<1>4. \/ m <= 0
      \/ m <= n /\ (me \in U => me \in V)
      \/ m <= n - 1
      \/ m <= n /\ \E w \in V : w \notin U
      \/ m <= n + 1 /\ (me \in U => me \in V) /\ \E w \in V : w \notin U
  BY DEF Balanced
<1>. HIDE DEF U, V, m, n
<1>5. \/ m <= 0
      \/ m <= n /\ Cardinality(U) <= Cardinality(V)
      \/ m <= n - 1
      \/ m <= n + 1 /\ Cardinality(U) + 1 <= Cardinality(V)
  BY <1>2, <1>4
<1>. QED  BY <1>2, <1>3, <1>5

\* What is needed is a number.
LEMMA NeedIsNumber ==
  ASSUME MqInv, MsgInv, NEW q \in Mq
  PROVE  /\ Len(msglist[q]) \in Nat /\ MaxMsgs \in Nat
         /\ Need("WAIT_MQNOTEMPTY", q) = Len(msglist[q])
         /\ Need("WAIT_MQNOTFULL", q) = MaxMsgs - Len(msglist[q])
         /\ \A st \in MqWait : Need(st, q) \in Int
<1>1. Len(msglist[q]) \in Nat /\ MaxMsgs \in Nat
  BY MsgParts, Capacity
<1>. QED  BY <1>1 DEF Need

\* Who is being deleted keeps its call until its TCB is cleared.
LEMMA MissedKeeps ==
  ASSUME MqInv, \A x \in Task : Missed(x), victim' = victim, cut' = cut,
         \A x \in Task : x # self => desc'[x] = desc[x]
  PROVE  \A x \in Task : Missed(x)'
<1>. SUFFICES ASSUME NEW x \in Task PROVE Missed(x)'
  OBVIOUS
<1>1. CallTypes /\ Equipped(x) /\ sched.tstate[self] # "INVALID"
  BY KernelParts DEF MqInv, Calls
<1>2. victim[x] # None => victim[x] \in Task /\ victim[x] # self
  BY <1>1 DEF CallTypes, Equipped
<1>3. victim[x] # None => desc'[victim[x]] = desc[victim[x]]
  BY <1>2
<1>4. Missed(x)
  OBVIOUS
<1>. QED  BY <1>3, <1>4 DEF Missed

\* The running task goes on in its call; the step is in balance for all queues.
LEMMA MoveServes ==
  ASSUME MqInv, MsgInv, WakeInv, MsgInv', NEW r, Eases(Kernel, r), Becomes(r),
         NEW me \in Task, me = self, UNCHANGED victim,
         \A x \in Task : x # me => pc'[x] = pc[x] /\ desc'[x] = desc[x],
         \A st \in Watched, q \in Mq : Blocked(st, q)' = {} \/ Balanced(st, q, me)
  PROVE  WakeInv'
<1>1. /\ (\A x \in Task : Rested(x)') /\ cut' = cut /\ (fault => fault')
      /\ \A st \in MqWait, q \in Mq : /\ Blocked(st, q)' \subseteq Blocked(st, q)
                                      /\ Users(st, q) \ {me} \subseteq Users(st, q)'
  BY Drift DEF WakeInv
<1>2. \A x \in Task : Missed(x)'
  BY <1>1, MissedKeeps DEF WakeInv
<1>3. ASSUME NEW st \in Watched, NEW q \in Mq PROVE Served(st, q)'
  <2>1. st \in MqWait /\ Served(st, q)
    BY DEF Watched, MqWait, WakeInv
  <2>2. Need(st, q) \in Int
    BY <2>1, NeedIsNumber
  <2>3. Len(msglist'[q]) \in Nat /\ MaxMsgs \in Nat
    BY Capacity DEF MsgInv, StablySorted
  <2>4. Need(st, q)' \in Int
    BY <2>3 DEF Need
  <2>5. CASE Blocked(st, q)' = {}
    BY <2>5 DEF Served
  <2>6. CASE Balanced(st, q, me)
    BY <1>1, <2>1, <2>2, <2>4, <2>6, Serve
  <2>. QED  BY <2>5, <2>6
<1>. QED  BY <1>1, <1>2, <1>3 DEF WakeInv

\* At the place of a call on d the running task is on its way if it was before,
\* unless nobody waits.
StillUses(place, d) ==
  \A st \in Watched, q \in Mq : Uses(self, st, q) =>
    \/ Blocked(st, q) = {}
    \/ d = q /\ (place \in UsedAt(st) \/ (place = PlaceOf(st) /\ errcode[self] = "OK"))

\* No message moves, and the running task, if it was on its way, still is, unless
\* nobody waits.
LEMMA PlainServes ==
  ASSUME MqInv, MsgInv, WakeInv, MsgInv', NEW r, Eases(Kernel, r), Becomes(r), UNCHANGED <<msglist, victim>>,
         NEW place, pc' = [pc EXCEPT ![self] = place],
         NEW d, desc' = [desc EXCEPT ![self] = d],
         StillUses(place, d)
  PROVE  WakeInv'
<1>. PICK me \in Task : me = self
  BY KernelParts
<1>1. CallTypes
  BY DEF MqInv, Calls
<1>2. /\ pc'[me] = place /\ desc'[me] = d
      /\ \A x \in Task : x # me => pc'[x] = pc[x] /\ desc'[x] = desc[x]
  BY <1>1 DEF CallTypes
<1>3. /\ sched'.tstate[me] \notin MqWait /\ errcode'[me] = errcode[me]
      /\ \A st \in MqWait, q \in Mq : Blocked(st, q)' \subseteq Blocked(st, q)
  BY <1>2, Drift DEF WakeInv
<1>4. ASSUME NEW st \in Watched, NEW q \in Mq
      PROVE  Blocked(st, q)' = {} \/ Balanced(st, q, me)
  <2>1. st \in MqWait
    BY DEF Watched, MqWait
  <2>2. Need(st, q)' = Need(st, q) /\ Need(st, q) \in Int
    BY <2>1, NeedIsNumber DEF Need
  <2>3. CASE Blocked(st, q) = {}
    BY <1>3, <2>1, <2>3
  <2>4. CASE Blocked(st, q) # {}
    <3>1. Uses(me, st, q) => Uses(me, st, q)'
      BY <1>2, <1>3, <2>4 DEF Uses, StillUses
    <3>2. me \in Users(st, q) => me \in Users(st, q)'
      BY <3>1 DEF Users
    <3>. QED  BY <2>2, <3>2 DEF Balanced
  <2>. QED  BY <2>3, <2>4
<1>. QED  BY <1>2, <1>4, MoveServes

\* Outside the places of UsedAt and the two waits nobody is on its way.
LEMMA NotUsing ==
  ASSUME NEW t, pc[t] \notin UsedAt("WAIT_MQNOTEMPTY") \cup UsedAt("WAIT_MQNOTFULL") \cup Waits
  PROVE  \A st \in MqWait, q \in Mq : ~Uses(t, st, q)
BY DEF Uses, MqWait, PlaceOf, Waits

\* A step of an interrupt or of the scheduler that moves no message.
LEMMA CalmServes ==
  ASSUME MqInv, MsgInv, WakeInv, MsgInv', NEW r, Eases(Kernel, r), Becomes(r), UNCHANGED <<msglist, callvars>>
  PROVE  WakeInv'
<1>1. /\ pc' = [pc EXCEPT ![self] = pc[self]] /\ desc' = [desc EXCEPT ![self] = desc[self]]
      /\ UNCHANGED victim
  BY CallParts DEF callvars
<1>2. StillUses(pc[self], desc[self])
  BY DEF Uses, StillUses
<1>. QED  BY <1>1, <1>2, PlainServes

\* The running task was not on its way.
LEMMA IdleServes ==
  ASSUME MqInv, MsgInv, WakeInv, MsgInv', NEW r, Eases(Kernel, r), Becomes(r), UNCHANGED <<msglist, victim>>,
         NEW place, pc' = [pc EXCEPT ![self] = place],
         NEW d, desc' = [desc EXCEPT ![self] = d],
         pc[self] \notin UsedAt("WAIT_MQNOTEMPTY") \cup UsedAt("WAIT_MQNOTFULL") \cup Waits
  PROVE  WakeInv'
<1>1. StillUses(place, d)
  BY NotUsing DEF Watched, MqWait, StillUses
<1>. QED  BY <1>1, PlainServes

\* nxmq_wait_send and nxmq_wait_receive block: then there is nothing to take, or no
\* place to fill.
LEMMA BlockServes ==
  ASSUME MqInv, MsgInv, WakeInv, MsgInv', self # Idle, NEW st0 \in MqWait,
         pc[self] \in {"send", "tsend", "recv", PlaceOf(st0)},
         Becomes(BlockOn(Kernel, self, st0, desc[self])),
         pc' = [pc EXCEPT ![self] = PlaceOf(st0)], UNCHANGED <<desc, victim>>,
         Need(st0, desc[self]) <= 0
  PROVE  WakeInv'
<1>. PICK me \in Task : me = self
  BY KernelParts
<1>. DEFINE q0 == desc[me]
            r == BlockOn(Kernel, me, st0, q0)
<1>1. /\ CallTypes /\ Equipped(me) /\ IsKernel(Kernel) /\ KInv(Kernel) /\ KTypes(Kernel)
      /\ Kernel.sched = sched /\ Kernel.msgwaitq = msgwaitq /\ Kernel.cut = cut
      /\ Kernel.errcode = errcode /\ Kernel.fault = fault /\ Kernel.msglist = msglist
      /\ sched.tstate[me] \notin MqWait /\ me = ThisTask(Kernel.sched)
      /\ errcode \in [Task -> Errcode]
  BY KernelParts, KernelErr DEF MqInv, Calls, KTypes
<1>2. q0 \in Mq
  BY <1>1 DEF Equipped, Held, Waits, PlaceOf
<1>3. /\ Elsewhere(sched, r.sched, me) /\ r.sched.tstate[me] = st0 /\ r.msgwaitq[me] = q0
      /\ (\A x \in Task : x # me => r.msgwaitq[x] = msgwaitq[x]) /\ r.msglist = msglist
  <2>1. KInv(Kernel) /\ me # Idle /\ Kernel.sched.tstate[me] \notin MqWait
    BY <1>1
  <2>. QED  BY <1>1, <1>2, <2>1, BlockOnJoins DEF SameMsgs
<1>4. r.cut = cut /\ r.fault = fault /\ r.errcode = [errcode EXCEPT ![me] = "OK"]
  BY <1>1 DEF BlockOn, IsKernel
<1>5. Becomes(r)
  OBVIOUS
<1>. HIDE DEF r
<1>6. /\ sched' = r.sched /\ msgwaitq' = r.msgwaitq /\ cut' = cut /\ fault' = fault
      /\ errcode' = [errcode EXCEPT ![me] = "OK"] /\ msglist' = msglist
  BY <1>3, <1>4, <1>5, KernelErr
<1>7. \A x \in Task : x # me =>
        /\ (\A st \in MqWait : sched'.tstate[x] = st <=> sched.tstate[x] = st)
        /\ (sched'.tstate[x] \in MqWait <=> sched.tstate[x] \in MqWait)
        /\ msgwaitq'[x] = msgwaitq[x] /\ errcode'[x] = errcode[x]
        /\ pc'[x] = pc[x] /\ desc'[x] = desc[x]
  <2>1. \A x \in Task : x # me => errcode'[x] = errcode[x] /\ pc'[x] = pc[x] /\ desc'[x] = desc[x]
    BY <1>1, <1>6 DEF CallTypes
  <2>. QED  BY <1>3, <1>6, <2>1, ElsewhereTells
<1>8. sched'.tstate[me] = st0 /\ msgwaitq'[me] = q0 /\ errcode'[me] = "OK"
  BY <1>1, <1>3, <1>6
<1>9. ASSUME NEW x \in Task PROVE Rested(x)'
  BY <1>7, <1>8 DEF Rested, WakeInv
<1>10. \A x \in Task : Missed(x)'
  BY <1>6, MissedKeeps DEF WakeInv
<1>11. ASSUME NEW st \in Watched, NEW q \in Mq PROVE Served(st, q)'
  <2>1. st \in MqWait /\ Served(st, q)
    BY DEF Watched, MqWait, WakeInv
  <2>2. Need(st, q) \in Int /\ Need(st, q)' = Need(st, q)
    BY <1>6, <2>1, NeedIsNumber DEF Need
  <2>3. Users(st, q) \ {me} \subseteq Users(st, q)'
    BY <1>7 DEF Users, Uses
  <2>4. CASE st = st0 /\ q = q0
    <3>1. Need(st, q)' <= 0
      BY <2>2, <2>4
    <3>2. Balanced(st, q, me)
      BY <3>1 DEF Balanced
    <3>. QED  BY <1>6, <2>1, <2>2, <2>3, <3>1, <3>2, Serve
  <2>5. CASE ~(st = st0 /\ q = q0)
    <3>1. Blocked(st, q)' \subseteq Blocked(st, q)
      <4>. SUFFICES ASSUME NEW x \in Blocked(st, q)' PROVE x \in Blocked(st, q)
        OBVIOUS
      <4>1. x \in Task /\ sched'.tstate[x] = st /\ msgwaitq'[x] = q
        BY DEF Blocked
      <4>2. x # me
        BY <1>8, <2>5, <4>1
      <4>. QED  BY <1>7, <2>1, <4>1, <4>2 DEF Blocked
    <3>2. me \notin Users(st, q)
      <4>1. ~Uses(me, st, q)
        BY <2>1, <2>5 DEF Uses, UsedAt, PlaceOf, MqWait
      <4>. QED  BY <4>1 DEF Users
    <3>3. Balanced(st, q, me)
      BY <2>2, <3>2 DEF Balanced
    <3>. QED  BY <1>6, <2>1, <2>2, <2>3, <3>1, <3>3, Serve
  <2>. QED  BY <2>4, <2>5
<1>. QED  BY <1>9, <1>10, <1>11 DEF WakeInv

\* The steps of a send before the message is inserted.
LEMMA SendServes ==
  ASSUME MqInv, MsgInv, WakeInv, MsgInv', SendCheck \/ SendResume \/ TimedSendCheck \/ TimedSendWait
  PROVE  WakeInv'
<1>1. /\ Equipped(self) /\ self \in Task /\ desc = [desc EXCEPT ![self] = desc[self]]
      /\ (UNCHANGED kvars => Becomes(Kernel)) /\ Eases(Kernel, Kernel)
  BY CallParts DEF Eases
<1>2. UNCHANGED kvars => UNCHANGED msglist
  BY DEF kvars
<1>3. ASSUME pc[self] \in {"send", "tsend", "sendwait"}, self # Idle, Full(desc[self]),
             Becomes(BlockOn(Kernel, self, "WAIT_MQNOTFULL", desc[self])),
             pc' = [pc EXCEPT ![self] = "sendwait"], UNCHANGED <<desc, victim>>
      PROVE  WakeInv'
  <2>1. "WAIT_MQNOTFULL" \in MqWait /\ PlaceOf("WAIT_MQNOTFULL") = "sendwait"
    BY DEF MqWait, PlaceOf
  <2>2. desc[self] \in Mq
    BY <1>1, <1>3 DEF Equipped, Held, Waits
  <2>3. PICK q \in Mq : q = desc[self]
    BY <2>2
  <2>4. Need("WAIT_MQNOTFULL", q) <= 0
    <3>1. Len(msglist[q]) >= MaxMsgs
      BY <1>3, <2>3 DEF Full
    <3>. QED  BY <3>1, NeedIsNumber
  <2>5. Need("WAIT_MQNOTFULL", desc[self]) <= 0
    BY <2>3, <2>4
  <2>. QED  BY <1>3, <2>1, <2>5, BlockServes
<1>4. ASSUME pc[self] \in {"send", "tcheck", "tsend"}, UNCHANGED <<kvars, desc, victim>>,
             NEW place, pc' = [pc EXCEPT ![self] = place]
      PROVE  WakeInv'
  <2>1. pc[self] \notin UsedAt("WAIT_MQNOTEMPTY") \cup UsedAt("WAIT_MQNOTFULL") \cup Waits
    BY <1>4 DEF UsedAt, Waits
  <2>2. Becomes(Kernel) /\ UNCHANGED <<msglist, victim>> /\ desc' = [desc EXCEPT ![self] = desc[self]]
    BY <1>1, <1>2, <1>4
  <2>. QED  BY <1>1, <1>4, <2>1, <2>2, IdleServes
<1>5. CASE SendCheck
  <2>1. pc[self] = "send" /\ self # Idle /\ UNCHANGED <<desc, victim>>
    BY <1>5 DEF SendCheck, Running
  <2>. QED  BY <1>3, <1>4, <1>5, <2>1 DEF SendCheck, GoTo
<1>6. CASE TimedSendCheck
  <2>1. pc[self] = "tcheck" /\ UNCHANGED <<kvars, desc, victim>>
    BY <1>6 DEF TimedSendCheck, Running
  <2>. QED  BY <1>4, <1>6, <2>1 DEF TimedSendCheck, GoTo
<1>7. CASE TimedSendWait
  <2>1. pc[self] = "tsend" /\ self # Idle /\ UNCHANGED <<desc, victim>>
    BY <1>7 DEF TimedSendWait, Running
  <2>. QED  BY <1>3, <1>4, <1>7, <2>1 DEF TimedSendWait, GoTo
<1>8. CASE SendResume
  <2>1. pc[self] = "sendwait" /\ self # Idle /\ UNCHANGED <<desc, victim>>
    BY <1>8 DEF SendResume, Running
  <2>2. ASSUME UNCHANGED kvars, NEW place, pc' = [pc EXCEPT ![self] = place],
               errcode[self] # "OK" \/ place \in {"insert", "alloc"}
        PROVE  WakeInv'
    <3>. PICK d : d = desc[self]
      OBVIOUS
    <3>1. StillUses(place, d)
      BY <2>1, <2>2 DEF Uses, UsedAt, PlaceOf, StillUses
    <3>2. /\ Becomes(Kernel) /\ UNCHANGED <<msglist, victim>> /\ desc' = [desc EXCEPT ![self] = d]
          /\ Eases(Kernel, Kernel) /\ pc' = [pc EXCEPT ![self] = place]
      BY <1>1, <1>2, <2>1, <2>2
    <3>. QED  BY <3>1, <3>2, PlainServes
  <2>3. CASE errcode[self] # "OK" /\ GoTo(IF mqmsg[self] # None THEN "discard" ELSE "unlock")
             /\ UNCHANGED kvars
    BY <2>2, <2>3 DEF GoTo
  <2>4. CASE GoTo(IF mqmsg[self] # None THEN "insert" ELSE "alloc") /\ UNCHANGED kvars
    BY <2>2, <2>4 DEF GoTo
  <2>5. CASE /\ Full(desc[self]) /\ Becomes(BlockOn(Kernel, self, "WAIT_MQNOTFULL", desc[self]))
             /\ UNCHANGED pc
    <3>1. pc' = [pc EXCEPT ![self] = "sendwait"]
      BY <2>1, <2>5, CallParts
    <3>. QED  BY <1>3, <2>1, <2>5, <3>1
  <2>. QED  BY <1>8, <2>3, <2>4, <2>5 DEF SendResume
<1>. QED  BY <1>5, <1>6, <1>7, <1>8

\* nxmq_alloc_msg: a task that gets no memory gives up.
LEMMA AllocServes ==
  ASSUME MqInv, MsgInv, WakeInv, MsgInv', SendAlloc \/ \E q \in Mq : TimedSend(q)
  PROVE  WakeInv'
<1>1. /\ self \in Task /\ desc = [desc EXCEPT ![self] = desc[self]]
      /\ (UNCHANGED kvars => Becomes(Kernel)) /\ Eases(Kernel, Kernel) /\ KInv(Kernel)
      /\ Kernel.msglist = msglist
  BY CallParts, KernelParts DEF Eases
<1>2. UNCHANGED kvars => UNCHANGED msglist
  BY DEF kvars
<1>3. PICK taken : taken = [Kernel EXCEPT !.pool.FIXED = @ - 1]
  OBVIOUS
<1>4. Eases(Kernel, taken) /\ taken.msglist = msglist
  <2>1. SameTasks(Kernel, taken)
    BY <1>1, <1>3, MessagesOnly
  <2>2. taken.msglist = Kernel.msglist
    BY <1>3 DEF Kernel
  <2>. QED  BY <1>1, <2>1, <2>2, SameTasksEases
<1>5. \/ UNCHANGED kvars
      \/ Becomes(taken)
  BY <1>3 DEF SendAlloc, TimedSend, Alloc
<1>6. PICK r : Eases(Kernel, r) /\ Becomes(r) /\ UNCHANGED msglist
  <2>1. CASE UNCHANGED kvars
    BY <1>1, <1>2, <2>1
  <2>2. CASE Becomes(taken)
    BY <1>4, <2>2, KernelErr
  <2>. QED  BY <1>5, <2>1, <2>2
<1>7. CASE SendAlloc
  <2>. PICK d : d = desc[self]
    OBVIOUS
  <2>1. pc[self] = "alloc" /\ desc' = [desc EXCEPT ![self] = d] /\ UNCHANGED <<msglist, victim>>
    BY <1>1, <1>6, <1>7 DEF SendAlloc, Running, Alloc
  <2>2. PICK place : pc' = [pc EXCEPT ![self] = place] /\ (place = "insert" \/ MallocFails)
    BY <1>7 DEF SendAlloc, Alloc, GoTo
  <2>3. StillUses(place, d)
    BY <2>1, <2>2 DEF StillUses, Uses, UsedAt, PlaceOf, Watched, MqWait
  <2>. QED  BY <1>6, <2>1, <2>2, <2>3, PlainServes
<1>8. CASE \E q \in Mq : TimedSend(q)
  <2>1. PICK q \in Mq : TimedSend(q)
    BY <1>8
  <2>2. pc[self] = "run" /\ desc' = [desc EXCEPT ![self] = q] /\ UNCHANGED <<msglist, victim>>
    BY <1>6, <2>1 DEF TimedSend, Running, Alloc
  <2>3. PICK place : pc' = [pc EXCEPT ![self] = place]
    BY <2>1 DEF TimedSend, Alloc, GoTo
  <2>4. pc[self] \notin UsedAt("WAIT_MQNOTEMPTY") \cup UsedAt("WAIT_MQNOTFULL") \cup Waits
    BY <2>2 DEF UsedAt, Waits
  <2>. QED  BY <1>6, <2>2, <2>3, <2>4, IdleServes
<1>. QED  BY <1>7, <1>8

\* The error exits of nxmq_timedsend, and the notification of nxmq_do_send.
LEMMA NotifyServes ==
  ASSUME MqInv, MsgInv, WakeInv, MsgInv',
         Discard \/ NotifyRead \/ \E unmasked \in BOOLEAN : NotifySend(unmasked)
  PROVE  WakeInv'
<1>1. /\ self \in Task /\ desc = [desc EXCEPT ![self] = desc[self]] /\ Equipped(self)
      /\ (UNCHANGED kvars => Becomes(Kernel)) /\ Eases(Kernel, Kernel) /\ KInv(Kernel)
      /\ Kernel.msglist = msglist /\ event[self] \in Task \cup {None} /\ IsKernel(Kernel)
  BY CallParts, KernelParts DEF Eases
<1>. PICK d : d = desc[self]
  OBVIOUS
<1>2. CASE Discard
  <2>. DEFINE r == FreeMsg(Kernel, [prio |-> 0, type |-> mqmsg[self]])
  <2>1. /\ pc[self] = "discard" /\ desc' = [desc EXCEPT ![self] = d] /\ Becomes(r)
        /\ pc' = [pc EXCEPT ![self] = "unlock"] /\ victim' = victim
    BY <1>1, <1>2 DEF Discard, Running, GoTo
  <2>2. Eases(Kernel, r) /\ r.msglist = msglist
    BY <1>1, MessagesOnly, FreeMsgMoves, SameTasksEases
  <2>. HIDE DEF r
  <2>3. UNCHANGED <<msglist, victim>>
    BY <2>1, <2>2, KernelErr
  <2>4. pc[self] \notin UsedAt("WAIT_MQNOTEMPTY") \cup UsedAt("WAIT_MQNOTFULL") \cup Waits
    BY <2>1 DEF UsedAt, Waits
  <2>. QED  BY <2>1, <2>2, <2>3, <2>4, IdleServes
<1>3. ASSUME pc[self] \in {"notify", "notified"}, NEW r, Eases(Kernel, r), Becomes(r), msglist' = msglist,
             UNCHANGED <<desc, victim>>, NEW place \in {"notified", "wake"},
             pc' = [pc EXCEPT ![self] = place]
      PROVE  WakeInv'
  <2>1. StillUses(place, d)
    BY <1>3 DEF StillUses, Uses, UsedAt, PlaceOf, Watched, MqWait
  <2>2. desc' = [desc EXCEPT ![self] = d] /\ UNCHANGED <<msglist, victim>>
    BY <1>1, <1>3
  <2>. QED  BY <1>3, <2>1, <2>2, PlainServes
<1>4. CASE NotifyRead
  <2>1. /\ pc[self] = "notify" /\ Becomes(Kernel) /\ msglist' = msglist
        /\ UNCHANGED <<desc, victim>>
    BY <1>1, <1>4 DEF NotifyRead, Running, kvars
  <2>2. PICK place \in {"notified", "wake"} : pc' = [pc EXCEPT ![self] = place]
    BY <1>4 DEF NotifyRead, GoTo
  <2>. QED  BY <1>1, <1>3, <2>1, <2>2
<1>5. CASE \E unmasked \in BOOLEAN : NotifySend(unmasked)
  <2>1. PICK unmasked \in BOOLEAN : NotifySend(unmasked)
    BY <1>5
  <2>. DEFINE r == Notified(Kernel, desc[self], event[self], unmasked)
  <2>2. /\ pc[self] = "notified" /\ Becomes(r) /\ UNCHANGED <<desc, victim>>
        /\ pc' = [pc EXCEPT ![self] = "wake"]
    BY <2>1 DEF NotifySend, Running, GoTo
  <2>3. desc[self] \in Mq /\ event[self] \in Task
    BY <1>1, <2>2 DEF Equipped, Held
  <2>4. Eases(Kernel, r)
    BY <1>1, <2>3, NotifiedEases
  <2>5. SameMsgs(Kernel, r)
    BY <1>1, <2>3, NotifiedGentle
  <2>. HIDE DEF r
  <2>6. msglist' = msglist
    BY <1>1, <2>2, <2>5, KernelErr DEF SameMsgs
  <2>. QED  BY <1>3, <2>2, <2>4, <2>6
<1>. QED  BY <1>2, <1>4, <1>5

\* The list of q becomes one message longer, or shorter.
Grows(q, n) ==
  /\ Len(msglist'[q]) = Len(msglist[q]) + n
  /\ \A p \in Mq : p # q => msglist'[p] = msglist[p]

\* What is needed then.
LEMMA GrowsNeed ==
  ASSUME MqInv, MsgInv, NEW q \in Mq, NEW n \in {1, -1}, Grows(q, n)
  PROVE  /\ Need("WAIT_MQNOTEMPTY", q)' = Need("WAIT_MQNOTEMPTY", q) + n
         /\ Need("WAIT_MQNOTFULL", q)' = Need("WAIT_MQNOTFULL", q) - n
         /\ \A p \in Mq, st \in MqWait : p # q => Need(st, p)' = Need(st, p)
<1>1. Len(msglist[q]) \in Nat /\ MaxMsgs \in Nat /\ n \in Int
  BY NeedIsNumber
<1>2. Need("WAIT_MQNOTEMPTY", q)' = Need("WAIT_MQNOTEMPTY", q) + n
  BY DEF Grows, Need
<1>3. Need("WAIT_MQNOTFULL", q)' = Need("WAIT_MQNOTFULL", q) - n
  <2>1. Need("WAIT_MQNOTFULL", q)' = MaxMsgs - (Len(msglist[q]) + n)
    BY DEF Grows, Need
  <2>2. Need("WAIT_MQNOTFULL", q) = MaxMsgs - Len(msglist[q])
    BY DEF Need
  <2>. QED  BY <1>1, <2>1, <2>2
<1>. QED  BY <1>2, <1>3 DEF Grows, Need

\* Who puts a message in a queue wakes a receiver before it leaves, and who takes
\* one out wakes a sender.
LEMMA TurnServes ==
  ASSUME MqInv, MsgInv, WakeInv, MsgInv', NEW r, Eases(Kernel, r), Becomes(r), UNCHANGED <<desc, victim>>,
         NEW q0 \in Mq, q0 = desc[self],
         NEW st0 \in MqWait, NEW n \in {1, -1}, Grows(q0, n),
         n = IF st0 = "WAIT_MQNOTEMPTY" THEN 1 ELSE -1,
         pc[self] \notin UsedAt(st0) \cup {PlaceOf(st0)},
         NEW place \in UsedAt(st0), pc' = [pc EXCEPT ![self] = place]
  PROVE  WakeInv'
<1>. PICK me \in Task : me = self
  BY KernelParts
<1>1. CallTypes
  BY DEF MqInv, Calls
<1>2. /\ pc'[me] = place /\ desc'[me] = q0
      /\ \A x \in Task : x # me => pc'[x] = pc[x] /\ desc'[x] = desc[x]
  BY <1>1 DEF CallTypes
<1>3. ASSUME NEW st \in Watched, NEW q \in Mq
      PROVE  Balanced(st, q, me)
  <2>1. st \in MqWait
    BY DEF Watched, MqWait
  <2>2. Need(st, q) \in Int
    BY <2>1, NeedIsNumber
  <2>3. CASE q # q0
    <3>1. Need(st, q)' = Need(st, q)
      BY <2>1, <2>3, GrowsNeed
    <3>2. me \notin Users(st, q)
      BY <2>3 DEF Users, Uses
    <3>. QED  BY <2>2, <3>1, <3>2 DEF Balanced
  <2>4. CASE q = q0 /\ st = st0
    <3>1. Need(st, q)' = Need(st, q) + 1
      <4>1. CASE st = "WAIT_MQNOTEMPTY"
        BY <2>4, <4>1, GrowsNeed
      <4>2. CASE st = "WAIT_MQNOTFULL"
        <5>1. n = -1
          BY <2>4, <4>2
        <5>2. Need(st, q)' = Need(st, q) - (-1)
          BY <2>4, <4>2, <5>1, GrowsNeed
        <5>. QED  BY <2>2, <5>2
      <4>. QED  BY <2>1, <4>1, <4>2 DEF MqWait
    <3>2. me \notin Users(st, q)
      BY <2>4 DEF Users, Uses
    <3>3. me \in Users(st, q)'
      BY <1>2, <2>4 DEF Users, Uses
    <3>. QED  BY <2>2, <3>1, <3>2, <3>3 DEF Balanced
  <2>5. CASE q = q0 /\ st # st0
    <3>1. Need(st, q)' = Need(st, q) - 1
      <4>1. CASE st = "WAIT_MQNOTEMPTY"
        <5>1. n = -1
          BY <2>5, <4>1 DEF MqWait
        <5>2. Need(st, q)' = Need(st, q) + (-1)
          BY <2>5, <4>1, <5>1, GrowsNeed
        <5>. QED  BY <2>2, <5>2
      <4>2. CASE st = "WAIT_MQNOTFULL"
        <5>1. n = 1
          BY <2>5, <4>2 DEF MqWait
        <5>. QED  BY <2>5, <4>2, <5>1, GrowsNeed
      <4>. QED  BY <2>1, <4>1, <4>2 DEF MqWait
    <3>. QED  BY <2>2, <3>1 DEF Balanced
  <2>. QED  BY <2>3, <2>4, <2>5
<1>. QED  BY <1>2, <1>3, MoveServes

\* A list with one more message.
LEMMA AddedGrows ==
  ASSUME MqInv, MsgInv, NEW q \in Mq, NEW msg \in Message, Len(msglist[q]) <= MaxLen,
         msglist' = AddedTo(msglist, q, msg)
  PROVE  Grows(q, 1)
<1>1. StablySorted(msglist, arrived)
  BY MsgParts
<1>. DEFINE l2 == AddedTo(msglist, q, msg)
<1>2. Len(l2[q]) = Len(msglist[q]) + 1 /\ (\A p \in Mq : p # q => l2[p] = msglist[p])
  BY <1>1, AddedFacts, ZenonT(60)
<1>. QED  BY <1>2 DEF Grows

\* The list after AddMsg.
LEMMA AddMsgList ==
  ASSUME NEW k, IsKernel(k), NEW q, NEW msg
  PROVE  AddMsg(k, q, msg).msglist = AddedTo(k.msglist, q, msg)
<1>. DEFINE l == [k.msglist EXCEPT ![q] = InsertAtPos(@, MsgPos(@, msg.prio), msg)]
            a == [k.arrived EXCEPT ![q] = Append(@, msg)]
            r == AddMsg(k, q, msg)
<1>1. r = [k EXCEPT !.msglist = l, !.arrived = a] /\ l = AddedTo(k.msglist, q, msg)
  BY DEF AddMsg, IsKernel, AddedTo
<1>. HIDE DEF l, r, a
<1>2. r.msglist = AddedTo(k.msglist, q, msg)
  BY <1>1 DEF IsKernel
<1>. QED  BY <1>2 DEF r

\* AddMsg touches no task.
LEMMA AddMsgEases ==
  ASSUME MqInv, NEW q, NEW msg
  PROVE  /\ Eases(Kernel, AddMsg(Kernel, q, msg))
         /\ AddMsg(Kernel, q, msg).msglist = AddedTo(msglist, q, msg)
<1>1. IsKernel(Kernel) /\ KInv(Kernel) /\ Kernel.msglist = msglist
  BY KernelParts
<1>. DEFINE r == AddMsg(Kernel, q, msg)
<1>2. SameTasks(Kernel, r)
  BY <1>1, MessagesOnly
<1>3. r.msglist = AddedTo(Kernel.msglist, q, msg)
  BY <1>1, AddMsgList
<1>. QED  BY <1>1, <1>2, <1>3, SameTasksEases

\* nxmq_do_send puts the message in the list.
LEMMA InsertServes ==
  ASSUME MqInv, MsgInv, WakeInv, MsgInv', NEW prio \in MsgPrio, Insert(prio)
  PROVE  WakeInv'
<1>. DEFINE m == mqmsg[self]
            msg == [prio |-> prio, type |-> m, from |-> "task"]
<1>1. /\ Claims(self) /\ Equipped(self) /\ self \in Task /\ MsgTypes /\ StablySorted(msglist, arrived)
      /\ IsKernel(Kernel) /\ KInv(Kernel) /\ Kernel.msglist = msglist
  BY MsgParts, KernelParts
<1>2. /\ pc[self] = "insert" /\ Becomes(AddMsg(Kernel, desc[self], msg))
      /\ pc' = [pc EXCEPT ![self] = "notify"] /\ UNCHANGED <<desc, victim>>
  BY DEF Insert, Running, GoTo
<1>3. m \in MsgType /\ desc[self] \in Mq /\ RoomIn(msglist, desc[self])
  BY <1>1, <1>2 DEF Claims, Equipped, Holding, Held, MsgTypes
<1>4. msg \in Message
  BY <1>3 DEF Message, MsgType
<1>. HIDE DEF msg
<1>. PICK q \in Mq : q = desc[self]
  BY <1>3
<1>. DEFINE r == AddMsg(Kernel, q, msg)
<1>6. Eases(Kernel, r) /\ r.msglist = AddedTo(msglist, q, msg) /\ Becomes(r)
  <2>1. Eases(Kernel, r) /\ r.msglist = AddedTo(msglist, q, msg)
    BY AddMsgEases
  <2>. QED  BY <1>2, <2>1
<1>. HIDE DEF r
<1>7. Grows(q, 1)
  <2>1. Len(msglist[q]) <= MaxLen
    BY <1>3 DEF RoomIn
  <2>2. msglist' = AddedTo(msglist, q, msg)
    BY <1>6, KernelErr
  <2>. QED  BY <1>4, <2>1, <2>2, AddedGrows
<1>8. /\ "WAIT_MQNOTEMPTY" \in MqWait /\ "notify" \in UsedAt("WAIT_MQNOTEMPTY")
      /\ pc[self] \notin UsedAt("WAIT_MQNOTEMPTY") \cup {PlaceOf("WAIT_MQNOTEMPTY")}
  BY <1>2 DEF MqWait, UsedAt, PlaceOf
<1>. QED  BY <1>2, <1>6, <1>7, <1>8, TurnServes

\* nxmq_wait_receive finds a message and takes it.
LEMMA GetServes ==
  ASSUME MqInv, MsgInv, WakeInv, MsgInv', GetMsg, pc[self] \in {"recv", "recvwait"}, UNCHANGED <<desc, victim>>
  PROVE  WakeInv'
<1>1. /\ Equipped(self) /\ self \in Task /\ StablySorted(msglist, arrived)
      /\ IsKernel(Kernel) /\ KInv(Kernel) /\ Kernel.msglist = msglist
      /\ \A p \in Mq : Len(msglist[p]) \in Nat
  BY MsgParts, KernelParts
<1>2. /\ msglist[desc[self]] # << >> /\ Becomes(TakeFirst(Kernel, desc[self]))
      /\ pc' = [pc EXCEPT ![self] = "deliver"]
  BY DEF GetMsg, GoTo
<1>3. desc[self] \in Mq
  BY <1>1 DEF Equipped, Held, Waits
<1>. PICK q \in Mq : q = desc[self]
  BY <1>3
<1>. DEFINE r == TakeFirst(Kernel, q)
<1>5. Eases(Kernel, r) /\ r.msglist = TakenFrom(msglist, q) /\ Becomes(r)
  <2>1. r.msglist = TakenFrom(Kernel.msglist, q)
    BY <1>1, TakeFirstMoves, ZenonT(60)
  <2>2. SameTasks(Kernel, r)
    BY <1>1, MessagesOnly
  <2>. QED  BY <1>1, <1>2, <2>1, <2>2, SameTasksEases
<1>. HIDE DEF r
<1>6. Grows(q, -1)
  <2>1. LET l2 == TakenFrom(msglist, q)
        IN  Len(l2[q]) = Len(msglist[q]) - 1 /\ (\A p \in Mq : p # q => l2[p] = msglist[p])
    BY <1>1, <1>2, TakenFacts, ZenonT(60)
  <2>2. msglist' = TakenFrom(msglist, q)
    BY <1>5, KernelErr
  <2>. QED  BY <1>1, <2>1, <2>2 DEF Grows
<1>7. /\ "WAIT_MQNOTFULL" \in MqWait /\ "deliver" \in UsedAt("WAIT_MQNOTFULL") /\ -1 \in {1, -1}
      /\ pc[self] \notin UsedAt("WAIT_MQNOTFULL") \cup {PlaceOf("WAIT_MQNOTFULL")}
  BY DEF MqWait, UsedAt, PlaceOf
<1>. QED  BY <1>2, <1>5, <1>6, <1>7, TurnServes

\* The critical section of a receive.
LEMMA ReceiveServes ==
  ASSUME MqInv, MsgInv, WakeInv, MsgInv', RecvCheck \/ RecvResume
  PROVE  WakeInv'
<1>1. /\ Equipped(self) /\ self \in Task /\ desc = [desc EXCEPT ![self] = desc[self]]
      /\ (UNCHANGED kvars => Becomes(Kernel)) /\ Eases(Kernel, Kernel)
  BY CallParts DEF Eases
<1>2. UNCHANGED kvars => UNCHANGED msglist
  BY DEF kvars
<1>3. pc[self] \in {"recv", "recvwait"} /\ self # Idle /\ UNCHANGED <<desc, victim>>
  BY DEF RecvCheck, RecvResume, Running
<1>4. desc[self] \in Mq
  BY <1>1, <1>3 DEF Equipped, Held, Waits
<1>5. CASE GetMsg
  BY <1>3, <1>5, GetServes
<1>6. CASE BlockEmpty
  <2>1. /\ "WAIT_MQNOTEMPTY" \in MqWait /\ PlaceOf("WAIT_MQNOTEMPTY") = "recvwait"
        /\ Becomes(BlockOn(Kernel, self, "WAIT_MQNOTEMPTY", desc[self]))
        /\ pc' = [pc EXCEPT ![self] = "recvwait"] /\ msglist[desc[self]] = << >>
    BY <1>6 DEF MqWait, PlaceOf, BlockEmpty, GoTo
  <2>2. Need("WAIT_MQNOTEMPTY", desc[self]) <= 0
    BY <2>1 DEF Need
  <2>. QED  BY <1>3, <2>1, <2>2, BlockServes
<1>7. CASE /\ pc[self] = "recv" \/ errcode[self] # "OK"
           /\ GoTo("unlock") /\ UNCHANGED kvars
  <2>. PICK d : d = desc[self]
    OBVIOUS
  <2>1. StillUses("unlock", d)
    BY <1>3, <1>7 DEF StillUses, Uses, UsedAt, PlaceOf
  <2>2. /\ Becomes(Kernel) /\ UNCHANGED <<msglist, victim>> /\ desc' = [desc EXCEPT ![self] = d]
        /\ Eases(Kernel, Kernel) /\ pc' = [pc EXCEPT ![self] = "unlock"]
    BY <1>1, <1>2, <1>3, <1>7 DEF GoTo
  <2>. QED  BY <2>1, <2>2, PlainServes
<1>8. CASE RecvCheck
  <2>1. pc[self] = "recv"
    BY <1>8 DEF RecvCheck, Running
  <2>. QED  BY <1>5, <1>6, <1>7, <1>8, <2>1 DEF RecvCheck
<1>9. CASE RecvResume
  BY <1>5, <1>6, <1>7, <1>9 DEF RecvResume
<1>. QED  BY <1>8, <1>9

\* nxmq_do_receive: when nwaitnotfull is not positive there is nobody to wake.
LEMMA DeliverServes ==
  ASSUME MqInv, MsgInv, WakeInv, MsgInv', Deliver
  PROVE  WakeInv'
<1>1. /\ self \in Task /\ desc = [desc EXCEPT ![self] = desc[self]] /\ Equipped(self)
      /\ KInv(Kernel) /\ Kernel.msglist = msglist /\ IsKernel(Kernel)
      /\ Kernel.nwait = nwait /\ Kernel.sched = sched /\ Kernel.msgwaitq = msgwaitq
  BY CallParts, KernelParts
<1>. DEFINE r == FreeMsg(Kernel, [prio |-> 0, type |-> mqmsg[self]])
            place == IF nwait["WAIT_MQNOTFULL"][desc[self]] > 0 THEN "wakesender" ELSE "unlock"
<1>2. /\ pc[self] = "deliver" /\ desc' = [desc EXCEPT ![self] = desc[self]] /\ Becomes(r)
      /\ pc' = [pc EXCEPT ![self] = place] /\ victim' = victim
  BY <1>1 DEF Deliver, Running, GoTo
<1>3. Eases(Kernel, r) /\ r.msglist = msglist
  BY <1>1, MessagesOnly, FreeMsgMoves, SameTasksEases
<1>. HIDE DEF r
<1>4. UNCHANGED <<msglist, victim>>
  BY <1>2, <1>3, KernelErr
<1>5. PICK d \in Mq : d = desc[self]
  BY <1>1, <1>2 DEF Equipped, Held
<1>6. place = "wakesender" \/ (place = "unlock" /\ Blocked("WAIT_MQNOTFULL", d) = {})
  <2>1. CASE nwait["WAIT_MQNOTFULL"][d] > 0
    BY <1>5, <2>1
  <2>2. CASE ~(nwait["WAIT_MQNOTFULL"][d] > 0)
    <3>1. "WAIT_MQNOTFULL" \in MqWait /\ ~(Kernel.nwait["WAIT_MQNOTFULL"][d] > 0)
      BY <1>1, <2>2 DEF MqWait
    <3>2. On(Kernel, "WAIT_MQNOTFULL", d) = {}
      BY <1>1, <3>1, NobodyCounted
    <3>3. Blocked("WAIT_MQNOTFULL", d) = {}
      BY <1>1, <3>2 DEF On, Blocked
    <3>. QED  BY <1>5, <2>2, <3>3
  <2>. QED  BY <2>1, <2>2
<1>. HIDE DEF place
<1>7. StillUses(place, d)
  BY <1>2, <1>5, <1>6 DEF StillUses, Uses, UsedAt, PlaceOf, Watched, MqWait
<1>8. desc' = [desc EXCEPT ![self] = d]
  BY <1>2, <1>5
<1>. QED  BY <1>2, <1>3, <1>4, <1>7, <1>8, PlainServes

\* A waiter that was woken is on its way: its errcode is still OK.
LEMMA WokenUses ==
  ASSUME MqInv, \A x \in Task : Rested(x), NEW r, Becomes(r), NEW st \in MqWait, NEW q \in Mq,
         Woke(Kernel, r, st, q), NEW me \in Task, me = self,
         \A x \in Task : x # me => pc'[x] = pc[x] /\ desc'[x] = desc[x]
  PROVE  \/ fault'
         \/ Blocked(st, q)' = {}
         \/ \E w \in Users(st, q)' : w \notin Users(st, q)
<1>1. /\ Kernel.sched = sched /\ Kernel.msgwaitq = msgwaitq /\ Kernel.errcode = errcode
      /\ sched.tstate[me] \notin MqWait
      /\ sched' = r.sched /\ msgwaitq' = r.msgwaitq /\ errcode' = r.errcode /\ fault' = r.fault
  BY KernelParts, KernelErr
<1>2. CASE On(r, st, q) = {}
  BY <1>1, <1>2 DEF On, Blocked
<1>3. ASSUME NEW w \in Task, Kernel.sched.tstate[w] = st, Kernel.msgwaitq[w] = q,
             r.sched.tstate[w] \notin MqWait, r.errcode[w] = Kernel.errcode[w]
      PROVE  w \in Users(st, q)' /\ w \notin Users(st, q)
  <2>1. /\ sched.tstate[w] = st /\ msgwaitq[w] = q /\ sched'.tstate[w] \notin MqWait
        /\ errcode'[w] = errcode[w] /\ w # me
    BY <1>1, <1>3
  <2>2. errcode[w] = "OK" /\ desc[w] = q /\ pc[w] = PlaceOf(st)
    BY <2>1 DEF Rested, MqInv, Calls, Parked
  <2>3. desc'[w] = q /\ pc'[w] = PlaceOf(st)
    BY <2>1, <2>2
  <2>4. Uses(w, st, q)'
    BY <2>1, <2>2, <2>3 DEF Uses
  <2>5. ~Uses(w, st, q)
    BY <2>1, <2>2 DEF Uses, UsedAt, PlaceOf
  <2>. QED  BY <2>4, <2>5 DEF Users
<1>. QED  BY <1>1, <1>2, <1>3 DEF Woke

\* After a fault the model promises nothing more about the waiters.
LEMMA FaultServes ==
  ASSUME MqInv, WakeInv, NEW r, Eases(Kernel, r), Becomes(r), NEW me \in Task, me = self, UNCHANGED victim,
         \A x \in Task : x # me => pc'[x] = pc[x] /\ desc'[x] = desc[x], fault'
  PROVE  WakeInv'
<1>1. (\A x \in Task : Rested(x)') /\ cut' = cut
  BY Drift DEF WakeInv
<1>2. \A x \in Task : Missed(x)'
  BY <1>1, MissedKeeps DEF WakeInv
<1>. QED  BY <1>1, <1>2 DEF WakeInv, Served

\* The wake-up at the end of a send or a receive.
LEMMA WakeUpServes ==
  ASSUME MqInv, MsgInv, WakeInv, MsgInv', NEW r, Eases(Kernel, r), Becomes(r), UNCHANGED <<msglist, desc, victim>>,
         NEW st0 \in MqWait, pc[self] \in UsedAt(st0),
         NEW q0 \in Mq, q0 = desc[self], Woke(Kernel, r, st0, q0),
         NEW place, pc' = [pc EXCEPT ![self] = place]
  PROVE  WakeInv'
<1>. PICK me \in Task : me = self
  BY KernelParts
<1>1. CallTypes
  BY DEF MqInv, Calls
<1>2. \A x \in Task : x # me => pc'[x] = pc[x] /\ desc'[x] = desc[x]
  BY <1>1 DEF CallTypes
<1>3. \/ fault'
      \/ Blocked(st0, q0)' = {}
      \/ \E w \in Users(st0, q0)' : w \notin Users(st0, q0)
  BY <1>2, WokenUses DEF WakeInv
<1>4. CASE fault'
  BY <1>2, <1>4, FaultServes
<1>5. CASE ~fault'
  <2>1. ASSUME NEW st \in Watched, NEW q \in Mq
        PROVE  Blocked(st, q)' = {} \/ Balanced(st, q, me)
    <3>1. st \in MqWait
      BY DEF Watched, MqWait
    <3>2. Need(st, q)' = Need(st, q) /\ Need(st, q) \in Int
      BY <3>1, NeedIsNumber DEF Need
    <3>3. CASE st = st0 /\ q = q0
      BY <1>3, <1>5, <3>2, <3>3 DEF Balanced
    <3>4. CASE ~(st = st0 /\ q = q0)
      <4>1. ~Uses(me, st, q)
        BY <3>1, <3>4 DEF Uses, UsedAt, PlaceOf, MqWait
      <4>2. me \notin Users(st, q)
        BY <4>1 DEF Users
      <4>. QED  BY <3>2, <4>2 DEF Balanced
    <3>. QED  BY <3>3, <3>4
  <2>. QED  BY <1>2, <2>1, MoveServes
<1>. QED  BY <1>4, <1>5

\* A send wakes a receiver, and a receive wakes a sender.
LEMMA WakesServe ==
  ASSUME MqInv, MsgInv, WakeInv, MsgInv', Wake \/ WakeSender
  PROVE  WakeInv'
<1>1. Equipped(self) /\ KInv(Kernel) /\ Kernel.msglist = msglist
  BY CallParts, KernelParts
<1>2. desc[self] \in Mq
  BY <1>1 DEF Wake, WakeSender, Running, Equipped, Held
<1>. PICK q \in Mq : q = desc[self]
  BY <1>2
<1>3. "WAIT_MQNOTEMPTY" \in MqWait /\ "WAIT_MQNOTFULL" \in MqWait
  BY DEF MqWait
<1>4. CASE Wake
  <2>1. PICK r : r = WakeReceiver(Kernel, q)
    OBVIOUS
  <2>2. /\ Becomes(r) /\ pc' = [pc EXCEPT ![self] = "unlock"] /\ UNCHANGED <<desc, victim>>
        /\ pc[self] \in UsedAt("WAIT_MQNOTEMPTY")
    BY <1>4, <2>1 DEF Wake, Running, GoTo, UsedAt
  <2>3. Eases(Kernel, r) /\ Woke(Kernel, r, "WAIT_MQNOTEMPTY", q)
    BY <1>1, <2>1, WakeReceiverWakes
  <2>4. SameMsgs(Kernel, r)
    BY <1>1, <2>1, WakeReceiverGentle
  <2>5. UNCHANGED <<msglist, desc, victim>>
    BY <1>1, <2>2, <2>4, KernelErr DEF SameMsgs
  <2>. QED  BY <1>3, <2>2, <2>3, <2>5, WakeUpServes
<1>5. CASE WakeSender
  <2>1. PICK r : r = WakeFirst(Kernel, "WAIT_MQNOTFULL", q)
    OBVIOUS
  <2>2. /\ Becomes(r) /\ pc' = [pc EXCEPT ![self] = "unlock"] /\ UNCHANGED <<desc, victim>>
        /\ pc[self] \in UsedAt("WAIT_MQNOTFULL")
    BY <1>5, <2>1 DEF WakeSender, Running, GoTo, UsedAt
  <2>3. Eases(Kernel, r) /\ Woke(Kernel, r, "WAIT_MQNOTFULL", q)
    BY <1>1, <1>3, <2>1, WakeFirstWakes
  <2>4. SameMsgs(Kernel, r)
    BY <1>1, <1>3, <2>1, WakeFirstGentle
  <2>5. UNCHANGED <<msglist, desc, victim>>
    BY <1>1, <2>2, <2>4, KernelErr DEF SameMsgs
  <2>. QED  BY <1>3, <2>2, <2>3, <2>5, WakeUpServes
<1>. QED  BY <1>4, <1>5

\* nxmq_send from an interrupt handler, up to its wake-up.
LEMMA IrqSendEases ==
  ASSUME MqInv, NEW q \in Mq, NEW prio, NEW type, NEW unmasked \in BOOLEAN
  PROVE  LET r == WakeReceiver(IrqTold(q, prio, type, unmasked), q)
         IN  Eases(Kernel, r) /\ Woke(Kernel, r, "WAIT_MQNOTEMPTY", q)
<1>. DEFINE msg == [prio |-> prio, type |-> type, from |-> "irq"]
            l == [Kernel EXCEPT !.pool[type] = @ - 1]
            a == IrqAdded(q, prio, type)
            b == IrqTold(q, prio, type, unmasked)
            r == WakeReceiver(b, q)
<1>1. KInv(Kernel) /\ ntpid \in [Mq -> Task \cup {None}] /\ "WAIT_MQNOTEMPTY" \in MqWait
  BY KernelParts DEF MqWait
<1>2. Gentle(Kernel, l) /\ Eases(Kernel, l)
  BY <1>1, MessagesOnly, SameTasksGentle, SameTasksEases
<1>3. KInv(l) /\ a = AddMsg(l, q, msg)
  BY <1>2 DEF Gentle, IrqAdded
<1>. HIDE DEF l, msg, a
<1>4. Gentle(l, a) /\ Eases(l, a)
  BY <1>3, MessagesOnly, SameTasksGentle, SameTasksEases
<1>5. KInv(a) /\ Eases(Kernel, a)
  BY <1>2, <1>4, EasesTwice DEF Gentle
<1>6. KInv(b) /\ Eases(a, b)
  <2>1. CASE ntpid[q] = None
    <3>1. b = a
      BY <2>1 DEF IrqTold, a
    <3>. QED  BY <1>5, <3>1 DEF Eases
  <2>2. CASE ntpid[q] # None
    <3>1. b = Notified(a, q, ntpid[q], unmasked) /\ ntpid[q] \in Task
      BY <1>1, <2>2 DEF IrqTold, a
    <3>2. Gentle(a, b)
      BY <1>5, <3>1, NotifiedGentle
    <3>3. Eases(a, b)
      BY <1>5, <3>1, NotifiedEases
    <3>. QED  BY <3>2, <3>3 DEF Gentle
  <2>. QED  BY <2>1, <2>2
<1>. HIDE DEF b
<1>7. Eases(Kernel, b)
  BY <1>5, <1>6, EasesTwice
<1>8. Eases(b, r) /\ Woke(b, r, "WAIT_MQNOTEMPTY", q)
  BY <1>6, WakeReceiverWakes
<1>. HIDE DEF r
<1>9. Eases(Kernel, r)
  BY <1>7, <1>8, EasesTwice
<1>10. Woke(Kernel, r, "WAIT_MQNOTEMPTY", q)
  BY <1>1, <1>7, <1>8, WokeAfter
<1>. QED  BY <1>9, <1>10 DEF r, b

\* The message of an interrupt handler comes with its wake-up.
LEMMA IrqSendServes ==
  ASSUME MqInv, MsgInv, WakeInv, MsgInv', NEW q0 \in Mq, NEW prio \in MsgPrio, NEW unmasked \in BOOLEAN,
         IrqSend(q0, prio, unmasked)
  PROVE  WakeInv'
<1>. PICK me \in Task : me = self
  BY KernelParts
<1>. DEFINE type0 == IF pool.FIXED > 0 THEN "FIXED" ELSE "IRQ"
            msg == [prio |-> prio, type |-> type0, from |-> "irq"]
            l == [Kernel EXCEPT !.pool[type0] = @ - 1]
            a == IrqAdded(q0, prio, type0)
            r == WakeReceiver(IrqTold(q0, prio, type0, unmasked), q0)
<1>1. /\ IsKernel(Kernel) /\ KInv(Kernel) /\ Kernel.msglist = msglist
      /\ Len(msglist[q0]) \in Nat /\ MaxLen \in Nat
  BY MsgParts, KernelParts, Capacity
<1>2. Becomes(r) /\ Len(msglist[q0]) < MaxLen /\ UNCHANGED <<pc, desc, victim>>
  BY IrqSendIs DEF callvars
<1>3. type0 \in Pool
  BY DEF Pool
<1>. HIDE DEF type0
<1>4. msg \in Message
  BY <1>3 DEF Message, Pool
<1>5. Eases(Kernel, r) /\ Woke(Kernel, r, "WAIT_MQNOTEMPTY", q0)
  BY IrqSendEases
<1>6. SameMsgs(a, r)
  BY IrqSendGentle
<1>7. IsKernel(l) /\ l.msglist = msglist
  BY <1>1, PoolMoves
<1>8. a = AddMsg(l, q0, msg)
  BY DEF IrqAdded
<1>. HIDE DEF msg, l, a, r
<1>9. a.msglist = AddedTo(msglist, q0, msg)
  <2>1. AddMsg(l, q0, msg).msglist = AddedTo(l.msglist, q0, msg)
    BY <1>7, AddMsgList
  <2>. QED  BY <1>7, <1>8, <2>1
<1>10. Grows(q0, 1)
  <2>1. msglist' = AddedTo(msglist, q0, msg) /\ Len(msglist[q0]) <= MaxLen
    BY <1>1, <1>2, <1>6, <1>9, KernelErr DEF SameMsgs
  <2>. QED  BY <1>4, <2>1, AddedGrows
<1>11. /\ "WAIT_MQNOTEMPTY" \in MqWait
       /\ \A x \in Task : x # me => pc'[x] = pc[x] /\ desc'[x] = desc[x]
  BY <1>2 DEF MqWait
<1>12. \/ fault'
       \/ Blocked("WAIT_MQNOTEMPTY", q0)' = {}
       \/ \E w \in Users("WAIT_MQNOTEMPTY", q0)' : w \notin Users("WAIT_MQNOTEMPTY", q0)
  BY <1>2, <1>5, <1>11, WokenUses DEF WakeInv
<1>13. CASE fault'
  BY <1>2, <1>5, <1>11, <1>13, FaultServes
<1>14. CASE ~fault'
  <2>1. /\ sched'.tstate[me] \notin MqWait /\ errcode'[me] = errcode[me]
    BY <1>2, <1>5, <1>11, Drift DEF WakeInv
  <2>2. ASSUME NEW st \in Watched, NEW q \in Mq
        PROVE  Blocked(st, q)' = {} \/ Balanced(st, q, me)
    <3>1. st \in MqWait
      BY DEF Watched, MqWait
    <3>2. Need(st, q) \in Int
      BY <3>1, NeedIsNumber
    <3>3. me \in Users(st, q) => me \in Users(st, q)'
      BY <1>2, <2>1 DEF Users, Uses
    <3>4. CASE q # q0
      <4>1. Need(st, q)' = Need(st, q)
        BY <1>10, <3>1, <3>4, GrowsNeed
      <4>. QED  BY <3>2, <3>3, <4>1 DEF Balanced
    <3>5. CASE q = q0 /\ st = "WAIT_MQNOTEMPTY"
      <4>1. Need(st, q)' = Need(st, q) + 1
        BY <1>10, <3>5, GrowsNeed
      <4>. QED  BY <1>12, <1>14, <3>2, <3>3, <3>5, <4>1 DEF Balanced
    <3>6. CASE q = q0 /\ st = "WAIT_MQNOTFULL"
      <4>1. Need(st, q)' = Need(st, q) - 1
        BY <1>10, <3>6, GrowsNeed
      <4>. QED  BY <3>2, <4>1 DEF Balanced
    <3>. QED  BY <3>1, <3>4, <3>5, <3>6 DEF MqWait
  <2>. QED  BY <1>2, <1>5, <1>11, <2>2, MoveServes
<1>. QED  BY <1>13, <1>14

\* A signal or a watchdog ends a wait; mq_notify changes who is notified.
LEMMA OtherServes ==
  ASSUME MqInv, MsgInv, WakeInv, MsgInv',
         \/ UNCHANGED vars \/ \E q \in Mq : Register(q) \/ Detach(q)
         \/ \E t \in Task : Signal(t) \/ Timeout(t)
  PROVE  WakeInv'
<1>1. /\ KInv(Kernel) /\ IsKernel(Kernel) /\ Kernel.msglist = msglist /\ Eases(Kernel, Kernel)
      /\ {"EINTR", "ETIMEDOUT"} \subseteq Errcode /\ (UNCHANGED kvars => Becomes(Kernel))
  BY KernelParts, CallParts DEF Errcode, Eases
<1>2. CASE UNCHANGED vars
  <2>1. Becomes(Kernel) /\ UNCHANGED <<msglist, callvars>>
    BY <1>1, <1>2 DEF vars, kvars
  <2>. QED  BY <1>1, <2>1, CalmServes
<1>3. ASSUME NEW t \in Task, NEW err \in Errcode, Becomes(nxmq_wait_irq(Kernel, t, err)),
             UNCHANGED callvars
      PROVE  WakeInv'
  <2>1. PICK r : r = nxmq_wait_irq(Kernel, t, err)
    OBVIOUS
  <2>2. Eases(Kernel, r) /\ SameMsgs(Kernel, r) /\ Becomes(r)
    BY <1>1, <1>3, <2>1, WaitIrqEases, WaitIrqGentle
  <2>3. UNCHANGED <<msglist, callvars>>
    BY <1>1, <1>3, <2>2, KernelErr DEF SameMsgs
  <2>. QED  BY <2>2, <2>3, CalmServes
<1>4. ASSUME NEW t \in Task, Signal(t) PROVE WakeInv'
  BY <1>1, <1>3, <1>4 DEF Signal
<1>5. ASSUME NEW t \in Task, Timeout(t) PROVE WakeInv'
  BY <1>1, <1>3, <1>5 DEF Timeout
<1>6. ASSUME NEW q \in Mq, Register(q) \/ Detach(q) PROVE WakeInv'
  <2>1. PICK v : Becomes([Kernel EXCEPT !.ntpid[q] = v]) /\ UNCHANGED callvars
    BY <1>6 DEF Register, Detach
  <2>2. PICK r : r = [Kernel EXCEPT !.ntpid[q] = v]
    OBVIOUS
  <2>3. Eases(Kernel, r) /\ r.msglist = msglist
    BY <1>1, <2>2 DEF IsKernel, Eases
  <2>4. UNCHANGED <<msglist, callvars>> /\ Becomes(r)
    BY <2>1, <2>2, <2>3, KernelErr
  <2>. QED  BY <2>3, <2>4, CalmServes
<1>. QED  BY <1>2, <1>4, <1>5, <1>6

\* Only the scheduler's state changes, and nobody starts to wait.
LEMMA SchedEases ==
  ASSUME MqInv, NEW s, SchedBecomes(s),
         \A x \in Task : s.tstate[x] \in MqWait => s.tstate[x] = sched.tstate[x]
  PROVE  \E r : Eases(Kernel, r) /\ Becomes(r) /\ UNCHANGED msglist
<1>. DEFINE r == [Kernel EXCEPT !.sched = s]
<1>1. IsKernel(Kernel) /\ Kernel.sched = sched /\ Kernel.msglist = msglist
  BY KernelParts
<1>2. /\ r.sched = s /\ r.msgwaitq = Kernel.msgwaitq /\ r.errcode = Kernel.errcode
      /\ r.cut = Kernel.cut /\ r.fault = Kernel.fault /\ r.msglist = msglist
  BY <1>1 DEF IsKernel
<1>3. Becomes(r)
  BY DEF SchedBecomes
<1>. HIDE DEF r
<1>4. Eases(Kernel, r)
  BY <1>1, <1>2 DEF Eases
<1>5. UNCHANGED msglist
  BY <1>2, <1>3, KernelErr
<1>. QED  BY <1>3, <1>4, <1>5

\* The ends of the calls, and task creation.
LEMMA EndsServe ==
  ASSUME MqInv, MsgInv, WakeInv, MsgInv',
         \/ \E q \in Mq : SendLock(q) \/ Receive(q) \/ TimedReceiveLock(q)
         \/ TimedSendLock \/ Unlock \/ TimedReceive \/ DeleteDog
         \/ \E t \in Task : Start(t)
  PROVE  WakeInv'
<1>1. /\ self \in Task /\ Safe(sched) /\ desc = [desc EXCEPT ![self] = desc[self]] /\ Eases(Kernel, Kernel)
      /\ (UNCHANGED kvars => Becomes(Kernel) /\ UNCHANGED msglist)
  BY KernelParts, CallParts DEF Eases, kvars
<1>2. ASSUME SchedBecomes(LockOp(sched)) \/ SchedBecomes(UnlockOp(sched)) \/ UNCHANGED kvars
      PROVE  \E r : Eases(Kernel, r) /\ Becomes(r) /\ UNCHANGED msglist
  <2>1. Phase(LockOp(sched)) = Phase(sched) /\ Phase(UnlockOp(sched)) = Phase(sched)
    BY <1>1, LockCounts
  <2>2. \A x \in Task :
          /\ LockOp(sched).tstate[x] \in MqWait => LockOp(sched).tstate[x] = sched.tstate[x]
          /\ UnlockOp(sched).tstate[x] \in MqWait => UnlockOp(sched).tstate[x] = sched.tstate[x]
    BY <2>1, SamePhase
  <2>3. CASE SchedBecomes(LockOp(sched))
    BY <2>2, <2>3, SchedEases
  <2>4. CASE SchedBecomes(UnlockOp(sched))
    BY <2>2, <2>4, SchedEases
  <2>5. CASE UNCHANGED kvars
    BY <1>1, <2>5
  <2>. QED  BY <1>2, <2>3, <2>4, <2>5
<1>3. ASSUME NEW place, pc' = [pc EXCEPT ![self] = place], NEW d, desc' = [desc EXCEPT ![self] = d],
             pc[self] \in {"run", "tlock", "trecv", "unlock", "undog"}, victim' = victim,
             SchedBecomes(LockOp(sched)) \/ SchedBecomes(UnlockOp(sched)) \/ UNCHANGED kvars
      PROVE  WakeInv'
  <2>1. PICK r : Eases(Kernel, r) /\ Becomes(r) /\ UNCHANGED msglist
    BY <1>2, <1>3
  <2>2. pc[self] \notin UsedAt("WAIT_MQNOTEMPTY") \cup UsedAt("WAIT_MQNOTFULL") \cup Waits
    BY <1>3 DEF UsedAt, Waits
  <2>3. UNCHANGED <<msglist, victim>>
    BY <1>3, <2>1
  <2>. QED  BY <1>3, <2>1, <2>2, <2>3, IdleServes
<1>4. ASSUME NEW q \in Mq, SendLock(q) \/ Receive(q) \/ TimedReceiveLock(q) PROVE WakeInv'
  <2>1. /\ pc[self] \in {"run", "trecv"} /\ desc' = [desc EXCEPT ![self] = q] /\ victim' = victim
        /\ SchedBecomes(LockOp(sched))
    BY <1>4 DEF SendLock, Receive, TimedReceiveLock, RecvLock, Running
  <2>2. PICK place : pc' = [pc EXCEPT ![self] = place]
    BY <1>4 DEF SendLock, Receive, TimedReceiveLock, RecvLock, GoTo
  <2>. QED  BY <1>3, <2>1, <2>2
<1>5. CASE TimedSendLock
  BY <1>1, <1>3, <1>5 DEF TimedSendLock, Running, GoTo
<1>6. CASE Unlock
  BY <1>3, <1>6 DEF Unlock, Running, GoTo
<1>7. CASE TimedReceive
  BY <1>1, <1>3, <1>7 DEF TimedReceive, Running, GoTo
<1>8. CASE DeleteDog
  BY <1>1, <1>3, <1>8 DEF DeleteDog, Running, GoTo
<1>9. ASSUME NEW t \in Task, Start(t) PROVE WakeInv'
  <2>. DEFINE p == BasePrio[t]
              z == [sched EXCEPT !.prio[t] = p, !.init[t] = p]
              s == Activated(z, t)
  <2>1. /\ t # Idle /\ sched.tstate[t] = "INVALID" /\ SchedBecomes(s) /\ UNCHANGED callvars
    BY <1>9 DEF Start
  <2>2. Elsewhere(sched, s, t) /\ s.tstate[t] \notin MqWait
    <3>1. /\ z \in SchedState /\ z.rtr = sched.rtr /\ z.pend = sched.pend /\ z.blk = sched.blk
          /\ z.tstate = sched.tstate /\ z.policy = sched.policy /\ z.lock = sched.lock
      <4>1. sched \in SchedState /\ p \in 0..MaxPrio
        BY <2>1, KernelParts, MqBasePrioTyped, MaxPrioPositive DEF Core, Priority
      <4>. HIDE DEF p
      <4>. QED  BY <4>1 DEF SchedState
    <3>. HIDE DEF z
    <3>2. s.tstate[t] \notin BlockedState \cup {"INVALID"} /\ Elsewhere(sched, s, t)
      BY <1>1, <2>1, <3>1, ActivatedStays
    <3>. QED  BY <3>2 DEF MqWait, BlockedState, WaitState
  <2>. HIDE DEF s
  <2>3. \A x \in Task : s.tstate[x] \in MqWait => s.tstate[x] = sched.tstate[x]
    BY <2>2, ElsewhereTells
  <2>4. PICK r : Eases(Kernel, r) /\ Becomes(r) /\ UNCHANGED msglist
    BY <2>1, <2>3, SchedEases
  <2>5. UNCHANGED <<msglist, callvars>>
    BY <2>1, <2>4
  <2>. QED  BY <2>4, <2>5, CalmServes
<1>. QED  BY <1>4, <1>5, <1>6, <1>7, <1>8, <1>9

\* Another task t goes out of its call, which is marked as cut short.
Departs(t) ==
  /\ UNCHANGED <<msglist, fault>> /\ Else(sched, sched', t) /\ sched'.tstate[t] \notin MqWait
  /\ \A x \in Task : x # t =>
       /\ msgwaitq'[x] = msgwaitq[x] /\ errcode'[x] = errcode[x] /\ desc'[x] = desc[x]
       /\ pc'[x] = pc[x] \/ pc[x] \in {"run", "terminate"}
  /\ \A q \in Mq : cut'[q] = {} => cut[q] = {} /\ desc[t] # q

\* On the other queues everybody is served as before.
LEMMA DepartServes ==
  ASSUME MqInv, MsgInv, WakeInv, NEW t \in Task, Departs(t), \A x \in Task : Missed(x)'
  PROVE  WakeInv'
<1>1. ASSUME NEW x \in Task PROVE Rested(x)'
  <2>1. Rested(x)
    BY DEF WakeInv
  <2>2. CASE x = t
    BY <2>2 DEF Departs, Rested
  <2>3. CASE x # t
    BY <2>1, <2>3 DEF Departs, Else, Rested
  <2>. QED  BY <2>2, <2>3
<1>2. ASSUME NEW st \in Watched, NEW q \in Mq PROVE Served(st, q)'
  <2>1. st \in MqWait /\ Served(st, q)
    BY DEF Watched, MqWait, WakeInv
  <2>. SUFFICES ASSUME ~fault', cut'[q] = {}, Blocked(st, q)' # {}
                PROVE  Need(st, q)' <= Cardinality(Users(st, q)')
    BY DEF Served
  <2>2. ~fault /\ cut[q] = {} /\ desc[t] # q /\ msglist' = msglist
    BY DEF Departs
  <2>3. Blocked(st, q)' \subseteq Blocked(st, q)
    <3>. SUFFICES ASSUME NEW x \in Blocked(st, q)' PROVE x \in Blocked(st, q)
      OBVIOUS
    <3>1. x \in Task /\ sched'.tstate[x] = st /\ msgwaitq'[x] = q
      BY DEF Blocked
    <3>2. x # t
      BY <2>1, <3>1 DEF Departs
    <3>3. sched.tstate[x] = st /\ msgwaitq[x] = q
      BY <2>1, <3>1, <3>2 DEF Departs, Else
    <3>. QED  BY <3>1, <3>3 DEF Blocked
  <2>4. Users(st, q) \subseteq Users(st, q)'
    <3>. SUFFICES ASSUME NEW x \in Users(st, q) PROVE x \in Users(st, q)'
      OBVIOUS
    <3>1. x \in Task /\ Uses(x, st, q)
      BY DEF Users
    <3>2. x # t /\ pc[x] \notin {"run", "terminate"}
      BY <2>2, <3>1 DEF Uses, UsedAt, PlaceOf
    <3>3. /\ pc'[x] = pc[x] /\ desc'[x] = desc[x] /\ errcode'[x] = errcode[x]
          /\ sched'.tstate[x] \in MqWait <=> sched.tstate[x] \in MqWait
      BY <3>1, <3>2 DEF Departs, Else
    <3>4. Uses(x, st, q)'
      BY <3>1, <3>3 DEF Uses
    <3>. QED  BY <3>1, <3>4 DEF Users
  <2>5. Need(st, q)' = Need(st, q) /\ Need(st, q) \in Int
    BY <2>1, <2>2, NeedIsNumber DEF Need
  <2>6. Users(st, q)' \in SUBSET Task /\ Users(st, q) \in SUBSET Task
    BY DEF Users
  <2>7. Cardinality(Users(st, q)) <= Cardinality(Users(st, q)')
    BY <2>4, <2>6, TaskSets, FS_Subset
  <2>8. Cardinality(Users(st, q)) \in Nat /\ Cardinality(Users(st, q)') \in Nat
    BY <2>6, TaskSets
  <2>9. Need(st, q) <= Cardinality(Users(st, q))
    BY <2>1, <2>2, <2>3 DEF Served
  <2>. QED  BY <2>5, <2>7, <2>8, <2>9
<1>. QED  BY <1>1, <1>2 DEF WakeInv

\* nxtask_terminate
LEMMA TerminateServes ==
  ASSUME MqInv, MsgInv, WakeInv, NEW t \in Task, Terminate(t)
  PROVE  WakeInv'
<1>. PICK me \in Task : me = self
  BY KernelParts
<1>. DEFINE s == RemoveFromList(sched, t)
            k == [Kernel EXCEPT !.sched = s]
            r == CutShort(k, t, "deleted")
<1>1. /\ CallTypes /\ Safe(sched) /\ self = ThisTask(sched) /\ IsKernel(Kernel) /\ KTypes(Kernel)
      /\ Kernel.msgwaitq = msgwaitq /\ Kernel.cut = cut /\ Kernel.errcode = errcode
      /\ Kernel.fault = fault /\ Kernel.msglist = msglist
  BY KernelParts, KernelErr DEF MqInv, Calls
<1>2. /\ pc[me] = "run" /\ t \in Task \ {Idle} /\ t # me /\ sched.tstate[t] # "INVALID" /\ Becomes(r)
      /\ victim' = [victim EXCEPT ![me] = t] /\ pc' = [pc EXCEPT ![me] = "terminate"]
      /\ desc' = desc
  BY MqTaskSets DEF Terminate, Running, GoTo
<1>3. s.tstate[t] = "INVALID" /\ Else(sched, s, t)
  BY <1>1, <1>2, TakeOff, ElsewhereElse
<1>. HIDE DEF s
<1>4. /\ IsKernel(k) /\ KTypes(k) /\ k.sched = s /\ k.msgwaitq = msgwaitq /\ k.cut = cut
      /\ k.errcode = errcode /\ k.fault = fault /\ k.msglist = msglist /\ "deleted" \in How
  BY <1>1 DEF IsKernel, KTypes, How
<1>. HIDE DEF k
<1>5. /\ r.cut = CutOf(k, t, "deleted") /\ (desc[t] \in Mq => "deleted" \in r.cut[desc[t]])
      /\ r.sched = k.sched /\ r.msgwaitq = k.msgwaitq /\ r.errcode = k.errcode
      /\ r.fault = k.fault /\ r.msglist = k.msglist
  BY <1>4, CutFacts DEF SameMsgs
<1>. HIDE DEF r
<1>6. /\ sched' = s /\ msgwaitq' = msgwaitq /\ errcode' = errcode /\ fault' = fault
      /\ msglist' = msglist /\ cut' = CutOf(k, t, "deleted")
      /\ (desc[t] \in Mq => "deleted" \in cut'[desc[t]])
  BY <1>2, <1>4, <1>5, KernelErr
<1>7. \A q \in Mq : cut[q] \subseteq cut'[q]
  BY <1>4, <1>6 DEF CutOf
<1>8. Departs(t)
  <2>1. \A q \in Mq : cut'[q] = {} => cut[q] = {} /\ desc[t] # q
    BY <1>6, <1>7
  <2>2. sched'.tstate[t] \notin MqWait /\ Else(sched, sched', t)
    BY <1>3, <1>6 DEF MqWait
  <2>3. \A x \in Task : pc'[x] = pc[x] \/ pc[x] \in {"run", "terminate"}
    BY <1>1, <1>2 DEF CallTypes
  <2>. QED  BY <1>2, <1>6, <2>1, <2>2, <2>3 DEF Departs
<1>9. ASSUME NEW x \in Task PROVE Missed(x)'
  <2>1. CASE x = me
    <3>1. victim'[x] = t
      BY <1>1, <1>2, <2>1 DEF CallTypes
    <3>2. desc[t] \in Mq \cup {None}
      BY <1>1 DEF CallTypes
    <3>. QED  BY <1>2, <1>6, <3>1, <3>2 DEF Missed
  <2>2. CASE x # me
    <3>1. victim'[x] = victim[x] /\ victim[x] \in Task \cup {None}
      BY <1>1, <1>2, <2>2 DEF CallTypes
    <3>2. victim[x] # None => desc[victim[x]] \in Mq \cup {None}
      BY <1>1, <3>1 DEF CallTypes
    <3>3. Missed(x)
      BY DEF WakeInv
    <3>. QED  BY <1>2, <1>7, <3>1, <3>2, <3>3 DEF Missed
  <2>. QED  BY <2>1, <2>2
<1>. QED  BY <1>8, <1>9, DepartServes

\* nxtask_exithook: the call was cut short when its task was taken off the lists.
LEMMA ExitHookServes ==
  ASSUME MqInv, MsgInv, WakeInv, ExitHook
  PROVE  WakeInv'
<1>. PICK me \in Task : me = self
  BY KernelParts
<1>0. victim[me] \in Task
  BY DEF ExitHook, Running, MqInv, Calls, CallTypes, Equipped
<1>. PICK t \in Task : t = victim[me]
  BY <1>0
<1>. DEFINE r == ClearedState(Kernel, t)
<1>1. /\ CallTypes /\ (\A x \in Task : Equipped(x)) /\ Core(sched) /\ IsKernel(Kernel) /\ KTypes(Kernel)
      /\ Kernel.sched = sched /\ sched.tstate[me] # "INVALID" /\ Kernel.msgwaitq = msgwaitq
      /\ Kernel.msglist = msglist /\ Kernel.cut = cut /\ Kernel.errcode = errcode /\ Kernel.fault = fault
  BY KernelParts, KernelErr DEF MqInv, Calls
<1>2. pc[me] = "terminate"
  BY DEF ExitHook, Running
<1>3. sched.tstate[t] = "INVALID" /\ t # me /\ t # None
  BY <1>1, <1>2, MqNoneIsNull DEF Equipped, CallTypes
<1>4. nxmq_recover(Kernel, t) = Kernel
  BY <1>1, <1>3 DEF nxmq_recover, MqWait
<1>5. /\ Becomes(r) /\ victim' = [victim EXCEPT ![me] = None]
      /\ pc' = [pc EXCEPT ![me] = "run", ![t] = "run"] /\ desc' = [desc EXCEPT ![t] = None]
  BY <1>4 DEF ExitHook, ClearedState
<1>6. /\ r.msglist = msglist /\ r.cut = cut /\ r.fault = fault /\ r.sched.tstate = sched.tstate
      /\ r.msgwaitq = [msgwaitq EXCEPT ![t] = None] /\ r.errcode = [errcode EXCEPT ![t] = "OK"]
  <2>1. IsKernel(Kernel) /\ Kernel.sched \in SchedState
    BY <1>1 DEF Core
  <2>2. IsCleared(Kernel, t, r, ClearedSched(Kernel.sched, t))
    BY <2>1, ClearedIs
  <2>. HIDE DEF r
  <2>. QED  BY <1>1, <2>2 DEF IsCleared, SameMsgs
<1>. HIDE DEF r
<1>7. /\ msglist' = msglist /\ cut' = cut /\ fault' = fault /\ sched'.tstate = sched.tstate
      /\ msgwaitq' = [msgwaitq EXCEPT ![t] = None] /\ errcode' = [errcode EXCEPT ![t] = "OK"]
  BY <1>5, <1>6, KernelErr
<1>8. ASSUME NEW q \in Mq, cut'[q] = {} PROVE desc[t] # q
  <2>1. Missed(me) /\ q # None
    BY MqNoneIsNull DEF WakeInv
  <2>. QED  BY <1>3, <1>7, <1>8, <2>1 DEF Missed
<1>9. Departs(t)
  <2>1. sched'.tstate[t] \notin MqWait /\ Else(sched, sched', t)
    BY <1>3, <1>7 DEF MqWait, Else
  <2>2. \A x \in Task : x # t => pc'[x] = pc[x] \/ pc[x] \in {"run", "terminate"}
    BY <1>1, <1>2, <1>5 DEF CallTypes
  <2>3. \A x \in Task : x # t =>
          msgwaitq'[x] = msgwaitq[x] /\ errcode'[x] = errcode[x] /\ desc'[x] = desc[x]
    BY <1>1, <1>5, <1>7 DEF CallTypes, KTypes
  <2>. QED  BY <1>7, <1>8, <2>1, <2>2, <2>3 DEF Departs
<1>10. ASSUME NEW x \in Task PROVE Missed(x)'
  <2>1. CASE x = me
    BY <1>1, <1>5, <2>1 DEF Missed, CallTypes
  <2>2. CASE x # me
    <3>1. victim'[x] = victim[x] /\ victim[x] \in Task \cup {None}
      BY <1>1, <1>5, <2>2 DEF CallTypes
    <3>2. victim[x] # None => desc'[victim[x]] = None \/ desc'[victim[x]] = desc[victim[x]]
      BY <1>1, <1>5, <3>1 DEF CallTypes
    <3>3. Missed(x)
      BY DEF WakeInv
    <3>. QED  BY <1>7, <3>1, <3>2, <3>3 DEF Missed
  <2>. QED  BY <2>1, <2>2
<1>. QED  BY <1>9, <1>10, DepartServes

\* What else task_restart leaves alone.
LEMMA RestartErr ==
  ASSUME NEW k, IsKernel(k), NEW t
  PROVE  RestartState(k, t).errcode = k.errcode /\ RestartState(k, t).fault = k.fault
<1>. DEFINE m == nxmq_recover(k, t)
            a == Activated(RestartedSched(RemoveFromList(m.sched, t), t), t)
<1>1. IsKernel(m) /\ m.errcode = k.errcode /\ m.fault = k.fault
  BY DEF nxmq_recover, IsKernel
<1>2. RestartState(k, t) = [m EXCEPT !.sched = a]
  BY DEF RestartState
<1>. HIDE DEF m, a
<1>. QED  BY <1>1, <1>2 DEF IsKernel

\* task_restart
LEMMA RestartServes ==
  ASSUME MqInv, MsgInv, WakeInv, NEW t \in Task, Restart(t)
  PROVE  WakeInv'
<1>. PICK me \in Task : me = self
  BY KernelParts
<1>. DEFINE k == RestartState(Kernel, t)
            r == CutShort(k, t, "restarted")
<1>1. /\ CallTypes /\ (\A x \in Task : Equipped(x)) /\ me = ThisTask(sched) /\ KInv(Kernel)
      /\ Kernel.sched = sched /\ Kernel.msgwaitq = msgwaitq /\ Kernel.cut = cut /\ IsKernel(Kernel)
      /\ Kernel.errcode = errcode /\ Kernel.fault = fault /\ Kernel.msglist = msglist
  BY KernelParts, KernelErr DEF MqInv, Calls
<1>2. /\ pc[me] = "run" /\ t \in Task \ {Idle} /\ t # me /\ sched.tstate[t] # "INVALID"
      /\ victim' = victim /\ pc' = [pc EXCEPT ![t] = "run"] /\ desc' = [desc EXCEPT ![t] = None]
  BY MqTaskSets DEF Restart, Running
<1>3. Becomes(r)
  BY DEF Restart, RestartState, RestartedSched
<1>4. /\ KInv(k) /\ Elsewhere(sched, k.sched, t) /\ k.msgwaitq = msgwaitq
      /\ k.sched.tstate[t] \notin MqWait \cup {"INVALID"} /\ k.cut = cut /\ SameMsgs(Kernel, k)
  BY <1>1, <1>2, KRestart
<1>5. k.errcode = errcode /\ k.fault = fault
  BY <1>1, RestartErr
<1>. HIDE DEF k
<1>6. IsKernel(k) /\ KTypes(k) /\ "restarted" \in How
  BY <1>4 DEF KInv, How
<1>7. /\ r.cut = CutOf(k, t, "restarted") /\ (desc[t] \in Mq => "restarted" \in r.cut[desc[t]])
      /\ r.sched = k.sched /\ r.msgwaitq = k.msgwaitq /\ r.errcode = k.errcode
      /\ r.fault = k.fault /\ r.msglist = k.msglist
  BY <1>6, CutFacts DEF SameMsgs
<1>. HIDE DEF r
<1>8. /\ sched' = k.sched /\ msgwaitq' = msgwaitq /\ errcode' = errcode /\ fault' = fault
      /\ msglist' = msglist /\ cut' = CutOf(k, t, "restarted")
      /\ (desc[t] \in Mq => "restarted" \in cut'[desc[t]])
  BY <1>1, <1>3, <1>4, <1>5, <1>7, KernelErr DEF SameMsgs
<1>9. \A q \in Mq : cut[q] \subseteq cut'[q]
  BY <1>4, <1>8 DEF CutOf
<1>10. Departs(t)
  <2>1. \A q \in Mq : cut'[q] = {} => cut[q] = {} /\ desc[t] # q
    BY <1>8, <1>9
  <2>2. sched'.tstate[t] \notin MqWait /\ Else(sched, sched', t)
    BY <1>4, <1>8, ElsewhereElse
  <2>3. \A x \in Task : x # t => pc'[x] = pc[x] /\ desc'[x] = desc[x]
    BY <1>1, <1>2 DEF CallTypes
  <2>. QED  BY <1>8, <2>1, <2>2, <2>3 DEF Departs
<1>11. ASSUME NEW x \in Task PROVE Missed(x)'
  <2>1. victim[x] \in Task \cup {None} /\ Equipped(x) /\ Missed(x)
    BY <1>1 DEF CallTypes, WakeInv
  <2>2. victim[x] # None => victim[x] # t
    BY <1>2, <2>1 DEF Equipped
  <2>3. victim[x] # None =>
          desc'[victim[x]] = desc[victim[x]] /\ desc[victim[x]] \in Mq \cup {None}
    BY <1>1, <1>2, <2>1, <2>2 DEF CallTypes
  <2>. QED  BY <1>2, <1>9, <2>1, <2>3 DEF Missed
<1>. QED  BY <1>10, <1>11, DepartServes

\* Every step keeps the balance.
LEMMA NextServes ==
  ASSUME MqInv, MsgInv, WakeInv, [Next]_vars
  PROVE  WakeInv'
<1>0. MsgInv'
  BY NextMsgs
<1>1. CASE UNCHANGED vars
  BY <1>0, <1>1, OtherServes
<1>2. CASE InCall
  <2>1. CASE SendCheck \/ SendResume \/ TimedSendCheck \/ TimedSendWait
    BY <1>0, <2>1, SendServes
  <2>2. CASE SendAlloc
    BY <1>0, <2>2, AllocServes
  <2>3. CASE Discard \/ NotifyRead \/ \E unmasked \in BOOLEAN : NotifySend(unmasked)
    BY <1>0, <2>3, NotifyServes
  <2>4. CASE \E prio \in MsgPrio : Insert(prio)
    BY <1>0, <2>4, InsertServes
  <2>5. CASE Wake \/ WakeSender
    BY <1>0, <2>5, WakesServe
  <2>6. CASE RecvCheck \/ RecvResume
    BY <1>0, <2>6, ReceiveServes
  <2>7. CASE Deliver
    BY <1>0, <2>7, DeliverServes
  <2>8. CASE \/ TimedSendLock \/ Unlock \/ DeleteDog
             \/ \E q \in Mq : TimedReceiveLock(q)
    BY <1>0, <2>8, EndsServe
  <2>9. CASE ExitHook
    BY <2>9, ExitHookServes
  <2>. QED  BY <1>2, <2>1, <2>2, <2>3, <2>4, <2>5, <2>6, <2>7, <2>8, <2>9 DEF InCall
<1>3. CASE TimedReceive
  BY <1>0, <1>3, EndsServe
<1>4. CASE Halted
  BY <1>1, <1>4 DEF Halted
<1>5. ASSUME NEW q \in Mq,
             \/ SendLock(q) \/ TimedSend(q) \/ Receive(q) \/ Register(q) \/ Detach(q)
             \/ \E prio \in MsgPrio, unmasked \in BOOLEAN : IrqSend(q, prio, unmasked)
      PROVE  WakeInv'
  <2>1. CASE SendLock(q) \/ Receive(q)
    BY <1>0, <2>1, EndsServe
  <2>2. CASE TimedSend(q)
    BY <1>0, <2>2, AllocServes
  <2>3. CASE Register(q) \/ Detach(q)
    BY <1>0, <2>3, OtherServes
  <2>4. CASE \E prio \in MsgPrio, unmasked \in BOOLEAN : IrqSend(q, prio, unmasked)
    BY <1>0, <2>4, IrqSendServes
  <2>. QED  BY <1>5, <2>1, <2>2, <2>3, <2>4
<1>6. ASSUME NEW t \in Task, Signal(t) \/ Timeout(t) \/ Start(t) \/ Terminate(t) \/ Restart(t)
      PROVE  WakeInv'
  <2>1. CASE Signal(t) \/ Timeout(t)
    BY <1>0, <2>1, OtherServes
  <2>2. CASE Start(t)
    BY <1>0, <2>2, EndsServe
  <2>3. CASE Terminate(t)
    BY <2>3, TerminateServes
  <2>4. CASE Restart(t)
    BY <2>4, RestartServes
  <2>. QED  BY <1>6, <2>1, <2>2, <2>3, <2>4
<1>. QED  BY <1>1, <1>2, <1>3, <1>4, <1>5, <1>6 DEF Next

\* Nobody waits at first.
LEMMA InitServes == Init => WakeInv
<1>. SUFFICES ASSUME Init PROVE WakeInv
  OBVIOUS
<1>1. /\ errcode = [t \in Task |-> "OK"] /\ victim = [t \in Task |-> None]
      /\ msgwaitq = [t \in Task |-> None]
  BY DEF Init
<1>2. \A t \in Task : Rested(t) /\ Missed(t)
  BY <1>1 DEF Rested, Missed
<1>3. \A st \in Watched, q \in Mq : Blocked(st, q) = {}
  BY <1>1, MqNoneIsNull DEF Blocked
<1>. QED  BY <1>2, <1>3 DEF WakeInv, Served

\* The invariant of the waiters: while somebody waits on a queue whose calls were not
\* cut short, there are as many tasks on their way as messages (or free places), not
\* counting waiters that a signal or a timeout took off the list.
THEOREM WakeInvAlways == Spec => []WakeInv
<1>1. MqInv /\ MsgInv /\ WakeInv /\ [Next]_vars => WakeInv'
  BY NextServes
<1>. QED  BY InvAlways, MsgInvAlways, InitServes, <1>1, PTL DEF Spec

\* The tasks on their way are woken waiters or inside a call.
LEMMA UsersBound ==
  ASSUME NEW st \in MqWait, NEW q
  PROVE  LET W == Woken(q, PlaceOf(st))
             A == At(q, UsedAt(st))
         IN  /\ Cardinality(Users(st, q)) <= Cardinality(W) + Cardinality(A)
             /\ Cardinality(Users(st, q)) \in Nat /\ Cardinality(W) \in Nat /\ Cardinality(A) \in Nat
<1>. DEFINE W == Woken(q, PlaceOf(st))
            A == At(q, UsedAt(st))
            U == Users(st, q)
<1>1. W \in SUBSET Task /\ A \in SUBSET Task /\ U \in SUBSET Task /\ U \subseteq W \cup A
  BY DEF Woken, At, Users, Uses
<1>. HIDE DEF W, A, U
<1>2. W \cup A \in SUBSET Task /\ W \cap A \in SUBSET Task
  BY <1>1
<1>3. /\ IsFiniteSet(W) /\ IsFiniteSet(A) /\ IsFiniteSet(W \cup A)
      /\ Cardinality(W) \in Nat /\ Cardinality(A) \in Nat /\ Cardinality(U) \in Nat
      /\ Cardinality(W \cup A) \in Nat /\ Cardinality(W \cap A) \in Nat
  BY <1>1, <1>2, TaskSets
<1>4. Cardinality(W \cup A) = Cardinality(W) + Cardinality(A) - Cardinality(W \cap A)
  BY <1>3, FS_Union
<1>5. Cardinality(U) <= Cardinality(W \cup A)
  BY <1>1, <1>3, FS_Subset
<1>6. Cardinality(U) <= Cardinality(W) + Cardinality(A)
  BY <1>3, <1>4, <1>5
<1>. QED  BY <1>3, <1>6 DEF U, W, A

\* No receiver sleeps on a queue with messages that nobody is about to take: each is
\* matched by a woken receiver or by a sender that has not reached its wake-up.
THEOREM ReceiversServed == Spec => []NoReceiverLeftBehind
<1>1. ASSUME MqInv, MsgInv, WakeInv PROVE NoReceiverLeftBehind
  <2>. SUFFICES ASSUME NEW q \in Mq, ~fault, cut[q] = {}, Blocked("WAIT_MQNOTEMPTY", q) # {}
                PROVE  Len(msglist[q]) <= Cardinality(Woken(q, "recvwait"))
                                          + Cardinality(At(q, {"notify", "notified", "wake"}))
    BY DEF NoReceiverLeftBehind
  <2>1. "WAIT_MQNOTEMPTY" \in Watched /\ "WAIT_MQNOTEMPTY" \in MqWait
    BY DEF Watched, MqWait
  <2>2. Need("WAIT_MQNOTEMPTY", q) <= Cardinality(Users("WAIT_MQNOTEMPTY", q))
    BY <1>1, <2>1 DEF WakeInv, Served
  <2>3. Need("WAIT_MQNOTEMPTY", q) = Len(msglist[q]) /\ Len(msglist[q]) \in Nat
    BY <1>1, NeedIsNumber
  <2>4. /\ PlaceOf("WAIT_MQNOTEMPTY") = "recvwait"
        /\ UsedAt("WAIT_MQNOTEMPTY") = {"notify", "notified", "wake"}
    BY DEF PlaceOf, UsedAt
  <2>5. LET W == Woken(q, "recvwait")
            A == At(q, {"notify", "notified", "wake"})
        IN  /\ Cardinality(Users("WAIT_MQNOTEMPTY", q)) <= Cardinality(W) + Cardinality(A)
            /\ Cardinality(Users("WAIT_MQNOTEMPTY", q)) \in Nat
            /\ Cardinality(W) \in Nat /\ Cardinality(A) \in Nat
    BY <2>1, <2>4, UsersBound
  <2>. QED  BY <2>2, <2>3, <2>5
<1>2. MqInv /\ MsgInv /\ WakeInv => NoReceiverLeftBehind
  BY <1>1
<1>. QED  BY InvAlways, MsgInvAlways, WakeInvAlways, <1>2, PTL

\* No sender sleeps on a queue with room that nobody is about to fill or to hand on,
\* as long as a woken sender gets its memory.
THEOREM SendersServed ==
  ASSUME ~MallocFails
  PROVE  Spec => []NoSenderLeftBehind
<1>1. ASSUME MqInv, MsgInv, WakeInv PROVE NoSenderLeftBehind
  <2>. SUFFICES ASSUME NEW q \in Mq, ~fault, cut[q] = {}, Blocked("WAIT_MQNOTFULL", q) # {}
                PROVE  MaxMsgs - Len(msglist[q]) <= Cardinality(Woken(q, "sendwait"))
                         + Cardinality(At(q, {"alloc", "insert", "deliver", "wakesender"}))
    BY DEF NoSenderLeftBehind
  <2>1. "WAIT_MQNOTFULL" \in Watched /\ "WAIT_MQNOTFULL" \in MqWait
    BY <1>1 DEF Watched, MqWait
  <2>2. Need("WAIT_MQNOTFULL", q) <= Cardinality(Users("WAIT_MQNOTFULL", q))
    BY <1>1, <2>1 DEF WakeInv, Served
  <2>3. Need("WAIT_MQNOTFULL", q) = MaxMsgs - Len(msglist[q]) /\ Len(msglist[q]) \in Nat /\ MaxMsgs \in Nat
    BY <1>1, NeedIsNumber
  <2>4. /\ PlaceOf("WAIT_MQNOTFULL") = "sendwait"
        /\ UsedAt("WAIT_MQNOTFULL") = {"alloc", "insert", "deliver", "wakesender"}
    BY DEF PlaceOf, UsedAt
  <2>5. LET W == Woken(q, "sendwait")
            A == At(q, {"alloc", "insert", "deliver", "wakesender"})
        IN  /\ Cardinality(Users("WAIT_MQNOTFULL", q)) <= Cardinality(W) + Cardinality(A)
            /\ Cardinality(Users("WAIT_MQNOTFULL", q)) \in Nat
            /\ Cardinality(W) \in Nat /\ Cardinality(A) \in Nat
    BY <2>1, <2>4, UsersBound
  <2>. QED  BY <2>2, <2>3, <2>5
<1>2. MqInv /\ MsgInv /\ WakeInv => NoSenderLeftBehind
  BY <1>1
<1>. QED  BY InvAlways, MsgInvAlways, WakeInvAlways, <1>2, PTL
=============================================================================
