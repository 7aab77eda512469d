------------------------------ MODULE MsgQueue ------------------------------
(***************************************************************************)
(* POSIX message queues (sched/mqueue) on the scheduler of NxSched: tasks  *)
(* send and receive, with or without a timeout, and register for a         *)
(* notification; interrupts send; signals, watchdogs, deletion and restart *)
(* end waits.                                                              *)
(*                                                                         *)
(* Every step is one critical section, or a stretch under sched_lock       *)
(* between two of them, so that interrupts (never other tasks) come in     *)
(* between.  A task that was switched out inside nxmq_wait_send or         *)
(* nxmq_wait_receive comes back with interrupts disabled.  The nested      *)
(* sched_lock of nxmq_do_send is left out.  O_NONBLOCK, the priority of a  *)
(* message and whether a timeout is already past are chosen where the code *)
(* looks at them.                                                          *)
(***************************************************************************)
EXTENDS NxSched, Integers, FiniteSets

CONSTANTS
  Mq,          \* the queues
  IrqMq,       \* the queues that interrupt handlers send to
  MaxMsgs,     \* msgq->maxmsgs
  MaxLen,      \* bound: interrupts do not fill a queue beyond this length
  MsgPrio,     \* the message priorities
  Prealloc,    \* CONFIG_PREALLOC_MQ_MSGS, the size of g_msgfree
  IrqPrealloc, \* NUM_INTERRUPT_MSGS, the size of g_msgfreeirq
  MallocFails, \* whether kmm_malloc may return NULL
  BasePrio,    \* the priority each task is created with
  Deletable,   \* the tasks that task_delete may hit
  WaitCap,     \* bound: no deletion while a count of waiters is above it
  Restartable, \* the tasks that task_restart may hit
  None         \* a null pointer

ASSUME MaxMsgsPositive == MaxMsgs \in Nat \ {0} /\ MaxLen \in Nat /\ MaxMsgs <= MaxLen
ASSUME IrqMqAreQueues == IrqMq \subseteq Mq
ASSUME MsgPrioNat == MsgPrio \subseteq Nat
ASSUME PoolsNat == Prealloc \in Nat /\ IrqPrealloc \in Nat
ASSUME WaitCapNat == WaitCap \in Nat
ASSUME MallocFailsBoolean == MallocFails \in BOOLEAN
ASSUME MqBasePrioTyped == BasePrio \in [Task \ {Idle} -> Priority]
ASSUME MqTaskSets == Deletable \cup Restartable \subseteq Task \ {Idle}
ASSUME MqTasksFinite == IsFiniteSet(Task)
ASSUME MqNoneIsNull == None \notin Mq \cup Task \cup {"FIXED", "IRQ", "DYN"}

VARIABLES
  sched,     \* the scheduler state
  msglist,   \* msgq->msglist; its length is msgq->nmsgs
  nwait,     \* msgq->nwaitnotempty and nwaitnotfull, by the state they count
  ntpid,     \* msgq->ntpid: who is to be notified (ntmqdes is set with it)
  pool,      \* how many messages are on g_msgfree and g_msgfreeirq
  msgwaitq,  \* tcb->msgwaitq
  errcode,   \* tcb->errcode
  waitdog,   \* tcb->waitdog: none, created (or expired), or active
  pc,        \* where in a call a task is
  desc,      \* the queue of that call
  mqmsg,     \* the message the call holds
  event,     \* the copy of ntpid that nxmq_do_send notifies
  victim,    \* who the task inside nxtask_terminate is deleting
  fault,     \* a null pointer was dereferenced
  arrived,   \* auxiliary: the messages of a queue in the order of their arrival
  cut        \* auxiliary: how tasks were taken out of a call on a queue

callvars == <<pc, desc, mqmsg, event, victim>>
kvars == <<sched, msglist, nwait, ntpid, pool, msgwaitq, errcode, fault, arrived, cut>>
vars == <<kvars, waitdog, callvars>>

self == ThisTask(sched)

MqWait == {"WAIT_MQNOTEMPTY", "WAIT_MQNOTFULL"}
\* `from' is auxiliary: who sent it
Message == [prio : MsgPrio, type : {"FIXED", "IRQ", "DYN"}, from : {"task", "irq"}]

Interruptible == ~fault /\ pc[self] \notin {"sendwait", "recvwait"}
Running(place) == ~fault /\ self # Idle /\ pc[self] = place

Full(q) == Len(msglist[q]) >= MaxMsgs

Init ==
  /\ sched = SchedInit
  /\ msglist = [q \in Mq |-> << >>] /\ arrived = [q \in Mq |-> << >>]
  /\ nwait = [st \in MqWait |-> [q \in Mq |-> 0]]
  /\ ntpid = [q \in Mq |-> None]
  /\ pool = [FIXED |-> Prealloc, IRQ |-> IrqPrealloc]
  /\ msgwaitq = [t \in Task |-> None]
  /\ errcode = [t \in Task |-> "OK"]
  /\ waitdog = [t \in Task |-> "none"]
  /\ pc = [t \in Task |-> "run"]
  /\ desc = [t \in Task |-> None]
  /\ mqmsg = [t \in Task |-> None]
  /\ event = [t \in Task |-> None]
  /\ victim = [t \in Task |-> None]
  /\ fault = FALSE
  /\ cut = [q \in Mq |-> {}]

(***************************************************************************)
(* What the functions do, on the record k of the variables they change.    *)
(***************************************************************************)
Kernel ==
  [sched |-> sched, msglist |-> msglist, nwait |-> nwait, ntpid |-> ntpid, pool |-> pool,
   msgwaitq |-> msgwaitq, errcode |-> errcode, fault |-> fault, arrived |-> arrived,
   cut |-> cut]

Becomes(k) ==
  /\ sched' = k.sched /\ msglist' = k.msglist /\ nwait' = k.nwait /\ ntpid' = k.ntpid
  /\ pool' = k.pool /\ msgwaitq' = k.msgwaitq /\ errcode' = k.errcode
  /\ fault' = k.fault /\ arrived' = k.arrived /\ cut' = k.cut

SchedBecomes(s) == Becomes([Kernel EXCEPT !.sched = s])

\* Behind every message that is at least as urgent
MsgPos(list, prio) ==
  CHOOSE i \in 1..(Len(list) + 1) :
    /\ \A j \in 1..(i - 1) : prio <= list[j].prio
    /\ i <= Len(list) => list[i].prio < prio

\* Seeded fault: in front of the messages of the same priority.
AddMsgBeforeEquals(k, q, msg) ==
  LET list == k.msglist[q]
      at == CHOOSE i \in 1..(Len(list) + 1) :
              /\ \A j \in 1..(i - 1) : msg.prio < list[j].prio
              /\ i <= Len(list) => list[i].prio <= msg.prio
  IN  [k EXCEPT !.msglist[q] = InsertAtPos(@, at, msg), !.arrived[q] = Append(@, msg)]

AddMsg(k, q, msg) ==
  [k EXCEPT !.msglist[q] = InsertAtPos(@, MsgPos(@, msg.prio), msg),
            !.arrived[q] = Append(@, msg)]

\* The first task on the list of state st that waits for q, as a set
FirstWaiter(k, st, q) ==
  LET list == k.sched.blk[st]
  IN  {list[i] : i \in {j \in 1..Len(list) :
                          /\ k.msgwaitq[list[j]] = q
                          /\ \A h \in 1..(j - 1) : k.msgwaitq[list[h]] # q}}

\* Unblock the first waiter.  The code does not test that there is one.
WakeFirst(k, st, q) ==
  LET first == FirstWaiter(k, st, q)
  IN  IF first = {} THEN [k EXCEPT !.fault = TRUE]
      ELSE LET t == CHOOSE x \in first : TRUE
           IN  [k EXCEPT !.msgwaitq[t] = None, !.nwait[st][q] = @ - 1,
                         !.sched = UnblockTask(k.sched, t)]

\* Seeded fault: every wake-up ends the wait, but only receivers are counted.
WaitIrqCountsReceivers(k, t, err) ==
  LET st == k.sched.tstate[t]
  IN  IF st \notin MqWait THEN k
      ELSE [k EXCEPT !.msgwaitq[t] = None, !.errcode[t] = err,
                     !.nwait["WAIT_MQNOTEMPTY"][k.msgwaitq[t]] = @ - 1,
                     !.sched = UnblockTask(k.sched, t)]

nxmq_wait_irq(k, t, err) ==
  LET st == k.sched.tstate[t]
  IN  IF st \notin MqWait THEN k
      ELSE [k EXCEPT !.msgwaitq[t] = None, !.errcode[t] = err,
                     !.nwait[st][k.msgwaitq[t]] = @ - 1,
                     !.sched = UnblockTask(k.sched, t)]

\* Seeded fault: nothing is recovered.
RecoverNothing(k, t) == k

\* nxmq_recover: msgwaitq stays, and the task is not made ready
nxmq_recover(k, t) ==
  LET st == k.sched.tstate[t]
  IN  IF st \in MqWait THEN [k EXCEPT !.nwait[st][k.msgwaitq[t]] = @ - 1] ELSE k

\* Detach the notification, and nxsig_notification of the task the caller
\* copied: a signal that is not masked ends its wait.
Notified(k, q, t, unmasked) ==
  LET sent == [k EXCEPT !.ntpid[q] = None]
  IN  IF unmasked THEN nxmq_wait_irq(sent, t, "EINTR") ELSE sent

\* Seeded fault: a receiver is woken only when the queue was empty.
WakeWhenFilled(k, q) ==
  IF k.nwait["WAIT_MQNOTEMPTY"][q] > 0 /\ Len(k.msglist[q]) = 1
  THEN WakeFirst(k, "WAIT_MQNOTEMPTY", q) ELSE k

\* The wake-up at the end of nxmq_do_send
WakeReceiver(k, q) ==
  IF k.nwait["WAIT_MQNOTEMPTY"][q] > 0 THEN WakeFirst(k, "WAIT_MQNOTEMPTY", q) ELSE k

\* nxmq_free_msg
FreeMsg(k, msg) ==
  IF msg.type = "DYN" THEN k ELSE [k EXCEPT !.pool[msg.type] = @ + 1]

\* Seeded fault: the task is put on the list of waiters and stays ready.
BlockOnStaysReady(k, t, st, q) ==
  [k EXCEPT !.msgwaitq[t] = q, !.nwait[st][q] = @ + 1, !.errcode[t] = "OK",
            !.sched = AddBlocked(k.sched, t, st)]

\* The part of nxmq_wait_send and nxmq_wait_receive that blocks
BlockOn(k, t, st, q) ==
  [k EXCEPT !.msgwaitq[t] = q, !.nwait[st][q] = @ + 1, !.errcode[t] = "OK",
            !.sched = BlockTask(k.sched, t, st)]

\* sq_remfirst and nmsgs--; the message that came first among its equals
TakeFirst(k, q) ==
  LET msg == Head(k.msglist[q])
      i == CHOOSE j \in 1..Len(k.arrived[q]) :
             k.arrived[q][j] = msg /\ \A h \in 1..(j - 1) : k.arrived[q][h] # msg
  IN  [k EXCEPT !.msglist[q] = Tail(@),
                !.arrived[q] = SubSeq(@, 1, i - 1) \o SubSeq(@, i + 1, Len(@))]

Cancelled(t) == [waitdog EXCEPT ![t] = IF @ = "active" THEN "created" ELSE @]

GoTo(place) == pc' = [pc EXCEPT ![self] = place]

(***************************************************************************)
(* Sending.                                                                *)
(***************************************************************************)
\* nxmq_send up to sched_lock
SendLock(q) ==
  /\ Running("run")
  /\ SchedBecomes(LockOp(sched))
  /\ desc' = [desc EXCEPT ![self] = q]
  /\ GoTo("send")
  /\ UNCHANGED <<waitdog, mqmsg, event, victim>>

\* The critical section of nxmq_send
SendCheck ==
  /\ Running("send")
  /\ \/ /\ ~Full(desc[self]) /\ GoTo("alloc")
        /\ UNCHANGED kvars
     \/ /\ Full(desc[self]) /\ GoTo("unlock")       \* O_NONBLOCK
        /\ UNCHANGED kvars
     \/ /\ Full(desc[self]) /\ GoTo("sendwait")
        /\ Becomes(BlockOn(Kernel, self, "WAIT_MQNOTFULL", desc[self]))
  /\ UNCHANGED <<waitdog, desc, mqmsg, event, victim>>

\* Seeded fault: a woken sender does not look again whether there is room.
SendResumeOnce ==
  /\ Running("sendwait")
  /\ GoTo(IF mqmsg[self] # None THEN "insert" ELSE "alloc")
  /\ waitdog' = Cancelled(self)
  /\ UNCHANGED <<kvars, desc, mqmsg, event, victim>>

\* The rest of nxmq_wait_send after up_block_task, up to the caller's
\* leave_critical_section; in nxmq_timedsend also wd_cancel
SendResume ==
  /\ Running("sendwait")
  /\ \/ /\ errcode[self] # "OK"
        /\ GoTo(IF mqmsg[self] # None THEN "discard" ELSE "unlock")
        /\ waitdog' = Cancelled(self)
        /\ UNCHANGED kvars
     \/ /\ errcode[self] = "OK" /\ Full(desc[self])
        /\ Becomes(BlockOn(Kernel, self, "WAIT_MQNOTFULL", desc[self]))
        /\ UNCHANGED <<waitdog, pc>>
     \/ /\ errcode[self] = "OK" /\ ~Full(desc[self])
        /\ GoTo(IF mqmsg[self] # None THEN "insert" ELSE "alloc")
        /\ waitdog' = Cancelled(self)
        /\ UNCHANGED kvars
  /\ UNCHANGED <<desc, mqmsg, event, victim>>

\* nxmq_alloc_msg by a task; the priority is filled in by nxmq_do_send
Alloc(place, failed) ==
  /\ \/ /\ pool.FIXED > 0
        /\ Becomes([Kernel EXCEPT !.pool.FIXED = @ - 1])
        /\ mqmsg' = [mqmsg EXCEPT ![self] = "FIXED"]
        /\ GoTo(place)
     \/ /\ pool.FIXED = 0
        /\ mqmsg' = [mqmsg EXCEPT ![self] = "DYN"]
        /\ GoTo(place)
        /\ UNCHANGED kvars
     \/ /\ pool.FIXED = 0 /\ MallocFails
        /\ GoTo(failed)
        /\ UNCHANGED <<kvars, mqmsg>>
  /\ UNCHANGED <<waitdog, event, victim>>

SendAlloc == Running("alloc") /\ Alloc("insert", "unlock") /\ UNCHANGED desc

\* nxmq_timedsend allocates first, then locks
TimedSend(q) ==
  /\ Running("run") /\ Alloc("tlock", "run")
  /\ desc' = [desc EXCEPT ![self] = q]

TimedSendLock ==
  /\ Running("tlock")
  /\ SchedBecomes(LockOp(sched))
  /\ GoTo("tcheck")
  /\ UNCHANGED <<waitdog, desc, mqmsg, event, victim>>

\* Outside a critical section: is there room, is abstime valid, wd_create
TimedSendCheck ==
  /\ Running("tcheck")
  /\ \/ ~Full(desc[self]) /\ GoTo("insert") /\ UNCHANGED waitdog
     \/ Full(desc[self]) /\ GoTo("discard") /\ UNCHANGED waitdog
     \/ Full(desc[self]) /\ GoTo("tsend")
        /\ waitdog' = [waitdog EXCEPT ![self] = "created"]
  /\ UNCHANGED <<kvars, desc, mqmsg, event, victim>>

\* The time is past or O_NONBLOCK is set; or wd_start and nxmq_wait_send
TimedSendWait ==
  /\ Running("tsend")
  /\ \/ GoTo("discard") /\ UNCHANGED <<kvars, waitdog>>
     \/ /\ Full(desc[self]) /\ GoTo("sendwait")
        /\ waitdog' = [waitdog EXCEPT ![self] = "active"]
        /\ Becomes(BlockOn(Kernel, self, "WAIT_MQNOTFULL", desc[self]))
  /\ UNCHANGED <<desc, mqmsg, event, victim>>

\* Seeded fault: the message is not freed.
DiscardLeaks ==
  /\ Running("discard")
  /\ waitdog' = [waitdog EXCEPT ![self] = "none"]
  /\ mqmsg' = [mqmsg EXCEPT ![self] = None]
  /\ GoTo("unlock")
  /\ UNCHANGED <<kvars, desc, event, victim>>

\* The error exits of nxmq_timedsend: wd_delete and nxmq_free_msg
Discard ==
  /\ Running("discard")
  /\ waitdog' = [waitdog EXCEPT ![self] = "none"]
  /\ Becomes(FreeMsg(Kernel, [prio |-> 0, type |-> mqmsg[self]]))
  /\ mqmsg' = [mqmsg EXCEPT ![self] = None]
  /\ GoTo("unlock")
  /\ UNCHANGED <<desc, event, victim>>

\* nxmq_do_send: the message goes into the list
Insert(prio) ==
  /\ Running("insert")
  /\ Becomes(AddMsg(Kernel, desc[self], [prio |-> prio, type |-> mqmsg[self], from |-> "task"]))
  /\ mqmsg' = [mqmsg EXCEPT ![self] = None]
  /\ GoTo("notify")
  /\ UNCHANGED <<waitdog, desc, event, victim>>

\* nxmq_do_send reads ntmqdes and copies ntpid with interrupts enabled ...
NotifyRead ==
  /\ Running("notify")
  /\ event' = [event EXCEPT ![self] = ntpid[desc[self]]]
  /\ GoTo(IF ntpid[desc[self]] = None THEN "wake" ELSE "notified")
  /\ UNCHANGED <<kvars, waitdog, desc, mqmsg, victim>>

\* ... and then detaches the notification and sends it
NotifySend(unmasked) ==
  /\ Running("notified")
  /\ Becomes(Notified(Kernel, desc[self], event[self], unmasked))
  /\ event' = [event EXCEPT ![self] = None]
  /\ GoTo("wake")
  /\ UNCHANGED <<waitdog, desc, mqmsg, victim>>

Wake ==
  /\ Running("wake")
  /\ Becomes(WakeReceiver(Kernel, desc[self]))
  /\ GoTo("unlock")
  /\ UNCHANGED <<waitdog, desc, mqmsg, event, victim>>

(***************************************************************************)
(* Receiving.                                                              *)
(***************************************************************************)
RecvLock(q, place) ==
  /\ Running(place)
  /\ SchedBecomes(LockOp(sched))
  /\ desc' = [desc EXCEPT ![self] = q]
  /\ GoTo("recv")
  /\ UNCHANGED <<waitdog, mqmsg, event, victim>>

Receive(q) == RecvLock(q, "run")

\* nxmq_timedreceive: wd_create before sched_lock
TimedReceive ==
  /\ Running("run")
  /\ waitdog' = [waitdog EXCEPT ![self] = "created"]
  /\ GoTo("trecv")
  /\ UNCHANGED <<kvars, desc, mqmsg, event, victim>>

TimedReceiveLock(q) == RecvLock(q, "trecv")

\* nxmq_wait_receive takes the first message, if there is one.
GetMsg ==
  /\ msglist[desc[self]] # << >>
  /\ mqmsg' = [mqmsg EXCEPT ![self] = Head(msglist[desc[self]]).type]
  /\ Becomes(TakeFirst(Kernel, desc[self]))
  /\ GoTo("deliver")

BlockEmpty ==
  /\ msglist[desc[self]] = << >>
  /\ Becomes(BlockOn(Kernel, self, "WAIT_MQNOTEMPTY", desc[self]))
  /\ GoTo("recvwait")
  /\ UNCHANGED mqmsg

\* The critical section of nxmq_receive and nxmq_timedreceive, where wd_start
\* precedes the wait
RecvCheck ==
  /\ Running("recv")
  /\ \/ GetMsg /\ UNCHANGED waitdog
     \/ /\ msglist[desc[self]] = << >>      \* O_NONBLOCK, or the time is past
        /\ GoTo("unlock")
        /\ UNCHANGED <<kvars, waitdog, mqmsg>>
     \/ /\ BlockEmpty
        /\ waitdog' = [waitdog EXCEPT ![self] = IF @ = "created" THEN "active" ELSE @]
  /\ UNCHANGED <<desc, event, victim>>

\* The rest of nxmq_wait_receive after up_block_task, and wd_cancel
RecvResume ==
  /\ Running("recvwait")
  /\ \/ /\ errcode[self] # "OK" /\ GoTo("unlock")
        /\ waitdog' = Cancelled(self)
        /\ UNCHANGED <<kvars, mqmsg>>
     \/ errcode[self] = "OK" /\ GetMsg /\ waitdog' = Cancelled(self)
     \/ errcode[self] = "OK" /\ BlockEmpty /\ UNCHANGED waitdog
  /\ UNCHANGED <<desc, event, victim>>

\* Seeded fault: a sender is woken only when the queue was full.
DeliverWhenFull ==
  /\ Running("deliver")
  /\ Becomes(FreeMsg(Kernel, [prio |-> 0, type |-> mqmsg[self]]))
  /\ mqmsg' = [mqmsg EXCEPT ![self] = None]
  /\ GoTo(IF /\ nwait["WAIT_MQNOTFULL"][desc[self]] > 0
             /\ Len(msglist[desc[self]]) = MaxMsgs - 1
          THEN "wakesender" ELSE "unlock")
  /\ UNCHANGED <<waitdog, desc, event, victim>>

\* nxmq_do_receive: the message goes back to its pool, and nwaitnotfull is read
\* with interrupts enabled
Deliver ==
  /\ Running("deliver")
  /\ Becomes(FreeMsg(Kernel, [prio |-> 0, type |-> mqmsg[self]]))
  /\ mqmsg' = [mqmsg EXCEPT ![self] = None]
  /\ GoTo(IF nwait["WAIT_MQNOTFULL"][desc[self]] > 0 THEN "wakesender" ELSE "unlock")
  /\ UNCHANGED <<waitdog, desc, event, victim>>

WakeSender ==
  /\ Running("wakesender")
  /\ Becomes(WakeFirst(Kernel, "WAIT_MQNOTFULL", desc[self]))
  /\ GoTo("unlock")
  /\ UNCHANGED <<waitdog, desc, mqmsg, event, victim>>

(***************************************************************************)
(* The end of every call: sched_unlock and then, if there is one, the      *)
(* watchdog is deleted.                                                    *)
(***************************************************************************)
Unlock ==
  /\ Running("unlock")
  /\ SchedBecomes(UnlockOp(sched))
  /\ desc' = [desc EXCEPT ![self] = None]
  /\ GoTo(IF waitdog[self] = "none" THEN "run" ELSE "undog")
  /\ UNCHANGED <<waitdog, mqmsg, event, victim>>

DeleteDog ==
  /\ Running("undog")
  /\ waitdog' = [waitdog EXCEPT ![self] = "none"]
  /\ GoTo("run")
  /\ UNCHANGED <<kvars, desc, mqmsg, event, victim>>

(***************************************************************************)
(* mq_notify: register, or with a null pointer detach one's own            *)
(* registration; EBUSY changes nothing, nor does the sched_unlock too many *)
(* of a null descriptor unless the caller holds the lock (not modelled).   *)
(***************************************************************************)
Register(q) ==
  /\ Running("run") /\ ntpid[q] = None
  /\ Becomes([Kernel EXCEPT !.ntpid[q] = self])
  /\ UNCHANGED <<waitdog, callvars>>

Detach(q) ==
  /\ Running("run") /\ ntpid[q] = self
  /\ Becomes([Kernel EXCEPT !.ntpid[q] = None])
  /\ UNCHANGED <<waitdog, callvars>>

(***************************************************************************)
(* Interrupts.                                                             *)
(***************************************************************************)
\* nxmq_send from an interrupt handler, which never waits for room
IrqSend(q, prio, unmasked) ==
  LET type == IF pool.FIXED > 0 THEN "FIXED" ELSE "IRQ"
      added == AddMsg([Kernel EXCEPT !.pool[type] = @ - 1], q, [prio |-> prio, type |-> type, from |-> "irq"])
      told == IF ntpid[q] # None THEN Notified(added, q, ntpid[q], unmasked) ELSE added
  IN  /\ Interruptible /\ q \in IrqMq /\ Len(msglist[q]) < MaxLen
      /\ pool[type] > 0
      /\ Becomes(WakeReceiver(told, q))
      /\ UNCHANGED <<waitdog, callvars>>

\* nxsig_tcbdispatch of an unmasked signal
Signal(t) ==
  /\ Interruptible /\ sched.tstate[t] \in MqWait
  /\ Becomes(nxmq_wait_irq(Kernel, t, "EINTR"))
  /\ UNCHANGED <<waitdog, callvars>>

\* wd_expiration and nxmq_sndtimeout or nxmq_rcvtimeout: nothing happens to a
\* task that is not in its wait
Timeout(t) ==
  /\ Interruptible /\ waitdog[t] = "active"
  /\ waitdog' = [waitdog EXCEPT ![t] = "created"]
  /\ Becomes(nxmq_wait_irq(Kernel, t, "ETIMEDOUT"))
  /\ UNCHANGED callvars

(***************************************************************************)
(* Tasks start, are deleted and restarted.                                 *)
(***************************************************************************)
\* The call that t is taken out of, if any
CutShort(k, t, how) ==
  [k EXCEPT !.cut = [q \in Mq |-> IF q = desc[t] THEN @[q] \cup {how} ELSE @[q]]]

Victim(t) == \E d \in Task : victim[d] = t

\* A task on the list of inactive tasks, and nxtask_activate
Activated(s, t) ==
  UnblockTask([s EXCEPT !.tstate[t] = "INACTIVE", !.blk["INACTIVE"] = AddFirst(@, t)], t)

\* nxthread_setup_scheduler and nxtask_activate
Start(t) ==
  /\ Interruptible /\ t # Idle /\ sched.tstate[t] = "INVALID" /\ ~Victim(t)
  /\ SchedBecomes(Activated([sched EXCEPT !.prio[t] = BasePrio[t], !.init[t] = BasePrio[t]], t))
  /\ UNCHANGED <<waitdog, callvars>>

\* nxtask_terminate, its critical section: off the list, and INVALID
Terminate(t) ==
  /\ Running("run")
  /\ t \in Deletable \ {self} /\ sched.tstate[t] # "INVALID" /\ pc[t] # "terminate"
  /\ \A st \in MqWait, q \in Mq : nwait[st][q] <= WaitCap
  /\ Becomes(CutShort([Kernel EXCEPT !.sched = RemoveFromList(sched, t)], t, "deleted"))
  /\ victim' = [victim EXCEPT ![self] = t]
  /\ GoTo("terminate")
  /\ UNCHANGED <<waitdog, desc, mqmsg, event>>

\* nxtask_exithook (wd_recover, nxmq_recover) and nxsched_release_tcb; what the
\* call held is gone with its stack
ExitHook ==
  /\ Running("terminate")
  /\ LET t == victim[self]
         k == nxmq_recover(Kernel, t)
     IN  /\ waitdog' = [waitdog EXCEPT ![t] = "none"]
         /\ Becomes([k EXCEPT !.msgwaitq[t] = None, !.errcode[t] = "OK",
                              !.sched.prio[t] = 0, !.sched.init[t] = 0, !.sched.lock[t] = 0])
         /\ pc' = [pc EXCEPT ![self] = "run", ![t] = "run"]
         /\ desc' = [desc EXCEPT ![t] = None]
         /\ mqmsg' = [mqmsg EXCEPT ![t] = None]
         /\ event' = [event EXCEPT ![t] = None]
  /\ victim' = [victim EXCEPT ![self] = None]

\* task_restart: nxtask_recover while the task is still on its list, then off
\* the list and ready again
Restart(t) ==
  /\ Running("run") /\ t \in Restartable \ {self}
  /\ sched.tstate[t] # "INVALID" /\ pc[t] # "terminate"
  /\ LET k == nxmq_recover(Kernel, t)
         s == RemoveFromList(k.sched, t)
     IN  Becomes(CutShort([k EXCEPT !.sched = Activated([s EXCEPT !.prio[t] = s.init[t],
                                                                  !.lock[t] = 0], t)],
                          t, "restarted"))
  /\ waitdog' = [waitdog EXCEPT ![t] = "none"]
  /\ pc' = [pc EXCEPT ![t] = "run"]
  /\ desc' = [desc EXCEPT ![t] = None]
  /\ mqmsg' = [mqmsg EXCEPT ![t] = None]
  /\ event' = [event EXCEPT ![t] = None]
  /\ UNCHANGED victim

\* After a null pointer was dereferenced the model says nothing more.
Halted == fault /\ UNCHANGED vars

\* The steps that the running task takes inside a call
InCall ==
  \/ SendCheck \/ SendResume \/ SendAlloc \/ Discard \/ NotifyRead \/ Wake
  \/ TimedSendLock \/ TimedSendCheck \/ TimedSendWait
  \/ RecvCheck \/ RecvResume \/ Deliver \/ WakeSender \/ Unlock \/ DeleteDog \/ ExitHook
  \/ \E prio \in MsgPrio : Insert(prio)
  \/ \E unmasked \in BOOLEAN : NotifySend(unmasked)
  \/ \E q \in Mq : TimedReceiveLock(q)

Next ==
  \/ InCall \/ TimedReceive \/ Halted
  \/ \E q \in Mq :
       \/ SendLock(q) \/ TimedSend(q) \/ Receive(q) \/ Register(q) \/ Detach(q)
       \/ \E prio \in MsgPrio, unmasked \in BOOLEAN : IrqSend(q, prio, unmasked)
  \/ \E t \in Task : Signal(t) \/ Timeout(t) \/ Start(t) \/ Terminate(t) \/ Restart(t)

Spec == Init /\ [][Next]_vars

(***************************************************************************)
(* Properties.                                                             *)
(***************************************************************************)
\* The state keeps its types, and the lists agree with task_state.
TypeOK ==
  /\ sched \in SchedState /\ Placed(sched)
  /\ \A q \in Mq : /\ msglist[q] \in Seq(Message) /\ arrived[q] \in Seq(Message)
                   /\ Len(msglist[q]) <= MaxLen + Cardinality(Task)
  /\ nwait \in [MqWait -> [Mq -> Int]]
  /\ ntpid \in [Mq -> Task \cup {None}]
  /\ pool \in [FIXED : 0..Prealloc, IRQ : 0..IrqPrealloc]
  /\ msgwaitq \in [Task -> Mq \cup {None}] /\ desc \in [Task -> Mq \cup {None}]
  /\ errcode \in [Task -> {"OK", "EINTR", "ETIMEDOUT"}]
  /\ waitdog \in [Task -> {"none", "created", "active"}]
  /\ mqmsg \in [Task -> {"FIXED", "IRQ", "DYN", None}]
  /\ event \in [Task -> Task \cup {None}] /\ victim \in [Task -> Task \cup {None}]
  /\ cut \in [Mq -> SUBSET {"deleted", "restarted"}]

Blocked(st, q) == {t \in Task : sched.tstate[t] = st /\ msgwaitq[t] = q}
At(q, places) == {t \in Task : desc[t] = q /\ pc[t] \in places}
Woken(q, place) == {t \in At(q, {place}) : sched.tstate[t] \notin MqWait}

\* nwaitnotempty and nwaitnotfull count the tasks on the two lists of waiters,
\* through every mix of sends, receives, interrupts, signals, timeouts and
\* restarts: a count too large makes the next send or receive dereference a null
\* pointer, one too small leaves a waiter behind.  Only a deletion breaks it,
\* because nxmq_recover then finds task_state already INVALID.
WaitCountsAgree ==
  \A st \in MqWait, q \in Mq :
    ~fault /\ "deleted" \notin cut[q] => nwait[st][q] = Cardinality(Blocked(st, q))

\* Nobody sleeps on a queue with messages unless as many tasks as there are
\* messages are on their way: receivers that were woken and have not run, and
\* senders that have queued their message and not reached their wake-up yet.
\* (A task deleted or restarted on its way may leave one behind.)
NoReceiverLeftBehind ==
  \A q \in Mq : ~fault /\ cut[q] = {} /\ Blocked("WAIT_MQNOTEMPTY", q) # {} =>
    Len(msglist[q]) <= Cardinality(Woken(q, "recvwait"))
                       + Cardinality(At(q, {"notify", "notified", "wake"}))

\* Nobody sleeps on a queue with room unless senders that were woken or have
\* passed the check, or receivers about to wake one, are there to use it.
NoSenderLeftBehind ==
  \A q \in Mq : ~fault /\ cut[q] = {} /\ Blocked("WAIT_MQNOTFULL", q) # {} =>
    MaxMsgs - Len(msglist[q]) <= Cardinality(Woken(q, "sendwait"))
      + Cardinality(At(q, {"alloc", "insert", "deliver", "wakesender"}))

\* No message of the two pools is lost or freed twice: each is free, in a queue
\* or in the hands of one call, also when a timed send gives up.  A task deleted
\* or restarted inside a call takes what it holds with it; nothing else does.
PoolConserved ==
  (\A q \in Mq : cut[q] = {}) => \A type \in {"FIXED", "IRQ"} :
    pool[type] + Cardinality({t \in Task : mqmsg[t] = type})
      + Cardinality({at \in Mq \X (1..(MaxLen + Cardinality(Task))) :
                       /\ at[2] <= Len(msglist[at[1]])
                       /\ msglist[at[1]][at[2]].type = type})
      = IF type = "FIXED" THEN Prealloc ELSE IrqPrealloc

\* Tasks keep to maxmsgs: a queue never holds more messages of tasks, although
\* the check and the insertion are two critical sections and a woken sender
\* finds the queue in a new state.  (Interrupt handlers send without a check.)
LimitKept ==
  \A q \in Mq :
    Cardinality({i \in 1..Len(msglist[q]) : msglist[q][i].from = "task"}) <= MaxMsgs

\* The queues are the mailboxes of AbstractMq: messages come out by priority
\* and, among equals, in the order of their arrival.
Mailbox == INSTANCE AbstractMq WITH box <- arrived

ImplementsMailbox == Mailbox!MailSpec

\* DEBUGASSERT(btcb): the counted waiter is found on the list.
WaiterIsFound == ~fault
=============================================================================
