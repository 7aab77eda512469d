----------------------------- MODULE WorkQueue -----------------------------
(***************************************************************************)
(* The high-priority kernel work queue (sched/wqueue): callers, which may  *)
(* be interrupt handlers, queue work with a delay, cancel it and signal a  *)
(* worker thread; worker threads take the ready work and run it outside    *)
(* the critical section; worker 0 alone sleeps until delayed work is due.  *)
(*                                                                         *)
(* Every step is one critical section.  work_queue leaves it between the   *)
(* queueing, the search of an idle worker and the signal.  Time passes in  *)
(* Tick, and only outside critical sections.  A work callback may queue    *)
(* and cancel work itself: it is then one of the callers.                  *)
(***************************************************************************)
EXTENDS Integers, DqList, FiniteSetsExt

CONSTANTS
  Work,         \* the work_s structures
  Client,       \* the tasks, interrupts and callbacks that queue and cancel
  NThreads,     \* CONFIG_SCHED_HPNTHREADS
  MaxDelay,     \* bound: the longest delay asked for, in ticks
  UsecPerTick,  \* USEC_PER_TICK
  UsecRange     \* the values a useconds_t has

ASSUME NThreadsPositive == NThreads \in Nat \ {0}
ASSUME MaxDelayNat == MaxDelay \in Nat
ASSUME UsecPositive == UsecPerTick \in Nat \ {0} /\ UsecRange \in Nat \ {0}

Worker == 0..(NThreads - 1)
Delay == 0..MaxDelay
WORK_DELAY_MAX == MaxDelay + 1

VARIABLES
  q,       \* wqueue->q
  queued,  \* work->worker # NULL
  left,    \* what is left of work->delay since work->qtime, 0 if not queued
  place,   \* where in work_process a worker is
  busy,    \* worker[i].busy, as work_signal reads it
  next,    \* work_process of worker 0: the delay until the next work is due
  passed,  \* work_process of worker 0: the ticks since stick, up to MaxDelay
  timer,   \* the ticks until the sleep of worker 0 ends
  at,      \* where in work_queue a client is
  target   \* the worker that work_signal picked, 0 outside of it

vars == <<q, queued, left, place, busy, next, passed, timer, at, target>>
workVars == <<q, queued, left>>
workerVars == <<place, busy, next, passed, timer>>
clientVars == <<at, target>>

Init ==
  /\ q = <<>>
  /\ queued = [wk \in Work |-> FALSE]
  /\ left = [wk \in Work |-> 0]
  /\ place = [w \in Worker |-> "start"]
  /\ busy = [w \in Worker |-> TRUE]
  /\ next = WORK_DELAY_MAX
  /\ passed = 0
  /\ timer = 0
  /\ at = [cl \in Client |-> "idle"]
  /\ target = [cl \in Client |-> 0]

(***************************************************************************)
(* Clients.                                                                *)
(***************************************************************************)
\* Seeded fault: pending work is not taken off the queue first.
QueueTwice(cl, wk, d) ==
  /\ at[cl] = "idle"
  /\ Len(q) <= Cardinality(Work)
  /\ q' = AddLast(q, wk)
  /\ queued' = [queued EXCEPT ![wk] = TRUE]
  /\ left' = [left EXCEPT ![wk] = d]
  /\ at' = [at EXCEPT ![cl] = "signal"]
  /\ UNCHANGED <<workerVars, target>>

\* Seeded fault: the work goes to the head of the queue.
QueueAtHead(cl, wk, d) ==
  /\ at[cl] = "idle"
  /\ q' = <<wk>> \o (IF queued[wk] THEN Without(q, wk) ELSE q)
  /\ queued' = [queued EXCEPT ![wk] = TRUE]
  /\ left' = [left EXCEPT ![wk] = d]
  /\ at' = [at EXCEPT ![cl] = "signal"]
  /\ UNCHANGED <<workerVars, target>>

\* work_qqueue
QueueWork(cl, wk, d) ==
  /\ at[cl] = "idle"
  /\ q' = AddLast(IF queued[wk] THEN Without(q, wk) ELSE q, wk)
  /\ queued' = [queued EXCEPT ![wk] = TRUE]
  /\ left' = [left EXCEPT ![wk] = d]
  /\ at' = [at EXCEPT ![cl] = "signal"]
  /\ UNCHANGED <<workerVars, target>>

\* work_signal up to nxsig_kill: the first worker that is not busy
PickWorker(cl) ==
  LET idle == {w \in Worker : ~busy[w]}
  IN  /\ at[cl] = "signal"
      /\ \/ /\ idle = {}
            /\ at' = [at EXCEPT ![cl] = "idle"]
            /\ UNCHANGED target
         \/ /\ idle # {}
            /\ target' = [target EXCEPT ![cl] = Min(idle)]
            /\ at' = [at EXCEPT ![cl] = "kill"]
      /\ UNCHANGED <<workVars, workerVars>>

\* nxsig_kill: SIGWORK ends either wait of a worker; nothing is left pending
\* for a worker that does not wait
Kill(cl) ==
  /\ at[cl] = "kill"
  /\ at' = [at EXCEPT ![cl] = "idle"]
  /\ target' = [target EXCEPT ![cl] = 0]
  /\ place' = [place EXCEPT ![target[cl]] = IF @ \in {"waitinfo", "sleep"} THEN "woken" ELSE @]
  /\ UNCHANGED <<workVars, busy, next, passed, timer>>

\* work_cancel; -ENOENT for work that is not queued changes nothing
Cancel(cl, wk) ==
  /\ at[cl] = "idle"
  /\ queued[wk]
  /\ q' = Without(q, wk)
  /\ queued' = [queued EXCEPT ![wk] = FALSE]
  /\ left' = [left EXCEPT ![wk] = 0]
  /\ UNCHANGED <<workerVars, clientVars>>

(***************************************************************************)
(* work_process.  The walk through the queue holds the critical section:   *)
(* it ends at the first ready entry or behind the last one, and lowers     *)
(* `next' at every entry that is not ready on its way.  The other workers  *)
(* compute a `next' too and never use it: it is kept for worker 0 only.    *)
(***************************************************************************)
Walking(w) == place[w] \in {"start", "resume"}
Ready == {i \in 1..Len(q) : left[q[i]] = 0}
FirstReady == IF Ready = {} THEN Len(q) + 1 ELSE Min(Ready)

\* Seeded fault: a delay that expires during the pass is not clipped.
RemainingUnclipped(wk) == left[wk] - passed

\* delay - elapsed, with the ticks of this pass counted twice
Remaining(wk) == IF left[wk] > passed THEN left[wk] - passed ELSE 0

NextDue == Min({next} \cup {Remaining(q[i]) : i \in 1..(FirstReady - 1)})

\* A ready entry: its callback runs with interrupts enabled.
RunWork(w) ==
  /\ Walking(w)
  /\ Ready # {}
  /\ q' = Without(q, q[FirstReady])
  /\ queued' = [queued EXCEPT ![q[FirstReady]] = FALSE]
  /\ next' = IF w = 0 THEN NextDue ELSE next
  /\ place' = [place EXCEPT ![w] = "callback"]
  /\ UNCHANGED <<left, busy, passed, timer, clientVars>>

\* The callback returns and the walk starts again at the head.
CallbackReturns(w) ==
  /\ place[w] = "callback"
  /\ place' = [place EXCEPT ![w] = "resume"]
  /\ UNCHANGED <<workVars, busy, next, passed, timer, clientVars>>

\* Seeded fault: worker 0 does not watch the delayed work either.
WaitIgnoresDelay(w) ==
  /\ Walking(w)
  /\ Ready = {}
  /\ place' = [place EXCEPT ![w] = "waitinfo"]
  /\ busy' = [busy EXCEPT ![w] = FALSE]
  /\ UNCHANGED <<workVars, next, passed, timer, clientVars>>

\* Nothing to wait for, or a worker that leaves the delayed work to worker 0:
\* nxsig_waitinfo
WaitForSignal(w) ==
  /\ Walking(w)
  /\ Ready = {}
  /\ w > 0 \/ NextDue = WORK_DELAY_MAX
  /\ place' = [place EXCEPT ![w] = "waitinfo"]
  /\ busy' = [busy EXCEPT ![w] = FALSE]
  /\ UNCHANGED <<workVars, next, passed, timer, clientVars>>

\* A new call of work_process
NewPass(w) ==
  /\ place' = [place EXCEPT ![w] = "start"]
  /\ next' = IF w = 0 THEN WORK_DELAY_MAX ELSE next
  /\ passed' = IF w = 0 THEN 0 ELSE passed

\* nxsig_usleep(next * USEC_PER_TICK): the product is a useconds_t, the sleep
\* is rounded up to ticks, and wd_start adds one
SleepUsec == (NextDue * UsecPerTick) % UsecRange
SleepTicks == (SleepUsec + UsecPerTick - 1) \div UsecPerTick + 1

\* Worker 0 waits for the next delayed work.  A sleep of zero returns at
\* once, and so does one for which there is no watchdog.
SleepUntilDue ==
  /\ Walking(0)
  /\ Ready = {}
  /\ NextDue < WORK_DELAY_MAX
  /\ \/ /\ SleepUsec > 0
        /\ place' = [place EXCEPT ![0] = "sleep"]
        /\ timer' = SleepTicks
        /\ busy' = [busy EXCEPT ![0] = FALSE]
        /\ UNCHANGED <<next, passed>>
     \/ /\ NewPass(0)
        /\ UNCHANGED <<busy, timer>>
  /\ UNCHANGED <<workVars, clientVars>>

\* A woken worker gets the CPU: it is busy again and work_process is called
\* anew.
WorkerResumes(w) ==
  /\ place[w] = "woken"
  /\ busy' = [busy EXCEPT ![w] = TRUE]
  /\ NewPass(w)
  /\ UNCHANGED <<workVars, timer, clientVars>>

(***************************************************************************)
(* The timer interrupt: delays run down, and a sleep that is over ends.    *)
(***************************************************************************)
Tick ==
  /\ left' = [wk \in Work |-> IF left[wk] > 0 THEN left[wk] - 1 ELSE left[wk]]
  /\ timer' = IF place[0] = "sleep" THEN timer - 1 ELSE timer
  /\ place' = [place EXCEPT ![0] = IF @ = "sleep" /\ timer = 1 THEN "woken" ELSE @]
  /\ passed' = IF place[0] \in {"callback", "resume"} /\ passed < MaxDelay THEN passed + 1 ELSE passed
  /\ UNCHANGED <<q, queued, busy, next, clientVars>>

WorkerStep(w) ==
  RunWork(w) \/ CallbackReturns(w) \/ WaitForSignal(w) \/ WorkerResumes(w)
    \/ (w = 0 /\ SleepUntilDue)

Next ==
  \/ \E cl \in Client, wk \in Work, d \in Delay : QueueWork(cl, wk, d)
  \/ \E cl \in Client : PickWorker(cl) \/ Kill(cl)
  \/ \E cl \in Client, wk \in Work : Cancel(cl, wk)
  \/ \E w \in Worker : RunWork(w) \/ CallbackReturns(w) \/ WaitForSignal(w) \/ WorkerResumes(w)
  \/ SleepUntilDue
  \/ Tick

Spec == Init /\ [][Next]_vars

\* The clock runs, workers get the CPU and callbacks return, and a client in
\* work_signal finishes it.
Fairness ==
  /\ WF_vars(Tick)
  /\ \A w \in Worker : WF_vars(WorkerStep(w))
  /\ \A cl \in Client : WF_vars(PickWorker(cl) \/ Kill(cl))

LiveSpec == Spec /\ Fairness

(***************************************************************************)
(* Properties.                                                             *)
(***************************************************************************)
\* The variables keep their types (work_s, kworker_s, work_process).
TypeOK ==
  /\ q \in Seq(Work)
  /\ queued \in [Work -> BOOLEAN]
  /\ left \in [Work -> Delay]
  /\ place \in [Worker -> {"start", "resume", "callback", "waitinfo", "sleep", "woken"}]
  /\ busy \in [Worker -> BOOLEAN]
  /\ next \in 0..WORK_DELAY_MAX
  /\ passed \in Delay
  /\ timer \in 0..WORK_DELAY_MAX
  /\ at \in [Client -> {"idle", "signal", "kill"}]
  /\ target \in [Client -> Worker]

\* The test of integrity that work_qcancel asserts, of every client at any
\* time: the queue holds each work structure at most once, and exactly the
\* ones whose worker field is set, however queueing, cancelling, the walk and
\* callbacks that queue their own work again interleave.
QueueIntact ==
  /\ NoRepeat(q)
  /\ \A wk \in Work : queued[wk] <=> OnList(q, wk)

\* The hand-over between work_queue and the one worker that watches delays,
\* although work_signal reads the busy flags without the critical section:
\* when worker 0 waits, each queued work is covered by a signal that is on
\* its way to it, or is due no earlier than one tick before its sleep ends.
Signalled == \E cl \in Client : at[cl] = "signal" \/ (at[cl] = "kill" /\ target[cl] = 0)

WorkerWillLook ==
  \A wk \in Work :
    queued[wk] =>
      \/ place[0] \notin {"waitinfo", "sleep"}
      \/ Signalled
      \/ place[0] = "sleep" /\ timer <= left[wk] + 1

\* work_queue's promise that the work will be performed: queued work leaves
\* the queue, run or cancelled, unless it is queued again and again.
QueuedWorkRuns ==
  \A wk \in Work :
    \/ []<><<\E cl \in Client, d \in Delay : QueueWork(cl, wk, d)>>_vars
    \/ OnList(q, wk) ~> ~OnList(q, wk)
=============================================================================
