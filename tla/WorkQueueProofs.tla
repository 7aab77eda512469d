--------------------------- MODULE WorkQueueProofs ---------------------------
(***************************************************************************)
(* The work queue of WorkQueue stays intact and queued work is always      *)
(* covered by a signal or by the sleep of worker 0, for every number of    *)
(* workers, clients and work structures and every tick length.             *)
(***************************************************************************)
EXTENDS WorkQueue, ListLemmas

(***************************************************************************)
(* The numbers of a pass.                                                  *)
(***************************************************************************)
\* Min of a set of naturals is its least element.
LEMMA MinOfNats ==
  ASSUME NEW S \in SUBSET Nat, S # {}
  PROVE  Min(S) \in S /\ \A x \in S : Min(S) <= x
BY LeastNat DEF Min

\* An amount of at most n ticks, rounded up to ticks, is at most n ticks.
LEMMA RoundedUp ==
  ASSUME NEW n \in Nat, NEW u \in Nat \ {0}, NEW a \in 0..(n * u)
  PROVE  (a + u - 1) \div u \in 0..n
<1>. DEFINE d == (a + u - 1) \div u
<1>1. d \in Nat /\ d * u <= a + u - 1
  OBVIOUS
<1>2. ASSUME d > n PROVE FALSE
  <2>1. d * u >= (n + 1) * u
    BY <1>1, <1>2
  <2>2. (n + 1) * u = n * u + u
    OBVIOUS
  <2>. QED  BY <1>1, <2>1, <2>2
<1>. QED  BY <1>1, <1>2

\* A product reduced to the range of useconds_t has not grown.
LEMMA ReducedProduct ==
  ASSUME NEW n \in Nat, NEW u \in Nat \ {0}, NEW r \in Nat \ {0}
  PROVE  n * u \in Nat /\ (n * u) % r \in 0..(n * u)
OBVIOUS

(***************************************************************************)
(* The inductive invariant.  A worker that waits is not busy, so that      *)
(* work_signal finds worker 0 whenever the queue depends on it, and a      *)
(* sleep has at least a tick to go, so that it ends before its work is a   *)
(* tick late.                                                              *)
(***************************************************************************)
WaitersAreIdle == \A w \in Worker : place[w] \in {"waitinfo", "sleep"} => ~busy[w]
SleepRuns == place[0] = "sleep" => timer > 0

Inv == TypeOK /\ QueueIntact /\ WaitersAreIdle /\ SleepRuns /\ WorkerWillLook

USE NThreadsPositive, MaxDelayNat

\* Queueing work puts it on the queue once, behind everything else.
LEMMA QueueWorkIntact ==
  ASSUME TypeOK, QueueIntact, NEW cl \in Client, NEW wk \in Work, NEW d \in Delay,
         QueueWork(cl, wk, d)
  PROVE  q' \in Seq(Work) /\ QueueIntact'
<1>. DEFINE rest == IF queued[wk] THEN Without(q, wk) ELSE q
<1>1. /\ rest \in Seq(Work) /\ NoRepeat(rest)
      /\ \A x \in Work : OnList(rest, x) <=> OnList(q, x) /\ x # wk
  <2>1. CASE queued[wk]
    BY <2>1, WithoutContents DEF TypeOK, QueueIntact
  <2>2. CASE ~queued[wk]
    BY <2>2 DEF TypeOK, QueueIntact
  <2>. QED  BY <2>1, <2>2
<1>2. q' = Append(rest, wk) /\ queued' = [queued EXCEPT ![wk] = TRUE]
  BY DEF QueueWork, AddLast
<1>. HIDE DEF rest
<1>3. q' \in Seq(Work) /\ Len(q') = Len(rest) + 1 /\ q'[Len(rest) + 1] = wk
      /\ \A i \in 1..Len(rest) : q'[i] = rest[i]
  BY <1>1, <1>2
<1>4. \A x \in Work : OnList(q', x) <=> OnList(rest, x) \/ x = wk
  BY <1>3 DEF OnList
<1>5. NoRepeat(q')
  BY <1>1, <1>3 DEF NoRepeat, OnList
<1>6. \A x \in Work : queued'[x] <=> OnList(q', x)
  BY <1>1, <1>2, <1>4 DEF TypeOK, QueueIntact
<1>. QED  BY <1>3, <1>5, <1>6 DEF QueueIntact

\* Work that leaves the queue leaves the rest of it as it was.
LEMMA DequeueIntact ==
  ASSUME TypeOK, QueueIntact, NEW wk \in Work, queued[wk],
         q' = Without(q, wk), queued' = [queued EXCEPT ![wk] = FALSE]
  PROVE  q' \in Seq(Work) /\ QueueIntact'
<1>1. /\ q' \in Seq(Work) /\ NoRepeat(q')
      /\ \A x \in Work : OnList(q', x) <=> OnList(q, x) /\ x # wk
  BY WithoutContents DEF TypeOK, QueueIntact
<1>2. \A x \in Work : queued'[x] <=> OnList(q', x)
  BY <1>1 DEF TypeOK, QueueIntact
<1>. QED  BY <1>1, <1>2 DEF QueueIntact

\* The walk of work_process: where it ends, and what `next' has become.
LEMMA WalkFacts ==
  ASSUME TypeOK
  PROVE  /\ Ready \in SUBSET (1..Len(q))
         /\ Ready # {} => FirstReady \in Ready
         /\ FirstReady \in 1..(Len(q) + 1)
         /\ NextDue \in 0..next
         /\ \A i \in 1..(FirstReady - 1) : NextDue <= left[q[i]]
<1>1. Len(q) \in Nat /\ \A i \in 1..Len(q) : q[i] \in Work /\ left[q[i]] \in Nat
  BY DEF TypeOK, Delay
<1>2. Ready \in SUBSET (1..Len(q)) /\ Ready \in SUBSET Nat
  BY DEF Ready
<1>3. Ready # {} => FirstReady \in Ready
  <2>. SUFFICES ASSUME Ready # {} PROVE FirstReady \in Ready
    OBVIOUS
  <2>1. Min(Ready) \in Ready
    BY <1>2, MinOfNats
  <2>. QED  BY <2>1 DEF FirstReady
<1>4. FirstReady \in 1..(Len(q) + 1)
  <2>1. CASE Ready = {}
    BY <1>1, <2>1 DEF FirstReady
  <2>2. CASE Ready # {}
    <3>1. FirstReady \in 1..Len(q)
      BY <1>2, <1>3, <2>2
    <3>. QED  BY <1>1, <3>1
  <2>. QED  BY <2>1, <2>2
<1>. DEFINE D == {next} \cup {Remaining(q[i]) : i \in 1..(FirstReady - 1)}
<1>5. \A i \in 1..(FirstReady - 1) : Remaining(q[i]) \in Nat /\ Remaining(q[i]) <= left[q[i]]
  BY <1>1, <1>4 DEF Remaining, TypeOK, Delay
<1>6. next \in Nat
  BY DEF TypeOK, WORK_DELAY_MAX
<1>7. D \in SUBSET Nat /\ D # {}
  BY <1>5, <1>6
<1>8. NextDue \in D /\ \A x \in D : NextDue <= x
  BY <1>7, MinOfNats DEF NextDue
<1>9. NextDue \in 0..next
  BY <1>6, <1>7, <1>8
<1>10. ASSUME NEW i \in 1..(FirstReady - 1) PROVE NextDue <= left[q[i]]
  <2>1. NextDue <= Remaining(q[i])
    BY <1>8
  <2>2. i \in 1..Len(q) /\ NextDue \in Nat
    BY <1>1, <1>4, <1>6, <1>9
  <2>. QED  BY <1>1, <1>5, <2>1, <2>2
<1>. QED  BY <1>2, <1>3, <1>4, <1>9, <1>10

\* The sleep of worker 0 lasts at least a tick and at most one tick longer
\* than the shortest delay it has seen: a product that leaves the range of
\* useconds_t makes it shorter.
LEMMA SleepTicksBound ==
  ASSUME TypeOK
  PROVE  SleepTicks \in 1..(NextDue + 1)
<1>1. NextDue \in Nat
  BY WalkFacts DEF TypeOK, WORK_DELAY_MAX
<1>2. SleepUsec \in 0..(NextDue * UsecPerTick)
  BY <1>1, ReducedProduct, UsecPositive DEF SleepUsec
<1>3. (SleepUsec + UsecPerTick - 1) \div UsecPerTick \in 0..NextDue
  BY <1>1, <1>2, RoundedUp, UsecPositive
<1>. QED  BY <1>1, <1>3 DEF SleepTicks

(***************************************************************************)
(* Every step keeps the invariant.                                         *)
(***************************************************************************)
\* work_qqueue
LEMMA QueueWorkInv ==
  ASSUME Inv, NEW cl \in Client, NEW wk \in Work, NEW d \in Delay, QueueWork(cl, wk, d)
  PROVE  Inv'
<1>1. q' \in Seq(Work) /\ QueueIntact'
  BY QueueWorkIntact DEF Inv
<1>2. TypeOK'
  BY <1>1 DEF Inv, TypeOK, QueueWork, workerVars
<1>3. Signalled'
  BY DEF Inv, TypeOK, QueueWork, Signalled
<1>4. WaitersAreIdle' /\ SleepRuns'
  BY DEF Inv, QueueWork, workerVars, WaitersAreIdle, SleepRuns
<1>. QED  BY <1>1, <1>2, <1>3, <1>4 DEF Inv, WorkerWillLook

\* work_signal up to nxsig_kill: worker 0 is the first choice if it waits
LEMMA PickWorkerInv ==
  ASSUME Inv, NEW cl \in Client, PickWorker(cl)
  PROVE  Inv'
<1>. DEFINE idle == {w \in Worker : ~busy[w]}
<1>1. idle \in SUBSET Nat /\ 0 \in Worker
  BY DEF Worker
<1>2. idle # {} => Min(idle) \in idle /\ \A w \in idle : Min(idle) <= w
  BY <1>1, MinOfNats
<1>3. UNCHANGED <<workVars, workerVars>>
  BY DEF PickWorker
<1>4. TypeOK'
  <2>1. at' \in [Client -> {"idle", "signal", "kill"}] /\ target' \in [Client -> Worker]
    BY <1>2 DEF Inv, TypeOK, PickWorker
  <2>. QED  BY <1>3, <2>1 DEF Inv, TypeOK, workVars, workerVars
<1>5. QueueIntact' /\ WaitersAreIdle' /\ SleepRuns'
  BY <1>3 DEF Inv, QueueIntact, WaitersAreIdle, SleepRuns, workVars, workerVars
<1>6. ASSUME place[0] \in {"waitinfo", "sleep"} PROVE Signalled'
  <2>1. 0 \in idle
    BY <1>1, <1>6 DEF Inv, WaitersAreIdle
  <2>2. Min(idle) = 0
    BY <1>1, <1>2, <2>1
  <2>3. target' = [target EXCEPT ![cl] = 0] /\ at' = [at EXCEPT ![cl] = "kill"]
    BY <2>1, <2>2 DEF PickWorker
  <2>. QED  BY <2>3 DEF Inv, TypeOK, Signalled
<1>7. WorkerWillLook'
  BY <1>3, <1>6 DEF WorkerWillLook, workVars, workerVars
<1>. QED  BY <1>4, <1>5, <1>7 DEF Inv

\* nxsig_kill: the signal that is spent has woken worker 0, or was not its own
LEMMA KillInv ==
  ASSUME Inv, NEW cl \in Client, Kill(cl)
  PROVE  Inv'
<1>1. target[cl] \in Worker /\ 0 \in Worker
  BY DEF Inv, TypeOK, Worker
<1>2. /\ at' = [at EXCEPT ![cl] = "idle"] /\ target' = [target EXCEPT ![cl] = 0]
      /\ place' = [place EXCEPT ![target[cl]] =
                     IF place[target[cl]] \in {"waitinfo", "sleep"} THEN "woken"
                     ELSE place[target[cl]]]
      /\ UNCHANGED <<workVars, busy, next, passed, timer>>
  BY DEF Kill
<1>3. TypeOK'
  BY <1>1, <1>2 DEF Inv, TypeOK, workVars
<1>4. QueueIntact' /\ WaitersAreIdle' /\ SleepRuns'
  BY <1>1, <1>2 DEF Inv, TypeOK, QueueIntact, WaitersAreIdle, SleepRuns, workVars
<1>5. CASE target[cl] = 0
  <2>1. place'[0] \notin {"waitinfo", "sleep"}
    BY <1>1, <1>2, <1>5 DEF Inv, TypeOK
  <2>. QED  BY <1>3, <1>4, <2>1 DEF Inv, WorkerWillLook
<1>6. CASE target[cl] # 0
  <2>1. place'[0] = place[0]
    BY <1>1, <1>2, <1>6 DEF Inv, TypeOK
  <2>2. Signalled => Signalled'
    BY <1>2, <1>6 DEF Kill, Inv, TypeOK, Signalled
  <2>3. WorkerWillLook'
    BY <1>2, <2>1, <2>2 DEF Inv, WorkerWillLook, workVars
  <2>. QED  BY <1>3, <1>4, <2>3 DEF Inv
<1>. QED  BY <1>5, <1>6

\* work_qcancel
LEMMA CancelInv ==
  ASSUME Inv, NEW cl \in Client, NEW wk \in Work, Cancel(cl, wk)
  PROVE  Inv'
<1>1. q' \in Seq(Work) /\ QueueIntact'
  BY DequeueIntact DEF Inv, Cancel
<1>2. TypeOK'
  BY <1>1 DEF Inv, TypeOK, Cancel, workerVars, clientVars, Delay
<1>3. WaitersAreIdle' /\ SleepRuns'
  BY DEF Inv, Cancel, workerVars, WaitersAreIdle, SleepRuns
<1>4. Signalled => Signalled'
  BY DEF Cancel, Signalled, clientVars
<1>5. \A x \in Work : queued'[x] => queued[x] /\ left'[x] = left[x]
  BY DEF Inv, TypeOK, Cancel
<1>6. WorkerWillLook'
  BY <1>4, <1>5 DEF Inv, WorkerWillLook, Cancel, workerVars
<1>. QED  BY <1>1, <1>2, <1>3, <1>6 DEF Inv

\* A worker that runs work is on its way, and its work is off the queue.
LEMMA RunWorkInv ==
  ASSUME Inv, NEW w \in Worker, RunWork(w)
  PROVE  Inv'
<1>. DEFINE wk == q[FirstReady]
<1>1. /\ Ready # {} /\ q' = Without(q, wk) /\ queued' = [queued EXCEPT ![wk] = FALSE]
      /\ next' = (IF w = 0 THEN NextDue ELSE next)
      /\ place' = [place EXCEPT ![w] = "callback"]
      /\ UNCHANGED <<left, busy, passed, timer, clientVars>>
  BY DEF RunWork
<1>2. FirstReady \in 1..Len(q) /\ NextDue \in 0..next
  BY <1>1, WalkFacts DEF Inv
<1>3. wk \in Work /\ OnList(q, wk)
  BY <1>2 DEF Inv, TypeOK, OnList
<1>4. queued[wk]
  BY <1>3 DEF Inv, QueueIntact
<1>. HIDE DEF wk
<1>5. q' \in Seq(Work) /\ QueueIntact'
  BY <1>1, <1>3, <1>4, DequeueIntact DEF Inv
<1>6. next' \in 0..WORK_DELAY_MAX
  BY <1>1, <1>2 DEF Inv, TypeOK, WORK_DELAY_MAX
<1>7. TypeOK'
  BY <1>1, <1>3, <1>5, <1>6 DEF Inv, TypeOK, clientVars
<1>8. WaitersAreIdle' /\ SleepRuns'
  BY <1>1 DEF Inv, TypeOK, WaitersAreIdle, SleepRuns, Worker
<1>9. \A x \in Work : queued'[x] => queued[x]
  BY <1>1, <1>3 DEF Inv, TypeOK
<1>10. place'[0] \in {"waitinfo", "sleep"} => place'[0] = place[0]
  BY <1>1 DEF Inv, TypeOK, Worker
<1>11. WorkerWillLook'
  BY <1>1, <1>9, <1>10 DEF Inv, WorkerWillLook, Signalled, clientVars
<1>. QED  BY <1>5, <1>7, <1>8, <1>11 DEF Inv

\* A worker that is about to walk through the queue covers all of it.
LEMMA AboutToWalkInv ==
  ASSUME Inv, NEW w \in Worker, NEW there \in {"start", "resume"},
         place' = [place EXCEPT ![w] = there],
         next' \in 0..WORK_DELAY_MAX, passed' \in Delay,
         busy' = busy \/ busy' = [busy EXCEPT ![w] = TRUE],
         UNCHANGED <<workVars, timer, clientVars>>
  PROVE  Inv'
<1>1. TypeOK'
  BY DEF Inv, TypeOK, workVars, clientVars
<1>2. QueueIntact' /\ WaitersAreIdle' /\ SleepRuns'
  BY DEF Inv, TypeOK, QueueIntact, WaitersAreIdle, SleepRuns, workVars, Worker
<1>3. place'[0] \in {"waitinfo", "sleep"} => place'[0] = place[0]
  BY DEF Inv, TypeOK, Worker
<1>4. WorkerWillLook'
  BY <1>3 DEF Inv, WorkerWillLook, Signalled, workVars, clientVars
<1>. QED  BY <1>1, <1>2, <1>4 DEF Inv

\* A worker that waits for a signal: worker 0 does so only if nothing is queued.
LEMMA WaitForSignalInv ==
  ASSUME Inv, NEW w \in Worker, WaitForSignal(w)
  PROVE  Inv'
<1>1. TypeOK'
  BY DEF Inv, TypeOK, WaitForSignal, workVars, clientVars
<1>2. QueueIntact' /\ WaitersAreIdle' /\ SleepRuns'
  BY DEF Inv, TypeOK, QueueIntact, WaitersAreIdle, SleepRuns, WaitForSignal, workVars, Worker
<1>3. CASE w > 0
  <2>1. place'[0] = place[0]
    BY <1>3 DEF Inv, TypeOK, WaitForSignal, Worker
  <2>2. WorkerWillLook'
    BY <2>1 DEF Inv, WaitForSignal, WorkerWillLook, Signalled, workVars, clientVars
  <2>. QED  BY <1>1, <1>2, <2>2 DEF Inv
<1>4. CASE NextDue = WORK_DELAY_MAX /\ Ready = {}
  <2>1. Len(q) \in Nat /\ FirstReady = Len(q) + 1
    BY <1>4 DEF FirstReady, Inv, TypeOK
  <2>2. \A i \in 1..Len(q) : WORK_DELAY_MAX <= left[q[i]]
    BY <1>4, <2>1, WalkFacts DEF Inv
  <2>3. \A i \in 1..Len(q) : left[q[i]] \in 0..MaxDelay
    BY DEF Inv, TypeOK, Delay
  <2>4. Len(q) = 0
    BY <2>1, <2>2, <2>3 DEF WORK_DELAY_MAX
  <2>5. \A x \in Work : ~queued[x]
    BY <2>4 DEF Inv, QueueIntact, OnList
  <2>6. WorkerWillLook'
    BY <2>5 DEF WaitForSignal, WorkerWillLook, workVars
  <2>. QED  BY <1>1, <1>2, <2>6 DEF Inv
<1>. QED  BY <1>3, <1>4 DEF WaitForSignal

\* Worker 0 sleeps no longer than until a tick after the first work is due.
LEMMA SleepUntilDueInv ==
  ASSUME Inv, SleepUntilDue
  PROVE  Inv'
<1>1. 0 \in Worker
  BY DEF Worker
<1>2. CASE NewPass(0) /\ UNCHANGED <<busy, timer>>
  <2>1. /\ place' = [place EXCEPT ![0] = "start"] /\ next' \in 0..WORK_DELAY_MAX
        /\ passed' \in Delay /\ UNCHANGED <<workVars, timer, clientVars>> /\ busy' = busy
    BY <1>2 DEF NewPass, Inv, TypeOK, SleepUntilDue, WORK_DELAY_MAX, Delay
  <2>. QED  BY <1>1, <2>1, AboutToWalkInv
<1>3. CASE /\ place' = [place EXCEPT ![0] = "sleep"] /\ timer' = SleepTicks
           /\ busy' = [busy EXCEPT ![0] = FALSE] /\ UNCHANGED <<next, passed>>
  <2>1. /\ Ready = {} /\ NextDue < WORK_DELAY_MAX /\ UNCHANGED <<workVars, clientVars>>
    BY DEF SleepUntilDue
  <2>2. NextDue \in 0..next /\ SleepTicks \in 1..(NextDue + 1)
    BY WalkFacts, SleepTicksBound DEF Inv
  <2>3. next \in Nat /\ NextDue \in Nat /\ WORK_DELAY_MAX \in Nat
    BY <2>2 DEF Inv, TypeOK, WORK_DELAY_MAX
  <2>4. timer' \in 0..WORK_DELAY_MAX /\ timer' > 0 /\ timer' <= NextDue + 1
    BY <1>3, <2>1, <2>2, <2>3
  <2>5. TypeOK'
    BY <1>1, <1>3, <2>1, <2>4 DEF Inv, TypeOK, workVars, clientVars
  <2>6. QueueIntact' /\ SleepRuns'
    BY <2>1, <2>4 DEF Inv, QueueIntact, SleepRuns, workVars
  <2>7. WaitersAreIdle'
    BY <1>3 DEF Inv, TypeOK, WaitersAreIdle
  <2>8. ASSUME NEW x \in Work, queued[x] PROVE timer' <= left[x] + 1
    <3>1. PICK i \in 1..Len(q) : q[i] = x
      BY <2>8 DEF Inv, QueueIntact, OnList
    <3>2. FirstReady = Len(q) + 1 /\ Len(q) \in Nat
      BY <2>1 DEF FirstReady, Inv, TypeOK
    <3>3. NextDue <= left[x]
      BY <3>1, <3>2, WalkFacts DEF Inv
    <3>4. left[x] \in Nat /\ timer' \in Nat
      BY <2>3, <2>4 DEF Inv, TypeOK, Delay
    <3>. QED  BY <2>3, <2>4, <3>3, <3>4
  <2>9. place'[0] = "sleep"
    BY <1>1, <1>3 DEF Inv, TypeOK
  <2>10. WorkerWillLook'
    BY <2>1, <2>8, <2>9 DEF WorkerWillLook, workVars
  <2>. QED  BY <2>5, <2>6, <2>7, <2>10 DEF Inv
<1>. QED  BY <1>2, <1>3 DEF SleepUntilDue

\* The timer interrupt: sleep and delays run down together.
LEMMA TickInv ==
  ASSUME Inv, Tick
  PROVE  Inv'
<1>1. /\ left' = [wk \in Work |-> IF left[wk] > 0 THEN left[wk] - 1 ELSE left[wk]]
      /\ timer' = (IF place[0] = "sleep" THEN timer - 1 ELSE timer)
      /\ place' = [place EXCEPT ![0] = IF place[0] = "sleep" /\ timer = 1 THEN "woken"
                                       ELSE place[0]]
      /\ passed' = (IF place[0] \in {"callback", "resume"} /\ passed < MaxDelay THEN passed + 1
                    ELSE passed)
      /\ UNCHANGED <<q, queued, busy, next, clientVars>>
  BY DEF Tick
<1>2. 0 \in Worker /\ timer \in Nat /\ timer <= WORK_DELAY_MAX
  BY DEF Worker, Inv, TypeOK, WORK_DELAY_MAX
<1>3. left' \in [Work -> Delay] /\ passed' \in Delay
  BY <1>1 DEF Inv, TypeOK, Delay
<1>4. timer' \in 0..WORK_DELAY_MAX
  BY <1>1, <1>2 DEF Inv, SleepRuns, WORK_DELAY_MAX
<1>5. TypeOK'
  BY <1>1, <1>2, <1>3, <1>4 DEF Inv, TypeOK, clientVars
<1>6. QueueIntact'
  BY <1>1 DEF Inv, QueueIntact
<1>7. WaitersAreIdle'
  BY <1>1, <1>2 DEF Inv, TypeOK, WaitersAreIdle
<1>8. SleepRuns'
  BY <1>1, <1>2 DEF Inv, TypeOK, SleepRuns
<1>9. ASSUME NEW x \in Work, place[0] = "sleep", timer <= left[x] + 1, timer # 1
      PROVE  timer' <= left'[x] + 1
  <2>1. left[x] \in Nat
    BY DEF Inv, TypeOK, Delay
  <2>2. timer > 1
    BY <1>2, <1>9 DEF Inv, SleepRuns
  <2>. QED  BY <1>1, <1>2, <1>9, <2>1, <2>2
<1>10. place'[0] \in {"waitinfo", "sleep"} =>
         place'[0] = place[0] /\ (place[0] = "sleep" => timer # 1)
  BY <1>1, <1>2 DEF Inv, TypeOK
<1>11. WorkerWillLook'
  BY <1>1, <1>9, <1>10 DEF Inv, WorkerWillLook, Signalled, clientVars
<1>. QED  BY <1>5, <1>6, <1>7, <1>8, <1>11 DEF Inv

\* An empty queue, and workers that have not begun: the invariant holds.
LEMMA InitInv == Init => Inv
<1>. SUFFICES ASSUME Init PROVE Inv
  OBVIOUS
<1>1. TypeOK
  BY DEF Init, TypeOK, Worker, Delay, WORK_DELAY_MAX
<1>2. QueueIntact
  BY DEF Init, QueueIntact, NoRepeat, OnList
<1>3. WaitersAreIdle /\ SleepRuns /\ WorkerWillLook
  BY DEF Init, WaitersAreIdle, SleepRuns, WorkerWillLook, Worker
<1>. QED  BY <1>1, <1>2, <1>3 DEF Inv

\* Every step keeps it; a callback that returned and a worker that resumes are
\* about to walk.
LEMMA NextInv == Inv /\ [Next]_vars => Inv'
<1>. SUFFICES ASSUME Inv, [Next]_vars PROVE Inv'
  OBVIOUS
<1>1. ASSUME NEW w \in Worker, CallbackReturns(w) PROVE Inv'
  <2>1. /\ place' = [place EXCEPT ![w] = "resume"] /\ busy' = busy
        /\ next' \in 0..WORK_DELAY_MAX /\ passed' \in Delay
        /\ UNCHANGED <<workVars, timer, clientVars>>
    BY <1>1 DEF CallbackReturns, Inv, TypeOK
  <2>. QED  BY <2>1, AboutToWalkInv
<1>2. ASSUME NEW w \in Worker, WorkerResumes(w) PROVE Inv'
  <2>1. /\ place' = [place EXCEPT ![w] = "start"] /\ busy' = [busy EXCEPT ![w] = TRUE]
        /\ next' \in 0..WORK_DELAY_MAX /\ passed' \in Delay
        /\ UNCHANGED <<workVars, timer, clientVars>>
    BY <1>2 DEF WorkerResumes, NewPass, Inv, TypeOK, WORK_DELAY_MAX, Delay
  <2>. QED  BY <2>1, AboutToWalkInv
<1>3. CASE UNCHANGED vars
  BY <1>3 DEF vars, Inv, TypeOK, QueueIntact, WaitersAreIdle, SleepRuns, WorkerWillLook, Signalled
<1>. QED
  BY <1>1, <1>2, <1>3, QueueWorkInv, PickWorkerInv, KillInv, CancelInv, RunWorkInv,
     WaitForSignalInv, SleepUntilDueInv, TickInv DEF Next

(***************************************************************************)
(* The theorems.                                                           *)
(***************************************************************************)
\* The invariant holds in every behaviour of the work queue.
THEOREM InvAlways == Spec => []Inv
BY InitInv, NextInv, PTL DEF Spec

\* The variables of work_s, kworker_s and work_process keep their types.
THEOREM TypeCorrect == Spec => []TypeOK
<1>1. Inv => TypeOK
  BY DEF Inv
<1>. QED  BY <1>1, InvAlways, PTL

\* What work_qcancel asserts of the queue holds at all times: it has every
\* work structure whose worker field is set, and none of them twice.
THEOREM QueueAlwaysIntact == Spec => []QueueIntact
<1>1. Inv => QueueIntact
  BY DEF Inv
<1>. QED  BY <1>1, InvAlways, PTL

\* No queued work is overlooked: while worker 0 waits, a signal is on its way
\* to it or its sleep ends in time, although work_signal reads the busy flags
\* outside the critical section and the sleep is computed modulo the range of
\* useconds_t.
THEOREM WorkerAlwaysLooks == Spec => []WorkerWillLook
<1>1. Inv => WorkerWillLook
  BY DEF Inv
<1>. QED  BY <1>1, InvAlways, PTL
=============================================================================
