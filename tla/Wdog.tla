-------------------------------- MODULE Wdog --------------------------------
(***************************************************************************)
(* The watchdog timers of sched/wdog: the list of active watchdogs, each   *)
(* with its lag behind the one in front of it, the pool they come from,    *)
(* and the timer interrupt that takes expired ones off the list and calls  *)
(* their functions, which may start, cancel, create and delete watchdogs.  *)
(***************************************************************************)
EXTENDS Integers, SequencesExt

CONSTANTS
  Pool,       \* g_wdpool, the CONFIG_PREALLOC_WDOGS preallocated watchdogs
  Heap,       \* watchdogs that kmm_malloc can provide
  IntReserve, \* CONFIG_WDOG_INTRESERVE
  MaxDelay,   \* the longest delay asked for, well below INT32_MAX
  Off         \* what AbstractTimer calls a timer that is not running

ASSUME PoolFinite == IsFiniteSet(Pool) /\ IsFiniteSet(Heap) /\ Pool \cap Heap = {}
ASSUME IntReserveNat == IntReserve \in Nat
ASSUME MaxDelayNat == MaxDelay \in Nat
ASSUME OffIsNoNumber == Off \notin Int

Dog == Pool \cup Heap

VARIABLES
  active,   \* g_wdactivelist
  lag,      \* wdog->lag
  isactive, \* WDOGF_ACTIVE
  owned,    \* created and not deleted
  free,     \* g_wdfreelist
  wdnfree,  \* g_wdnfree
  allocs,   \* how many tasks are in wd_create, on their way to kmm_malloc
  inirq     \* the timer interrupt: not running, in the loop of wd_expiration
            \* ("check"), or in a watchdog's function ("func")

vars == <<active, lag, isactive, owned, free, wdnfree, allocs, inirq>>

Init ==
  /\ active = << >>
  /\ lag = [d \in Dog |-> 0]
  /\ isactive = [d \in Dog |-> FALSE]
  /\ owned = {}
  /\ free \in {f \in [1..Cardinality(Pool) -> Pool] : \A d \in Pool : \E i \in DOMAIN f : f[i] = d}
  /\ wdnfree = Cardinality(Pool) /\ allocs = 0
  /\ inirq = "no"

(***************************************************************************)
(* The list operations, on a record w of the three variables they change.  *)
(***************************************************************************)
List == [active |-> active, lag |-> lag, isactive |-> isactive]
ListBecomes(w) == active' = w.active /\ lag' = w.lag /\ isactive' = w.isactive

\* `now' when curr is the i-th watchdog: the ticks from now to its expiration
Now(w, i) ==
  LET sum[k \in 0..Len(w.active)] == IF k = 0 THEN 0 ELSE sum[k - 1] + w.lag[w.active[k]]
  IN  sum[i]

\* Its place on the active list
Place(w, d) == CHOOSE i \in 1..Len(w.active) : w.active[i] = d

\* Seeded fault: the next watchdog does not inherit the lag.
UnlinkLosesLag(w, i) ==
  [active |-> RemoveAt(w.active, i), lag |-> w.lag,
   isactive |-> [w.isactive EXCEPT ![w.active[i]] = FALSE]]

\* Take the i-th watchdog off: the next one inherits its lag.
Unlink(w, i) ==
  LET d == w.active[i]
  IN  [active |-> RemoveAt(w.active, i),
       lag |-> IF i < Len(w.active)
               THEN [w.lag EXCEPT ![w.active[i + 1]] = @ + w.lag[d]] ELSE w.lag,
       isactive |-> [w.isactive EXCEPT ![d] = FALSE]]

wd_cancel(w, d) == IF w.isactive[d] THEN Unlink(w, Place(w, d)) ELSE w

\* delay + 1, and 1 for a delay of 0
Adjusted(delay) == IF delay <= 0 THEN 1 ELSE delay + 1

\* Seeded fault: the lag of a watchdog at the end is subtracted the wrong way.
EnqueueSwapped(w, d, delay) ==
  [active |-> Append(w.active, d),
   lag |-> [w.lag EXCEPT ![d] = Now(w, Len(w.active)) - delay],
   isactive |-> [w.isactive EXCEPT ![d] = TRUE]]

Enqueue(w, d, delay) ==
  LET n == Len(w.active)
      later == {i \in 1..n : delay < Now(w, i)}
      i == CHOOSE j \in later : \A h \in later : j <= h
      before == Now(w, i - 1)
      on == [w.isactive EXCEPT ![d] = TRUE]
  IN  IF later # {}
      THEN [active |-> InsertAt(w.active, i, d),
            lag |-> [w.lag EXCEPT ![d] = delay - before,
                                  ![w.active[i]] = @ - (delay - before)],
            isactive |-> on]
      ELSE [active |-> Append(w.active, d),
            lag |-> [w.lag EXCEPT ![d] = delay - Now(w, n)],
            isactive |-> on]

wd_start(w, d, delay) == Enqueue(wd_cancel(w, d), d, Adjusted(delay))

wd_gettime(w, d) == IF w.isactive[d] THEN Now(w, Place(w, d)) ELSE 0

(***************************************************************************)
(* Calls from a task, from an interrupt handler or from a watchdog         *)
(* function.                                                               *)
(***************************************************************************)
Start(d, delay) ==
  /\ inirq # "check"
  /\ ListBecomes(wd_start(List, d, delay))
  /\ UNCHANGED <<owned, free, wdnfree, inirq, allocs>>

Cancel(d) ==
  /\ inirq # "check" /\ isactive[d]
  /\ ListBecomes(wd_cancel(List, d))
  /\ UNCHANGED <<owned, free, wdnfree, inirq, allocs>>

\* wd_create from the pool: a task leaves the reserve alone
CreateFromPool(interrupt) ==
  /\ inirq = "no" \/ (interrupt /\ inirq = "func")
  /\ wdnfree > IntReserve \/ interrupt
  /\ free # << >>
  /\ free' = Tail(free) /\ wdnfree' = wdnfree - 1
  /\ owned' = owned \cup {Head(free)}
  /\ isactive' = [isactive EXCEPT ![Head(free)] = FALSE]
  /\ UNCHANGED <<active, lag, inirq, allocs>>

\* wd_create for a task that finds only the reserve: it leaves the critical
\* section, and calls kmm_malloc some time later, whatever the pool holds then
\* (bound: no more tasks than kmm_malloc can serve).
NeedHeap ==
  /\ inirq = "no" /\ wdnfree <= IntReserve
  /\ allocs < Cardinality(Heap \ owned)
  /\ allocs' = allocs + 1
  /\ UNCHANGED <<active, lag, isactive, owned, free, wdnfree, inirq>>

CreateFromHeap(d) ==
  /\ inirq = "no" /\ allocs > 0 /\ allocs' = allocs - 1
  /\ d \in Heap \ owned
  /\ owned' = owned \cup {d}
  /\ isactive' = [isactive EXCEPT ![d] = FALSE]
  /\ UNCHANGED <<active, lag, free, wdnfree, inirq>>

\* Seeded fault: an active watchdog is deleted without being cancelled.
DeleteActive(d) ==
  /\ inirq # "check"
  /\ owned' = owned \ {d}
  /\ IF d \in Heap THEN UNCHANGED <<free, wdnfree>>
     ELSE free' = Append(free, d) /\ wdnfree' = wdnfree + 1
  /\ UNCHANGED <<active, lag, isactive, inirq, allocs>>

Delete(d) ==
  /\ inirq # "check"
  /\ ListBecomes(wd_cancel(List, d))
  /\ owned' = owned \ {d}
  /\ IF d \in Heap THEN UNCHANGED <<free, wdnfree>>
     ELSE free' = Append(free, d) /\ wdnfree' = wdnfree + 1
  /\ UNCHANGED <<allocs, inirq>>

(***************************************************************************)
(* The timer interrupt: wd_timer, then the loop of wd_expiration.          *)
(***************************************************************************)
wd_timer ==
  /\ inirq = "no" /\ inirq' = "check"
  /\ lag' = IF active = << >> THEN lag ELSE [lag EXCEPT ![Head(active)] = @ - 1]
  /\ UNCHANGED <<active, isactive, owned, free, wdnfree, allocs>>

\* Seeded fault: the function is called while its watchdog is still at the head.
ExpireKeepsHead ==
  /\ inirq = "check" /\ active # << >> /\ lag[Head(active)] <= 0
  /\ inirq' = "func"
  /\ UNCHANGED <<active, lag, isactive, owned, free, wdnfree, allocs>>

\* The head goes off the list, the next one gets what is left of its lag, and
\* its function is called.
Expire ==
  /\ inirq = "check" /\ active # << >> /\ lag[Head(active)] <= 0
  /\ ListBecomes(Unlink(List, 1))
  /\ inirq' = "func"
  /\ UNCHANGED <<owned, free, wdnfree, allocs>>

FuncReturns ==
  /\ inirq = "func" /\ inirq' = "check"
  /\ UNCHANGED <<active, lag, isactive, owned, free, wdnfree, allocs>>

ExpireDone ==
  /\ inirq = "check"
  /\ active # << >> => lag[Head(active)] > 0
  /\ inirq' = "no"
  /\ UNCHANGED <<active, lag, isactive, owned, free, wdnfree, allocs>>

Next ==
  \/ wd_timer \/ Expire \/ FuncReturns \/ ExpireDone \/ NeedHeap
  \/ \E interrupt \in BOOLEAN : CreateFromPool(interrupt)
  \/ \E d \in Heap : CreateFromHeap(d)
  \/ \E d \in owned : Cancel(d) \/ Delete(d) \/ \E delay \in 0..MaxDelay : Start(d, delay)

Spec == Init /\ [][Next]_vars

\* The loop of the interrupt handler and the functions it calls run on.
LiveSpec == Spec /\ WF_vars(Expire) /\ WF_vars(FuncReturns) /\ WF_vars(ExpireDone)

(***************************************************************************)
(* Properties.                                                             *)
(***************************************************************************)
\* The state keeps its types; a lag is never negative.
TypeOK ==
  /\ active \in Seq(Dog) /\ Len(active) <= Cardinality(Dog)
  /\ lag \in [Dog -> 0..(MaxDelay + 1)] /\ isactive \in [Dog -> BOOLEAN]
  /\ owned \subseteq Dog /\ free \in Seq(Pool) /\ wdnfree \in 0..Cardinality(Pool)
  /\ allocs \in 0..Cardinality(Heap)
  /\ inirq \in {"no", "check", "func"}

\* The flag WDOGF_ACTIVE, the active list, the free list and g_wdnfree tell the
\* same story: an active watchdog is on the active list once and exists, a
\* watchdog of the pool is free or created but not both.
PoolAgrees ==
  /\ \A d \in Dog : isactive[d] <=> \E i \in 1..Len(active) : active[i] = d
  /\ \A i, j \in 1..Len(active) : active[i] = active[j] => i = j
  /\ \A d \in Dog : isactive[d] => d \in owned
  /\ wdnfree = Len(free)
  /\ \A i, j \in 1..Len(free) : free[i] = free[j] => i = j
  /\ \A d \in Pool : d \notin owned <=> \E i \in 1..Len(free) : free[i] = d

\* The lags add up: the watchdogs behave as timers that each have their own
\* number of ticks left, whatever was inserted, cancelled or restarted around
\* them, and each fires in exactly the tick it is due.
Timers == INSTANCE AbstractTimer WITH
  left <- [d \in Dog |-> IF isactive[d] THEN wd_gettime(List, d) ELSE Off],
  firing <- inirq # "no"

ImplementsTimers == Timers!TimerSpec

\* The timer interrupt ends, even if watchdog functions restart watchdogs for
\* the shortest delay there is.
InterruptEnds == inirq # "no" ~> inirq = "no"
=============================================================================
