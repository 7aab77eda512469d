---------------------------- MODULE PthreadProofs ----------------------------
(***************************************************************************)
(* Robust mutexes and condition variables (PthreadMutex and PthreadCond):  *)
(* a mutex has one unit and at most one owner, and a condition's semaphore *)
(* counts its waiters, for every set of threads and mutexes.               *)
(***************************************************************************)
EXTENDS PthreadCond, FiniteSetTheorems, TLAPS

(***************************************************************************)
(* The inductive invariant of the mutexes.                                 *)
(***************************************************************************)
MutexTypes ==
  /\ semcount \in [Mutex -> Int] /\ waiting \in [Mutex -> SUBSET Thread]
  /\ pid \in [Mutex -> Thread \cup {None}]
  /\ inconsistent \in [Mutex -> BOOLEAN] /\ dirty \in [Mutex -> BOOLEAN]
  /\ spoiled \in [Mutex -> BOOLEAN]
  /\ mhead \in [Thread -> SUBSET Mutex] /\ owns \in [Thread -> SUBSET Mutex]
  /\ call \in [Thread -> Mutex \cup {None}] /\ intr \in [Thread -> BOOLEAN]
  /\ state \in [Thread -> {"live", "exiting", "gone"}]

\* A negative semcount is minus the number of waiters.
Counted(m) == Cardinality(waiting[m]) = IF semcount[m] < 0 THEN -semcount[m] ELSE 0

\* Who is blocked is in a call and was not interrupted; who is in a call lives.
CallsAgree ==
  /\ \A m \in Mutex : \A t \in waiting[m] : call[t] = m /\ ~intr[t]
  /\ \A t \in Thread : /\ call[t] # None => state[t] = "live"
                       /\ call[t] = None => ~intr[t]
                       /\ state[t] = "gone" => mhead[t] = {}

Flagged == \A m \in Mutex : dirty[m] => inconsistent[m] \/ spoiled[m]

\* The one unit of a mutex that no repair has spoiled is in its semaphore, with
\* a thread that was handed it, with its owner, who may have to write its pid
\* still, or lost with an owner that died until the mutex is repaired.
OneUnit(m) ==
  /\ semcount[m] <= 1
  /\ \A t \in Thread :
       /\ m \in owns[t] <=> m \in mhead[t]
       /\ m \in mhead[t] => /\ pid[m] \in {None, t} /\ ~inconsistent[m] /\ semcount[m] <= 0
                            /\ \A u \in Thread : m \in mhead[u] => u = t
       /\ Handed(t, m) => /\ semcount[m] <= 0
                          /\ \A u \in Thread : /\ m \notin mhead[u]
                                               /\ Handed(u, m) => u = t
  /\ pid[m] = None => /\ ~inconsistent[m]
                      /\ semcount[m] = 1 \/ \E t \in Thread : Handed(t, m) \/ m \in mhead[t]
  /\ pid[m] # None => \/ m \in mhead[pid[m]]
                      \/ inconsistent[m] /\ state[pid[m]] # "live"

Code == {"none", "OK", "EINTR", "EBUSY", "EPERM", "EINVAL", "EOWNERDEAD", "ETIMEDOUT", "repaired"}
RetTyped == ret \in [Thread -> Code]

\* A thread that is in no wait for a condition is on record for what it holds.
Settled(t) == \A m \in mhead[t] : spoiled[m] \/ pid[m] = t

MutexInv ==
  /\ MutexTypes /\ CallsAgree /\ Flagged
  /\ \A m \in Mutex : Counted(m) /\ (spoiled[m] \/ OneUnit(m))

(***************************************************************************)
(* The inductive invariant of the condition.                               *)
(***************************************************************************)
CondTypes ==
  /\ csem \in Int /\ cwaiting \in SUBSET Thread /\ locker \in Thread \cup {None}
  /\ cpc \in [Thread -> {"none", "take", "wait", "retake", "setpid", "setflags", "give"}]
  /\ cmutex \in [Thread -> Mutex \cup {None}]
  /\ timed \in [Thread -> BOOLEAN] /\ cintr \in [Thread -> BOOLEAN]
  /\ mflags \in [Thread -> BOOLEAN] /\ gives \in [Thread -> Nat]

CondCounted == Cardinality(cwaiting) = IF csem < 0 THEN -csem ELSE 0

CondPlaces ==
  \A t \in Thread :
    /\ t \in cwaiting => cpc[t] = "wait"
    /\ cpc[t] # "none" => state[t] = "live"
    /\ cpc[t] \in {"none", "give"} => cmutex[t] = None
    /\ cpc[t] \notin {"none", "give"} => cmutex[t] \in Mutex
    /\ cpc[t] \notin {"none", "retake"} => call[t] = None
    /\ cpc[t] \in {"setpid", "setflags"} => cmutex[t] \in mhead[t] /\ cmutex[t] \in owns[t]
    /\ cpc[t] = "retake" /\ call[t] # None => call[t] = cmutex[t]
    /\ cpc[t] # "give" => gives[t] = 0
    /\ mflags[t] => cmutex[t] \in Mutex /\ spoiled[cmutex[t]]

\* Where a thread may have disabled pre-emption, and that a broadcast has a
\* post left for each waiter.
LockerPlaces ==
  \A t \in Thread :
    /\ cpc[t] = "take" => locker = t
    /\ locker = t => /\ cpc[t] \in {"take", "give", "retake", "setpid", "setflags"}
                     /\ cpc[t] = "retake" => call[t] = None
                     /\ cpc[t] = "give" => -csem <= gives[t]

\* Who has a mutex on its list is on record, or about to write its pid.
Recorded ==
  \A t \in Thread : \A m \in mhead[t] :
    spoiled[m] \/ pid[m] = t \/ (cpc[t] = "setpid" /\ cmutex[t] = m)

CondInv ==
  MutexInv /\ RetTyped /\ CondTypes /\ CondCounted /\ CondPlaces /\ LockerPlaces /\ Recorded

(***************************************************************************)
(* The semaphore of a mutex.                                               *)
(***************************************************************************)
\* Sets of threads are finite, and one thread more or less is one.
LEMMA ThreadSets ==
  ASSUME NEW S \in SUBSET Thread
  PROVE  /\ Cardinality(S) \in Nat /\ Cardinality(S) <= Cardinality(Thread)
         /\ Cardinality(S) = 0 <=> S = {}
         /\ \A t \in Thread :
              /\ Cardinality(S \cup {t}) = IF t \in S THEN Cardinality(S) ELSE Cardinality(S) + 1
              /\ Cardinality(S \ {t}) = IF t \in S THEN Cardinality(S) - 1 ELSE Cardinality(S)
<1>1. IsFiniteSet(S) /\ Cardinality(S) <= Cardinality(Thread)
  BY ThreadFinite, FS_Subset
<1>2. Cardinality(S) \in Nat
  BY <1>1, FS_CardinalityType
<1>3. Cardinality(S) = 0 <=> S = {}
  BY <1>1, FS_EmptySet
<1>4. ASSUME NEW t \in Thread
      PROVE  /\ Cardinality(S \cup {t}) = IF t \in S THEN Cardinality(S) ELSE Cardinality(S) + 1
             /\ Cardinality(S \ {t}) = IF t \in S THEN Cardinality(S) - 1 ELSE Cardinality(S)
  BY <1>1, FS_AddElement, FS_RemoveElement
<1>. QED  BY <1>1, <1>2, <1>3, <1>4

\* A post hands the unit to a waiter exactly if the count is negative.
LEMMA GiveUnit ==
  ASSUME MutexInv, NEW m \in Mutex, SemGive(m)
  PROVE  /\ semcount' = [semcount EXCEPT ![m] = @ + 1] /\ semcount' \in [Mutex -> Int]
         /\ waiting' \in [Mutex -> SUBSET Thread]
         /\ \A n \in Mutex : waiting'[n] \subseteq waiting[n] /\ (n # m => waiting'[n] = waiting[n])
         /\ \A n \in Mutex : Counted(n)'
         /\ \/ semcount[m] < 0 /\ \E w \in waiting[m] : waiting' = [waiting EXCEPT ![m] = @ \ {w}]
            \/ semcount[m] >= 0 /\ waiting' = waiting
<1>1. /\ semcount \in [Mutex -> Int] /\ waiting \in [Mutex -> SUBSET Thread]
      /\ \A n \in Mutex : Counted(n) /\ semcount[n] \in Int
  BY DEF MutexInv, MutexTypes
<1>2. semcount' = [semcount EXCEPT ![m] = @ + 1]
  BY DEF SemGive
<1>3. waiting[m] = {} => semcount[m] >= 0
  BY <1>1, ThreadSets DEF Counted
<1>4. CASE semcount[m] >= 0
  <2>1. waiting' = waiting
    BY <1>1, <1>4 DEF SemGive
  <2>2. \A n \in Mutex : Counted(n)'
    BY <1>1, <1>2, <1>4, <2>1 DEF Counted
  <2>. QED  BY <1>1, <1>2, <1>4, <2>1, <2>2
<1>5. CASE semcount[m] < 0
  <2>1. PICK w \in waiting[m] : waiting' = [waiting EXCEPT ![m] = @ \ {w}]
    BY <1>1, <1>3, <1>5 DEF SemGive
  <2>2. Cardinality(waiting'[m]) = Cardinality(waiting[m]) - 1
    BY <1>1, <2>1, ThreadSets
  <2>3. Counted(m)'
    BY <1>1, <1>2, <1>5, <2>2 DEF Counted
  <2>4. \A n \in Mutex : n # m => Counted(n)'
    BY <1>1, <1>2, <2>1 DEF Counted
  <2>5. /\ semcount' \in [Mutex -> Int] /\ waiting' \in [Mutex -> SUBSET Thread]
        /\ \A n \in Mutex : waiting'[n] \subseteq waiting[n] /\ (n # m => waiting'[n] = waiting[n])
    BY <1>1, <1>2, <2>1
  <2>. QED  BY <1>2, <1>5, <2>1, <2>3, <2>4, <2>5
<1>. QED  BY <1>1, <1>4, <1>5

\* A thread that finds no unit joins the waiters.
LEMMA JoinWaiters ==
  ASSUME MutexInv, NEW m \in Mutex, NEW t \in Thread, t \notin waiting[m],
         semcount[m] <= 0, semcount' = [semcount EXCEPT ![m] = @ - 1],
         waiting' = [waiting EXCEPT ![m] = @ \cup {t}]
  PROVE  \A n \in Mutex : Counted(n)'
<1>1. /\ semcount \in [Mutex -> Int] /\ waiting \in [Mutex -> SUBSET Thread]
      /\ \A n \in Mutex : Counted(n) /\ semcount[n] \in Int
  BY DEF MutexInv, MutexTypes
<1>2. Cardinality(waiting'[m]) = Cardinality(waiting[m]) + 1
  BY <1>1, ThreadSets
<1>3. Counted(m)'
  BY <1>1, <1>2 DEF Counted
<1>. QED  BY <1>1, <1>3 DEF Counted

\* A waiter that a signal takes off gives its count back.
LEMMA LeaveWaiters ==
  ASSUME MutexInv, NEW m \in Mutex, NEW t \in waiting[m],
         semcount' = [semcount EXCEPT ![m] = @ + 1],
         waiting' = [waiting EXCEPT ![m] = @ \ {t}]
  PROVE  semcount[m] < 0 /\ \A n \in Mutex : Counted(n)'
<1>1. /\ semcount \in [Mutex -> Int] /\ waiting \in [Mutex -> SUBSET Thread]
      /\ \A n \in Mutex : Counted(n) /\ semcount[n] \in Int
  BY DEF MutexInv, MutexTypes
<1>2. semcount[m] < 0
  BY <1>1, ThreadSets DEF Counted
<1>3. Cardinality(waiting'[m]) = Cardinality(waiting[m]) - 1
  BY <1>1, ThreadSets
<1>4. Counted(m)'
  BY <1>1, <1>2, <1>3 DEF Counted
<1>. QED  BY <1>1, <1>2, <1>4 DEF Counted

\* The unit is taken, or the count was made one: nobody waits.
LEMMA CountNotNegative ==
  ASSUME MutexInv, NEW m \in Mutex, NEW c \in Nat, semcount[m] >= 0,
         semcount' = [semcount EXCEPT ![m] = c], waiting' = waiting
  PROVE  \A n \in Mutex : Counted(n)'
<1>1. /\ semcount \in [Mutex -> Int]
      /\ \A n \in Mutex : Counted(n) /\ semcount[n] \in Int
  BY DEF MutexInv, MutexTypes
<1>. QED  BY <1>1 DEF Counted

(***************************************************************************)
(* What a step does to one mutex leaves the units of the others alone.     *)
(***************************************************************************)
\* OneUnit of a mutex depends on that mutex, on who holds it and was handed it,
\* and on whether its owner lives.
LEMMA OtherUnit ==
  ASSUME NEW n \in Mutex, MutexTypes, OneUnit(n),
         semcount'[n] = semcount[n], pid'[n] = pid[n], inconsistent'[n] = inconsistent[n],
         \A u \in Thread : /\ n \in owns'[u] <=> n \in owns[u]
                           /\ n \in mhead'[u] <=> n \in mhead[u]
                           /\ Handed(u, n)' <=> Handed(u, n)
                           /\ state[u] # "live" => state'[u] # "live"
  PROVE  OneUnit(n)'
<1>1. pid[n] # None => pid[n] \in Thread
  BY DEF MutexTypes
<1>. QED  BY <1>1 DEF OneUnit

(***************************************************************************)
(* The ways in which a call on a mutex ends, whichever function makes it.  *)
(***************************************************************************)
\* A thread becomes the owner, of a unit it finds or of the one it was handed;
\* it may go on record later.
LEMMA AcquireInv ==
  ASSUME MutexInv, NEW t \in Thread, NEW m \in Mutex,
         state[t] = "live", call[t] \in {None, m}, t \notin waiting[m],
         ~inconsistent[m],
         \/ semcount[m] > 0 /\ semcount' = [semcount EXCEPT ![m] = @ - 1]
         \/ Handed(t, m) /\ semcount' = semcount,
         mhead' = [mhead EXCEPT ![t] = @ \cup {m}], pid' \in {pid, [pid EXCEPT ![m] = t]},
         owns' = [owns EXCEPT ![t] = @ \cup {m}],
         call' = [call EXCEPT ![t] = None], intr' = [intr EXCEPT ![t] = FALSE],
         UNCHANGED <<waiting, inconsistent, state, dirty, spoiled>>
  PROVE  MutexInv'
<1>1. MutexTypes /\ CallsAgree /\ Flagged /\ t # None /\ \A n \in Mutex : n # None
  BY NoneIsNobody DEF MutexInv
<1>2. MutexTypes'
  BY <1>1 DEF MutexTypes
<1>3. CallsAgree'
  BY <1>1 DEF CallsAgree, MutexTypes
<1>4. Flagged'
  BY <1>1 DEF Flagged, MutexTypes
<1>5. \A n \in Mutex : Counted(n)'
  BY CountNotNegative, <1>1 DEF MutexInv, Counted, MutexTypes
<1>6. ASSUME NEW n \in Mutex, n # m, OneUnit(n) PROVE OneUnit(n)'
  BY <1>1, <1>6, OtherUnit DEF MutexTypes, Handed
<1>7. ASSUME OneUnit(m), ~spoiled[m] PROVE OneUnit(m)'
  <2>1. \A u \in Thread : m \notin mhead[u] /\ m \notin owns[u]
    BY <1>1, <1>7 DEF OneUnit, MutexTypes
  <2>2. pid[m] = None
    BY <1>1, <1>7, <2>1 DEF OneUnit, MutexTypes
  <2>3. \A u \in Thread : ~Handed(u, m)'
    BY <1>1, <1>7 DEF OneUnit, MutexTypes, Handed
  <2>4. semcount'[m] <= 0 /\ ~inconsistent'[m] /\ pid'[m] \in {None, t}
    BY <1>1, <1>7, <2>2 DEF OneUnit, MutexTypes
  <2>5. \A u \in Thread : (m \in owns'[u] <=> u = t) /\ (m \in mhead'[u] <=> u = t)
    BY <1>1, <2>1 DEF MutexTypes
  <2>6. semcount'[m] \in Int
    BY <1>2 DEF MutexTypes
  <2>. QED  BY <1>1, <2>3, <2>4, <2>5, <2>6 DEF OneUnit
<1>. QED  BY <1>2, <1>3, <1>4, <1>5, <1>6, <1>7 DEF MutexInv

\* A thread learns that the owner died: it goes without the mutex, and a unit
\* it found or was handed is lost until the repair.
LEMMA RefusedInv ==
  ASSUME MutexInv, NEW t \in Thread, NEW m \in Mutex,
         state[t] = "live", call[t] \in {None, m}, t \notin waiting[m],
         inconsistent[m] \/ OwnerGone(m),
         \/ semcount' = semcount
         \/ semcount[m] > 0 /\ semcount' = [semcount EXCEPT ![m] = @ - 1],
         inconsistent' = [inconsistent EXCEPT ![m] = TRUE],
         call' = [call EXCEPT ![t] = None], intr' = [intr EXCEPT ![t] = FALSE],
         UNCHANGED <<waiting, mhead, pid, owns, state, dirty, spoiled>>
  PROVE  MutexInv'
<1>1. MutexTypes /\ CallsAgree /\ Flagged /\ t # None /\ \A n \in Mutex : n # None
  BY NoneIsNobody DEF MutexInv
<1>2. MutexTypes'
  BY <1>1 DEF MutexTypes
<1>3. CallsAgree'
  BY <1>1 DEF CallsAgree, MutexTypes
<1>4. Flagged'
  BY <1>1 DEF Flagged, MutexTypes
<1>5. \A n \in Mutex : Counted(n)'
  BY CountNotNegative, <1>1 DEF MutexInv, Counted, MutexTypes
<1>6. ASSUME NEW n \in Mutex, n # m, OneUnit(n) PROVE OneUnit(n)'
  BY <1>1, <1>6, OtherUnit DEF MutexTypes, Handed
<1>7. ASSUME OneUnit(m), ~spoiled[m] PROVE OneUnit(m)'
  <2>1. pid[m] \in Thread /\ inconsistent[m] /\ state[pid[m]] # "live"
    BY <1>1, <1>7 DEF OneUnit, MutexTypes, OwnerGone, CallsAgree
  <2>2. \A u \in Thread : m \notin mhead[u] /\ m \notin owns[u]
    BY <1>1, <1>7, <2>1 DEF OneUnit
  <2>3. \A u \in Thread : Handed(u, m)' => Handed(u, m) /\ semcount'[m] = semcount[m]
    BY <1>1, <1>7 DEF OneUnit, MutexTypes, Handed
  <2>4. semcount'[m] <= semcount[m] /\ inconsistent'[m] /\ semcount[m] \in Int /\ semcount'[m] \in Int
    BY <1>1 DEF MutexTypes
  <2>. QED  BY <1>1, <1>7, <2>1, <2>2, <2>3, <2>4 DEF OneUnit
<1>. QED  BY <1>2, <1>3, <1>4, <1>5, <1>6, <1>7 DEF MutexInv

\* A thread blocks on the semaphore.
LEMMA BlockedInv ==
  ASSUME MutexInv, NEW t \in Thread, NEW m \in Mutex,
         state[t] = "live", call[t] = None \/ (call[t] = m /\ intr[t]),
         semcount[m] <= 0, semcount' = [semcount EXCEPT ![m] = @ - 1],
         waiting' = [waiting EXCEPT ![m] = @ \cup {t}],
         call' = [call EXCEPT ![t] = m], intr' = [intr EXCEPT ![t] = FALSE],
         UNCHANGED <<mhead, pid, owns, inconsistent, state, dirty, spoiled>>
  PROVE  MutexInv'
<1>1. MutexTypes /\ CallsAgree /\ Flagged /\ t # None /\ \A n \in Mutex : n # None
  BY NoneIsNobody DEF MutexInv
<1>2. MutexTypes'
  BY <1>1 DEF MutexTypes
<1>3. \A n \in Mutex : t \notin waiting[n]
  BY <1>1 DEF CallsAgree, MutexTypes
<1>4. CallsAgree'
  BY <1>1, <1>3 DEF CallsAgree, MutexTypes
<1>5. \A n \in Mutex : Counted(n)'
  BY <1>3, JoinWaiters
<1>6. ASSUME NEW n \in Mutex, n # m, OneUnit(n) PROVE OneUnit(n)'
  BY <1>1, <1>6, OtherUnit DEF MutexTypes, Handed
<1>7. ASSUME OneUnit(m) PROVE OneUnit(m)'
  <2>1. \A u \in Thread : Handed(u, m)' <=> Handed(u, m)
    BY <1>1 DEF MutexTypes, Handed
  <2>2. semcount[m] \in Int /\ semcount'[m] = semcount[m] - 1
    BY <1>1 DEF MutexTypes
  <2>. QED  BY <1>7, <2>1, <2>2 DEF OneUnit
<1>. QED  BY <1>1, <1>2, <1>4, <1>5, <1>6, <1>7 DEF MutexInv, Flagged

\* A thread that a signal has woken returns without the mutex.
LEMMA InterruptedInv ==
  ASSUME MutexInv, NEW t \in Thread, intr[t], call[t] # None, t \notin waiting[call[t]],
         call' = [call EXCEPT ![t] = None], intr' = [intr EXCEPT ![t] = FALSE],
         UNCHANGED <<semvars, mhead, pid, owns, inconsistent, state, dirty, spoiled>>
  PROVE  MutexInv'
<1>1. MutexTypes /\ CallsAgree /\ Flagged /\ t # None
  BY NoneIsNobody DEF MutexInv
<1>2. MutexTypes' /\ Flagged'
  BY <1>1 DEF MutexTypes, semvars, Flagged
<1>3. CallsAgree'
  BY <1>1 DEF CallsAgree, MutexTypes, semvars
<1>4. \A n \in Mutex : Counted(n)'
  BY DEF MutexInv, Counted, semvars
<1>5. ASSUME NEW n \in Mutex, OneUnit(n) PROVE OneUnit(n)'
  BY <1>1, <1>5, OtherUnit, NoneIsNobody DEF MutexTypes, Handed, semvars
<1>. QED  BY <1>2, <1>3, <1>4, <1>5 DEF MutexInv

\* The owner gives the mutex up: the unit goes to the semaphore or to a waiter.
LEMMA GivenUpInv ==
  ASSUME MutexInv, NEW t \in Thread, NEW m \in Mutex, state[t] = "live", pid[m] = t,
         pid' = [pid EXCEPT ![m] = None], mhead' = [mhead EXCEPT ![t] = @ \ {m}],
         owns' = [owns EXCEPT ![t] = @ \ {m}], SemGive(m),
         UNCHANGED <<inconsistent, call, intr, state, dirty, spoiled>>
  PROVE  MutexInv'
<1>1. MutexTypes /\ CallsAgree /\ Flagged /\ t # None /\ \A n \in Mutex : n # None
  BY NoneIsNobody DEF MutexInv
<1>2. /\ semcount' = [semcount EXCEPT ![m] = @ + 1] /\ semcount' \in [Mutex -> Int]
      /\ waiting' \in [Mutex -> SUBSET Thread]
      /\ \A n \in Mutex : waiting'[n] \subseteq waiting[n] /\ (n # m => waiting'[n] = waiting[n])
      /\ \A n \in Mutex : Counted(n)'
      /\ \/ semcount[m] < 0 /\ \E w \in waiting[m] : waiting' = [waiting EXCEPT ![m] = @ \ {w}]
         \/ semcount[m] >= 0 /\ waiting' = waiting
  BY GiveUnit
<1>3. MutexTypes'
  BY <1>1, <1>2 DEF MutexTypes
<1>4. CallsAgree'
  BY <1>1, <1>2 DEF CallsAgree, MutexTypes
<1>5. Flagged'
  BY <1>1 DEF Flagged
<1>6. ASSUME NEW n \in Mutex, n # m, OneUnit(n) PROVE OneUnit(n)'
  BY <1>1, <1>2, <1>6, OtherUnit DEF MutexTypes, Handed
<1>7. ASSUME OneUnit(m) PROVE OneUnit(m)'
  <2>1. m \in mhead[t] /\ ~inconsistent[m] /\ semcount[m] <= 0 /\ semcount[m] \in Int
    BY <1>1, <1>7 DEF OneUnit, MutexTypes
  <2>2. \A u \in Thread : ~Handed(u, m)
    BY <1>7, <2>1 DEF OneUnit
  <2>3. \A u \in Thread : m \notin mhead'[u] /\ m \notin owns'[u]
    BY <1>1, <1>7 DEF OneUnit, MutexTypes
  <2>4. pid'[m] = None /\ ~inconsistent'[m] /\ semcount'[m] = semcount[m] + 1
    BY <1>1, <1>2, <2>1 DEF MutexTypes
  <2>5. CASE semcount[m] < 0
    <3>1. PICK w \in waiting[m] : waiting' = [waiting EXCEPT ![m] = @ \ {w}]
      BY <1>2, <2>1, <2>5
    <3>2. w \in Thread /\ Handed(w, m)'
      BY <1>1, <3>1 DEF CallsAgree, MutexTypes, Handed
    <3>3. \A u \in Thread : Handed(u, m)' => u = w
      BY <1>1, <2>2, <3>1 DEF MutexTypes, Handed
    <3>. QED  BY <2>1, <2>3, <2>4, <2>5, <3>2, <3>3 DEF OneUnit
  <2>6. CASE semcount[m] = 0
    <3>1. \A u \in Thread : ~Handed(u, m)'
      BY <1>2, <2>1, <2>2, <2>6 DEF Handed
    <3>. QED  BY <2>3, <2>4, <2>6, <3>1 DEF OneUnit
  <2>. QED  BY <2>1, <2>5, <2>6
<1>. QED  BY <1>2, <1>3, <1>4, <1>5, <1>6, <1>7 DEF MutexInv

(***************************************************************************)
(* The steps of PthreadMutex.                                              *)
(***************************************************************************)
\* A thread that is in no call waits for no mutex and was not interrupted.
LEMMA IdleFacts ==
  ASSUME MutexInv, NEW t \in Thread, call[t] = None
  PROVE  /\ \A m \in Mutex : t \notin waiting[m]
         /\ ~intr[t] /\ call = [call EXCEPT ![t] = None] /\ intr = [intr EXCEPT ![t] = FALSE]
<1>1. MutexTypes /\ CallsAgree /\ \A n \in Mutex : n # None
  BY NoneIsNobody DEF MutexInv
<1>. QED  BY <1>1 DEF MutexTypes, CallsAgree

\* pthread_mutex_lock up to its return or to the wait
LEMMA LockInv ==
  ASSUME MutexInv, NEW t \in Thread, NEW m \in Mutex, Lock(t, m)
  PROVE  MutexInv'
<1>1. /\ state[t] = "live" /\ call[t] = None /\ intr' = intr
      /\ UNCHANGED <<state, dirty, spoiled>>
  BY DEF Lock, Idle
<1>2. /\ t \notin waiting[m] /\ ~intr[t] /\ call = [call EXCEPT ![t] = None]
      /\ intr = [intr EXCEPT ![t] = FALSE]
  BY <1>1, IdleFacts
<1>3. CASE (OwnerGone(m) \/ inconsistent[m]) /\ OwnerDead(t, m) /\ UNCHANGED <<semvars, call>>
  BY <1>1, <1>2, <1>3, RefusedInv DEF OwnerDead, semvars
<1>4. CASE /\ ~inconsistent[m] /\ semcount' = [semcount EXCEPT ![m] = @ - 1]
           /\ semcount[m] > 0 /\ Acquire(t, m) /\ UNCHANGED <<waiting, call, inconsistent>>
  BY <1>1, <1>2, <1>4, AcquireInv DEF Acquire
<1>5. CASE /\ semcount' = [semcount EXCEPT ![m] = @ - 1] /\ semcount[m] <= 0
           /\ waiting' = [waiting EXCEPT ![m] = @ \cup {t}] /\ call' = [call EXCEPT ![t] = m]
           /\ UNCHANGED <<pid, inconsistent, mhead, ret, owns>>
  BY <1>1, <1>2, <1>5, BlockedInv
<1>. QED  BY <1>3, <1>4, <1>5 DEF Lock

\* The rest of it after the wait
LEMMA LockReturnsInv ==
  ASSUME MutexInv, NEW t \in Thread, LockReturns(t)
  PROVE  MutexInv'
<1>. DEFINE m == call[t]
<1>1. /\ state[t] = "live" /\ m # None /\ t \notin waiting[m]
      /\ call' = [call EXCEPT ![t] = None] /\ intr' = [intr EXCEPT ![t] = FALSE]
      /\ UNCHANGED <<semvars, state, dirty, spoiled>>
  BY DEF LockReturns
<1>2. m \in Mutex
  BY <1>1 DEF MutexInv, MutexTypes
<1>3. CASE intr[t] /\ UNCHANGED <<pid, inconsistent, mhead, owns>>
  BY <1>1, <1>3, InterruptedInv
<1>4. CASE inconsistent[m] /\ OwnerDead(t, m)
  BY <1>1, <1>2, <1>4, RefusedInv DEF OwnerDead, semvars
<1>5. CASE ~intr[t] /\ ~inconsistent[m] /\ Acquire(t, m) /\ UNCHANGED inconsistent
  <2>1. Handed(t, m)
    BY <1>1, <1>2, <1>5 DEF Handed
  <2>. QED  BY <1>1, <1>2, <1>5, <2>1, AcquireInv DEF Acquire, semvars
<1>. QED  BY <1>3, <1>4, <1>5 DEF LockReturns

\* pthread_mutex_trylock
LEMMA TryLockInv ==
  ASSUME MutexInv, NEW t \in Thread, NEW m \in Mutex, TryLock(t, m)
  PROVE  MutexInv'
<1>1. /\ state[t] = "live" /\ call[t] = None
      /\ UNCHANGED <<waiting, call, intr, state, dirty, spoiled>>
  BY DEF TryLock, Idle
<1>2. /\ t \notin waiting[m] /\ ~intr[t] /\ call = [call EXCEPT ![t] = None]
      /\ intr = [intr EXCEPT ![t] = FALSE]
  BY <1>1, IdleFacts
<1>3. CASE (inconsistent[m] \/ OwnerGone(m)) /\ OwnerDead(t, m) /\ UNCHANGED semcount
  BY <1>1, <1>2, <1>3, RefusedInv DEF OwnerDead
<1>4. CASE /\ ~inconsistent[m] /\ semcount' = [semcount EXCEPT ![m] = @ - 1]
           /\ semcount[m] > 0 /\ Acquire(t, m) /\ UNCHANGED inconsistent
  BY <1>1, <1>2, <1>4, AcquireInv DEF Acquire
<1>5. CASE UNCHANGED <<semcount, mhead, pid, owns, inconsistent>>
  BY <1>1, <1>5 DEF MutexInv, MutexTypes, CallsAgree, Flagged, Counted, OneUnit, Handed
<1>. QED  BY <1>3, <1>4, <1>5 DEF TryLock

\* pthread_mutex_unlock; who is not the owner is refused
LEMMA UnlockInv ==
  ASSUME MutexInv, NEW t \in Thread, NEW m \in Mutex, Settled(t), Unlock(t, m)
  PROVE  MutexInv'
<1>1. /\ state[t] = "live" /\ owns' = [owns EXCEPT ![t] = @ \ {m}]
      /\ UNCHANGED <<inconsistent, call, intr, state, dirty, spoiled>>
  BY DEF Unlock, Idle
<1>2. CASE /\ pid[m] = t /\ pid' = [pid EXCEPT ![m] = None]
           /\ mhead' = [mhead EXCEPT ![t] = @ \ {m}] /\ SemGive(m)
  BY <1>1, <1>2, GivenUpInv
<1>3. CASE (semcount[m] >= 1 \/ pid[m] # t) /\ UNCHANGED <<semvars, pid, mhead>>
  <2>1. MutexTypes /\ CallsAgree /\ Flagged
    BY DEF MutexInv
  <2>2. MutexTypes' /\ CallsAgree' /\ Flagged' /\ \A n \in Mutex : Counted(n)'
    BY <1>1, <1>3, <2>1 DEF MutexInv, MutexTypes, CallsAgree, Flagged, Counted, semvars
  <2>3. ASSUME NEW n \in Mutex, OneUnit(n), ~spoiled[n] PROVE OneUnit(n)'
    <3>1. n = m => m \notin owns[t]
      BY <1>3, <2>1, <2>3 DEF OneUnit, MutexTypes, Settled
    <3>2. \A u \in Thread : (n \in owns'[u] <=> n \in owns[u]) /\ (Handed(u, n)' <=> Handed(u, n))
      BY <1>1, <1>3, <2>1, <3>1 DEF MutexTypes, Handed, semvars
    <3>. QED  BY <1>1, <1>3, <2>1, <2>3, <3>2, OtherUnit DEF semvars
  <2>. QED  BY <1>1, <2>2, <2>3 DEF MutexInv
<1>. QED  BY <1>2, <1>3 DEF Unlock

\* pthread_mutex_consistent: the repair makes a new unit for the one the dead
\* owner had, and counts as spoiled if a thread was still handed that one.
LEMMA ConsistentInv ==
  ASSUME MutexInv, RetTyped, NEW t \in Thread, NEW m \in Mutex, Consistent(t, m)
  PROVE  MutexInv'
<1>1. MutexTypes /\ CallsAgree /\ Flagged /\ t # None /\ \A n \in Mutex : n # None
  BY NoneIsNobody DEF MutexInv
<1>2. /\ spoiled' = [spoiled EXCEPT ![m] = @ \/ (OwnerGone(m) /\ \E w \in Thread : Handed(w, m))]
      /\ UNCHANGED <<mhead, call, intr, state, owns>>
  BY DEF Consistent
<1>3. spoiled' \in [Mutex -> BOOLEAN] /\ \A n \in Mutex : spoiled[n] => spoiled'[n]
  BY <1>1, <1>2 DEF MutexTypes
<1>4. CASE pid[m] # None /\ ~OwnerGone(m)
  <2>1. ret'[t] = "EINVAL" /\ UNCHANGED <<semvars, pid>>
    BY <1>4 DEF Consistent, Returns, RetTyped
  <2>2. UNCHANGED <<inconsistent, dirty>>
    BY <1>1, <2>1 DEF Consistent, MutexTypes
  <2>3. spoiled' = spoiled
    BY <1>1, <1>2, <1>4 DEF MutexTypes
  <2>. QED  BY <1>2, <2>1, <2>2, <2>3
         DEF MutexInv, MutexTypes, CallsAgree, Flagged, Counted, OneUnit, Handed, semvars
<1>5. CASE pid[m] = None \/ OwnerGone(m)
  <2>1. ret'[t] = "repaired"
    BY <1>5 DEF Consistent, Returns, RetTyped, OwnerGone
  <2>2. inconsistent' = [inconsistent EXCEPT ![m] = FALSE] /\ dirty' = [dirty EXCEPT ![m] = FALSE]
    BY <2>1 DEF Consistent
  <2>3. Flagged'
    BY <1>1, <1>3, <2>2 DEF Flagged, MutexTypes
  <2>4. CASE pid[m] = None
    <3>1. UNCHANGED <<semvars, pid>>
      BY <1>1, <2>4 DEF Consistent, OwnerGone
    <3>2. MutexTypes' /\ CallsAgree' /\ \A n \in Mutex : Counted(n)'
      BY <1>1, <1>2, <1>3, <2>2, <3>1 DEF MutexInv, MutexTypes, CallsAgree, Counted, semvars
    <3>3. ASSUME NEW n \in Mutex, OneUnit(n) PROVE OneUnit(n)'
      <4>1. inconsistent'[n] = inconsistent[n]
        <5>1. CASE n = m
          <6>1. inconsistent[m] = FALSE
            BY <1>1, <2>4, <3>3, <5>1 DEF OneUnit, MutexTypes
          <6>. QED  BY <1>1, <2>2, <5>1, <6>1 DEF MutexTypes
        <5>2. CASE n # m
          BY <1>1, <2>2, <5>2 DEF MutexTypes
        <5>. QED  BY <5>1, <5>2
      <4>2. \A u \in Thread : Handed(u, n)' <=> Handed(u, n)
        BY <1>2, <3>1 DEF Handed, semvars
      <4>. QED  BY <1>1, <1>2, <3>1, <3>3, <4>1, <4>2, OtherUnit DEF semvars
    <3>. QED  BY <1>3, <2>3, <3>2, <3>3 DEF MutexInv
  <2>5. CASE OwnerGone(m)
    <3>1. pid' = [pid EXCEPT ![m] = None] /\ SemResetToOne(m)
      BY <2>5 DEF Consistent, OwnerGone
    <3>2. semcount[m] \in Int /\ pid[m] \in Thread
      BY <1>1, <2>5 DEF MutexTypes, OwnerGone
    <3>3. /\ semcount' \in [Mutex -> Int] /\ waiting' \in [Mutex -> SUBSET Thread]
          /\ \A n \in Mutex : /\ waiting'[n] \subseteq waiting[n]
                              /\ n # m => waiting'[n] = waiting[n] /\ semcount'[n] = semcount[n]
          /\ \A n \in Mutex : Counted(n)'
          /\ \/ /\ semcount[m] < 0 /\ semcount'[m] = semcount[m] + 1
                /\ \E w \in waiting[m] : waiting' = [waiting EXCEPT ![m] = @ \ {w}]
             \/ semcount[m] >= 0 /\ semcount'[m] = 1 /\ waiting' = waiting
      <4>1. CASE semcount[m] < 0
        <5>1. SemGive(m)
          BY <3>1, <4>1 DEF SemResetToOne
        <5>. QED  BY <1>1, <3>2, <4>1, <5>1, GiveUnit DEF MutexTypes
      <4>2. CASE semcount[m] >= 0
        <5>1. semcount' = [semcount EXCEPT ![m] = 1] /\ waiting' = waiting
          BY <3>1, <3>2, <4>2 DEF SemResetToOne
        <5>2. \A n \in Mutex : Counted(n)'
          BY <4>2, <5>1, CountNotNegative
        <5>. QED  BY <1>1, <4>2, <5>1, <5>2 DEF MutexTypes
      <4>. QED  BY <3>2, <4>1, <4>2
    <3>4. MutexTypes'
      BY <1>1, <1>2, <1>3, <2>2, <3>1, <3>3 DEF MutexTypes
    <3>5. CallsAgree'
      BY <1>1, <1>2, <3>3 DEF CallsAgree, MutexTypes
    <3>6. ASSUME NEW n \in Mutex, n # m, OneUnit(n) PROVE OneUnit(n)'
      <4>1. \A u \in Thread : Handed(u, n)' <=> Handed(u, n)
        BY <1>2, <3>3, <3>6 DEF Handed
      <4>2. pid'[n] = pid[n] /\ inconsistent'[n] = inconsistent[n]
        BY <1>1, <2>2, <3>1, <3>6 DEF MutexTypes
      <4>. QED  BY <1>1, <1>2, <3>3, <3>6, <4>1, <4>2, OtherUnit
    <3>7. ASSUME OneUnit(m), ~spoiled'[m] PROVE OneUnit(m)'
      <4>1. \A u \in Thread : ~Handed(u, m)
        BY <1>1, <1>2, <2>5, <3>7 DEF MutexTypes
      <4>2. \A u \in Thread : m \notin mhead'[u] /\ m \notin owns'[u]
        BY <1>1, <1>2, <2>5, <3>7 DEF OneUnit, OwnerGone, CallsAgree
      <4>3. pid'[m] = None /\ ~inconsistent'[m]
        BY <1>1, <2>2, <3>1 DEF MutexTypes
      <4>4. CASE semcount[m] < 0
        <5>1. PICK w \in waiting[m] : waiting' = [waiting EXCEPT ![m] = @ \ {w}]
          BY <3>2, <3>3, <4>4
        <5>2. w \in Thread /\ Handed(w, m)'
          BY <1>1, <1>2, <5>1 DEF CallsAgree, MutexTypes, Handed
        <5>3. \A u \in Thread : Handed(u, m)' => u = w
          BY <1>1, <1>2, <4>1, <5>1 DEF MutexTypes, Handed
        <5>4. semcount'[m] = semcount[m] + 1
          BY <3>2, <3>3, <4>4
        <5>. QED  BY <3>2, <4>2, <4>3, <4>4, <5>2, <5>3, <5>4 DEF OneUnit
      <4>5. CASE semcount[m] >= 0
        <5>1. semcount'[m] = 1 /\ waiting' = waiting
          BY <3>2, <3>3, <4>5
        <5>2. \A u \in Thread : ~Handed(u, m)'
          BY <1>2, <4>1, <5>1 DEF Handed
        <5>. QED  BY <4>2, <4>3, <5>1, <5>2 DEF OneUnit
      <4>. QED  BY <3>2, <4>4, <4>5
    <3>. QED  BY <1>3, <2>3, <3>3, <3>4, <3>5, <3>6, <3>7 DEF MutexInv
  <2>. QED  BY <1>5, <2>4, <2>5
<1>. QED  BY <1>4, <1>5

\* nxsem_wait_irq: the waiter is woken without the unit
LEMMA SignalInv ==
  ASSUME MutexInv, NEW t \in Thread, NEW m \in Mutex, Signal(t, m)
  PROVE  MutexInv'
<1>1. MutexTypes /\ CallsAgree /\ Flagged /\ \A n \in Mutex : n # None
  BY NoneIsNobody DEF MutexInv
<1>2. /\ t \in waiting[m] /\ semcount' = [semcount EXCEPT ![m] = @ + 1]
      /\ waiting' = [waiting EXCEPT ![m] = @ \ {t}] /\ intr' = [intr EXCEPT ![t] = TRUE]
      /\ UNCHANGED <<pid, inconsistent, mhead, call, state, owns, dirty, spoiled>>
  BY DEF Signal
<1>3. semcount[m] < 0 /\ \A n \in Mutex : Counted(n)'
  BY <1>2, LeaveWaiters
<1>4. MutexTypes' /\ Flagged'
  BY <1>1, <1>2 DEF MutexTypes, Flagged
<1>5. CallsAgree'
  BY <1>1, <1>2 DEF CallsAgree, MutexTypes
<1>6. \A n \in Mutex, u \in Thread : Handed(u, n)' <=> Handed(u, n)
  BY <1>1, <1>2 DEF Handed, CallsAgree, MutexTypes
<1>7. ASSUME NEW n \in Mutex, n # m, OneUnit(n) PROVE OneUnit(n)'
  <2>1. semcount'[n] = semcount[n]
    BY <1>1, <1>2, <1>7 DEF MutexTypes
  <2>. QED  BY <1>1, <1>2, <1>6, <1>7, <2>1, OtherUnit
<1>8. ASSUME OneUnit(m) PROVE OneUnit(m)'
  <2>1. semcount[m] \in Int /\ semcount'[m] = semcount[m] + 1 /\ semcount'[m] <= 0
    BY <1>1, <1>2, <1>3 DEF MutexTypes
  <2>. QED  BY <1>2, <1>3, <1>6, <1>8, <2>1 DEF OneUnit
<1>. QED  BY <1>2, <1>3, <1>4, <1>5, <1>7, <1>8 DEF MutexInv

\* pthread_exit begins and ends
LEMMA ExitInv ==
  ASSUME MutexInv, NEW t \in Thread, Exit(t) \/ Gone(t)
  PROVE  MutexInv'
<1>1. MutexTypes /\ CallsAgree /\ Flagged
  BY DEF MutexInv
<1>2. /\ UNCHANGED <<semvars, pid, inconsistent, mhead, call, intr, owns, dirty, spoiled>>
      /\ \/ state[t] = "live" /\ call[t] = None /\ state' = [state EXCEPT ![t] = "exiting"]
         \/ state[t] = "exiting" /\ mhead[t] = {} /\ state' = [state EXCEPT ![t] = "gone"]
  BY DEF Exit, Gone, Idle
<1>3. MutexTypes' /\ CallsAgree' /\ Flagged' /\ \A n \in Mutex : Counted(n)'
  <2>1. MutexTypes' /\ Flagged'
    BY <1>1, <1>2 DEF MutexTypes, Flagged, semvars
  <2>2. CallsAgree'
    BY <1>1, <1>2 DEF MutexTypes, CallsAgree, semvars
  <2>3. \A n \in Mutex : Counted(n)'
    BY <1>2 DEF MutexInv, Counted, semvars
  <2>. QED  BY <2>1, <2>2, <2>3
<1>4. ASSUME NEW n \in Mutex, OneUnit(n) PROVE OneUnit(n)'
  <2>1. \A u \in Thread : /\ Handed(u, n)' <=> Handed(u, n)
                          /\ state[u] # "live" => state'[u] # "live"
    BY <1>1, <1>2 DEF Handed, semvars, MutexTypes
  <2>. QED  BY <1>1, <1>2, <1>4, <2>1, OtherUnit DEF semvars
<1>. QED  BY <1>2, <1>3, <1>4 DEF MutexInv

\* A round of pthread_mutex_inconsistent: the flag goes up with the post
LEMMA MarkInconsistentInv ==
  ASSUME MutexInv, NEW t \in Thread, NEW m \in Mutex, Settled(t), MarkInconsistent(t, m)
  PROVE  MutexInv'
<1>1. MutexTypes /\ CallsAgree /\ Flagged /\ t # None /\ \A n \in Mutex : n # None
  BY NoneIsNobody DEF MutexInv
<1>2. /\ state[t] = "exiting" /\ m \in mhead[t]
      /\ mhead' = [mhead EXCEPT ![t] = @ \ {m}] /\ owns' = [owns EXCEPT ![t] = @ \ {m}]
      /\ inconsistent' = [inconsistent EXCEPT ![m] = TRUE]
      /\ dirty' = [dirty EXCEPT ![m] = @ \/ m \in owns[t]]
      /\ SemGive(m) /\ UNCHANGED <<pid, call, intr, state, spoiled>>
  BY DEF MarkInconsistent
<1>3. /\ semcount' = [semcount EXCEPT ![m] = @ + 1] /\ semcount' \in [Mutex -> Int]
      /\ waiting' \in [Mutex -> SUBSET Thread]
      /\ \A n \in Mutex : waiting'[n] \subseteq waiting[n] /\ (n # m => waiting'[n] = waiting[n])
      /\ \A n \in Mutex : Counted(n)'
      /\ \/ semcount[m] < 0 /\ \E w \in waiting[m] : waiting' = [waiting EXCEPT ![m] = @ \ {w}]
         \/ semcount[m] >= 0 /\ waiting' = waiting
  BY <1>2, GiveUnit
<1>4. MutexTypes'
  BY <1>1, <1>2, <1>3 DEF MutexTypes
<1>5. CallsAgree'
  BY <1>1, <1>2, <1>3 DEF CallsAgree, MutexTypes
<1>6. Flagged'
  BY <1>1, <1>2 DEF Flagged, MutexTypes
<1>7. ASSUME NEW n \in Mutex, n # m, OneUnit(n) PROVE OneUnit(n)'
  <2>1. \A u \in Thread : /\ Handed(u, n)' <=> Handed(u, n)
                          /\ n \in owns'[u] <=> n \in owns[u]
                          /\ n \in mhead'[u] <=> n \in mhead[u]
    BY <1>1, <1>2, <1>3, <1>7 DEF Handed, MutexTypes
  <2>2. semcount'[n] = semcount[n] /\ pid'[n] = pid[n] /\ inconsistent'[n] = inconsistent[n]
    BY <1>1, <1>2, <1>3, <1>7 DEF MutexTypes
  <2>. QED  BY <1>1, <1>2, <1>7, <2>1, <2>2, OtherUnit
<1>8. ASSUME OneUnit(m), ~spoiled[m] PROVE OneUnit(m)'
  <2>1. pid[m] = t /\ semcount[m] <= 0 /\ semcount[m] \in Int
    BY <1>1, <1>2, <1>8 DEF OneUnit, MutexTypes, Settled
  <2>2. \A u \in Thread : ~Handed(u, m)
    BY <1>2, <1>8 DEF OneUnit
  <2>3. \A u \in Thread : m \notin mhead'[u] /\ m \notin owns'[u]
    BY <1>1, <1>2, <1>8 DEF OneUnit, MutexTypes
  <2>4. /\ pid'[m] = t /\ inconsistent'[m] /\ semcount'[m] = semcount[m] + 1
        /\ state'[t] # "live"
    BY <1>1, <1>2, <1>3, <2>1 DEF MutexTypes
  <2>5. CASE semcount[m] < 0
    <3>1. PICK w \in waiting[m] : waiting' = [waiting EXCEPT ![m] = @ \ {w}]
      BY <1>3, <2>1, <2>5
    <3>2. \A u \in Thread : Handed(u, m)' => u = w
      BY <1>1, <1>2, <2>2, <3>1 DEF MutexTypes, Handed
    <3>. QED  BY <1>1, <2>1, <2>3, <2>4, <2>5, <3>2 DEF OneUnit
  <2>6. CASE semcount[m] = 0
    <3>1. \A u \in Thread : ~Handed(u, m)'
      BY <1>2, <1>3, <2>1, <2>2, <2>6 DEF Handed
    <3>. QED  BY <1>1, <2>3, <2>4, <2>6, <3>1 DEF OneUnit
  <2>. QED  BY <2>1, <2>5, <2>6
<1>. QED  BY <1>2, <1>3, <1>4, <1>5, <1>6, <1>7, <1>8 DEF MutexInv

\* What the steps of PthreadMutex do to the record: a new owner goes on it, and
\* the others on it stay.
RecordKept ==
  \A u \in Thread : \A m \in mhead'[u] :
    spoiled'[m] \/ pid'[m] = u \/ (m \in mhead[u] /\ pid'[m] = pid[m])

\* The lock, the unlock and the repair, and the rest.
LEMMA RecordSteps ==
  ASSUME MutexInv, MutexInv', NEW t \in Thread, \A m \in Mutex : spoiled[m] => spoiled'[m],
         \/ pid' = pid /\ \A u \in Thread : mhead'[u] \subseteq mhead[u]
         \/ \E m \in Mutex : /\ pid' = [pid EXCEPT ![m] = t]
                             /\ mhead' = [mhead EXCEPT ![t] = @ \cup {m}]
         \/ \E m \in Mutex : /\ pid[m] = t /\ pid' = [pid EXCEPT ![m] = None]
                             /\ mhead' = [mhead EXCEPT ![t] = @ \ {m}]
         \/ \E m \in Mutex : /\ OwnerGone(m) /\ pid' = [pid EXCEPT ![m] = None]
                             /\ mhead' = mhead
  PROVE  RecordKept
<1>. SUFFICES ASSUME NEW u \in Thread, NEW n \in mhead'[u], ~spoiled'[n], pid'[n] # u
              PROVE  n \in mhead[u] /\ pid'[n] = pid[n]
  BY DEF RecordKept
<1>1. MutexTypes /\ CallsAgree /\ MutexTypes' /\ n \in Mutex /\ t # None /\ u # None
  BY NoneIsNobody DEF MutexInv, MutexTypes
<1>2. OneUnit(n) /\ OneUnit(n)'
  BY <1>1 DEF MutexInv
<1>3. CASE pid' = pid /\ \A x \in Thread : mhead'[x] \subseteq mhead[x]
  BY <1>3
<1>4. ASSUME NEW m \in Mutex, pid' = [pid EXCEPT ![m] = t], mhead' = [mhead EXCEPT ![t] = @ \cup {m}]
      PROVE  n \in mhead[u] /\ pid'[n] = pid[n]
  <2>1. n # m
    BY <1>1, <1>2, <1>4 DEF OneUnit, MutexTypes
  <2>. QED  BY <1>1, <1>4, <2>1 DEF MutexTypes
<1>5. ASSUME NEW m \in Mutex, pid[m] = t, pid' = [pid EXCEPT ![m] = None],
             mhead' = [mhead EXCEPT ![t] = @ \ {m}]
      PROVE  n \in mhead[u] /\ pid'[n] = pid[n]
  <2>1. n \in mhead[u] /\ (n = m => u # t)
    BY <1>1, <1>5 DEF MutexTypes
  <2>2. n # m
    BY <1>1, <1>2, <1>5, <2>1 DEF OneUnit
  <2>. QED  BY <1>1, <1>5, <2>1, <2>2 DEF MutexTypes
<1>6. ASSUME NEW m \in Mutex, OwnerGone(m), pid' = [pid EXCEPT ![m] = None], mhead' = mhead
      PROVE  n \in mhead[u] /\ pid'[n] = pid[n]
  <2>1. n # m
    BY <1>1, <1>2, <1>6 DEF OneUnit, OwnerGone, CallsAgree
  <2>. QED  BY <1>1, <1>6, <2>1 DEF MutexTypes
<1>. QED  BY <1>3, <1>4, <1>5, <1>6

\* A step of PthreadMutex keeps the invariant and moves no other thread.
LEMMA MutexStepInv ==
  ASSUME MutexInv, RetTyped, NEW t \in Thread,
         \/ /\ Settled(t)
            /\ \/ LockReturns(t) \/ Exit(t) \/ Gone(t)
               \/ \E m \in Mutex : \/ Lock(t, m) \/ TryLock(t, m) \/ Unlock(t, m)
                                   \/ Consistent(t, m) \/ MarkInconsistent(t, m)
         \/ \E m \in Mutex : Signal(t, m)
  PROVE  /\ MutexInv' /\ RetTyped' /\ RecordKept
         /\ \A u \in Thread : u # t => /\ call'[u] = call[u] /\ state'[u] = state[u]
                                       /\ mhead'[u] = mhead[u] /\ owns'[u] = owns[u]
         /\ \A m \in Mutex : spoiled[m] => spoiled'[m]
<1>1. MutexInv'
  BY LockReturnsInv, ExitInv, LockInv, TryLockInv, UnlockInv, ConsistentInv, SignalInv,
     MarkInconsistentInv
<1>2. RetTyped'
  <2>1. ret' = ret \/ \E code \in Code : ret' = [ret EXCEPT ![t] = code]
    BY DEF Code, LockReturns, Exit, Gone, Lock, TryLock, Unlock, Consistent, Signal,
           MarkInconsistent, Returns, OwnerDead, Acquire
  <2>. QED  BY <2>1 DEF RetTyped
<1>3. \A u \in Thread : u # t => call'[u] = call[u] /\ state'[u] = state[u]
  BY DEF MutexInv, MutexTypes, LockReturns, Exit, Gone, Lock, TryLock, Unlock, Consistent, Signal,
         MarkInconsistent
<1>4. \A m \in Mutex : spoiled[m] => spoiled'[m]
  BY DEF MutexInv, MutexTypes, LockReturns, Exit, Gone, Lock, TryLock, Unlock, Consistent, Signal,
         MarkInconsistent
<1>5. \A u \in Thread : u # t => mhead'[u] = mhead[u] /\ owns'[u] = owns[u]
  BY DEF MutexInv, MutexTypes, LockReturns, Exit, Gone, Lock, TryLock, Unlock, Consistent, Signal,
         MarkInconsistent, OwnerDead, Acquire
<1>6. \/ pid' = pid /\ \A u \in Thread : mhead'[u] \subseteq mhead[u]
      \/ \E m \in Mutex : /\ pid' = [pid EXCEPT ![m] = t]
                          /\ mhead' = [mhead EXCEPT ![t] = @ \cup {m}]
      \/ \E m \in Mutex : /\ pid[m] = t /\ pid' = [pid EXCEPT ![m] = None]
                          /\ mhead' = [mhead EXCEPT ![t] = @ \ {m}]
      \/ \E m \in Mutex : /\ OwnerGone(m) /\ pid' = [pid EXCEPT ![m] = None]
                          /\ mhead' = mhead
  <2>1. MutexTypes
    BY DEF MutexInv
  <2>2. CASE LockReturns(t)
    <3>1. call[t] \in Mutex
      BY <2>1, <2>2 DEF LockReturns, MutexTypes
    <3>. QED  BY <2>2, <3>1 DEF LockReturns, OwnerDead, Acquire
  <2>3. CASE Exit(t) \/ Gone(t) \/ \E m \in Mutex : Signal(t, m)
    BY <2>3 DEF Exit, Gone, Signal
  <2>4. ASSUME NEW m \in Mutex, Lock(t, m) \/ TryLock(t, m) PROVE <1>6!:
    BY <2>4 DEF Lock, TryLock, OwnerDead, Acquire
  <2>5. ASSUME NEW m \in Mutex, Unlock(t, m) \/ Consistent(t, m) PROVE <1>6!:
    BY <2>5 DEF Unlock, Consistent
  <2>6. ASSUME NEW m \in Mutex, MarkInconsistent(t, m) PROVE <1>6!:
    BY <2>1, <2>6 DEF MarkInconsistent, MutexTypes
  <2>. QED  BY <2>2, <2>3, <2>4, <2>5, <2>6
<1>7. RecordKept
  BY <1>1, <1>4, <1>6, RecordSteps
<1>. QED  BY <1>1, <1>2, <1>3, <1>4, <1>5, <1>7

\* Nothing that a mutex knows has changed.
LEMMA MutexFrame ==
  ASSUME MutexInv, RetTyped, UNCHANGED vars
  PROVE  MutexInv' /\ RetTyped'
BY DEF vars, MutexInv, RetTyped, MutexTypes, CallsAgree, Flagged, Counted, OneUnit, Handed

\* Nor has the record, while nobody comes from writing a pid.
LEMMA RecordFrame ==
  ASSUME Recorded, UNCHANGED <<vars, cmutex>>,
         \A u \in Thread : cpc[u] = "setpid" => cpc'[u] = "setpid"
  PROVE  Recorded'
BY DEF Recorded, vars

(***************************************************************************)
(* The steps of PthreadCond.                                               *)
(***************************************************************************)
\* A thread that makes a call on a mutex, or is interrupted in one
LEMMA MutexCallInv ==
  ASSUME CondInv, NEW t \in Thread,
         MutexCall(t) \/ \E m \in Mutex : Signal(t, m) /\ UNCHANGED condvars
  PROVE  CondInv'
<1>1. /\ MutexInv /\ RetTyped /\ CondTypes /\ CondCounted /\ CondPlaces /\ LockerPlaces
      /\ Recorded
  BY DEF CondInv
<1>2. /\ MutexInv' /\ RetTyped' /\ RecordKept
      /\ \A u \in Thread : u # t => /\ call'[u] = call[u] /\ state'[u] = state[u]
                                    /\ mhead'[u] = mhead[u] /\ owns'[u] = owns[u]
      /\ \A m \in Mutex : spoiled[m] => spoiled'[m]
  <2>1. cpc[t] = "none" => Settled(t)
    BY <1>1 DEF Recorded, Settled
  <2>. QED  BY <1>1, <2>1, MutexStepInv DEF MutexCall
<1>3. UNCHANGED condvars
  BY DEF MutexCall
<1>4. CondTypes' /\ CondCounted'
  BY <1>1, <1>3 DEF CondTypes, CondCounted, condvars
<1>5. Recorded'
  <2>1. MutexTypes /\ MutexTypes'
    BY <1>1, <1>2 DEF MutexInv
  <2>. QED  BY <1>1, <1>2, <1>3, <2>1 DEF Recorded, RecordKept, MutexTypes, condvars
<1>6. CondPlaces' /\ LockerPlaces'
  <2>1. CASE cpc[t] = "none" /\ locker = None
    BY <1>1, <1>2, <1>3, <2>1, NoneIsNobody DEF CondPlaces, LockerPlaces, condvars
  <2>2. CASE UNCHANGED <<call, state, mhead, owns>>
    BY <1>1, <1>2, <1>3, <2>2 DEF CondPlaces, LockerPlaces, condvars
  <2>. QED  BY <2>1, <2>2 DEF MutexCall, Signal
<1>. QED  BY <1>2, <1>4, <1>5, <1>6 DEF CondInv

\* The mutex is given up, with pre-emption disabled
LEMMA CondWaitInv ==
  ASSUME CondInv, NEW t \in Thread, NEW m \in Mutex, NEW withTimeout \in BOOLEAN,
         CondWait(t, m, withTimeout)
  PROVE  CondInv'
<1>1. /\ MutexInv /\ RetTyped /\ CondTypes /\ CondCounted /\ CondPlaces /\ LockerPlaces
      /\ Recorded /\ MutexTypes
  BY DEF CondInv, MutexInv
<1>2. MutexInv' /\ RetTyped'
  BY <1>1, GivenUpInv DEF CondWait, At, RetTyped
<1>3. locker = None
  BY <1>1 DEF CondWait, At, LockerPlaces
<1>4. mflags' \in [Thread -> BOOLEAN] /\ (inconsistent[m] => spoiled[m])
  BY <1>1 DEF CondWait, At, CondTypes, MutexTypes, MutexInv, OneUnit
<1>5. CondTypes'
  BY <1>1, <1>4 DEF CondWait, CondGoTo, CondTypes
<1>6. CondCounted'
  BY <1>1 DEF CondWait, CondCounted
<1>7. CondPlaces'
  BY <1>1, <1>4 DEF CondWait, CondGoTo, CondPlaces, CondTypes, At
<1>8. LockerPlaces'
  BY <1>1, <1>3, NoneIsNobody DEF CondWait, CondGoTo, LockerPlaces, CondTypes
<1>9. Recorded'
  <2>1. /\ cpc[t] = "none" /\ cpc' = [cpc EXCEPT ![t] = "take"] /\ cmutex' = [cmutex EXCEPT ![t] = m]
        /\ pid[m] = t /\ pid' = [pid EXCEPT ![m] = None] /\ mhead' = [mhead EXCEPT ![t] = @ \ {m}]
        /\ spoiled' = spoiled
    BY DEF CondWait, At, CondGoTo
  <2>2. RecordKept
    BY <1>1, <1>2, <2>1, RecordSteps
  <2>3. \A u \in Thread : /\ mhead'[u] \subseteq mhead[u] /\ mhead[u] \subseteq Mutex
                          /\ u # t => cpc'[u] = cpc[u] /\ cmutex'[u] = cmutex[u]
    BY <1>1, <2>1 DEF MutexTypes, CondTypes
  <2>. QED  BY <1>1, <2>1, <2>2, <2>3 DEF Recorded, RecordKept
<1>. QED  BY <1>2, <1>5, <1>6, <1>7, <1>8, <1>9 DEF CondInv

\* nxsem_wait on the condition's semaphore
LEMMA TakeCondCounted ==
  ASSUME CondTypes, CondCounted, NEW t \in Thread, t \notin cwaiting, TakeCond(t)
  PROVE  csem' \in Int /\ cwaiting' \in SUBSET Thread /\ CondCounted'
<1>1. csem \in Int /\ cwaiting \in SUBSET Thread /\ csem' = csem - 1
  BY DEF CondTypes, TakeCond
<1>2. CASE csem > 0
  BY <1>1, <1>2 DEF CondCounted, TakeCond
<1>3. CASE csem <= 0
  <2>1. cwaiting' = cwaiting \cup {t}
    BY <1>1, <1>3 DEF TakeCond
  <2>2. Cardinality(cwaiting') = Cardinality(cwaiting) + 1
    BY <1>1, <2>1, ThreadSets
  <2>. QED  BY <1>1, <1>3, <2>1, <2>2 DEF CondCounted
<1>. QED  BY <1>1, <1>2, <1>3

\* The wait begins, or finds a post that came too late for another.
LEMMA CondTakeInv ==
  ASSUME CondInv, NEW t \in Thread, CondTake(t)
  PROVE  CondInv'
<1>1. /\ MutexInv /\ RetTyped /\ CondTypes /\ CondCounted /\ CondPlaces /\ LockerPlaces
      /\ Recorded
  BY DEF CondInv
<1>2. MutexInv' /\ RetTyped'
  BY <1>1, MutexFrame DEF CondTake
<1>3. /\ cpc[t] = "take" /\ state[t] = "live" /\ TakeCond(t)
      /\ UNCHANGED <<vars, cmutex, timed, cintr, mflags, gives>>
  BY DEF CondTake, At
<1>4. csem' \in Int /\ cwaiting' \in SUBSET Thread /\ CondCounted'
  BY <1>1, <1>3, TakeCondCounted DEF CondPlaces
<1>5. CondTypes'
  BY <1>1, <1>3, <1>4 DEF CondTypes, TakeCond, CondGoTo
<1>6. CondPlaces'
  BY <1>1, <1>3 DEF CondPlaces, CondTypes, TakeCond, CondGoTo, vars
<1>7. LockerPlaces'
  BY <1>1, <1>3, NoneIsNobody DEF LockerPlaces, CondPlaces, CondTypes, TakeCond, CondGoTo, vars
<1>8. Recorded'
  BY <1>1, <1>3, RecordFrame DEF TakeCond, CondGoTo, CondTypes
<1>. QED  BY <1>2, <1>4, <1>5, <1>6, <1>7, <1>8 DEF CondInv

\* A signal or the timeout takes a waiter off.
LEMMA CondSignalledInv ==
  ASSUME CondInv, NEW t \in Thread, CondSignalled(t)
  PROVE  CondInv'
<1>1. /\ MutexInv /\ RetTyped /\ CondTypes /\ CondCounted /\ CondPlaces /\ LockerPlaces
      /\ Recorded
  BY DEF CondInv
<1>2. MutexInv' /\ RetTyped'
  BY <1>1, MutexFrame DEF CondSignalled
<1>3. /\ t \in cwaiting /\ csem' = csem + 1 /\ cwaiting' = cwaiting \ {t}
      /\ csem \in Int /\ cwaiting \in SUBSET Thread
      /\ UNCHANGED <<vars, cpc, cmutex, timed, mflags, gives, locker>>
  BY <1>1 DEF CondSignalled, CondTypes
<1>4. Cardinality(cwaiting') = Cardinality(cwaiting) - 1 /\ Cardinality(cwaiting) \in Nat \ {0}
  BY <1>3, ThreadSets
<1>5. CondCounted'
  BY <1>1, <1>3, <1>4 DEF CondCounted
<1>6. CondTypes'
  BY <1>1, <1>3 DEF CondTypes, CondSignalled
<1>7. CondPlaces'
  BY <1>1, <1>3 DEF CondPlaces, vars
<1>8. LockerPlaces'
  BY <1>1, <1>3 DEF LockerPlaces, CondTypes, vars
<1>9. Recorded'
  BY <1>1, <1>3, RecordFrame
<1>. QED  BY <1>2, <1>5, <1>6, <1>7, <1>8, <1>9 DEF CondInv

\* The woken thread waits again, or goes on to the mutex.
LEMMA CondWokenInv ==
  ASSUME CondInv, NEW t \in Thread, CondWoken(t)
  PROVE  CondInv'
<1>1. /\ MutexInv /\ RetTyped /\ CondTypes /\ CondCounted /\ CondPlaces /\ LockerPlaces
      /\ Recorded
  BY DEF CondInv
<1>2. MutexInv' /\ RetTyped'
  BY <1>1, MutexFrame DEF CondWoken
<1>3. /\ cpc[t] = "wait" /\ state[t] = "live" /\ t \notin cwaiting /\ locker \in {None, t}
      /\ UNCHANGED <<vars, cmutex, timed, mflags, gives>>
  BY DEF CondWoken, At
<1>4. CASE TakeCond(t) /\ cintr' = [cintr EXCEPT ![t] = FALSE]
  <2>1. csem' \in Int /\ cwaiting' \in SUBSET Thread /\ CondCounted'
    BY <1>1, <1>3, <1>4, TakeCondCounted
  <2>2. CondTypes'
    BY <1>1, <1>3, <1>4, <2>1 DEF CondTypes, TakeCond, CondGoTo
  <2>3. CondPlaces'
    BY <1>1, <1>3, <1>4 DEF CondPlaces, CondTypes, TakeCond, CondGoTo, vars
  <2>4. LockerPlaces'
    BY <1>1, <1>3, <1>4, NoneIsNobody
       DEF LockerPlaces, CondPlaces, CondTypes, TakeCond, CondGoTo, vars
  <2>5. Recorded'
    BY <1>1, <1>3, <1>4, RecordFrame DEF TakeCond, CondGoTo, CondTypes
  <2>. QED  BY <1>2, <2>1, <2>2, <2>3, <2>4, <2>5 DEF CondInv
<1>5. CASE /\ CondGoTo(t, "retake") /\ locker' = (IF timed[t] THEN t ELSE None)
           /\ UNCHANGED <<csem, cwaiting, cintr>>
  <2>1. CondTypes' /\ CondCounted'
    BY <1>1, <1>3, <1>5 DEF CondTypes, CondCounted, CondGoTo
  <2>2. CondPlaces'
    BY <1>1, <1>3, <1>5 DEF CondPlaces, CondTypes, CondGoTo, vars
  <2>3. LockerPlaces'
    BY <1>1, <1>3, <1>5, NoneIsNobody DEF LockerPlaces, CondPlaces, CondTypes, CondGoTo, vars
  <2>4. Recorded'
    BY <1>1, <1>3, <1>5, RecordFrame DEF CondGoTo, CondTypes
  <2>. QED  BY <1>2, <2>1, <2>2, <2>3, <2>4 DEF CondInv
<1>. QED  BY <1>4, <1>5 DEF CondWoken

\* The codes that the end of a wait for a condition can leave.
LEMMA RetTypedStep ==
  ASSUME RetTyped, NEW t \in Thread, NEW code \in Code, Returns(t, code)
  PROVE  RetTyped' /\ ret'[t] = code
BY DEF RetTyped, Returns

\* The wait is over, with or without the mutex.
LEMMA CondReturnsInv ==
  ASSUME CondInv, NEW t \in Thread, state[t] = "live", cpc[t] \in {"retake", "setflags"},
         CondReturns(t), MutexInv', RetTyped',
         locker \in {None, t}, locker' = None,
         call' = [call EXCEPT ![t] = None],
         UNCHANGED <<state, spoiled, csem, cwaiting, gives, mhead, owns, pid>>
  PROVE  CondInv'
<1>1. MutexTypes /\ CondTypes /\ CondCounted /\ CondPlaces /\ LockerPlaces /\ Recorded
  BY DEF CondInv, MutexInv
<1>2. CondTypes' /\ CondCounted'
  BY <1>1 DEF CondTypes, CondCounted, CondReturns, CondGoTo
<1>3. CondPlaces'
  BY <1>1 DEF CondPlaces, CondTypes, MutexTypes, CondReturns, CondGoTo
<1>4. LockerPlaces'
  BY <1>1, NoneIsNobody DEF LockerPlaces, CondTypes, MutexTypes, CondReturns, CondGoTo
<1>5. Recorded'
  BY <1>1 DEF Recorded, CondTypes, CondReturns, CondGoTo
<1>. QED  BY <1>2, <1>3, <1>4, <1>5 DEF CondInv

\* The mutex is back on the thread's list; its pid is not written yet.
LEMMA ReacquiredInv ==
  ASSUME CondInv, NEW t \in Thread, state[t] = "live", cpc[t] = "retake",
         call[t] \in {None, cmutex[t]}, t \notin waiting[cmutex[t]],
         ~inconsistent[cmutex[t]], Reacquired(t, cmutex[t]),
         \/ /\ semcount[cmutex[t]] > 0
            /\ semcount' = [semcount EXCEPT ![cmutex[t]] = @ - 1]
         \/ Handed(t, cmutex[t]) /\ semcount' = semcount,
         locker \in {None, t},
         call' = [call EXCEPT ![t] = None], intr' = [intr EXCEPT ![t] = FALSE],
         UNCHANGED <<waiting, state, dirty, spoiled, csem, cwaiting, gives>>
  PROVE  CondInv'
<1>. DEFINE m == cmutex[t]
<1>1. /\ MutexInv /\ MutexTypes /\ RetTyped /\ CondTypes /\ CondCounted /\ CondPlaces
      /\ LockerPlaces /\ Recorded
  BY DEF CondInv, MutexInv
<1>2. m \in Mutex
  BY <1>1 DEF CondPlaces
<1>3. /\ mhead' = [mhead EXCEPT ![t] = @ \cup {m}] /\ owns' = [owns EXCEPT ![t] = @ \cup {m}]
      /\ cpc' = [cpc EXCEPT ![t] = "setpid"] /\ locker' = IF timed[t] THEN t ELSE None
      /\ UNCHANGED <<pid, inconsistent, ret, cmutex, timed, cintr, mflags>>
  BY DEF Reacquired, CondGoTo
<1>4. MutexInv'
  BY <1>1, <1>2, <1>3, AcquireInv
<1>5. RetTyped' /\ CondTypes' /\ CondCounted'
  BY <1>1, <1>3 DEF RetTyped, CondTypes, CondCounted
<1>6. CondPlaces'
  BY <1>1, <1>2, <1>3 DEF CondPlaces, CondTypes, MutexTypes
<1>7. LockerPlaces'
  BY <1>1, <1>3, NoneIsNobody DEF LockerPlaces, CondTypes, MutexTypes
<1>8. Recorded'
  BY <1>1, <1>3 DEF Recorded, CondTypes, MutexTypes
<1>. QED  BY <1>4, <1>5, <1>6, <1>7, <1>8 DEF CondInv

\* mutex->pid = getpid()
LEMMA SetPidInv ==
  ASSUME CondInv, NEW t \in Thread, SetPid(t)
  PROVE  CondInv'
<1>. DEFINE m == cmutex[t]
<1>1. /\ MutexInv /\ MutexTypes /\ RetTyped /\ CondTypes /\ CondCounted /\ CondPlaces
      /\ LockerPlaces /\ Recorded
  BY DEF CondInv, MutexInv
<1>2. /\ state[t] = "live" /\ cpc[t] = "setpid" /\ pid' = [pid EXCEPT ![m] = t]
      /\ cpc' = [cpc EXCEPT ![t] = "setflags"]
      /\ UNCHANGED <<semcount, waiting, inconsistent, mhead, call, intr, ret, state, owns, dirty,
                     spoiled, csem, cwaiting, cmutex, timed, cintr, mflags, gives, locker>>
  BY DEF SetPid, At, CondGoTo, semvars
<1>3. m \in Mutex /\ m \in mhead[t]
  BY <1>1, <1>2 DEF CondPlaces
<1>4. MutexInv'
  <2>1. MutexTypes' /\ CallsAgree' /\ Flagged' /\ \A n \in Mutex : Counted(n)'
    BY <1>1, <1>2, <1>3 DEF MutexInv, MutexTypes, CallsAgree, Flagged, Counted
  <2>2. \A n \in Mutex, u \in Thread : Handed(u, n)' <=> Handed(u, n)
    BY <1>2 DEF Handed
  <2>3. ASSUME NEW n \in Mutex, n # m, OneUnit(n) PROVE OneUnit(n)'
    BY <1>1, <1>2, <2>2, <2>3, OtherUnit DEF MutexTypes
  <2>4. ASSUME OneUnit(m) PROVE OneUnit(m)'
    <3>1. pid'[m] = t /\ t # None
      BY <1>1, <1>2, <1>3, NoneIsNobody DEF MutexTypes
    <3>2. \A u \in Thread : m \in mhead[u] => u = t
      BY <1>3, <2>4 DEF OneUnit
    <3>. QED  BY <1>2, <1>3, <2>2, <2>4, <3>1, <3>2 DEF OneUnit
  <2>. QED  BY <1>1, <1>2, <2>1, <2>3, <2>4 DEF MutexInv
<1>5. RetTyped' /\ CondTypes' /\ CondCounted'
  BY <1>1, <1>2 DEF RetTyped, CondTypes, CondCounted
<1>6. CondPlaces'
  BY <1>1, <1>2 DEF CondPlaces, CondTypes
<1>7. LockerPlaces'
  BY <1>1, <1>2, NoneIsNobody DEF LockerPlaces, CondTypes
<1>8. Recorded'
  <2>. SUFFICES ASSUME NEW u \in Thread, NEW n \in mhead[u], ~spoiled[n]
                PROVE  pid'[n] = u \/ (cpc'[u] = "setpid" /\ cmutex[u] = n)
    BY <1>2 DEF Recorded
  <2>1. n \in Mutex /\ OneUnit(n)
    BY <1>1 DEF MutexInv, MutexTypes
  <2>2. CASE n = m
    BY <1>1, <1>2, <1>3, <2>1, <2>2 DEF OneUnit, MutexTypes
  <2>3. CASE n # m
    BY <1>1, <1>2, <2>1, <2>3 DEF Recorded, MutexTypes, CondTypes
  <2>. QED  BY <2>2, <2>3
<1>. QED  BY <1>4, <1>5, <1>6, <1>7, <1>8 DEF CondInv

\* mutex->flags = mflags: they differ from what they were only if the unit was
\* doubled.
LEMMA SetFlagsInv ==
  ASSUME CondInv, NEW t \in Thread, SetFlags(t)
  PROVE  CondInv'
<1>. DEFINE m == cmutex[t]
<1>1. /\ MutexInv /\ MutexTypes /\ RetTyped /\ CondTypes /\ CondPlaces
  BY DEF CondInv, MutexInv
<1>2. /\ state[t] = "live" /\ cpc[t] = "setflags" /\ locker \in {None, t} /\ locker' = None
      /\ inconsistent' = [inconsistent EXCEPT ![m] = mflags[t]] /\ CondReturns(t)
      /\ UNCHANGED <<semcount, waiting, pid, mhead, call, intr, state, owns, dirty, spoiled,
                     csem, cwaiting, gives>>
  BY DEF SetFlags, At, semvars
<1>3. /\ m \in Mutex /\ m \in mhead[t] /\ mflags[t] \in BOOLEAN /\ (mflags[t] => spoiled[m])
      /\ call[t] = None
  BY <1>1, <1>2 DEF CondPlaces, CondTypes
<1>4. MutexInv'
  <2>1. MutexTypes' /\ CallsAgree' /\ \A n \in Mutex : Counted(n)'
    BY <1>1, <1>2, <1>3 DEF MutexInv, MutexTypes, CallsAgree, Counted
  <2>2. ASSUME NEW n \in Mutex, ~spoiled[n] PROVE inconsistent'[n] = inconsistent[n]
    <3>1. n = m => ~inconsistent[n] /\ ~mflags[t] /\ inconsistent[n] \in BOOLEAN
      BY <1>1, <1>3, <2>2 DEF MutexInv, MutexTypes, OneUnit
    <3>. QED  BY <1>1, <1>2, <1>3, <3>1 DEF MutexTypes
  <2>3. Flagged'
    BY <1>1, <1>2, <2>2 DEF MutexInv, Flagged
  <2>4. \A n \in Mutex, u \in Thread : Handed(u, n)' <=> Handed(u, n)
    BY <1>2 DEF Handed
  <2>5. ASSUME NEW n \in Mutex, ~spoiled[n], OneUnit(n) PROVE OneUnit(n)'
    BY <1>1, <1>2, <2>2, <2>4, <2>5, OtherUnit
  <2>. QED  BY <1>1, <1>2, <2>1, <2>3, <2>5 DEF MutexInv
<1>5. RetTyped'
  BY <1>1, RetTypedStep DEF SetFlags, Code
<1>6. call' = [call EXCEPT ![t] = None]
  BY <1>1, <1>2, <1>3, IdleFacts
<1>. QED  BY <1>2, <1>4, <1>5, <1>6, CondReturnsInv

\* nxsem_wait on the mutex, by a thread that was not waiting for it
LEMMA TakeMutexInv ==
  ASSUME CondInv, NEW t \in Thread, state[t] = "live", cpc[t] = "retake",
         call[t] = None \/ (call[t] = cmutex[t] /\ intr[t]), t \notin waiting[cmutex[t]],
         TakeMutex(t, cmutex[t]), intr' = [intr EXCEPT ![t] = FALSE],
         locker \in {None, t},
         UNCHANGED <<state, dirty, spoiled, csem, cwaiting, gives>>
  PROVE  CondInv'
<1>. DEFINE m == cmutex[t]
<1>1. /\ MutexInv /\ MutexTypes /\ RetTyped /\ CondTypes /\ CondCounted /\ CondPlaces
      /\ LockerPlaces /\ Recorded
  BY DEF CondInv, MutexInv
<1>2. m \in Mutex
  BY <1>1 DEF CondPlaces
<1>3. semcount' = [semcount EXCEPT ![m] = @ - 1]
  BY DEF TakeMutex
<1>4. CASE /\ semcount[m] > 0 /\ waiting' = waiting /\ call' = [call EXCEPT ![t] = None]
           /\ inconsistent[m] /\ NotReacquired(t)
  <2>1. inconsistent' = [inconsistent EXCEPT ![m] = TRUE]
    BY <1>1, <1>2, <1>4 DEF NotReacquired, MutexTypes
  <2>2. MutexInv'
    BY <1>1, <1>2, <1>3, <1>4, <2>1, RefusedInv DEF NotReacquired
  <2>3. RetTyped'
    BY <1>1, <1>4, RetTypedStep DEF NotReacquired, Code
  <2>. QED  BY <1>4, <2>2, <2>3, CondReturnsInv DEF NotReacquired
<1>5. CASE /\ semcount[m] > 0 /\ waiting' = waiting /\ call' = [call EXCEPT ![t] = None]
           /\ ~inconsistent[m] /\ Reacquired(t, m)
  BY <1>3, <1>5, ReacquiredInv
<1>6. CASE /\ semcount[m] <= 0 /\ waiting' = [waiting EXCEPT ![m] = @ \cup {t}]
           /\ call' = [call EXCEPT ![t] = m] /\ locker' = None
           /\ UNCHANGED <<mhead, pid, owns, inconsistent, ret, cpc, cmutex, timed, cintr, mflags>>
  <2>1. MutexInv' /\ RetTyped'
    BY <1>1, <1>2, <1>3, <1>6, BlockedInv DEF RetTyped
  <2>2. CondTypes' /\ CondCounted'
    BY <1>1, <1>6 DEF CondTypes, CondCounted
  <2>3. CondPlaces'
    BY <1>1, <1>2, <1>6 DEF CondPlaces, CondTypes, MutexTypes
  <2>4. LockerPlaces'
    BY <1>1, <1>6, NoneIsNobody DEF LockerPlaces, MutexTypes, CondTypes
  <2>5. Recorded'
    BY <1>1, <1>6 DEF Recorded
  <2>. QED  BY <2>1, <2>2, <2>3, <2>4, <2>5 DEF CondInv
<1>. QED  BY <1>4, <1>5, <1>6 DEF TakeMutex, Taken

\* pthread_mutex_take after the wait for the condition
LEMMA RetakeInv ==
  ASSUME CondInv, NEW t \in Thread, Retake(t)
  PROVE  CondInv'
<1>. DEFINE m == cmutex[t]
<1>1. /\ MutexInv /\ MutexTypes /\ RetTyped /\ CondTypes /\ CondCounted /\ CondPlaces
      /\ LockerPlaces /\ Recorded
  BY DEF CondInv, MutexInv
<1>2. /\ state[t] = "live" /\ cpc[t] = "retake" /\ locker \in {None, t} /\ call[t] = None
      /\ UNCHANGED <<intr, state, dirty, spoiled, csem, cwaiting, gives>>
  BY DEF Retake, At
<1>3. m \in Mutex
  BY <1>1, <1>2 DEF CondPlaces
<1>4. /\ t \notin waiting[m] /\ call = [call EXCEPT ![t] = None]
      /\ intr = [intr EXCEPT ![t] = FALSE]
  BY <1>1, <1>2, <1>3, IdleFacts
<1>5. CASE inconsistent[m] /\ NotReacquired(t) /\ UNCHANGED <<semvars, call>>
  <2>1. inconsistent' = [inconsistent EXCEPT ![m] = TRUE]
    BY <1>1, <1>3, <1>5 DEF NotReacquired, MutexTypes
  <2>2. MutexInv'
    BY <1>1, <1>2, <1>3, <1>4, <1>5, <2>1, RefusedInv DEF NotReacquired, semvars
  <2>3. RetTyped'
    BY <1>1, <1>5, RetTypedStep DEF NotReacquired, Code
  <2>. QED  BY <1>2, <1>4, <1>5, <2>2, <2>3, CondReturnsInv DEF NotReacquired
<1>6. CASE TakeMutex(t, m)
  BY <1>2, <1>4, <1>6, TakeMutexInv
<1>. QED  BY <1>5, <1>6 DEF Retake

\* The rest of it after the wait for the mutex
LEMMA RetakeReturnsInv ==
  ASSUME CondInv, NEW t \in Thread, RetakeReturns(t)
  PROVE  CondInv'
<1>. DEFINE m == cmutex[t]
<1>1. /\ MutexInv /\ MutexTypes /\ RetTyped /\ CondTypes /\ CondCounted /\ CondPlaces
      /\ LockerPlaces /\ Recorded
  BY DEF CondInv, MutexInv
<1>2. /\ state[t] = "live" /\ cpc[t] = "retake" /\ call[t] # None
      /\ t \notin waiting[call[t]] /\ intr' = [intr EXCEPT ![t] = FALSE]
      /\ UNCHANGED <<state, dirty, spoiled, csem, cwaiting, gives>>
  BY DEF RetakeReturns, At
<1>3. call[t] = m /\ m \in Mutex
  BY <1>1, <1>2 DEF CondPlaces
<1>4. locker = None
  BY <1>1, <1>2 DEF RetakeReturns, At, LockerPlaces
<1>5. CASE intr[t] /\ TakeMutex(t, m)
  BY <1>2, <1>3, <1>4, <1>5, TakeMutexInv
<1>6. CASE ~intr[t] /\ inconsistent[m] /\ NotReacquired(t) /\ call' = [call EXCEPT ![t] = None]
           /\ UNCHANGED semvars
  <2>1. inconsistent' = [inconsistent EXCEPT ![m] = TRUE]
    BY <1>1, <1>3, <1>6 DEF NotReacquired, MutexTypes
  <2>2. MutexInv'
    BY <1>1, <1>2, <1>3, <1>6, <2>1, RefusedInv DEF NotReacquired, semvars
  <2>3. RetTyped'
    BY <1>1, <1>6, RetTypedStep DEF NotReacquired, Code
  <2>. QED  BY <1>2, <1>4, <1>6, <2>2, <2>3, CondReturnsInv DEF NotReacquired
<1>7. CASE ~intr[t] /\ ~inconsistent[m] /\ Reacquired(t, m) /\ call' = [call EXCEPT ![t] = None]
           /\ UNCHANGED semvars
  <2>1. Handed(t, m)
    BY <1>2, <1>3, <1>7 DEF Handed
  <2>. QED  BY <1>2, <1>3, <1>4, <1>7, <2>1, ReacquiredInv DEF semvars
<1>. QED  BY <1>3, <1>5, <1>6, <1>7 DEF RetakeReturns, Taken

\* pthread_cond_signal and pthread_cond_broadcast read the count.
LEMMA BeginGivingInv ==
  ASSUME CondInv, NEW t \in Thread, CondSignal(t) \/ Broadcast(t)
  PROVE  CondInv'
<1>1. /\ MutexInv /\ RetTyped /\ CondTypes /\ CondCounted /\ CondPlaces /\ LockerPlaces
      /\ Recorded
  BY DEF CondInv
<1>2. /\ state[t] = "live" /\ cpc[t] = "none" /\ call[t] = None /\ csem < 0 /\ csem \in Int
      /\ cpc' = [cpc EXCEPT ![t] = "give"] /\ locker = None /\ locker' \in {None, t}
      /\ gives' \in [Thread -> Nat] /\ (locker' = t => gives'[t] = -csem)
      /\ (\A u \in Thread : u # t => gives'[u] = gives[u])
      /\ UNCHANGED <<vars, csem, cwaiting, cmutex, timed, cintr, mflags>>
  <2>1. locker = None
    BY <1>1 DEF CondSignal, Broadcast, At, LockerPlaces
  <2>. QED  BY <1>1, <2>1, NoneIsNobody DEF CondSignal, Broadcast, At, CondGoTo, CondTypes
<1>3. MutexInv' /\ RetTyped'
  BY <1>1, <1>2, MutexFrame
<1>4. CondTypes' /\ CondCounted'
  BY <1>1, <1>2 DEF CondTypes, CondCounted
<1>5. CondPlaces'
  BY <1>1, <1>2 DEF CondPlaces, CondTypes, vars
<1>6. LockerPlaces'
  BY <1>1, <1>2, NoneIsNobody DEF LockerPlaces, CondTypes, vars
<1>7. Recorded'
  BY <1>1, <1>2, RecordFrame DEF CondTypes
<1>. QED  BY <1>3, <1>4, <1>5, <1>6, <1>7 DEF CondInv

\* A post wakes a waiter exactly if the count is negative.
LEMMA CondGiveInv ==
  ASSUME CondInv, NEW t \in Thread, CondGive(t)
  PROVE  CondInv'
<1>1. /\ MutexInv /\ RetTyped /\ CondTypes /\ CondCounted /\ CondPlaces /\ LockerPlaces
      /\ Recorded
  BY DEF CondInv
<1>2. /\ state[t] = "live" /\ cpc[t] = "give" /\ locker \in {None, t}
      /\ gives[t] > 0 /\ csem' = csem + 1
      /\ gives' = [gives EXCEPT ![t] = @ - 1] /\ csem \in Int /\ cwaiting \in SUBSET Thread
      /\ gives[t] \in Nat /\ gives \in [Thread -> Nat]
      /\ UNCHANGED <<vars, cpc, cmutex, timed, cintr, mflags, locker>>
  BY <1>1 DEF CondGive, At, CondTypes
<1>3. MutexInv' /\ RetTyped'
  BY <1>1, <1>2, MutexFrame
<1>4. cwaiting' \in SUBSET cwaiting /\ CondCounted'
  <2>1. CASE csem < 0
    <3>1. PICK w \in cwaiting : cwaiting' = cwaiting \ {w}
      BY <1>2, <2>1 DEF CondGive
    <3>2. Cardinality(cwaiting') = Cardinality(cwaiting) - 1
      BY <1>2, <3>1, ThreadSets
    <3>. QED  BY <1>1, <1>2, <2>1, <3>1, <3>2 DEF CondCounted
  <2>2. CASE csem >= 0
    BY <1>1, <1>2, <2>2 DEF CondGive, CondCounted
  <2>. QED  BY <1>2, <2>1, <2>2
<1>5. CondTypes'
  BY <1>1, <1>2, <1>4 DEF CondTypes
<1>6. CondPlaces'
  BY <1>1, <1>2, <1>4 DEF CondPlaces, CondTypes, vars
<1>7. LockerPlaces'
  BY <1>1, <1>2, NoneIsNobody DEF LockerPlaces, CondTypes, vars
<1>8. Recorded'
  BY <1>1, <1>2, RecordFrame
<1>. QED  BY <1>3, <1>4, <1>5, <1>6, <1>7, <1>8 DEF CondInv

\* The last post is made.
LEMMA CondGivenInv ==
  ASSUME CondInv, NEW t \in Thread, CondGiven(t)
  PROVE  CondInv'
<1>1. /\ MutexInv /\ RetTyped /\ CondTypes /\ CondCounted /\ CondPlaces /\ LockerPlaces
      /\ Recorded
  BY DEF CondInv
<1>2. /\ state[t] = "live" /\ cpc[t] = "give" /\ locker \in {None, t} /\ gives[t] = 0
      /\ cpc' = [cpc EXCEPT ![t] = "none"] /\ locker' = None
      /\ UNCHANGED <<vars, csem, cwaiting, cmutex, timed, cintr, mflags, gives>>
  BY DEF CondGiven, At, CondGoTo
<1>3. MutexInv' /\ RetTyped'
  BY <1>1, <1>2, MutexFrame
<1>4. CondTypes' /\ CondCounted' /\ CondPlaces'
  BY <1>1, <1>2 DEF CondTypes, CondCounted, CondPlaces, vars
<1>5. LockerPlaces'
  BY <1>1, <1>2, NoneIsNobody DEF LockerPlaces, CondTypes, vars
<1>6. Recorded'
  BY <1>1, <1>2, RecordFrame DEF CondTypes
<1>. QED  BY <1>3, <1>4, <1>5, <1>6 DEF CondInv

(***************************************************************************)
(* The theorems.                                                           *)
(***************************************************************************)
\* The mutexes start with their unit in the semaphore, the condition at zero.
LEMMA InitInv == CondInit => CondInv
<1>. SUFFICES ASSUME CondInit PROVE CondInv
  OBVIOUS
<1>1. Init
  BY DEF CondInit
<1>2. MutexTypes /\ CallsAgree /\ Flagged /\ RetTyped
  BY <1>1 DEF Init, MutexTypes, CallsAgree, Flagged, RetTyped, Code
<1>3. \A m \in Mutex : Counted(m)
  BY <1>1, FS_EmptySet DEF Init, Counted
<1>4. \A m \in Mutex : OneUnit(m)
  BY <1>1, NoneIsNobody DEF Init, OneUnit, Handed
<1>5. CondTypes /\ CondPlaces
  BY DEF CondInit, CondTypes, CondPlaces
<1>6. CondCounted
  BY FS_EmptySet DEF CondInit, CondCounted
<1>7. LockerPlaces /\ Recorded
  BY <1>1, NoneIsNobody DEF CondInit, Init, LockerPlaces, Recorded
<1>. QED  BY <1>2, <1>3, <1>4, <1>5, <1>6, <1>7 DEF CondInv, MutexInv

\* Every step of the composed specification keeps the invariant.
LEMMA NextInv == CondInv /\ [CondNext]_allvars => CondInv'
<1>. SUFFICES ASSUME CondInv, [CondNext]_allvars PROVE CondInv'
  OBVIOUS
<1>1. CASE UNCHANGED allvars
  <2>1. UNCHANGED vars /\ UNCHANGED condvars
    BY <1>1 DEF allvars
  <2>2. MutexInv' /\ RetTyped'
    BY <2>1, MutexFrame DEF CondInv
  <2>. QED  BY <2>1, <2>2 DEF vars, condvars, CondInv, CondTypes, CondCounted, CondPlaces,
                             LockerPlaces, Recorded
<1>2. CASE CondNext
  BY <1>2, MutexCallInv, CondTakeInv, CondSignalledInv, CondWokenInv, RetakeInv, RetakeReturnsInv,
     SetPidInv, SetFlagsInv, BeginGivingInv, CondGiveInv, CondGivenInv, CondWaitInv DEF CondNext
<1>. QED  BY <1>1, <1>2

\* The invariant holds in every behaviour.
THEOREM InvAlways == CondSpec => []CondInv
BY InitInv, NextInv, PTL DEF CondSpec

\* However locks, waits for conditions, signals, timeouts, deaths and repairs
\* interleave, no two threads that live own the same mutex, unless a repair
\* made a second unit while a thread was handed the first.
THEOREM OneOwnerAlways == CondSpec => []OneOwner
<1>1. CondInv => OneOwner
  BY DEF CondInv, MutexInv, MutexTypes, OneUnit, OneOwner
<1>. QED  BY <1>1, InvAlways, PTL

\* No mutex loses its unit for good: one that nobody owns or is about to own
\* can be locked or repaired.
THEOREM NeverLostAlways == CondSpec => []NeverLost
<1>1. CondInv => NeverLost
  <2>. SUFFICES ASSUME CondInv, NEW m \in Mutex, ~inconsistent[m], ~OwnerGone(m),
                       ~(semcount[m] > 0), ~spoiled[m]
                PROVE  \E t \in Thread : /\ state[t] # "gone"
                                         /\ m \in owns[t] \/ m \in mhead[t] \/ Handed(t, m)
    BY DEF NeverLost
  <2>1. MutexTypes /\ CallsAgree /\ OneUnit(m) /\ m # None
    BY NoneIsNobody DEF CondInv, MutexInv
  <2>2. CASE pid[m] = None
    <3>1. PICK t \in Thread : Handed(t, m) \/ m \in mhead[t]
      BY <2>1, <2>2 DEF OneUnit
    <3>. QED  BY <2>1, <3>1 DEF Handed, CallsAgree
  <2>3. CASE pid[m] # None
    <3>1. pid[m] \in Thread /\ m \in mhead[pid[m]]
      BY <2>1, <2>3 DEF OneUnit, MutexTypes
    <3>. QED  BY <2>1, <3>1 DEF CallsAgree
  <2>. QED  BY <2>2, <2>3
<1>. QED  BY <1>1, InvAlways, PTL

\* Whoever may signal the condition sees that there are waiters.
THEOREM SignalAlwaysSeesWaiters == CondSpec => []SignalSeesWaiters
<1>1. CondInv => SignalSeesWaiters
  <2>. SUFFICES ASSUME CondInv, locker = None,
                       cwaiting # {} \/ \E t \in Thread : cpc[t] = "take"
                PROVE  csem < 0
    BY DEF SignalSeesWaiters
  <2>1. cwaiting # {} /\ cwaiting \in SUBSET Thread /\ csem \in Int
    BY NoneIsNobody DEF CondInv, LockerPlaces, CondTypes
  <2>2. Cardinality(cwaiting) # 0
    BY <2>1, ThreadSets
  <2>. QED  BY <2>1, <2>2 DEF CondInv, CondCounted
<1>. QED  BY <1>1, InvAlways, PTL

\* A broadcast that has made its last post has left nobody waiting.
THEOREM BroadcastAlwaysWakesAll == CondSpec => []BroadcastWakesAll
<1>1. CondInv => BroadcastWakesAll
  <2>. SUFFICES ASSUME CondInv, NEW t \in Thread, locker = t, cpc[t] = "give", gives[t] = 0
                PROVE  cwaiting = {}
    BY DEF BroadcastWakesAll
  <2>1. -csem <= 0 /\ csem \in Int /\ cwaiting \in SUBSET Thread
    BY DEF CondInv, LockerPlaces, CondTypes
  <2>2. Cardinality(cwaiting) = 0
    BY <2>1 DEF CondInv, CondCounted
  <2>. QED  BY <2>1, <2>2, ThreadSets
<1>. QED  BY <1>1, InvAlways, PTL

\* Nobody is given a mutex whose owner died before it is repaired, not even a
\* thread that waited for it, or for a condition, when the owner died, unless a
\* repair doubled its unit.
THEOREM NeverUsedWhileInconsistent == CondSpec => NoUseWhileInconsistent
<1>. DEFINE A == \A t \in Thread : \A m \in owns'[t] \ owns[t] : ~dirty[m] \/ spoiled[m]
<1>1. CondInv /\ [CondNext]_allvars => [A]_vars
  <2>. SUFFICES ASSUME CondInv, CondNext PROVE A
    BY DEF allvars, vars
  <2>1. SUFFICES ASSUME NEW u \in Thread, NEW n \in owns'[u] \ owns[u] PROVE ~inconsistent[n] /\ n \in Mutex
    BY DEF CondInv, MutexInv, Flagged
  <2>2. MutexTypes /\ CondPlaces
    BY DEF CondInv, MutexInv
  <2>3. PICK t \in Thread :
          \/ MutexCall(t)
          \/ CondTake(t) \/ CondSignalled(t) \/ CondWoken(t) \/ Retake(t) \/ RetakeReturns(t)
          \/ SetPid(t) \/ SetFlags(t)
          \/ CondSignal(t) \/ Broadcast(t) \/ CondGive(t) \/ CondGiven(t)
          \/ \E m \in Mutex :
               \/ Signal(t, m) /\ UNCHANGED condvars
               \/ \E withTimeout \in BOOLEAN : CondWait(t, m, withTimeout)
    BY DEF CondNext
  <2>4. \/ \A x \in Thread : owns'[x] \subseteq owns[x]
        \/ \E m \in Mutex : owns' = [owns EXCEPT ![t] = @ \cup {m}] /\ ~inconsistent[m]
    <3>1. CASE MutexCall(t)
      BY <2>2, <3>1 DEF MutexCall, LockReturns, Exit, Gone, Lock, TryLock, Unlock, Consistent,
                        MarkInconsistent, Acquire, OwnerDead, MutexTypes
    <3>2. CASE Retake(t) \/ RetakeReturns(t)
      BY <2>2, <3>2 DEF Retake, RetakeReturns, At, TakeMutex, Taken, Reacquired, NotReacquired,
                        MutexTypes, CondPlaces
    <3>3. CASE \/ CondTake(t) \/ CondSignalled(t) \/ CondWoken(t)
               \/ CondSignal(t) \/ Broadcast(t) \/ CondGive(t) \/ CondGiven(t)
               \/ SetPid(t) \/ SetFlags(t) \/ \E m \in Mutex : Signal(t, m)
      BY <3>3 DEF CondTake, CondSignalled, CondWoken, CondSignal, Broadcast, CondGive, CondGiven,
                  SetPid, SetFlags, Signal, vars
    <3>4. CASE \E m \in Mutex, withTimeout \in BOOLEAN : CondWait(t, m, withTimeout)
      BY <2>2, <3>4 DEF CondWait, MutexTypes
    <3>. QED  BY <2>3, <3>1, <3>2, <3>3, <3>4
  <2>. QED  BY <2>2, <2>4 DEF MutexTypes
<1>. QED  BY <1>1, InvAlways, PTL DEF CondSpec, NoUseWhileInconsistent

\* A thread that returns from a wait with OK owns the mutex, alone and on
\* record, and the flags it wrote back were those it found, unless a repair
\* doubled the unit.
THEOREM WaitAlwaysReturnsWithMutex == CondSpec => WaitReturnsWithMutex
<1>. DEFINE A == \A t \in Thread :
                   cmutex[t] # None /\ cpc'[t] = "none" /\ ret'[t] = "OK"
                     => LET m == cmutex[t]
                        IN  /\ m \in owns'[t] /\ m \in mhead'[t]
                            /\ \/ spoiled[m]
                               \/ /\ pid'[m] = t /\ semcount'[m] <= 0
                                  /\ ~inconsistent[m] /\ ~inconsistent'[m]
<1>1. CondInv /\ [CondNext]_allvars => [A]_allvars
  <2>. SUFFICES ASSUME CondInv, CondNext, NEW u \in Thread,
                       cmutex[u] # None, cpc'[u] = "none", ret'[u] = "OK"
                PROVE  LET m == cmutex[u]
                       IN  /\ m \in owns'[u] /\ m \in mhead'[u]
                           /\ \/ spoiled[m]
                              \/ /\ pid'[m] = u /\ semcount'[m] <= 0
                                 /\ ~inconsistent[m] /\ ~inconsistent'[m]
    BY DEF allvars
  <2>1. MutexInv /\ MutexTypes /\ CondTypes /\ CondPlaces /\ RetTyped /\ Recorded
    BY DEF CondInv, MutexInv
  <2>2. cpc[u] \notin {"none", "give"} /\ cmutex[u] \in Mutex
    BY <2>1 DEF CondPlaces, CondTypes
  <2>. PICK m \in Mutex : m = cmutex[u]
    BY <2>2
  <2>3. Retake(u) \/ RetakeReturns(u) \/ SetFlags(u)
    BY <2>1, <2>2 DEF CondNext, MutexCall, CondTake, CondSignalled, CondWoken, CondSignal, Broadcast,
                CondGive, CondGiven, CondWait, Signal, At, TakeCond, CondGoTo, condvars, CondTypes,
                SetPid, SetFlags, Retake, RetakeReturns, TakeMutex, Taken, Reacquired, NotReacquired,
                CondReturns
  <2>4. SetFlags(u)
    <3>1. ~NotReacquired(u)
      BY <2>1, RetTypedStep DEF NotReacquired, Code
    <3>2. cpc[u] = "retake" /\ (Retake(u) \/ RetakeReturns(u)) => cpc'[u] \in {"retake", "setpid"}
      BY <2>1, <3>1 DEF Retake, RetakeReturns, TakeMutex, Taken, Reacquired, CondGoTo, CondTypes
    <3>. QED  BY <2>3, <3>2 DEF Retake, RetakeReturns, At
  <2>5. /\ cpc[u] = "setflags" /\ UNCHANGED <<owns, mhead, pid, semcount>>
        /\ inconsistent' = [inconsistent EXCEPT ![m] = mflags[u]]
    BY <2>4 DEF SetFlags, At, semvars
  <2>6. m \in owns[u] /\ m \in mhead[u]
    BY <2>1, <2>5 DEF CondPlaces
  <2>7. CASE ~spoiled[m]
    <3>1. OneUnit(m) /\ ~mflags[u]
      BY <2>1, <2>7 DEF MutexInv, CondPlaces
    <3>2. pid[m] = u
      BY <2>1, <2>5, <2>6, <2>7 DEF Recorded
    <3>. QED  BY <2>1, <2>5, <2>6, <3>1, <3>2 DEF OneUnit, MutexTypes
  <2>. QED  BY <2>5, <2>6, <2>7
<1>. QED  BY <1>1, InvAlways, PTL DEF CondSpec, WaitReturnsWithMutex

(***************************************************************************)
(* The counts are bounded.                                                 *)
(***************************************************************************)
\* Who has the mutex on its list, or was handed a unit of it
Near(m) == {t \in Thread : m \in mhead[t] \/ Handed(t, m)}

\* Each unit that a repair added came from a thread that no longer has one:
\* the count stays below the number of threads, also of a spoiled mutex.
UnitsBounded(m) == semcount[m] + Cardinality(Near(m)) <= Cardinality(Thread) + 1

\* A living thread on record as the owner has the mutex on its list.
OwnersListed ==
  \A m \in Mutex : \A t \in Thread : pid[m] = t /\ state[t] = "live" => m \in mhead[t]

\* The threads that have a signal's post to make, and the posts that the
\* thread with pre-emption disabled, in a broadcast, has left
Posting == {t \in Thread : t # locker /\ gives[t] > 0}
PostsLeft == IF locker = None THEN 0 ELSE gives[locker]

PostsBounded ==
  /\ \A t \in Thread : gives[t] > 1 => locker = t /\ gives[t] <= Cardinality(Thread)
  /\ csem + Cardinality(Posting) + PostsLeft <= 2 * Cardinality(Thread)

BoundInv == OwnersListed /\ PostsBounded /\ \A m \in Mutex : UnitsBounded(m)

\* What a step of t may do to the count of a mutex and to those near it: leave
\* the count small, take units away, or move one between the count and t.
UnitMoves(m, t) ==
  \/ semcount'[m] <= 1
  \/ semcount'[m] <= semcount[m] /\ Near(m)' \subseteq Near(m)
  \/ semcount'[m] <= semcount[m] - 1 /\ Near(m)' \subseteq Near(m) \cup {t}
  \/ semcount'[m] <= semcount[m] + 1 /\ t \in Near(m) /\ Near(m)' \subseteq Near(m) \ {t}

\* A part of a set of threads has no more members.
LEMMA FewerThreads ==
  ASSUME NEW S \in SUBSET Thread, NEW R \in SUBSET S
  PROVE  Cardinality(R) \in Nat /\ Cardinality(S) \in Nat /\ Cardinality(R) <= Cardinality(S)
BY ThreadFinite, FS_Subset, FS_CardinalityType

\* Such a step keeps the bound.
LEMMA UnitMovesBounded ==
  ASSUME NEW m \in Mutex, NEW t \in Thread, semcount[m] \in Int, semcount'[m] \in Int,
         UnitsBounded(m), UnitMoves(m, t)
  PROVE  UnitsBounded(m)'
<1>. DEFINE A == Near(m)
            B == Near(m)'
<1>1. A \in SUBSET Thread /\ B \in SUBSET Thread
  BY DEF Near
<1>2. semcount[m] + Cardinality(A) <= Cardinality(Thread) + 1
  BY DEF UnitsBounded
<1>3. /\ Cardinality(A) \in Nat /\ Cardinality(B) \in Nat /\ Cardinality(Thread) \in Nat
      /\ Cardinality(B) <= Cardinality(Thread)
  BY <1>1, ThreadSets
<1>4. SUFFICES semcount'[m] + Cardinality(B) <= Cardinality(Thread) + 1
  BY DEF UnitsBounded
<1>. HIDE DEF A, B
<1>5. CASE semcount'[m] <= 1
  BY <1>3, <1>5
<1>6. CASE semcount'[m] <= semcount[m] /\ B \subseteq A
  <2>1. Cardinality(B) <= Cardinality(A)
    BY <1>1, <1>6, FewerThreads
  <2>. QED  BY <1>2, <1>3, <1>6, <2>1
<1>7. CASE semcount'[m] <= semcount[m] - 1 /\ B \subseteq A \cup {t}
  <2>1. A \cup {t} \in SUBSET Thread /\ Cardinality(A \cup {t}) <= Cardinality(A) + 1
    <3>1. Cardinality(A \cup {t}) = IF t \in A THEN Cardinality(A) ELSE Cardinality(A) + 1
      BY <1>1, ThreadSets
    <3>. QED  BY <1>1, <1>3, <3>1
  <2>2. Cardinality(B) <= Cardinality(A \cup {t}) /\ Cardinality(A \cup {t}) \in Nat
    BY <1>7, <2>1, FewerThreads
  <2>. QED  BY <1>2, <1>3, <1>7, <2>1, <2>2
<1>8. CASE semcount'[m] <= semcount[m] + 1 /\ t \in A /\ B \subseteq A \ {t}
  <2>1. A \ {t} \in SUBSET Thread /\ Cardinality(A \ {t}) = Cardinality(A) - 1
    BY <1>1, <1>8, ThreadSets
  <2>2. Cardinality(B) <= Cardinality(A \ {t}) /\ Cardinality(A \ {t}) \in Nat
    BY <1>8, <2>1, FewerThreads
  <2>. QED  BY <1>2, <1>3, <1>8, <2>1, <2>2
<1>. QED  BY <1>5, <1>6, <1>7, <1>8 DEF UnitMoves, A, B

\* Nobody comes near a mutex whose count, waiters and flags of its callers
\* stay, or that only a thread leaves.
LEMMA NearKept ==
  ASSUME NEW n \in Mutex, NEW t \in Thread, semcount[n] \in Int,
         semcount'[n] = semcount[n], waiting'[n] = waiting[n],
         \A u \in Thread : u # t => mhead'[u] = mhead[u] /\ call'[u] = call[u] /\ intr'[u] = intr[u],
         n \in mhead'[t] => n \in mhead[t],
         Handed(t, n)' => t \in Near(n)
  PROVE  UnitMoves(n, t)
<1>1. Near(n)' \subseteq Near(n)
  BY DEF Near, Handed
<1>. QED  BY <1>1 DEF UnitMoves

\* A thread that takes a unit, or goes on with the one it was handed
LEMMA AcquireMoves ==
  ASSUME MutexTypes, NEW t \in Thread, NEW m \in Mutex, NEW n \in Mutex,
         call[t] \in {None, m},
         \/ semcount[m] > 0 /\ semcount' = [semcount EXCEPT ![m] = @ - 1]
         \/ Handed(t, m) /\ semcount' = semcount,
         mhead' = [mhead EXCEPT ![t] = @ \cup {m}],
         call' = [call EXCEPT ![t] = None], intr' = [intr EXCEPT ![t] = FALSE],
         UNCHANGED waiting
  PROVE  UnitMoves(n, t)
<1>1. n # None /\ call'[t] = None /\ semcount[n] \in Int /\ ~Handed(t, n)'
  BY NoneIsNobody DEF MutexTypes, Handed
<1>2. \A u \in Thread : u # t => mhead'[u] = mhead[u] /\ call'[u] = call[u] /\ intr'[u] = intr[u]
  BY DEF MutexTypes
<1>3. CASE n # m
  <2>1. semcount'[n] = semcount[n] /\ (n \in mhead'[t] => n \in mhead[t])
    BY <1>3 DEF MutexTypes
  <2>. QED  BY <1>1, <1>2, <2>1, NearKept
<1>4. CASE n = m /\ semcount' = [semcount EXCEPT ![m] = @ - 1]
  <2>1. Near(m)' \subseteq Near(m) \cup {t}
    BY <1>2 DEF Near, Handed
  <2>2. semcount'[m] = semcount[m] - 1
    BY <1>4 DEF MutexTypes
  <2>. QED  BY <1>1, <1>4, <2>1, <2>2 DEF UnitMoves
<1>5. CASE n = m /\ Handed(t, m) /\ semcount' = semcount
  <2>1. Near(m)' \subseteq Near(m)
    BY <1>2, <1>5 DEF Near, Handed
  <2>. QED  BY <1>1, <1>5, <2>1 DEF UnitMoves
<1>. QED  BY <1>3, <1>4, <1>5

\* A thread that leaves without the mutex, and perhaps with a unit
LEMMA RefusedMoves ==
  ASSUME MutexTypes, NEW t \in Thread, NEW m \in Mutex, NEW n \in Mutex,
         \/ semcount' = semcount
         \/ semcount[m] > 0 /\ semcount' = [semcount EXCEPT ![m] = @ - 1],
         call' = [call EXCEPT ![t] = None], intr' = [intr EXCEPT ![t] = FALSE],
         UNCHANGED <<waiting, mhead>>
  PROVE  UnitMoves(n, t)
<1>1. n # None /\ call'[t] = None /\ semcount[n] \in Int /\ ~Handed(t, n)'
  BY NoneIsNobody DEF MutexTypes, Handed
<1>2. \A u \in Thread : u # t => call'[u] = call[u] /\ intr'[u] = intr[u]
  BY DEF MutexTypes
<1>3. Near(n)' \subseteq Near(n)
  BY <1>1, <1>2 DEF Near, Handed
<1>4. semcount'[n] <= semcount[n]
  BY <1>1 DEF MutexTypes
<1>. QED  BY <1>3, <1>4 DEF UnitMoves

\* A thread that blocks
LEMMA BlockedMoves ==
  ASSUME MutexTypes, NEW t \in Thread, NEW m \in Mutex, NEW n \in Mutex,
         semcount[m] <= 0, semcount' = [semcount EXCEPT ![m] = @ - 1],
         waiting' = [waiting EXCEPT ![m] = @ \cup {t}],
         call' = [call EXCEPT ![t] = m], intr' = [intr EXCEPT ![t] = FALSE],
         UNCHANGED mhead
  PROVE  UnitMoves(n, t)
<1>1. semcount[n] \in Int /\ call'[t] = m
  BY DEF MutexTypes
<1>2. \A u \in Thread : u # t => call'[u] = call[u] /\ intr'[u] = intr[u]
  BY DEF MutexTypes
<1>3. CASE n # m
  BY <1>1, <1>2, <1>3, NearKept DEF MutexTypes, Handed
<1>4. CASE n = m
  BY <1>1, <1>4 DEF MutexTypes, UnitMoves
<1>. QED  BY <1>3, <1>4

\* A thread that posts: the count was not above zero, or the thread had the
\* mutex on its list and is in no call
LEMMA GivenMoves ==
  ASSUME MutexInv, NEW t \in Thread, NEW m \in Mutex, NEW n \in Mutex, SemGive(m),
         semcount[m] <= 0 \/ (m \in mhead[t] /\ call[t] = None),
         mhead' = [mhead EXCEPT ![t] = @ \ {m}], UNCHANGED <<call, intr>>
  PROVE  UnitMoves(n, t)
<1>1. /\ semcount' = [semcount EXCEPT ![m] = @ + 1] /\ MutexTypes
      /\ \A k \in Mutex : k # m => waiting'[k] = waiting[k]
      /\ semcount[m] >= 0 => waiting' = waiting
  <2>1. MutexTypes /\ semcount[m] \in Int
    BY DEF MutexInv, MutexTypes
  <2>. QED  BY <2>1, GiveUnit
<1>2. semcount[n] \in Int /\ n # None
  BY <1>1, NoneIsNobody DEF MutexTypes
<1>3. CASE n # m
  <2>1. semcount'[n] = semcount[n] /\ (n \in mhead'[t] => n \in mhead[t])
    BY <1>1, <1>3 DEF MutexTypes
  <2>2. \A u \in Thread : u # t => mhead'[u] = mhead[u] /\ call'[u] = call[u] /\ intr'[u] = intr[u]
    BY <1>1 DEF MutexTypes
  <2>3. Handed(t, n)' => t \in Near(n)
    BY <1>1, <1>3 DEF Near, Handed
  <2>. QED  BY <1>1, <1>2, <1>3, <2>1, <2>2, <2>3, NearKept
<1>4. CASE n = m /\ semcount[m] <= 0
  BY <1>1, <1>2, <1>4 DEF MutexTypes, UnitMoves
<1>5. CASE n = m /\ semcount[m] > 0 /\ m \in mhead[t] /\ call[t] = None
  <2>1. t \in Near(m) /\ semcount'[m] = semcount[m] + 1 /\ waiting' = waiting
    BY <1>1, <1>2, <1>5 DEF Near, MutexTypes
  <2>2. m \notin mhead'[t] /\ ~Handed(t, m)'
    BY <1>1, <1>2, <1>5 DEF Handed, MutexTypes
  <2>3. \A u \in Thread : u # t => mhead'[u] = mhead[u]
    BY <1>1 DEF MutexTypes
  <2>4. Near(m)' \subseteq Near(m) \ {t}
    BY <2>1, <2>2, <2>3 DEF Near, Handed
  <2>. QED  BY <1>2, <1>5, <2>1, <2>4 DEF UnitMoves
<1>. QED  BY <1>2, <1>3, <1>4, <1>5

\* Each call on a mutex moves its unit, and those of no other, in such a way.
LEMMA MutexStepMoves ==
  ASSUME MutexInv, NEW t \in Thread, NEW n \in Mutex,
         \/ LockReturns(t) \/ Exit(t) \/ Gone(t)
         \/ \E m \in Mutex : \/ Lock(t, m) \/ TryLock(t, m) \/ Unlock(t, m) \/ Consistent(t, m)
                             \/ Signal(t, m) \/ MarkInconsistent(t, m)
  PROVE  UnitMoves(n, t)
<1>1. MutexTypes /\ CallsAgree /\ semcount[n] \in Int /\ n # None
  BY NoneIsNobody DEF MutexInv, MutexTypes
<1>2. call[t] = None => /\ \A m \in Mutex : t \notin waiting[m]
                        /\ call = [call EXCEPT ![t] = None] /\ intr = [intr EXCEPT ![t] = FALSE]
  BY IdleFacts
<1>3. ASSUME UNCHANGED <<semvars, mhead, call, intr>> PROVE UnitMoves(n, t)
  BY <1>1, <1>3 DEF UnitMoves, Near, Handed, semvars
<1>4. CASE LockReturns(t)
  <2>. DEFINE m == call[t]
  <2>1. /\ m \in Mutex /\ t \notin waiting[m] /\ semcount' = semcount /\ waiting' = waiting
        /\ call' = [call EXCEPT ![t] = None] /\ intr' = [intr EXCEPT ![t] = FALSE]
    BY <1>1, <1>4 DEF LockReturns, MutexTypes, semvars
  <2>2. CASE mhead' = mhead
    BY <1>1, <2>1, <2>2, RefusedMoves
  <2>3. CASE ~intr[t] /\ Acquire(t, m)
    BY <1>1, <2>1, <2>3, AcquireMoves DEF Acquire, Handed
  <2>. QED  BY <1>4, <2>2, <2>3 DEF LockReturns, OwnerDead
<1>5. CASE Exit(t) \/ Gone(t)
  BY <1>3, <1>5 DEF Exit, Gone
<1>6. ASSUME NEW m \in Mutex, Lock(t, m) PROVE UnitMoves(n, t)
  <2>1. call[t] = None /\ intr' = intr /\ t \notin waiting[m]
    BY <1>2, <1>6 DEF Lock, Idle
  <2>2. CASE OwnerDead(t, m) /\ UNCHANGED <<semvars, call>>
    BY <1>3, <2>1, <2>2 DEF OwnerDead
  <2>3. CASE /\ semcount' = [semcount EXCEPT ![m] = @ - 1] /\ semcount[m] > 0
             /\ Acquire(t, m) /\ UNCHANGED <<waiting, call>>
    BY <1>1, <1>2, <2>1, <2>3, AcquireMoves DEF Acquire
  <2>4. CASE /\ semcount' = [semcount EXCEPT ![m] = @ - 1] /\ semcount[m] <= 0
             /\ waiting' = [waiting EXCEPT ![m] = @ \cup {t}] /\ call' = [call EXCEPT ![t] = m]
             /\ UNCHANGED mhead
    BY <1>1, <1>2, <2>1, <2>4, BlockedMoves
  <2>. QED  BY <1>6, <2>2, <2>3, <2>4 DEF Lock
<1>7. ASSUME NEW m \in Mutex, TryLock(t, m) PROVE UnitMoves(n, t)
  <2>1. call[t] = None /\ UNCHANGED <<waiting, call, intr>>
    BY <1>7 DEF TryLock, Idle
  <2>2. CASE UNCHANGED <<semcount, mhead>>
    BY <1>3, <2>1, <2>2 DEF semvars
  <2>3. CASE semcount[m] > 0 /\ semcount' = [semcount EXCEPT ![m] = @ - 1] /\ Acquire(t, m)
    BY <1>1, <1>2, <2>1, <2>3, AcquireMoves DEF Acquire
  <2>. QED  BY <1>7, <2>2, <2>3 DEF TryLock, OwnerDead
<1>8. ASSUME NEW m \in Mutex, Unlock(t, m) PROVE UnitMoves(n, t)
  <2>1. CASE semcount[m] < 1 /\ SemGive(m) /\ mhead' = [mhead EXCEPT ![t] = @ \ {m}]
    <3>1. semcount[m] <= 0 /\ UNCHANGED <<call, intr>>
      BY <1>1, <1>8, <2>1 DEF Unlock, MutexTypes
    <3>. QED  BY <2>1, <3>1, GivenMoves
  <2>2. CASE UNCHANGED <<semvars, mhead>>
    BY <1>3, <1>8, <2>2 DEF Unlock
  <2>. QED  BY <1>8, <2>1, <2>2 DEF Unlock
<1>9. ASSUME NEW m \in Mutex, Consistent(t, m) PROVE UnitMoves(n, t)
  <2>0. UNCHANGED <<mhead, call, intr>>
    BY <1>9 DEF Consistent
  <2>1. CASE UNCHANGED semvars
    BY <1>3, <2>0, <2>1
  <2>2. CASE SemResetToOne(m)
    <3>1. CASE n = m
      <4>1. semcount'[m] <= 1
        BY <1>1, <2>2, <3>1 DEF SemResetToOne, SemGive, MutexTypes
      <4>. QED  BY <3>1, <4>1 DEF UnitMoves
    <3>2. CASE n # m
      <4>1. semcount'[n] = semcount[n] /\ waiting'[n] = waiting[n]
        BY <1>1, <2>2, <3>2 DEF SemResetToOne, SemGive, MutexTypes
      <4>. QED  BY <1>1, <2>0, <4>1 DEF UnitMoves, Near, Handed
    <3>. QED  BY <3>1, <3>2
  <2>. QED  BY <1>9, <2>1, <2>2 DEF Consistent
<1>10. ASSUME NEW m \in Mutex, Signal(t, m) PROVE UnitMoves(n, t)
  <2>1. /\ t \in waiting[m] /\ semcount' = [semcount EXCEPT ![m] = @ + 1]
        /\ waiting' = [waiting EXCEPT ![m] = @ \ {t}] /\ intr' = [intr EXCEPT ![t] = TRUE]
        /\ UNCHANGED <<mhead, call>>
    BY <1>10 DEF Signal
  <2>2. semcount[m] < 0
    BY <2>1, LeaveWaiters
  <2>3. CASE n = m
    BY <1>1, <2>1, <2>2, <2>3 DEF UnitMoves, MutexTypes
  <2>4. CASE n # m
    <3>1. semcount'[n] = semcount[n] /\ waiting'[n] = waiting[n] /\ intr'[t]
      BY <1>1, <2>1, <2>4 DEF MutexTypes
    <3>2. \A u \in Thread : u # t => intr'[u] = intr[u]
      BY <1>1, <2>1 DEF MutexTypes
    <3>3. ~Handed(t, n)'
      BY <3>1 DEF Handed
    <3>. QED  BY <1>1, <2>1, <3>1, <3>2, <3>3, NearKept
  <2>. QED  BY <2>3, <2>4
<1>11. ASSUME NEW m \in Mutex, MarkInconsistent(t, m) PROVE UnitMoves(n, t)
  <2>1. /\ m \in mhead[t] /\ SemGive(m) /\ mhead' = [mhead EXCEPT ![t] = @ \ {m}]
        /\ UNCHANGED <<call, intr>> /\ call[t] = None
    BY <1>1, <1>11 DEF MarkInconsistent, CallsAgree
  <2>. QED  BY <2>1, GivenMoves
<1>. QED  BY <1>4, <1>5, <1>6, <1>7, <1>8, <1>9, <1>10, <1>11

\* A thread becomes the owner on record only of a mutex it puts on its list.
LEMMA MutexStepListed ==
  ASSUME MutexInv, OwnersListed, NEW t \in Thread,
         \/ LockReturns(t) \/ Exit(t) \/ Gone(t)
         \/ \E m \in Mutex : \/ Lock(t, m) \/ TryLock(t, m) \/ Unlock(t, m) \/ Consistent(t, m)
                             \/ Signal(t, m) \/ MarkInconsistent(t, m)
  PROVE  OwnersListed'
<1>1. MutexTypes /\ t # None /\ \A u \in Thread : u # None
  BY NoneIsNobody DEF MutexInv
<1>2. CASE UNCHANGED <<pid, mhead, state>>
  BY <1>2 DEF OwnersListed
<1>3. ASSUME NEW m \in Mutex, pid' = [pid EXCEPT ![m] = t], state' = state,
             mhead' = [mhead EXCEPT ![t] = @ \cup {m}]
      PROVE  OwnersListed'
  BY <1>1, <1>3 DEF OwnersListed, MutexTypes
<1>4. ASSUME NEW m \in Mutex, pid' = [pid EXCEPT ![m] = None], state' = state,
             mhead' = [mhead EXCEPT ![t] = @ \ {m}] \/ mhead' = mhead
      PROVE  OwnersListed'
  BY <1>1, <1>4 DEF OwnersListed, MutexTypes
<1>5. CASE LockReturns(t)
  <2>1. call[t] \in Mutex /\ state' = state
    BY <1>1, <1>5 DEF LockReturns, MutexTypes
  <2>. QED  BY <1>2, <1>3, <1>5, <2>1 DEF LockReturns, OwnerDead, Acquire
<1>6. CASE Exit(t) \/ Gone(t)
  BY <1>1, <1>6 DEF Exit, Gone, OwnersListed, MutexTypes
<1>7. ASSUME NEW m \in Mutex, Lock(t, m) \/ TryLock(t, m) PROVE OwnersListed'
  BY <1>2, <1>3, <1>7 DEF Lock, TryLock, OwnerDead, Acquire
<1>8. ASSUME NEW m \in Mutex, Unlock(t, m) \/ Consistent(t, m) PROVE OwnersListed'
  BY <1>2, <1>4, <1>8 DEF Unlock, Consistent
<1>9. ASSUME NEW m \in Mutex, Signal(t, m) PROVE OwnersListed'
  BY <1>2, <1>9 DEF Signal
<1>10. ASSUME NEW m \in Mutex, MarkInconsistent(t, m) PROVE OwnersListed'
  BY <1>1, <1>10 DEF MarkInconsistent, OwnersListed, MutexTypes
<1>. QED  BY <1>5, <1>6, <1>7, <1>8, <1>9, <1>10

\* The threads with posts to make are threads.
LEMMA PostingFacts ==
  ASSUME CondTypes
  PROVE  /\ Posting \in SUBSET Thread /\ Cardinality(Posting) \in Nat
         /\ Cardinality(Posting) <= Cardinality(Thread) /\ Cardinality(Thread) \in Nat
         /\ PostsLeft \in Nat /\ csem \in Int
<1>1. Posting \in SUBSET Thread /\ PostsLeft \in Nat /\ csem \in Int
  BY DEF Posting, PostsLeft, CondTypes
<1>. QED  BY <1>1, ThreadSets

\* A step that makes no post and only passes pre-emption between threads that
\* have none to make
LEMMA NoPostBounded ==
  ASSUME CondInv, PostsBounded, NEW t \in Thread, gives' = gives,
         \/ locker' = locker
         \/ locker \in {None, t} /\ locker' \in {None, t} /\ gives[t] = 0,
         csem' \in Int, csem' <= csem \/ csem' <= 0
  PROVE  PostsBounded'
<1>1. CondTypes /\ t # None
  BY NoneIsNobody DEF CondInv
<1>2. /\ Cardinality(Posting) \in Nat /\ Cardinality(Posting) <= Cardinality(Thread)
      /\ Cardinality(Thread) \in Nat /\ PostsLeft \in Nat /\ csem \in Int
  BY <1>1, PostingFacts
<1>3. Posting' = Posting /\ PostsLeft' = PostsLeft
  <2>1. CASE locker' = locker
    BY <2>1 DEF Posting, PostsLeft
  <2>2. CASE locker \in {None, t} /\ locker' \in {None, t} /\ gives[t] = 0
    <3>1. \A u \in Thread : u # locker /\ gives[u] > 0 <=> u # locker' /\ gives'[u] > 0
      BY <1>1, <2>2, NoneIsNobody
    <3>2. PostsLeft = 0 /\ PostsLeft' = 0
      BY <1>1, <2>2 DEF PostsLeft
    <3>. QED  BY <3>1, <3>2 DEF Posting
  <2>. QED  BY <2>1, <2>2
<1>4. PostsLeft <= Cardinality(Thread)
  <2>1. CASE locker = None
    BY <1>2, <2>1 DEF PostsLeft
  <2>2. CASE locker # None
    <3>1. locker \in Thread /\ gives[locker] \in Nat /\ PostsLeft = gives[locker]
      BY <1>1, <2>2 DEF CondTypes, PostsLeft
    <3>2. gives[locker] > 1 => gives[locker] <= Cardinality(Thread)
      BY <3>1 DEF PostsBounded
    <3>3. Cardinality(Thread) >= 1
      BY <1>2, <3>1, ThreadSets
    <3>. QED  BY <1>2, <3>1, <3>2, <3>3
  <2>. QED  BY <2>1, <2>2
<1>5. csem' + Cardinality(Posting') + PostsLeft' <= 2 * Cardinality(Thread)
  <2>1. csem + Cardinality(Posting) + PostsLeft <= 2 * Cardinality(Thread)
    BY DEF PostsBounded
  <2>. QED  BY <1>2, <1>3, <1>4, <2>1
<1>6. \A u \in Thread : gives'[u] > 1 => locker' = u /\ gives'[u] <= Cardinality(Thread)
  <2>1. \A u \in Thread : gives[u] > 1 => locker = u /\ gives[u] <= Cardinality(Thread)
    BY DEF PostsBounded
  <2>2. CASE locker' = locker
    BY <2>1, <2>2
  <2>3. CASE locker \in {None, t} /\ locker' \in {None, t} /\ gives[t] = 0
    BY <1>1, <2>1, <2>3, NoneIsNobody
  <2>. QED  BY <2>2, <2>3
<1>. QED  BY <1>5, <1>6 DEF PostsBounded

\* A signal has one post to make, a broadcast one for each waiter.
LEMMA BeginGivingBounded ==
  ASSUME CondInv, PostsBounded, NEW t \in Thread, CondSignal(t) \/ Broadcast(t)
  PROVE  PostsBounded'
<1>1. CondTypes /\ CondCounted /\ LockerPlaces /\ CondPlaces /\ t # None /\ CondTypes'
  BY NoneIsNobody, BeginGivingInv DEF CondInv
<1>2. /\ csem < 0 /\ csem \in Int /\ csem' = csem /\ locker = None
      /\ \/ locker' = None /\ gives' = [gives EXCEPT ![t] = 1]
         \/ locker' = t /\ gives' = [gives EXCEPT ![t] = -csem]
  <2>1. locker = None
    BY <1>1 DEF CondSignal, Broadcast, At, LockerPlaces
  <2>. QED  BY <1>1, <2>1 DEF CondSignal, Broadcast, CondTypes
<1>3. /\ Cardinality(Posting') \in Nat /\ Cardinality(Posting') <= Cardinality(Thread)
      /\ Cardinality(Thread) \in Nat
  <2>1. Posting' \in SUBSET Thread
    BY DEF Posting
  <2>. QED  BY <2>1, ThreadSets
<1>4. -csem <= Cardinality(Thread)
  <2>1. Cardinality(cwaiting) <= Cardinality(Thread)
    BY <1>1, ThreadSets DEF CondTypes
  <2>. QED  BY <1>1, <1>2, <2>1 DEF CondCounted
<1>5. csem' + PostsLeft' <= 0
  BY <1>1, <1>2 DEF PostsLeft, CondTypes
<1>6. csem' + Cardinality(Posting') + PostsLeft' <= 2 * Cardinality(Thread)
  <2>1. PostsLeft' \in Int /\ csem' \in Int
    BY <1>1, <1>2 DEF PostsLeft, CondTypes
  <2>2. \A i, j \in Int : \A k, n \in Nat : i + j <= 0 /\ k <= n => i + k + j <= 2 * n
    OBVIOUS
  <2>. QED  BY <1>3, <1>5, <2>1, <2>2
<1>7. \A u \in Thread : gives'[u] > 1 => locker' = u /\ gives'[u] <= Cardinality(Thread)
  <2>1. \A u \in Thread : gives[u] > 1 => locker = u
    BY DEF PostsBounded
  <2>2. \A u \in Thread : u # t => gives'[u] = gives[u] /\ ~(gives'[u] > 1)
    BY <1>1, <1>2, <2>1, NoneIsNobody DEF CondTypes
  <2>3. gives'[t] = 1 \/ (locker' = t /\ gives'[t] = -csem)
    BY <1>1, <1>2 DEF CondTypes
  <2>. QED  BY <1>4, <2>2, <2>3
<1>. QED  BY <1>6, <1>7 DEF PostsBounded

\* A post moves one from those to be made to the count.
LEMMA CondGiveBounded ==
  ASSUME CondInv, PostsBounded, NEW t \in Thread, CondGive(t)
  PROVE  PostsBounded'
<1>1. CondTypes /\ t # None
  BY NoneIsNobody DEF CondInv
<1>2. /\ csem' = csem + 1 /\ gives' = [gives EXCEPT ![t] = @ - 1] /\ gives[t] > 0
      /\ locker' = locker /\ locker \in {None, t} /\ gives \in [Thread -> Nat] /\ gives[t] \in Nat
  BY <1>1 DEF CondGive, At, CondTypes
<1>3. /\ Posting \in SUBSET Thread /\ Cardinality(Posting) \in Nat /\ PostsLeft \in Nat
      /\ Cardinality(Thread) \in Nat /\ csem \in Int
  BY <1>1, PostingFacts
<1>4. csem + Cardinality(Posting) + PostsLeft <= 2 * Cardinality(Thread)
  BY DEF PostsBounded
<1>5. \A u \in Thread : gives'[u] > 1 => locker' = u /\ gives'[u] <= Cardinality(Thread)
  BY <1>2, <1>3 DEF PostsBounded
<1>6. CASE locker = t
  <2>1. Posting' = Posting /\ PostsLeft' = PostsLeft - 1
    BY <1>1, <1>2, <1>6 DEF Posting, PostsLeft
  <2>. QED  BY <1>2, <1>3, <1>4, <1>5, <2>1 DEF PostsBounded
<1>7. CASE locker = None
  <2>1. gives[t] = 1
    BY <1>1, <1>2, <1>7 DEF PostsBounded
  <2>2. Posting' = Posting \ {t} /\ t \in Posting /\ PostsLeft' = PostsLeft
    BY <1>1, <1>2, <1>7, <2>1 DEF Posting, PostsLeft
  <2>3. Cardinality(Posting') = Cardinality(Posting) - 1
    BY <1>3, <2>2, ThreadSets
  <2>. QED  BY <1>2, <1>3, <1>4, <1>5, <2>2, <2>3 DEF PostsBounded
<1>. QED  BY <1>2, <1>6, <1>7

\* The thread that takes the mutex again after the wait for the condition
LEMMA TakeMutexMoves ==
  ASSUME CondInv, NEW t \in Thread, NEW m \in Mutex, NEW n \in Mutex,
         call[t] \in {None, m}, TakeMutex(t, m), intr' = [intr EXCEPT ![t] = FALSE]
  PROVE  UnitMoves(n, t)
<1>1. MutexTypes /\ semcount' = [semcount EXCEPT ![m] = @ - 1]
  BY DEF CondInv, MutexInv, TakeMutex
<1>2. CASE /\ semcount[m] > 0 /\ Reacquired(t, m) /\ UNCHANGED waiting
           /\ call' = [call EXCEPT ![t] = None]
  BY <1>1, <1>2, AcquireMoves DEF Reacquired
<1>3. CASE /\ semcount[m] > 0 /\ NotReacquired(t) /\ UNCHANGED waiting
           /\ call' = [call EXCEPT ![t] = None]
  BY <1>1, <1>3, RefusedMoves DEF NotReacquired
<1>4. CASE /\ semcount[m] <= 0 /\ waiting' = [waiting EXCEPT ![m] = @ \cup {t}]
           /\ call' = [call EXCEPT ![t] = m] /\ UNCHANGED mhead
  BY <1>1, <1>4, BlockedMoves
<1>. QED  BY <1>2, <1>3, <1>4 DEF TakeMutex, Taken

\* The steps of a wait for the condition that touch a mutex move its units like
\* the calls on a mutex, and put a new owner's mutex on its list.
LEMMA CondStepMoves ==
  ASSUME CondInv, OwnersListed, NEW t \in Thread, NEW n \in Mutex,
         \/ Retake(t) \/ RetakeReturns(t) \/ SetPid(t) \/ SetFlags(t)
         \/ \E m \in Mutex : \E withTimeout \in BOOLEAN : CondWait(t, m, withTimeout)
  PROVE  UnitMoves(n, t) /\ OwnersListed'
<1>. DEFINE m == cmutex[t]
<1>1. /\ MutexInv /\ MutexTypes /\ CondTypes /\ CondPlaces /\ semcount[n] \in Int /\ n # None
      /\ t # None /\ \A u \in Thread : u # None
  BY NoneIsNobody DEF CondInv, MutexInv, MutexTypes
<1>2. ASSUME NEW k \in Mutex, state' = state,
             \/ UNCHANGED <<pid, mhead>>
             \/ pid' = pid /\ mhead' = [mhead EXCEPT ![t] = @ \cup {k}]
             \/ pid' = [pid EXCEPT ![k] = t] /\ mhead' = mhead /\ k \in mhead[t]
             \/ pid' = [pid EXCEPT ![k] = None] /\ mhead' = [mhead EXCEPT ![t] = @ \ {k}]
      PROVE  OwnersListed'
  BY <1>1, <1>2 DEF OwnersListed, MutexTypes
<1>3. CASE Retake(t)
  <2>1. /\ cpc[t] = "retake" /\ call[t] = None /\ m \in Mutex
        /\ state' = state /\ intr' = [intr EXCEPT ![t] = FALSE] /\ intr' = intr
    <3>1. cpc[t] = "retake" /\ call[t] = None /\ state' = state /\ intr' = intr
      BY <1>3 DEF Retake, At
    <3>. QED  BY <1>1, <3>1, IdleFacts DEF CondPlaces
  <2>2. CASE NotReacquired(t) /\ UNCHANGED <<semvars, call>>
    <3>1. UnitMoves(n, t)
      BY <1>1, <2>1, <2>2 DEF NotReacquired, UnitMoves, Near, Handed, semvars
    <3>. QED  BY <1>2, <2>1, <2>2, <3>1 DEF NotReacquired
  <2>3. CASE TakeMutex(t, m)
    <3>1. UnitMoves(n, t)
      BY <2>1, <2>3, TakeMutexMoves
    <3>. QED  BY <1>2, <2>1, <2>3, <3>1 DEF TakeMutex, Taken, Reacquired, NotReacquired
  <2>. QED  BY <1>3, <2>2, <2>3 DEF Retake
<1>4. CASE RetakeReturns(t)
  <2>1. /\ call[t] = m /\ m \in Mutex /\ t \notin waiting[m] /\ state' = state
        /\ intr' = [intr EXCEPT ![t] = FALSE]
    BY <1>1, <1>4 DEF RetakeReturns, At, CondPlaces
  <2>2. CASE TakeMutex(t, m)
    <3>1. UnitMoves(n, t)
      BY <2>1, <2>2, TakeMutexMoves
    <3>. QED  BY <1>2, <2>1, <2>2, <3>1 DEF TakeMutex, Taken, Reacquired, NotReacquired
  <2>3. CASE ~intr[t] /\ Taken(t, m) /\ UNCHANGED semvars
    <3>1. CASE Reacquired(t, m)
      <4>1. Handed(t, m)
        BY <2>1, <2>3 DEF Handed
      <4>2. UnitMoves(n, t)
        BY <1>1, <2>1, <2>3, <3>1, <4>1, AcquireMoves DEF Reacquired, Taken, semvars
      <4>. QED  BY <1>2, <2>1, <3>1, <4>2 DEF Reacquired
    <3>2. CASE NotReacquired(t)
      <4>1. UnitMoves(n, t)
        BY <1>1, <2>1, <2>3, <3>2, RefusedMoves DEF NotReacquired, Taken, semvars
      <4>. QED  BY <1>2, <2>1, <3>2, <4>1 DEF NotReacquired
    <3>. QED  BY <2>3, <3>1, <3>2 DEF Taken
  <2>. QED  BY <1>4, <2>1, <2>2, <2>3 DEF RetakeReturns
<1>5. ASSUME NEW k \in Mutex, NEW withTimeout \in BOOLEAN, CondWait(t, k, withTimeout)
      PROVE  UnitMoves(n, t) /\ OwnersListed'
  <2>1. /\ state[t] = "live" /\ call[t] = None /\ pid[k] = t /\ state' = state
        /\ pid' = [pid EXCEPT ![k] = None] /\ mhead' = [mhead EXCEPT ![t] = @ \ {k}]
        /\ SemGive(k) /\ UNCHANGED <<call, intr>>
    BY <1>5 DEF CondWait, At
  <2>2. k \in mhead[t]
    BY <2>1 DEF OwnersListed
  <2>3. UnitMoves(n, t)
    BY <1>1, <2>1, <2>2, GivenMoves
  <2>. QED  BY <1>2, <2>1, <2>3
<1>6. CASE SetPid(t) \/ SetFlags(t)
  <2>1. m \in Mutex /\ m \in mhead[t]
    BY <1>1, <1>6 DEF SetPid, SetFlags, At, CondPlaces
  <2>2. /\ UNCHANGED <<semvars, mhead, call, intr, state>>
        /\ pid' = pid \/ pid' = [pid EXCEPT ![m] = t]
    BY <1>6 DEF SetPid, SetFlags
  <2>3. UnitMoves(n, t)
    BY <1>1, <2>2 DEF UnitMoves, Near, Handed, semvars
  <2>. QED  BY <1>2, <2>1, <2>2, <2>3
<1>. QED  BY <1>3, <1>4, <1>5, <1>6

\* No step breaks the bounds.
LEMMA NextBounded == CondInv /\ BoundInv /\ [CondNext]_allvars => BoundInv'
<1>. SUFFICES ASSUME CondInv, BoundInv, [CondNext]_allvars PROVE BoundInv'
  OBVIOUS
<1>1. /\ MutexInv /\ CondTypes /\ CondCounted /\ CondPlaces /\ LockerPlaces /\ OwnersListed
      /\ PostsBounded /\ (\A m \in Mutex : UnitsBounded(m)) /\ csem \in Int
      /\ \A m \in Mutex : semcount[m] \in Int
  BY DEF CondInv, BoundInv, MutexInv, MutexTypes, CondTypes
<1>2. /\ \A m \in Mutex : semcount'[m] \in Int
      /\ csem' \in Int
  BY NextInv DEF CondInv, MutexInv, MutexTypes, CondTypes
<1>3. ASSUME UNCHANGED vars PROVE OwnersListed' /\ \A m \in Mutex : UnitsBounded(m)'
  BY <1>1, <1>3 DEF vars, OwnersListed, UnitsBounded, Near, Handed
<1>4. ASSUME NEW t \in Thread, UNCHANGED <<csem, gives, locker>> PROVE PostsBounded'
  BY <1>1, <1>4, NoPostBounded
<1>5. CASE UNCHANGED allvars
  BY <1>1, <1>3, <1>5 DEF allvars, condvars, BoundInv, PostsBounded, Posting, PostsLeft
<1>6. ASSUME NEW t \in Thread, MutexCall(t) \/ \E m \in Mutex : Signal(t, m) /\ UNCHANGED condvars
      PROVE  BoundInv'
  <2>1. UNCHANGED condvars
    BY <1>6 DEF MutexCall
  <2>2. OwnersListed' /\ \A m \in Mutex : UnitMoves(m, t)
    BY <1>1, <1>6, MutexStepMoves, MutexStepListed DEF MutexCall
  <2>3. \A m \in Mutex : UnitsBounded(m)'
    BY <1>1, <1>2, <2>2, UnitMovesBounded
  <2>. QED  BY <1>4, <2>1, <2>2, <2>3 DEF BoundInv, condvars
<1>7. ASSUME NEW t \in Thread,
             \/ Retake(t) \/ RetakeReturns(t) \/ SetPid(t) \/ SetFlags(t)
             \/ \E m \in Mutex : \E withTimeout \in BOOLEAN : CondWait(t, m, withTimeout)
      PROVE  BoundInv'
  <2>1. ASSUME NEW n \in Mutex PROVE UnitMoves(n, t) /\ OwnersListed'
    BY <1>1, <1>7, CondStepMoves
  <2>2. \A m \in Mutex : UnitsBounded(m)'
    BY <1>1, <1>2, <2>1, UnitMovesBounded
  <2>3. /\ gives' = gives /\ csem' = csem /\ gives[t] = 0
        /\ locker \in {None, t} /\ locker' \in {None, t}
    BY <1>1, <1>7 DEF Retake, RetakeReturns, SetPid, SetFlags, CondWait, At, CondPlaces, TakeMutex,
                      Taken, Reacquired, NotReacquired
  <2>4. PostsBounded'
    BY <1>1, <1>2, <2>3, NoPostBounded
  <2>5. OwnersListed'
    BY <2>1 DEF OwnersListed
  <2>. QED  BY <2>2, <2>4, <2>5 DEF BoundInv
<1>8. ASSUME NEW t \in Thread, CondTake(t) \/ CondWoken(t) PROVE BoundInv'
  <2>1. /\ UNCHANGED vars /\ gives' = gives /\ csem' <= csem /\ gives[t] = 0
        /\ locker \in {None, t} /\ locker' \in {None, t}
    BY <1>1, <1>8 DEF CondTake, CondWoken, TakeCond, At, CondPlaces
  <2>2. PostsBounded'
    BY <1>1, <1>2, <2>1, NoPostBounded
  <2>. QED  BY <1>3, <2>1, <2>2 DEF BoundInv
<1>9. ASSUME NEW t \in Thread, CondSignalled(t) PROVE BoundInv'
  <2>1. csem < 0
    BY <1>1, <1>9, ThreadSets DEF CondSignalled, CondCounted, CondTypes
  <2>2. UNCHANGED vars /\ gives' = gives /\ locker' = locker /\ csem' <= 0
    BY <1>1, <1>9, <2>1 DEF CondSignalled
  <2>3. PostsBounded'
    BY <1>1, <1>2, <2>2, NoPostBounded
  <2>. QED  BY <1>3, <2>2, <2>3 DEF BoundInv
<1>10. ASSUME NEW t \in Thread, CondSignal(t) \/ Broadcast(t) PROVE BoundInv'
  BY <1>1, <1>3, <1>10, BeginGivingBounded DEF CondSignal, Broadcast, BoundInv
<1>11. ASSUME NEW t \in Thread, CondGive(t) PROVE BoundInv'
  BY <1>1, <1>3, <1>11, CondGiveBounded DEF CondGive, BoundInv
<1>12. ASSUME NEW t \in Thread, CondGiven(t) PROVE BoundInv'
  <2>1. /\ UNCHANGED <<vars, gives, csem>> /\ gives[t] = 0
        /\ locker \in {None, t} /\ locker' \in {None, t}
    BY <1>12 DEF CondGiven, At
  <2>2. PostsBounded'
    BY <1>1, <1>2, <2>1, NoPostBounded
  <2>. QED  BY <1>3, <2>1, <2>2 DEF BoundInv
<1>. QED  BY <1>5, <1>6, <1>7, <1>8, <1>9, <1>10, <1>11, <1>12 DEF CondNext

\* At first each mutex has one unit and no owner, and nobody has posts to make.
LEMMA InitBounded == CondInit => BoundInv
<1>. SUFFICES ASSUME CondInit PROVE BoundInv
  OBVIOUS
<1>1. Cardinality(Thread) \in Nat /\ Cardinality({}) = 0
  BY ThreadSets, FS_EmptySet
<1>2. OwnersListed
  BY NoneIsNobody DEF CondInit, Init, OwnersListed
<1>3. ASSUME NEW m \in Mutex PROVE UnitsBounded(m)
  <2>1. Near(m) = {} /\ semcount[m] = 1
    BY NoneIsNobody DEF CondInit, Init, Near, Handed
  <2>. QED  BY <1>1, <2>1 DEF UnitsBounded
<1>4. PostsBounded
  <2>1. Posting = {} /\ PostsLeft = 0 /\ csem = 0
    BY DEF CondInit, Posting, PostsLeft
  <2>2. \A t \in Thread : gives[t] = 0
    BY DEF CondInit
  <2>. QED  BY <1>1, <2>1, <2>2 DEF PostsBounded
<1>. QED  BY <1>2, <1>3, <1>4 DEF BoundInv

\* Repairs that double a mutex's unit, owners that die, posts of a condition
\* that come too late: none of it adds up.  The count of a mutex stays at most
\* one above the number of threads, the count of a condition at most twice it.
THEOREM BoundsAlways == CondSpec => [](CondInv /\ BoundInv)
<1>1. CondInit => CondInv /\ BoundInv
  BY InitInv, InitBounded
<1>2. CondInv /\ BoundInv /\ [CondNext]_allvars => (CondInv /\ BoundInv)'
  BY NextInv, NextBounded
<1>. QED  BY <1>1, <1>2, PTL DEF CondSpec

\* The variables of mutexes and condition keep their types, with these bounds.
THEOREM CondTypesAlways == CondSpec => []CondTypeOK
<1>1. CondInv /\ BoundInv => CondTypeOK
  <2>. SUFFICES ASSUME CondInv, BoundInv PROVE CondTypeOK
    OBVIOUS
  <2>. DEFINE N == Cardinality(Thread)
  <2>1. /\ MutexTypes /\ CondTypes /\ CondCounted /\ PostsBounded
        /\ \A m \in Mutex : UnitsBounded(m) /\ Counted(m)
    BY DEF CondInv, MutexInv, BoundInv
  <2>2. N \in Nat /\ Cardinality(cwaiting) \in Nat /\ Cardinality(cwaiting) <= N
    BY <2>1, ThreadSets DEF CondTypes
  <2>3. ASSUME NEW m \in Mutex PROVE semcount[m] \in (-N)..(N + 1)
    <3>1. Near(m) \in SUBSET Thread /\ waiting[m] \in SUBSET Thread /\ semcount[m] \in Int
      BY <2>1 DEF Near, MutexTypes
    <3>2. /\ Cardinality(Near(m)) \in Nat /\ Cardinality(waiting[m]) \in Nat
          /\ Cardinality(waiting[m]) <= N
      BY <3>1, ThreadSets
    <3>. QED  BY <2>1, <2>2, <3>1, <3>2 DEF UnitsBounded, Counted
  <2>4. csem \in (-N)..(2 * N)
    <3>1. Cardinality(Posting) \in Nat /\ PostsLeft \in Nat /\ csem \in Int
      BY <2>1, PostingFacts
    <3>. QED  BY <2>1, <2>2, <3>1 DEF CondCounted, PostsBounded
  <2>5. ASSUME NEW t \in Thread PROVE gives[t] \in 0..N
    <3>1. N >= 1 /\ gives[t] \in Nat
      BY <2>1, <2>2, ThreadSets DEF CondTypes
    <3>. QED  BY <2>1, <2>2, <3>1 DEF PostsBounded
  <2>6. semcount \in [Mutex -> (-N)..(N + 1)] /\ gives \in [Thread -> 0..N]
    BY <2>1, <2>3, <2>5 DEF MutexTypes, CondTypes
  <2>. QED  BY <2>1, <2>4, <2>6 DEF CondTypeOK, TypeOK, MutexTypes, CondTypes
<1>. QED  BY <1>1, BoundsAlways, PTL
=============================================================================
