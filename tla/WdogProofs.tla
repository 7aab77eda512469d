----------------------------- MODULE WdogProofs -----------------------------
(***************************************************************************)
(* Wdog, for pools of any size and delays of any length.  The invariant    *)
(* says that the flag, the list and the pool agree, and of the lags that   *)
(* what they add up to is a number of ticks a delay can have.  Everything  *)
(* the list operations do is stated in the ticks left of each watchdog:    *)
(* that is the mapping to AbstractTimer.                                   *)
(***************************************************************************)
EXTENDS Wdog, ListLemmas, FiniteSetTheorems

Lag == 0..(MaxDelay + 1)

\* The ticks left of each watchdog, as the mapping to AbstractTimer has them.
Left(w) == [d \in Dog |-> IF w.isactive[d] THEN wd_gettime(w, d) ELSE Off]

\* The flag and the list agree.
Shape(w) ==
  /\ w.active \in Seq(Dog) /\ w.lag \in [Dog -> Lag] /\ w.isactive \in [Dog -> BOOLEAN]
  /\ NoRepeat(w.active)
  /\ \A d \in Dog : w.isactive[d] <=> OnList(w.active, d)

\* The ticks left are never more than a watchdog can be started for.
Within(w) == \A d \in Dog : w.isactive[d] => Left(w)[d] <= MaxDelay + 1

\* Every watchdog has ticks left.
Positive(w) == \A d \in Dog : w.isactive[d] => Left(w)[d] > 0

(***************************************************************************)
(* Sequences.                                                              *)
(***************************************************************************)
\* What RemoveAt computes.
LEMMA RemoveAtIs ==
  ASSUME NEW S, NEW list \in Seq(S), NEW i \in 1..Len(list)
  PROVE  LET res == RemoveAt(list, i)
         IN  /\ res \in Seq(S) /\ Len(res) = Len(list) - 1
             /\ \A j \in 1..(Len(list) - 1) : res[j] = IF j < i THEN list[j] ELSE list[j + 1]
<1>. DEFINE a == SubSeq(list, 1, i - 1)
            b == SubSeq(list, i + 1, Len(list))
<1>1. a \in Seq(S) /\ Len(a) = i - 1 /\ \A j \in 1..(i - 1) : a[j] = list[j]
  OBVIOUS
<1>2. b \in Seq(S) /\ Len(b) = Len(list) - i /\ \A j \in 1..(Len(list) - i) : b[j] = list[i + j]
  <2>1. CASE i = Len(list)
    BY <2>1
  <2>2. CASE i < Len(list)
    BY <2>2
  <2>. QED  BY <2>1, <2>2
<1>. HIDE DEF a, b
<1>3. /\ a \o b \in Seq(S) /\ Len(a \o b) = Len(list) - 1
      /\ \A j \in 1..(Len(list) - 1) :
           (a \o b)[j] = IF j <= i - 1 THEN a[j] ELSE b[j - (i - 1)]
  <2>0. a \in Seq(S) /\ b \in Seq(S)
    BY <1>1, <1>2
  <2>1. /\ a \o b \in Seq(S) /\ Len(a \o b) = Len(a) + Len(b)
        /\ \A j \in 1..(Len(a) + Len(b)) :
             (a \o b)[j] = IF j <= Len(a) THEN a[j] ELSE b[j - Len(a)]
    BY <2>0
  <2>2. Len(a) + Len(b) = Len(list) - 1
    BY <1>1, <1>2
  <2>. QED  BY <1>1, <2>1, <2>2
<1>4. ASSUME NEW j \in 1..(Len(list) - 1)
      PROVE  (a \o b)[j] = IF j < i THEN list[j] ELSE list[j + 1]
  <2>1. CASE j < i
    BY <1>1, <1>3, <2>1
  <2>2. CASE ~(j < i)
    <3>1. j - (i - 1) \in 1..(Len(list) - i) /\ i + (j - (i - 1)) = j + 1
      BY <2>2
    <3>2. (a \o b)[j] = b[j - (i - 1)]
      BY <1>3, <2>2
    <3>. QED  BY <1>2, <2>2, <3>1, <3>2
  <2>. QED  BY <2>1, <2>2
<1>5. RemoveAt(list, i) = a \o b
  BY DEF RemoveAt, a, b
<1>. QED  BY <1>3, <1>4, <1>5

\* What InsertAt computes.
LEMMA InsertAtIs ==
  ASSUME NEW S, NEW list \in Seq(S), NEW i \in 1..Len(list), NEW t \in S
  PROVE  LET res == InsertAt(list, i, t)
         IN  /\ res \in Seq(S) /\ Len(res) = Len(list) + 1
             /\ \A j \in 1..(Len(list) + 1) :
                  res[j] = IF j < i THEN list[j] ELSE IF j = i THEN t ELSE list[j - 1]
BY DEF InsertAt

\* A list without repetitions is no longer than the set is large.
LEMMA NoRepeatBound ==
  ASSUME NEW S, IsFiniteSet(S), NEW list \in Seq(S), NoRepeat(list)
  PROVE  Len(list) <= Cardinality(S)
<1>1. list \in Injection(1..Len(list), S)
  BY DEF Injection, IsInjective, NoRepeat
<1>2. Cardinality(1..Len(list)) = Len(list)
  <2>1. Len(list) \in Nat
    OBVIOUS
  <2>2. Cardinality(1..Len(list)) = IF 1 > Len(list) THEN 0 ELSE Len(list) - 1 + 1
    BY <2>1, FS_Interval
  <2>. QED  BY <2>1, <2>2
<1>. QED  BY <1>1, <1>2, FS_Injection

(***************************************************************************)
(* The sums of lags.                                                       *)
(***************************************************************************)
\* The recursive definition behind Now: nothing before the first watchdog, and
\* at each one its lag more.
LEMMA NowUnfold ==
  ASSUME NEW w, w.active \in Seq(Dog), w.lag \in [Dog -> Lag]
  PROVE  /\ Now(w, 0) = 0
         /\ \A i \in 1..Len(w.active) : Now(w, i) = Now(w, i - 1) + w.lag[w.active[i]]
         /\ \A i \in 0..Len(w.active) : Now(w, i) \in Nat
<1>. DEFINE n == Len(w.active)
            F == [i \in Nat |-> [v \in Nat |-> IF i \in 1..n THEN v + w.lag[w.active[i]] ELSE v]]
            D(f) == [k \in 0..n |-> IF k = 0 THEN 0 ELSE f[k - 1] + w.lag[w.active[k]]]
            m == CHOOSE f : f = D(f)
<1>1. n \in Nat /\ \A i \in 1..n : w.active[i] \in Dog /\ w.lag[w.active[i]] \in Nat
  BY MaxDelayNat DEF Lag
<1>2. F \in [Nat -> [Nat -> Nat]]
  <2>1. ASSUME NEW i \in Nat, NEW v \in Nat
        PROVE  (IF i \in 1..n THEN v + w.lag[w.active[i]] ELSE v) \in Nat
    BY <1>1
  <2>. HIDE DEF n
  <2>. QED  BY <2>1
<1>. HIDE DEF n
<1>3. PICK g : Iterates(g, n, Nat, 0, F)
  <2>. HIDE DEF F
  <2>. QED  BY <1>1, <1>2, RecursionExists
<1>4. g \in [0..n -> Nat] /\ g[0] = 0 /\ \A i \in 1..n : g[i] = g[i - 1] + w.lag[w.active[i]]
  <2>1. g \in [0..n -> Nat] /\ g[0] = 0
    BY <1>3 DEF Iterates
  <2>2. ASSUME NEW i \in 1..n PROVE g[i] = g[i - 1] + w.lag[w.active[i]]
    <3>1. g[i] = F[i][g[i - 1]]
      <4>. HIDE DEF F
      <4>. QED  BY <1>3 DEF Iterates
    <3>2. i \in Nat /\ g[i - 1] \in Nat
      BY <1>1, <2>1
    <3>. QED  BY <3>1, <3>2
  <2>. QED  BY <2>1, <2>2
<1>5. \A f : /\ D(f)[0] = 0
             /\ \A i \in 1..n : D(f)[i] = f[i - 1] + w.lag[w.active[i]]
  BY <1>1
<1>6. g = D(g)
  <2>1. \A i \in 0..n : g[i] = D(g)[i]
    <3>1. \A i \in 0..n : i = 0 \/ i \in 1..n
      BY <1>1
    <3>. HIDE DEF D
    <3>. QED  BY <1>4, <1>5, <3>1
  <2>2. D(g) = [i \in 0..n |-> D(g)[i]]
    OBVIOUS
  <2>. HIDE DEF D
  <2>. QED  BY <1>4, <2>1, <2>2
<1>7. \A i : Now(w, i) = m[i]
  BY DEF Now, n
<1>8. m = D(m)
  BY <1>6
<1>9. m[0] = 0 /\ \A i \in 1..n : m[i] = m[i - 1] + w.lag[w.active[i]]
  <2>. HIDE DEF m, D
  <2>. QED  BY <1>5, <1>8
<1>. DEFINE S == {i \in Nat : i <= n => m[i] \in Nat}
<1>. HIDE DEF m
<1>10. Nat \subseteq S
  <2>1. 0 \in S
    BY <1>9
  <2>2. ASSUME NEW i \in Nat, i \in S PROVE i + 1 \in S
    <3>. SUFFICES ASSUME i + 1 <= n PROVE m[i + 1] \in Nat
      OBVIOUS
    <3>1. i + 1 \in 1..n /\ (i + 1) - 1 = i /\ m[i] \in Nat
      BY <1>1, <2>2
    <3>2. m[i + 1] = m[i] + w.lag[w.active[i + 1]]
      BY <1>9, <3>1
    <3>. QED  BY <1>1, <3>1, <3>2
  <2>. HIDE DEF S
  <2>. QED  BY <2>1, <2>2, InductionOnSet
<1>11. \A i \in 0..n : m[i] \in Nat
  BY <1>1, <1>10
<1>. QED  BY <1>7, <1>9, <1>11 DEF n

\* A function that obeys the same recursion is Now.
LEMMA NowIs ==
  ASSUME NEW w, w.active \in Seq(Dog), w.lag \in [Dog -> Lag],
         NEW g, g[0] = 0,
         \A i \in 1..Len(w.active) : g[i] = g[i - 1] + w.lag[w.active[i]]
  PROVE  \A i \in 0..Len(w.active) : Now(w, i) = g[i]
<1>. DEFINE n == Len(w.active)
            S == {i \in Nat : i <= n => Now(w, i) = g[i]}
<1>1. n \in Nat
  OBVIOUS
<1>2. Nat \subseteq S
  <2>1. 0 \in S
    BY NowUnfold
  <2>2. ASSUME NEW i \in Nat, i \in S PROVE i + 1 \in S
    <3>. SUFFICES ASSUME i + 1 <= n PROVE Now(w, i + 1) = g[i + 1]
      OBVIOUS
    <3>1. i + 1 \in 1..n /\ (i + 1) - 1 = i /\ Now(w, i) = g[i]
      BY <1>1, <2>2
    <3>. QED  BY <3>1, NowUnfold
  <2>. HIDE DEF S
  <2>. QED  BY <2>1, <2>2, InductionOnSet
<1>. QED  BY <1>1, <1>2

\* The sums do not fall along the list.
LEMMA NowMonotone ==
  ASSUME NEW w, w.active \in Seq(Dog), w.lag \in [Dog -> Lag],
         NEW i \in 0..Len(w.active), NEW j \in 0..Len(w.active), i <= j
  PROVE  Now(w, i) <= Now(w, j)
<1>. DEFINE n == Len(w.active)
            S == {k \in Nat : i <= k /\ k <= n => Now(w, i) <= Now(w, k)}
<1>1. n \in Nat /\ \A k \in 1..n : w.lag[w.active[k]] \in Nat
  BY MaxDelayNat DEF Lag
<1>2. \A k \in 0..n : Now(w, k) \in Nat
  BY NowUnfold
<1>3. Nat \subseteq S
  <2>1. 0 \in S
    BY <1>2
  <2>2. ASSUME NEW k \in Nat, k \in S PROVE k + 1 \in S
    <3>. SUFFICES ASSUME i <= k + 1, k + 1 <= n PROVE Now(w, i) <= Now(w, k + 1)
      OBVIOUS
    <3>1. CASE i = k + 1
      BY <1>2, <3>1
    <3>2. CASE i <= k
      <4>1. k + 1 \in 1..n /\ (k + 1) - 1 = k /\ Now(w, i) <= Now(w, k)
        BY <1>1, <2>2, <3>2
      <4>2. Now(w, k + 1) = Now(w, k) + w.lag[w.active[k + 1]]
        BY <4>1, NowUnfold
      <4>3. w.lag[w.active[k + 1]] \in Nat
        BY <1>1, <4>1
      <4>4. Now(w, i) \in Nat /\ Now(w, k) \in Nat
        BY <1>1, <1>2, <4>1
      <4>. QED  BY <4>1, <4>2, <4>3, <4>4, SMTT(30)
    <3>. QED  BY <3>1, <3>2
  <2>. HIDE DEF S
  <2>. QED  BY <2>1, <2>2, InductionOnSet
<1>. QED  BY <1>1, <1>3

(***************************************************************************)
(* The ticks left of a watchdog.                                           *)
(***************************************************************************)
\* The i-th watchdog has as many ticks left as the lags up to it add up to.
LEMMA LeftAt ==
  ASSUME NEW w, Shape(w), NEW i \in 1..Len(w.active)
  PROVE  /\ w.active[i] \in Dog /\ w.isactive[w.active[i]]
         /\ Place(w, w.active[i]) = i
         /\ Left(w)[w.active[i]] = Now(w, i) /\ Now(w, i) \in Nat
<1>. DEFINE d == w.active[i]
<1>1. d \in Dog /\ w.isactive[d]
  BY DEF Shape, OnList
<1>2. Place(w, d) = i
  <2>1. \A k \in 1..Len(w.active) : w.active[k] = d <=> k = i
    BY DEF Shape, NoRepeat
  <2>. QED  BY <2>1 DEF Place
<1>3. Now(w, i) \in Nat
  BY NowUnfold DEF Shape
<1>4. Left(w)[d] = Now(w, i)
  BY <1>1, <1>2 DEF Left, wd_gettime
<1>. QED  BY <1>1, <1>2, <1>3, <1>4

\* An active watchdog has a place on the list.
LEMMA PlaceOf ==
  ASSUME NEW w, Shape(w), NEW d \in Dog, w.isactive[d]
  PROVE  /\ Place(w, d) \in 1..Len(w.active) /\ w.active[Place(w, d)] = d
         /\ Left(w)[d] = Now(w, Place(w, d))
<1>1. PICK i \in 1..Len(w.active) : w.active[i] = d
  BY DEF Shape, OnList
<1>. QED  BY <1>1, LeftAt

\* The ticks left are a number exactly for the active watchdogs.
LEMMA LeftTyped ==
  ASSUME NEW w, Shape(w)
  PROVE  \A d \in Dog : IF w.isactive[d] THEN Left(w)[d] \in Nat ELSE Left(w)[d] = Off
<1>. TAKE d \in Dog
<1>1. CASE w.isactive[d]
  BY <1>1, PlaceOf, LeftAt
<1>2. CASE ~w.isactive[d]
  <2>1. Left(w)[d] = Off
    BY <1>2 DEF Left
  <2>. QED  BY <1>2, <2>1
<1>. QED  BY <1>1, <1>2

(***************************************************************************)
(* Taking a watchdog off the list.                                         *)
(***************************************************************************)
\* The list and the lags after Unlink.
Unlinked(w, i, r) ==
  /\ r.active \in Seq(Dog) /\ Len(r.active) = Len(w.active) - 1
  /\ \A j \in 1..(Len(w.active) - 1) :
       r.active[j] = IF j < i THEN w.active[j] ELSE w.active[j + 1]
  /\ r.lag \in [Dog -> Lag]
  /\ \A j \in 1..(Len(w.active) - 1) :
       r.lag[r.active[j]] = IF j = i THEN w.lag[w.active[i + 1]] + w.lag[w.active[i]]
                            ELSE w.lag[r.active[j]]
  /\ r.isactive = [w.isactive EXCEPT ![w.active[i]] = FALSE]

\* Unlink does that: the next watchdog inherits the lag.
LEMMA UnlinkIs ==
  ASSUME NEW w, Shape(w), Within(w), NEW i \in 1..Len(w.active), NEW r, r = Unlink(w, i)
  PROVE  Unlinked(w, i, r)
<1>. DEFINE n == Len(w.active)
            d == w.active[i]
<1>1. /\ w.active \in Seq(Dog) /\ w.lag \in [Dog -> Lag] /\ n \in Nat /\ NoRepeat(w.active)
      /\ \A j \in 1..n : w.active[j] \in Dog
  BY DEF Shape
<1>2. /\ r.active = RemoveAt(w.active, i)
      /\ r.lag = IF i < n THEN [w.lag EXCEPT ![w.active[i + 1]] = w.lag[w.active[i + 1]] + w.lag[d]]
                 ELSE w.lag
      /\ r.isactive = [w.isactive EXCEPT ![d] = FALSE]
  BY DEF Unlink
<1>3. /\ r.active \in Seq(Dog) /\ Len(r.active) = n - 1
      /\ \A j \in 1..(n - 1) : r.active[j] = IF j < i THEN w.active[j] ELSE w.active[j + 1]
  <2>1. LET res == RemoveAt(w.active, i)
        IN  /\ res \in Seq(Dog) /\ Len(res) = n - 1
            /\ \A j \in 1..(n - 1) : res[j] = IF j < i THEN w.active[j] ELSE w.active[j + 1]
    BY <1>1, RemoveAtIs
  <2>. QED  BY <1>2, <2>1
<1>4. i < n => w.lag[w.active[i + 1]] + w.lag[d] \in Lag
  <2>. SUFFICES ASSUME i < n PROVE w.lag[w.active[i + 1]] + w.lag[d] \in Lag
    OBVIOUS
  <2>. DEFINE x == w.lag[w.active[i + 1]]
              y == w.lag[d]
  <2>1. i + 1 \in 1..n /\ i \in 1..n /\ (i + 1) - 1 = i /\ i - 1 \in 0..n
    BY <1>1
  <2>2. Now(w, i + 1) = Now(w, i) + x /\ Now(w, i) = Now(w, i - 1) + y
    BY <1>1, <2>1, NowUnfold
  <2>3. Now(w, i + 1) \in Nat /\ Now(w, i) \in Nat /\ Now(w, i - 1) \in Nat
    BY <1>1, <2>1, NowUnfold
  <2>4. Now(w, i + 1) <= MaxDelay + 1
    BY <2>1, LeftAt DEF Within
  <2>5. x \in Nat /\ y \in Nat
    BY <1>1, <2>1, MaxDelayNat, SMTT(30) DEF Lag
  <2>. HIDE DEF x, y
  <2>6. x + y <= MaxDelay + 1 /\ x + y \in Nat
    <3>1. Now(w, i + 1) = Now(w, i - 1) + (x + y)
      BY <2>2, <2>3, <2>5
    <3>. QED  BY <2>3, <2>4, <2>5, <3>1, MaxDelayNat
  <2>7. x + y \in Lag
    BY <2>6, MaxDelayNat DEF Lag
  <2>. QED  BY <2>7 DEF x, y
<1>5. r.lag \in [Dog -> Lag]
  <2>1. CASE i < n
    <3>1. w.active[i + 1] \in Dog
      BY <1>1, <2>1
    <3>. QED  BY <1>1, <1>2, <1>4, <2>1, <3>1
  <2>2. CASE ~(i < n)
    BY <1>1, <1>2, <2>2
  <2>. QED  BY <2>1, <2>2
<1>6. ASSUME NEW j \in 1..(n - 1)
      PROVE  r.lag[r.active[j]] = IF j = i THEN w.lag[w.active[i + 1]] + w.lag[d]
                                  ELSE w.lag[r.active[j]]
  <2>1. PICK k \in 1..n : r.active[j] = w.active[k] /\ (k = i + 1 <=> j = i)
    <3>1. CASE j < i
      <4>1. j \in 1..n /\ j # i + 1 /\ j # i
        BY <1>1, <3>1
      <4>. QED  BY <1>3, <3>1, <4>1
    <3>2. CASE ~(j < i)
      <4>1. j + 1 \in 1..n /\ (j + 1 = i + 1 <=> j = i)
        BY <1>1
      <4>. QED  BY <1>3, <3>2, <4>1
    <3>. QED  BY <3>1, <3>2
  <2>2. CASE i < n
    <3>1. i + 1 \in 1..n /\ w.active[i + 1] \in Dog /\ w.active[k] \in Dog
      BY <1>1, <2>2
    <3>2. w.active[k] = w.active[i + 1] <=> k = i + 1
      BY <1>1, <3>1 DEF NoRepeat
    <3>3. r.lag = [w.lag EXCEPT ![w.active[i + 1]] = w.lag[w.active[i + 1]] + w.lag[d]]
      BY <1>2, <2>2
    <3>. QED  BY <1>1, <2>1, <3>1, <3>2, <3>3
  <2>3. CASE ~(i < n)
    <3>1. j # i
      BY <1>1, <2>3
    <3>. QED  BY <1>2, <2>3, <3>1
  <2>. QED  BY <2>2, <2>3
<1>. QED  BY <1>2, <1>3, <1>5, <1>6 DEF Unlinked

\* Unlink keeps the list in shape, and no other watchdog gains or loses a tick.
LEMMA UnlinkKeeps ==
  ASSUME NEW w, Shape(w), Within(w), NEW i \in 1..Len(w.active), NEW r, r = Unlink(w, i)
  PROVE  /\ Shape(r) /\ Left(r) = [Left(w) EXCEPT ![w.active[i]] = Off]
         /\ r.isactive = [w.isactive EXCEPT ![w.active[i]] = FALSE]
<1>. DEFINE n == Len(w.active)
            d == w.active[i]
            src(j) == IF j < i THEN j ELSE j + 1
            g == [j \in 0..(n - 1) |-> Now(w, src(j))]
<1>0. Unlinked(w, i, r)
  BY UnlinkIs
<1>1. /\ r.active \in Seq(Dog) /\ Len(r.active) = n - 1 /\ r.lag \in [Dog -> Lag]
      /\ r.isactive = [w.isactive EXCEPT ![d] = FALSE]
  BY <1>0 DEF Unlinked
<1>a. \A j \in 1..(n - 1) : r.active[j] = IF j < i THEN w.active[j] ELSE w.active[j + 1]
  BY <1>0 DEF Unlinked
<1>l. \A j \in 1..(n - 1) :
        r.lag[r.active[j]] = IF j = i THEN w.lag[w.active[i + 1]] + w.lag[w.active[i]]
                             ELSE w.lag[r.active[j]]
  BY <1>0 DEF Unlinked
<1>2. /\ n \in Nat /\ i \in 1..n /\ NoRepeat(w.active) /\ w.isactive \in [Dog -> BOOLEAN]
      /\ w.active \in Seq(Dog) /\ w.lag \in [Dog -> Lag]
      /\ \A j \in 1..n : w.active[j] \in Dog
      /\ \A x \in Dog : w.isactive[x] <=> OnList(w.active, x)
  BY DEF Shape
<1>3. /\ \A j \in 1..(n - 1) : src(j) \in 1..n /\ src(j) # i /\ r.active[j] = w.active[src(j)]
      /\ \A j, k \in 1..(n - 1) : src(j) = src(k) => j = k
      /\ \A k \in 1..n : k # i => \E j \in 1..(n - 1) : src(j) = k
  <2>1. \A j \in 1..(n - 1) : src(j) \in 1..n /\ src(j) # i /\ r.active[j] = w.active[src(j)]
    BY <1>2, <1>a
  <2>2. \A j, k \in 1..(n - 1) : src(j) = src(k) => j = k
    BY <1>2
  <2>3. ASSUME NEW k \in 1..n, k # i PROVE \E j \in 1..(n - 1) : src(j) = k
    <3>1. CASE k < i
      <4>1. k \in 1..(n - 1) /\ src(k) = k
        BY <1>2, <3>1
      <4>. QED  BY <4>1
    <3>2. CASE k > i
      <4>1. k - 1 \in 1..(n - 1) /\ src(k - 1) = k
        BY <1>2, <3>2
      <4>. QED  BY <4>1
    <3>. QED  BY <1>2, <2>3, <3>1, <3>2
  <2>. QED  BY <2>1, <2>2, <2>3
<1>4. \A j \in 0..(n - 1) : Now(r, j) = Now(w, src(j))
  <2>1. g[0] = 0
    BY <1>2, NowUnfold
  <2>2. ASSUME NEW j \in 1..(n - 1) PROVE g[j] = g[j - 1] + r.lag[r.active[j]]
    <3>1. j \in 0..(n - 1) /\ j - 1 \in 0..(n - 1)
      BY <1>2
    <3>2. g[j] = Now(w, src(j)) /\ g[j - 1] = Now(w, src(j - 1))
      BY <3>1
    <3>3. CASE j < i
      <4>1. src(j) = j /\ src(j - 1) = j - 1 /\ j \in 1..n /\ j # i
        BY <1>2, <3>3
      <4>2. Now(w, j) = Now(w, j - 1) + w.lag[w.active[j]]
        BY <1>2, <4>1, NowUnfold
      <4>3. r.lag[r.active[j]] = w.lag[w.active[j]]
        BY <1>a, <1>l, <3>3, <4>1
      <4>. QED  BY <3>2, <4>1, <4>2, <4>3
    <3>4. CASE j = i
      <4>1. src(j) = j + 1 /\ src(j - 1) = j - 1 /\ j \in 1..n /\ j + 1 \in 1..n /\ (j + 1) - 1 = j
        BY <1>2, <3>4
      <4>2. Now(w, j) = Now(w, j - 1) + w.lag[w.active[j]]
        BY <1>2, <4>1, NowUnfold
      <4>3. Now(w, j + 1) = Now(w, j) + w.lag[w.active[j + 1]]
        BY <1>2, <4>1, NowUnfold
      <4>4. Now(w, j - 1) \in Nat
        BY <1>2, <3>1, NowUnfold
      <4>5. w.lag[w.active[j]] \in Nat /\ w.lag[w.active[j + 1]] \in Nat
        <5>1. w.active[j] \in Dog /\ w.active[j + 1] \in Dog /\ Lag \subseteq Nat
          BY <1>2, <4>1, MaxDelayNat DEF Lag
        <5>. QED  BY <1>2, <5>1
      <4>6. r.lag[r.active[j]] = w.lag[w.active[j + 1]] + w.lag[w.active[j]]
        BY <1>l, <3>4
      <4>. HIDE DEF src
      <4>. QED  BY <3>2, <4>1, <4>2, <4>3, <4>4, <4>5, <4>6, SMTT(30)
    <3>5. CASE j > i
      <4>1. src(j) = j + 1 /\ src(j - 1) = j /\ j + 1 \in 1..n /\ (j + 1) - 1 = j /\ j # i
        BY <1>2, <3>5
      <4>2. Now(w, j + 1) = Now(w, j) + w.lag[w.active[j + 1]]
        BY <1>2, <4>1, NowUnfold
      <4>3. r.active[j] = w.active[j + 1]
        <5>1. ~(j < i)
          BY <1>2, <3>5
        <5>. QED  BY <1>a, <5>1
      <4>4. r.lag[r.active[j]] = w.lag[w.active[j + 1]]
        BY <1>l, <4>1, <4>3
      <4>. QED  BY <3>2, <4>1, <4>2, <4>4
    <3>. QED  BY <1>2, <3>3, <3>4, <3>5
  <2>3. \A j \in 0..(n - 1) : g[j] = Now(w, src(j))
    OBVIOUS
  <2>. HIDE DEF g, src
  <2>4. \A j \in 0..Len(r.active) : Now(r, j) = g[j]
    <3>1. \A j \in 1..Len(r.active) : g[j] = g[j - 1] + r.lag[r.active[j]]
      BY <1>1, <2>2
    <3>2. r.active \in Seq(Dog) /\ r.lag \in [Dog -> Lag]
      BY <1>1
    <3>. QED  BY <2>1, <3>1, <3>2, NowIs
  <2>. QED  BY <1>1, <2>3, <2>4
<1>. HIDE DEF src, g
<1>5. NoRepeat(r.active)
  <2>1. ASSUME NEW j \in 1..(n - 1), NEW k \in 1..(n - 1), r.active[j] = r.active[k] PROVE j = k
    <3>1. src(j) \in 1..n /\ src(k) \in 1..n /\ w.active[src(j)] = w.active[src(k)]
      BY <1>3, <2>1
    <3>2. src(j) = src(k)
      BY <1>2, <3>1 DEF NoRepeat
    <3>. QED  BY <1>3, <3>2
  <2>. QED  BY <1>1, <2>1 DEF NoRepeat
<1>6. \A x \in Dog : OnList(r.active, x) <=> OnList(w.active, x) /\ x # d
  <2>1. ASSUME NEW x \in Dog, OnList(r.active, x) PROVE OnList(w.active, x) /\ x # d
    <3>1. PICK j \in 1..(n - 1) : r.active[j] = x
      BY <1>1, <2>1 DEF OnList
    <3>2. src(j) \in 1..n /\ src(j) # i /\ w.active[src(j)] = x
      BY <1>3, <3>1
    <3>. QED  BY <1>2, <3>2 DEF OnList, NoRepeat
  <2>2. ASSUME NEW x \in Dog, OnList(w.active, x), x # d PROVE OnList(r.active, x)
    <3>1. PICK k \in 1..n : w.active[k] = x
      BY <2>2 DEF OnList
    <3>2. PICK j \in 1..(n - 1) : src(j) = k
      BY <1>3, <2>2, <3>1
    <3>. QED  BY <1>1, <1>3, <3>1, <3>2 DEF OnList
  <2>. QED  BY <2>1, <2>2
<1>7. Shape(r)
  <2>1. r.isactive \in [Dog -> BOOLEAN] /\ \A x \in Dog : r.isactive[x] <=> w.isactive[x] /\ x # d
    BY <1>1, <1>2
  <2>. QED  BY <1>1, <1>2, <1>5, <1>6, <2>1 DEF Shape
<1>8. ASSUME NEW x \in Dog PROVE Left(r)[x] = IF x = d THEN Off ELSE Left(w)[x]
  <2>1. CASE ~r.isactive[x]
    <3>1. x = d \/ ~w.isactive[x]
      BY <1>1, <1>2, <2>1
    <3>. QED  BY <2>1, <3>1 DEF Left
  <2>2. CASE r.isactive[x]
    <3>1. x # d
      BY <1>1, <1>2, <2>2
    <3>2. PICK j \in 1..(n - 1) : r.active[j] = x
      BY <1>1, <1>7, <2>2 DEF Shape, OnList
    <3>3. Left(r)[x] = Now(r, j)
      BY <1>1, <1>7, <3>2, LeftAt
    <3>4. src(j) \in 1..n /\ w.active[src(j)] = x
      BY <1>3, <3>2
    <3>5. Left(w)[x] = Now(w, src(j))
      BY <3>4, LeftAt
    <3>6. j \in 0..(n - 1)
      BY <1>2
    <3>. QED  BY <1>4, <3>1, <3>3, <3>5, <3>6
  <2>. QED  BY <2>1, <2>2
<1>9. Left(r) = [Left(w) EXCEPT ![d] = Off]
  <2>1. Left(r) = [x \in Dog |-> Left(r)[x]] /\ Left(w) = [x \in Dog |-> Left(w)[x]]
    BY DEF Left
  <2>. QED  BY <1>8, <2>1
<1>. QED  BY <1>1, <1>7, <1>9

\* wd_cancel stops that watchdog and no other.
LEMMA CancelKeeps ==
  ASSUME NEW w, Shape(w), Within(w), NEW d \in Dog, NEW r, r = wd_cancel(w, d)
  PROVE  /\ Shape(r) /\ Left(r) = [Left(w) EXCEPT ![d] = Off]
         /\ r.isactive = [w.isactive EXCEPT ![d] = FALSE]
<1>1. CASE w.isactive[d]
  <2>1. Place(w, d) \in 1..Len(w.active) /\ w.active[Place(w, d)] = d
    BY <1>1, PlaceOf
  <2>2. r = Unlink(w, Place(w, d))
    BY <1>1 DEF wd_cancel
  <2>. DEFINE i == Place(w, d)
  <2>. HIDE DEF i
  <2>3. i \in 1..Len(w.active) /\ w.active[i] = d /\ r = Unlink(w, i)
    BY <2>1, <2>2 DEF i
  <2>4. /\ Shape(r) /\ Left(r) = [Left(w) EXCEPT ![w.active[i]] = Off]
        /\ r.isactive = [w.isactive EXCEPT ![w.active[i]] = FALSE]
    BY <2>3, UnlinkKeeps
  <2>. QED  BY <2>3, <2>4
<1>2. CASE ~w.isactive[d]
  <2>1. r = w
    BY <1>2 DEF wd_cancel
  <2>2. Left(w) = [Left(w) EXCEPT ![d] = Off]
    <3>1. Left(w)[d] = Off /\ Left(w) = [x \in Dog |-> Left(w)[x]]
      BY <1>2 DEF Left
    <3>. HIDE DEF Left
    <3>. QED  BY <3>1
  <2>3. w.isactive = [w.isactive EXCEPT ![d] = FALSE]
    BY <1>2 DEF Shape
  <2>. QED  BY <2>1, <2>2, <2>3
<1>. QED  BY <1>1, <1>2

\* Stopping a watchdog leaves the others with ticks in range.
LEMMA StoppedInRange ==
  ASSUME NEW w, NEW r, NEW d \in Dog, Shape(w), Left(r) = [Left(w) EXCEPT ![d] = Off],
         r.isactive = [w.isactive EXCEPT ![d] = FALSE]
  PROVE  (Within(w) => Within(r)) /\ (Positive(w) => Positive(r))
<1>1. \A x \in Dog : r.isactive[x] => x # d /\ w.isactive[x]
  BY DEF Shape
<1>2. \A x \in Dog : x # d => Left(r)[x] = Left(w)[x]
  <2>1. Left(w) = [x \in Dog |-> Left(w)[x]]
    BY DEF Left
  <2>. QED  BY <2>1
<1>. QED  BY <1>1, <1>2 DEF Within, Positive

(***************************************************************************)
(* Putting a watchdog on the list.                                         *)
(***************************************************************************)
\* The list and the lags after Enqueue: d is the i-th, before the first
\* watchdog that has more ticks left.
Enqueued(w, d, delay, i, r) ==
  /\ i \in 1..(Len(w.active) + 1)
  /\ Now(w, i - 1) <= delay
  /\ i <= Len(w.active) => delay < Now(w, i)
  /\ r.active \in Seq(Dog) /\ Len(r.active) = Len(w.active) + 1
  /\ \A j \in 1..(Len(w.active) + 1) :
       r.active[j] = IF j < i THEN w.active[j] ELSE IF j = i THEN d ELSE w.active[j - 1]
  /\ r.lag \in [Dog -> Lag]
  /\ r.lag[d] = delay - Now(w, i - 1)
  /\ \A x \in Dog : x # d =>
       r.lag[x] = IF i <= Len(w.active) /\ x = w.active[i]
                  THEN w.lag[x] - (delay - Now(w, i - 1)) ELSE w.lag[x]
  /\ r.isactive = [w.isactive EXCEPT ![d] = TRUE]

\* wd_start finds such a place.
LEMMA EnqueueIs ==
  ASSUME NEW w, Shape(w), NEW d \in Dog, ~w.isactive[d], NEW delay \in 1..(MaxDelay + 1),
         NEW r, r = Enqueue(w, d, delay)
  PROVE  \E i \in 1..(Len(w.active) + 1) : Enqueued(w, d, delay, i, r)
<1>. DEFINE n == Len(w.active)
            later == {i \in 1..n : delay < Now(w, i)}
            on == [w.isactive EXCEPT ![d] = TRUE]
<1>1. /\ w.active \in Seq(Dog) /\ w.lag \in [Dog -> Lag] /\ n \in Nat /\ delay \in Nat
      /\ delay \in Lag /\ delay >= 1 /\ delay <= MaxDelay + 1
  BY MaxDelayNat DEF Shape, Lag
<1>2. /\ \A j \in 1..n : w.active[j] \in Dog /\ w.active[j] # d
  BY DEF Shape, OnList
<1>3. \A j \in 0..n : Now(w, j) \in Nat
  BY <1>1, NowUnfold
<1>4. Now(w, 0) = 0
  BY <1>1, NowUnfold
<1>5. CASE later = {}
  <2>1. r = [active |-> Append(w.active, d),
             lag |-> [w.lag EXCEPT ![d] = delay - Now(w, n)], isactive |-> on]
    BY <1>5 DEF Enqueue
  <2>. DEFINE i == n + 1
              v == delay - Now(w, n)
  <2>2. Now(w, n) <= delay /\ Now(w, n) \in Nat /\ i - 1 = n
    <3>1. n = 0 \/ n \in 1..n
      BY <1>1
    <3>2. n \in 1..n => ~(delay < Now(w, n))
      BY <1>5
    <3>. QED  BY <1>1, <1>3, <1>4, <3>1, <3>2
  <2>3. v \in Lag
    BY <1>1, <2>2, MaxDelayNat DEF Lag
  <2>4. r.lag = [w.lag EXCEPT ![d] = v] /\ r.isactive = on /\ r.active = Append(w.active, d)
    BY <2>1
  <2>. HIDE DEF v
  <2>5. /\ r.active \in Seq(Dog) /\ Len(r.active) = n + 1
        /\ \A j \in 1..(n + 1) : r.active[j] = IF j <= n THEN w.active[j] ELSE d
    BY <1>1, <2>4
  <2>6. \A j \in 1..(n + 1) :
           r.active[j] = IF j < i THEN w.active[j] ELSE IF j = i THEN d ELSE w.active[j - 1]
    BY <1>1, <2>5
  <2>7. /\ r.lag \in [Dog -> Lag] /\ r.lag[d] = v /\ ~(i <= n) /\ i \in 1..(n + 1)
        /\ \A x \in Dog : x # d => r.lag[x] = w.lag[x]
    BY <1>1, <2>3, <2>4
  <2>8. Enqueued(w, d, delay, i, r)
    BY <2>2, <2>4, <2>5, <2>6, <2>7 DEF Enqueued, v
  <2>. QED  BY <2>7, <2>8
<1>6. CASE later # {}
  <2>. DEFINE i == CHOOSE j \in later : \A h \in later : j <= h
              before == Now(w, i - 1)
              v == delay - before
              u == w.lag[w.active[i]] - v
  <2>1. r = [active |-> InsertAt(w.active, i, d),
             lag |-> [w.lag EXCEPT ![d] = delay - before,
                                   ![w.active[i]] = @ - (delay - before)],
             isactive |-> on]
    BY <1>6 DEF Enqueue
  <2>2. i \in later /\ \A h \in later : i <= h
    <3>1. later \in SUBSET Nat
      OBVIOUS
    <3>2. \E m \in later : \A h \in later : m <= h
      <4>. HIDE DEF later
      <4>. QED  BY <1>6, <3>1, LeastNat
    <3>. HIDE DEF later
    <3>. QED  BY <3>2
  <2>. HIDE DEF i
  <2>3. i \in 1..n /\ delay < Now(w, i) /\ i - 1 \in 0..n
    BY <1>1, <2>2
  <2>4. before <= delay
    <3>1. CASE i = 1
      BY <1>1, <1>4, <3>1
    <3>2. CASE i # 1
      <4>1. i - 1 \in 1..n /\ ~(i <= i - 1)
        BY <1>1, <2>3, <3>2
      <4>2. i - 1 \notin later
        BY <2>2, <4>1
      <4>. QED  BY <1>1, <1>3, <4>1, <4>2
    <3>. QED  BY <3>1, <3>2
  <2>5. Now(w, i) = before + w.lag[w.active[i]] /\ before \in Nat /\ Now(w, i) \in Nat
    BY <1>1, <1>3, <2>3, NowUnfold
  <2>6. w.active[i] \in Dog /\ w.active[i] # d /\ w.lag[w.active[i]] \in Lag
    BY <1>1, <1>2, <2>3
  <2>7. v \in Lag /\ u \in Lag
    <3>. DEFINE l == w.lag[w.active[i]]
    <3>1. l \in Nat /\ l <= MaxDelay + 1 /\ Now(w, i) = before + l
      BY <2>5, <2>6, MaxDelayNat DEF Lag
    <3>. HIDE DEF l, before
    <3>2. v \in Lag /\ l - v \in Lag
      BY <1>1, <2>3, <2>4, <2>5, <3>1, MaxDelayNat, SMTT(30) DEF Lag
    <3>. QED  BY <3>2 DEF l
  <2>8. /\ r.active = InsertAt(w.active, i, d) /\ r.isactive = on
        /\ r.lag = [w.lag EXCEPT ![d] = v, ![w.active[i]] = u]
    <3>1. [w.lag EXCEPT ![d] = v][w.active[i]] = w.lag[w.active[i]]
      BY <1>1, <2>6
    <3>. QED  BY <2>1, <3>1
  <2>. HIDE DEF v, u
  <2>9. /\ r.active \in Seq(Dog) /\ Len(r.active) = n + 1
        /\ \A j \in 1..(n + 1) :
             r.active[j] = IF j < i THEN w.active[j] ELSE IF j = i THEN d ELSE w.active[j - 1]
    <3>1. LET res == InsertAt(w.active, i, d)
          IN  /\ res \in Seq(Dog) /\ Len(res) = n + 1
              /\ \A j \in 1..(n + 1) :
                   res[j] = IF j < i THEN w.active[j] ELSE IF j = i THEN d ELSE w.active[j - 1]
      BY <1>1, <2>3, InsertAtIs
    <3>. QED  BY <2>8, <3>1
  <2>10. /\ r.lag \in [Dog -> Lag] /\ r.lag[d] = v
         /\ \A x \in Dog : x # d => r.lag[x] = IF x = w.active[i] THEN u ELSE w.lag[x]
    BY <1>1, <2>6, <2>7, <2>8
  <2>11. \A x \in Dog : x # d =>
           r.lag[x] = IF i <= n /\ x = w.active[i] THEN w.lag[x] - (delay - before) ELSE w.lag[x]
    BY <2>3, <2>10 DEF u, v
  <2>12. i \in 1..(n + 1)
    BY <1>1, <2>3
  <2>13. Enqueued(w, d, delay, i, r)
    <3>1. Now(w, i - 1) <= delay /\ (i <= n => delay < Now(w, i)) /\ r.lag[d] = delay - Now(w, i - 1)
      BY <2>3, <2>4, <2>10 DEF v
    <3>. QED  BY <2>8, <2>9, <2>10, <2>11, <2>12, <3>1 DEF Enqueued
  <2>. QED  BY <2>12, <2>13
<1>. QED  BY <1>5, <1>6

\* Enqueue gives that watchdog its ticks, and no other gains or loses one.
LEMMA EnqueueKeeps ==
  ASSUME NEW w, Shape(w), NEW d \in Dog, ~w.isactive[d], NEW delay \in 1..(MaxDelay + 1),
         NEW r, r = Enqueue(w, d, delay)
  PROVE  /\ Shape(r) /\ Left(r) = [Left(w) EXCEPT ![d] = delay]
         /\ r.isactive = [w.isactive EXCEPT ![d] = TRUE]
<1>. DEFINE n == Len(w.active)
<1>0. PICK i \in 1..(n + 1) : Enqueued(w, d, delay, i, r)
  BY EnqueueIs
<1>1. /\ r.active \in Seq(Dog) /\ Len(r.active) = n + 1 /\ r.lag \in [Dog -> Lag]
      /\ r.isactive = [w.isactive EXCEPT ![d] = TRUE]
  BY <1>0 DEF Enqueued
<1>a. \A j \in 1..(n + 1) :
        r.active[j] = IF j < i THEN w.active[j] ELSE IF j = i THEN d ELSE w.active[j - 1]
  BY <1>0 DEF Enqueued
<1>l. /\ r.lag[d] = delay - Now(w, i - 1)
      /\ \A x \in Dog : x # d =>
           r.lag[x] = IF i <= n /\ x = w.active[i]
                      THEN w.lag[x] - (delay - Now(w, i - 1)) ELSE w.lag[x]
  BY <1>0 DEF Enqueued
<1>2. /\ n \in Nat /\ i \in 1..(n + 1) /\ NoRepeat(w.active) /\ w.isactive \in [Dog -> BOOLEAN]
      /\ w.active \in Seq(Dog) /\ w.lag \in [Dog -> Lag] /\ delay \in Nat /\ i - 1 \in 0..n
  BY MaxDelayNat DEF Shape
<1>3. /\ \A j \in 1..n : w.active[j] \in Dog /\ w.active[j] # d
      /\ \A x \in Dog : w.isactive[x] <=> OnList(w.active, x)
  BY DEF Shape, OnList
<1>4. \A j \in 0..n : Now(w, j) \in Nat
  BY <1>2, NowUnfold
<1>. DEFINE src(j) == IF j < i THEN j ELSE j - 1
            g == [j \in 0..(n + 1) |-> IF j = i THEN delay ELSE Now(w, src(j))]
<1>5. /\ \A j \in 1..(n + 1) : j # i => src(j) \in 1..n /\ r.active[j] = w.active[src(j)]
      /\ \A j, k \in 1..(n + 1) : j # i /\ k # i /\ src(j) = src(k) => j = k
      /\ \A k \in 1..n : \E j \in 1..(n + 1) : j # i /\ src(j) = k
      /\ r.active[i] = d
  <2>1. \A j \in 1..(n + 1) : j # i => src(j) \in 1..n /\ r.active[j] = w.active[src(j)]
    BY <1>2, <1>a
  <2>2. \A j, k \in 1..(n + 1) : j # i /\ k # i /\ src(j) = src(k) => j = k
    BY <1>2
  <2>3. ASSUME NEW k \in 1..n PROVE \E j \in 1..(n + 1) : j # i /\ src(j) = k
    <3>1. CASE k < i
      <4>1. k \in 1..(n + 1) /\ src(k) = k /\ k # i
        BY <1>2, <3>1
      <4>. QED  BY <4>1
    <3>2. CASE ~(k < i)
      <4>1. k + 1 \in 1..(n + 1) /\ src(k + 1) = k /\ k + 1 # i
        BY <1>2, <3>2
      <4>. QED  BY <4>1
    <3>. QED  BY <3>1, <3>2
  <2>4. r.active[i] = d
    BY <1>2, <1>a
  <2>. QED  BY <2>1, <2>2, <2>3, <2>4
<1>6. \A j \in 0..(n + 1) : Now(r, j) = g[j]
  <2>1. g[0] = 0
    <3>1. 0 \in 0..(n + 1) /\ 0 # i /\ 0 < i
      BY <1>2
    <3>2. Now(w, 0) = 0
      BY <1>2, NowUnfold
    <3>. QED  BY <3>1, <3>2
  <2>2. ASSUME NEW j \in 1..(n + 1) PROVE g[j] = g[j - 1] + r.lag[r.active[j]]
    <3>1. j \in 0..(n + 1) /\ j - 1 \in 0..(n + 1)
      BY <1>2
    <3>2. CASE j < i
      <4>1. g[j] = Now(w, j) /\ g[j - 1] = Now(w, j - 1)
        BY <1>2, <3>1, <3>2
      <4>2. j \in 1..n /\ j # i
        BY <1>2, <3>2
      <4>3. Now(w, j) = Now(w, j - 1) + w.lag[w.active[j]]
        BY <1>2, <4>2, NowUnfold
      <4>4. r.active[j] = w.active[j]
        BY <1>a, <3>2
      <4>5. i <= n => w.active[j] # w.active[i]
        BY <1>2, <4>2 DEF NoRepeat
      <4>6. r.lag[w.active[j]] = w.lag[w.active[j]]
        BY <1>3, <1>l, <4>2, <4>5
      <4>. HIDE DEF g
      <4>. QED  BY <4>1, <4>3, <4>4, <4>6
    <3>3. CASE j = i
      <4>1. g[j] = delay /\ g[j - 1] = Now(w, i - 1)
        BY <1>2, <3>1, <3>3
      <4>2. r.lag[r.active[j]] = delay - Now(w, i - 1)
        BY <1>5, <1>l, <3>3
      <4>3. Now(w, i - 1) \in Nat
        BY <1>2, <1>4
      <4>. HIDE DEF g
      <4>. QED  BY <1>2, <4>1, <4>2, <4>3
    <3>4. CASE j = i + 1
      <4>1. g[j] = Now(w, i) /\ g[j - 1] = delay
        BY <1>2, <3>1, <3>4
      <4>2. i \in 1..n /\ i <= n
        BY <1>2, <3>4
      <4>3. r.active[j] = w.active[i]
        BY <1>2, <1>a, <3>4
      <4>. DEFINE l == w.lag[w.active[i]]
      <4>4. r.lag[w.active[i]] = l - (delay - Now(w, i - 1))
        BY <1>3, <1>l, <4>2
      <4>5. Now(w, i) = Now(w, i - 1) + l
        BY <1>2, <4>2, NowUnfold
      <4>6. Now(w, i) \in Nat /\ Now(w, i - 1) \in Nat /\ l \in Nat
        <5>1. w.active[i] \in Dog /\ Lag \subseteq Nat /\ i \in 0..n
          BY <1>2, <1>3, <4>2, MaxDelayNat DEF Lag
        <5>. QED  BY <1>2, <1>4, <5>1
      <4>. HIDE DEF g, l
      <4>. QED  BY <1>2, <4>1, <4>3, <4>4, <4>5, <4>6
    <3>5. CASE j > i + 1
      <4>1. g[j] = Now(w, j - 1) /\ g[j - 1] = Now(w, (j - 1) - 1)
        BY <1>2, <3>1, <3>5
      <4>2. j - 1 \in 1..n /\ j - 1 # i /\ j - 1 > i
        BY <1>2, <3>5
      <4>3. Now(w, j - 1) = Now(w, (j - 1) - 1) + w.lag[w.active[j - 1]]
        BY <1>2, <4>2, NowUnfold
      <4>4. r.active[j] = w.active[j - 1]
        <5>1. ~(j < i) /\ j # i
          BY <1>2, <3>5
        <5>. QED  BY <1>a, <5>1
      <4>5. i \in 1..n /\ w.active[j - 1] # w.active[i]
        BY <1>2, <4>2 DEF NoRepeat
      <4>6. r.lag[w.active[j - 1]] = w.lag[w.active[j - 1]]
        BY <1>3, <1>l, <4>2, <4>5
      <4>. HIDE DEF g
      <4>. QED  BY <4>1, <4>3, <4>4, <4>6
    <3>. QED  BY <1>2, <3>2, <3>3, <3>4, <3>5
  <2>. HIDE DEF g
  <2>3. \A j \in 0..Len(r.active) : Now(r, j) = g[j]
    <3>1. \A j \in 1..Len(r.active) : g[j] = g[j - 1] + r.lag[r.active[j]]
      BY <1>1, <2>2
    <3>2. r.active \in Seq(Dog) /\ r.lag \in [Dog -> Lag]
      BY <1>1
    <3>. QED  BY <2>1, <3>1, <3>2, NowIs
  <2>. QED  BY <1>1, <2>3
<1>7. \A j \in 0..(n + 1) : Now(r, j) = IF j = i THEN delay ELSE Now(w, src(j))
  BY <1>6
<1>. HIDE DEF src, g
<1>8. NoRepeat(r.active)
  <2>1. ASSUME NEW j \in 1..(n + 1), NEW k \in 1..(n + 1), r.active[j] = r.active[k] PROVE j = k
    <3>1. CASE j = i \/ k = i
      <4>1. ASSUME NEW m \in 1..(n + 1), m # i PROVE r.active[m] # d
        <5>1. src(m) \in 1..n /\ r.active[m] = w.active[src(m)]
          BY <1>5, <4>1
        <5>. QED  BY <1>3, <5>1
      <4>. QED  BY <1>5, <2>1, <3>1, <4>1
    <3>2. CASE j # i /\ k # i
      <4>1. src(j) \in 1..n /\ src(k) \in 1..n /\ w.active[src(j)] = w.active[src(k)]
        BY <1>5, <2>1, <3>2
      <4>2. src(j) = src(k)
        BY <1>2, <4>1 DEF NoRepeat
      <4>. QED  BY <1>5, <3>2, <4>2
    <3>. QED  BY <3>1, <3>2
  <2>. QED  BY <1>1, <2>1 DEF NoRepeat
<1>9. \A x \in Dog : OnList(r.active, x) <=> OnList(w.active, x) \/ x = d
  <2>1. ASSUME NEW x \in Dog, OnList(r.active, x), x # d PROVE OnList(w.active, x)
    <3>1. PICK j \in 1..(n + 1) : r.active[j] = x
      BY <1>1, <2>1 DEF OnList
    <3>2. src(j) \in 1..n /\ w.active[src(j)] = x
      BY <1>5, <2>1, <3>1
    <3>. QED  BY <3>2 DEF OnList
  <2>2. ASSUME NEW x \in Dog, OnList(w.active, x) PROVE OnList(r.active, x)
    <3>1. PICK k \in 1..n : w.active[k] = x
      BY <2>2 DEF OnList
    <3>2. PICK j \in 1..(n + 1) : j # i /\ src(j) = k
      BY <1>5, <3>1
    <3>. QED  BY <1>1, <1>5, <3>1, <3>2 DEF OnList
  <2>3. OnList(r.active, d)
    BY <1>1, <1>2, <1>5 DEF OnList
  <2>. QED  BY <2>1, <2>2, <2>3
<1>10. Shape(r)
  <2>1. r.isactive \in [Dog -> BOOLEAN] /\ \A x \in Dog : r.isactive[x] <=> w.isactive[x] \/ x = d
    BY <1>1, <1>2
  <2>. QED  BY <1>1, <1>3, <1>8, <1>9, <2>1 DEF Shape
<1>11. ASSUME NEW x \in Dog PROVE Left(r)[x] = IF x = d THEN delay ELSE Left(w)[x]
  <2>1. CASE ~r.isactive[x]
    <3>1. x # d /\ ~w.isactive[x]
      BY <1>1, <1>2, <2>1
    <3>. QED  BY <2>1, <3>1 DEF Left
  <2>2. CASE r.isactive[x]
    <3>1. PICK j \in 1..(n + 1) : r.active[j] = x
      BY <1>1, <1>10, <2>2 DEF Shape, OnList
    <3>2. Left(r)[x] = Now(r, j) /\ j \in 0..(n + 1)
      BY <1>1, <1>2, <1>10, <3>1, LeftAt
    <3>3. CASE j = i
      BY <1>5, <1>7, <3>1, <3>2, <3>3
    <3>4. CASE j # i
      <4>1. src(j) \in 1..n /\ w.active[src(j)] = x
        BY <1>5, <3>1, <3>4
      <4>2. Left(w)[x] = Now(w, src(j)) /\ x # d
        BY <1>3, <4>1, LeftAt
      <4>. QED  BY <1>7, <3>2, <3>4, <4>2
    <3>. QED  BY <3>3, <3>4
  <2>. QED  BY <2>1, <2>2
<1>12. Left(r) = [Left(w) EXCEPT ![d] = delay]
  <2>1. Left(r) = [x \in Dog |-> Left(r)[x]] /\ Left(w) = [x \in Dog |-> Left(w)[x]]
    BY DEF Left
  <2>. QED  BY <1>11, <2>1
<1>. QED  BY <1>1, <1>10, <1>12

\* wd_start stops the watchdog, if it is running, and gives it new ticks.
LEMMA StartKeeps ==
  ASSUME NEW w, Shape(w), Within(w), NEW d \in Dog, NEW delay \in 0..MaxDelay,
         NEW r, r = wd_start(w, d, delay)
  PROVE  /\ Shape(r) /\ Within(r) /\ (Positive(w) => Positive(r))
         /\ Left(r) = [Left(w) EXCEPT ![d] = Adjusted(delay)]
         /\ r.isactive = [w.isactive EXCEPT ![d] = TRUE]
<1>. DEFINE c == wd_cancel(w, d)
            v == Adjusted(delay)
<1>1. /\ Shape(c) /\ Left(c) = [Left(w) EXCEPT ![d] = Off]
      /\ c.isactive = [w.isactive EXCEPT ![d] = FALSE]
  BY CancelKeeps
<1>2. v \in 1..(MaxDelay + 1)
  BY MaxDelayNat DEF Adjusted
<1>3. r = Enqueue(c, d, v)
  BY DEF wd_start
<1>. HIDE DEF c, v
<1>4. w.isactive \in [Dog -> BOOLEAN] /\ Left(w) = [x \in Dog |-> Left(w)[x]]
  BY DEF Shape, Left
<1>5. ~c.isactive[d]
  BY <1>1, <1>4
<1>6. /\ Shape(r) /\ Left(r) = [Left(c) EXCEPT ![d] = v]
      /\ r.isactive = [c.isactive EXCEPT ![d] = TRUE]
  <2>1. Shape(c)
    BY <1>1
  <2>. QED  BY <2>1, <1>2, <1>3, <1>5, EnqueueKeeps
<1>7. Left(r) = [Left(w) EXCEPT ![d] = v] /\ r.isactive = [w.isactive EXCEPT ![d] = TRUE]
  BY <1>1, <1>4, <1>6
<1>8. ASSUME NEW x \in Dog, r.isactive[x]
      PROVE  IF x = d THEN Left(r)[x] = v ELSE w.isactive[x] /\ Left(r)[x] = Left(w)[x]
  BY <1>4, <1>7, <1>8
<1>9. v \in Nat /\ v > 0 /\ v <= MaxDelay + 1
  BY <1>2, MaxDelayNat
<1>10. Within(r) /\ (Positive(w) => Positive(r))
  BY <1>8, <1>9 DEF Within, Positive
<1>. QED  BY <1>6, <1>7, <1>10 DEF v

(***************************************************************************)
(* The tick.                                                               *)
(***************************************************************************)
\* The first watchdog on the list loses a tick of its lag.
Ticked(w, r) ==
  /\ r.active = w.active /\ r.isactive = w.isactive
  /\ r.lag = IF w.active = << >> THEN w.lag
             ELSE [w.lag EXCEPT ![Head(w.active)] = w.lag[Head(w.active)] - 1]

\* With it every watchdog has a tick less.
LEMMA TickKeeps ==
  ASSUME NEW w, Shape(w), Within(w), Positive(w), NEW r, Ticked(w, r)
  PROVE  /\ Shape(r) /\ Within(r)
         /\ Left(r) = [d \in Dog |-> IF w.isactive[d] THEN Left(w)[d] - 1 ELSE Off]
<1>. DEFINE n == Len(w.active)
<1>1. /\ w.active \in Seq(Dog) /\ w.lag \in [Dog -> Lag] /\ n \in Nat /\ NoRepeat(w.active)
      /\ \A j \in 1..n : w.active[j] \in Dog
  BY DEF Shape
<1>2. CASE n = 0
  <2>1. w.active = << >> /\ r.active = w.active /\ r.isactive = w.isactive /\ r.lag = w.lag
    BY <1>1, <1>2 DEF Ticked
  <2>2. Shape(r)
    BY <2>1 DEF Shape
  <2>3. \A d \in Dog : ~w.isactive[d] /\ ~r.isactive[d]
    BY <1>2, <2>1 DEF Shape, OnList
  <2>4. Left(r) = [d \in Dog |-> Off]
    BY <2>3 DEF Left
  <2>. QED  BY <2>2, <2>3, <2>4 DEF Within
<1>3. CASE n > 0
  <2>. DEFINE h == w.active[1]
              g == [j \in 0..n |-> IF j = 0 THEN 0 ELSE Now(w, j) - 1]
  <2>1. /\ r.active = w.active /\ r.isactive = w.isactive /\ 1 \in 1..n /\ h \in Dog
        /\ r.lag = [w.lag EXCEPT ![h] = w.lag[h] - 1]
    <3>1. w.active # << >> /\ Head(w.active) = h /\ 1 \in 1..n
      BY <1>1, <1>3
    <3>. QED  BY <1>1, <3>1 DEF Ticked
  <2>2. \A j \in 0..n : Now(w, j) \in Nat
    BY <1>1, NowUnfold
  <2>3. Now(w, 1) = w.lag[h] /\ w.lag[h] > 0 /\ w.lag[h] \in Lag
    <3>1. Now(w, 0) = 0 /\ Now(w, 1) = Now(w, 1 - 1) + w.lag[w.active[1]]
      BY <1>1, <2>1, NowUnfold
    <3>2. Now(w, 1) > 0
      BY <2>1, LeftAt DEF Positive
    <3>3. w.lag[h] \in Lag /\ w.lag[h] \in Nat
      BY <1>1, <2>1, MaxDelayNat DEF Lag
    <3>. QED  BY <3>1, <3>2, <3>3
  <2>4. r.lag \in [Dog -> Lag]
    <3>1. w.lag[h] - 1 \in Lag
      BY <2>3, MaxDelayNat DEF Lag
    <3>. QED  BY <1>1, <2>1, <3>1
  <2>5. Shape(r)
    BY <2>1, <2>4 DEF Shape
  <2>6. \A j \in 0..n : Now(r, j) = g[j]
    <3>1. g[0] = 0
      BY <1>1
    <3>2. ASSUME NEW j \in 1..n PROVE g[j] = g[j - 1] + r.lag[w.active[j]]
      <4>1. j \in 0..n /\ j - 1 \in 0..n /\ g[j] = Now(w, j) - 1
        BY <1>1
      <4>2. CASE j = 1
        <5>1. g[j - 1] = 0 /\ r.lag[w.active[j]] = w.lag[h] - 1
          BY <1>1, <2>1, <4>2
        <5>2. w.lag[h] \in Int
          BY <2>3, MaxDelayNat DEF Lag
        <5>. HIDE DEF g, h
        <5>. QED  BY <2>3, <4>1, <4>2, <5>1, <5>2
      <4>3. CASE j # 1
        <5>1. g[j - 1] = Now(w, j - 1) - 1
          BY <1>1, <4>1, <4>3
        <5>2. w.active[j] # h /\ w.active[j] \in Dog
          BY <1>1, <2>1, <4>3 DEF NoRepeat
        <5>3. r.lag[w.active[j]] = w.lag[w.active[j]] /\ w.lag[w.active[j]] \in Nat
          BY <1>1, <2>1, <5>2, MaxDelayNat DEF Lag
        <5>4. Now(w, j) = Now(w, j - 1) + w.lag[w.active[j]]
          BY <1>1, NowUnfold
        <5>5. Now(w, j - 1) \in Nat /\ Now(w, j) \in Nat
          BY <2>2, <4>1
        <5>. HIDE DEF g, h
        <5>. QED  BY <4>1, <5>1, <5>3, <5>4, <5>5, SMTT(30)
      <4>. QED  BY <4>2, <4>3
    <3>. HIDE DEF g
    <3>3. \A j \in 1..Len(r.active) : g[j] = g[j - 1] + r.lag[r.active[j]]
      BY <2>1, <3>2
    <3>4. r.active \in Seq(Dog)
      BY <1>1, <2>1
    <3>5. \A j \in 0..Len(r.active) : Now(r, j) = g[j]
      BY <2>4, <3>1, <3>3, <3>4, NowIs
    <3>. QED  BY <2>1, <3>5
  <2>7. \A j \in 1..n : Now(r, j) = Now(w, j) - 1
    <3>1. \A j \in 1..n : j \in 0..n /\ j # 0
      BY <1>1
    <3>. QED  BY <2>6, <3>1
  <2>. HIDE DEF g
  <2>8. ASSUME NEW d \in Dog PROVE Left(r)[d] = IF w.isactive[d] THEN Left(w)[d] - 1 ELSE Off
    <3>1. CASE w.isactive[d]
      <4>1. PICK j \in 1..n : w.active[j] = d
        BY <3>1 DEF Shape, OnList
      <4>2. Left(w)[d] = Now(w, j)
        BY <4>1, LeftAt
      <4>3. Left(r)[d] = Now(r, j)
        BY <2>1, <2>5, <4>1, LeftAt
      <4>. QED  BY <2>7, <3>1, <4>2, <4>3
    <3>2. CASE ~w.isactive[d]
      BY <2>1, <3>2 DEF Left
    <3>. QED  BY <3>1, <3>2
  <2>9. Left(r) = [d \in Dog |-> IF w.isactive[d] THEN Left(w)[d] - 1 ELSE Off]
    <3>1. Left(r) = [x \in Dog |-> Left(r)[x]]
      BY DEF Left
    <3>. QED  BY <2>8, <3>1
  <2>10. Within(r)
    <3>1. ASSUME NEW d \in Dog, r.isactive[d] PROVE Left(r)[d] <= MaxDelay + 1
      <4>1. w.isactive[d] /\ Left(w)[d] \in Nat /\ Left(w)[d] <= MaxDelay + 1
        BY <2>1, <3>1, LeftTyped DEF Within
      <4>. QED  BY <2>8, <4>1, MaxDelayNat
    <3>. QED  BY <3>1 DEF Within
  <2>. QED  BY <2>5, <2>9, <2>10
<1>. QED  BY <1>1, <1>2, <1>3

\* The first watchdog on the list is the first to expire.
LEMMA HeadIsFirst ==
  ASSUME NEW w, Shape(w), w.active # << >>
  PROVE  /\ 1 \in 1..Len(w.active) /\ Head(w.active) = w.active[1] /\ w.active[1] \in Dog
         /\ w.isactive[w.active[1]] /\ Left(w)[w.active[1]] = w.lag[w.active[1]]
         /\ w.lag[w.active[1]] \in Nat
         /\ \A d \in Dog : w.isactive[d] => w.lag[w.active[1]] <= Left(w)[d]
<1>1. w.active \in Seq(Dog) /\ w.lag \in [Dog -> Lag]
  BY DEF Shape
<1>2. 1 \in 1..Len(w.active) /\ Head(w.active) = w.active[1] /\ w.active[1] \in Dog
  BY <1>1
<1>3. Now(w, 1) = w.lag[w.active[1]] /\ w.lag[w.active[1]] \in Nat
  <2>1. Now(w, 0) = 0 /\ Now(w, 1) = Now(w, 1 - 1) + w.lag[w.active[1]]
    BY <1>1, <1>2, NowUnfold
  <2>2. w.lag[w.active[1]] \in Nat
    BY <1>1, <1>2, MaxDelayNat DEF Lag
  <2>. QED  BY <2>1, <2>2
<1>4. w.isactive[w.active[1]] /\ Left(w)[w.active[1]] = Now(w, 1)
  BY <1>2, LeftAt
<1>5. ASSUME NEW d \in Dog, w.isactive[d] PROVE w.lag[w.active[1]] <= Left(w)[d]
  <2>1. PICK j \in 1..Len(w.active) : w.active[j] = d
    BY <1>5 DEF Shape, OnList
  <2>2. Left(w)[d] = Now(w, j)
    BY <2>1, LeftAt
  <2>3. 1 \in 0..Len(w.active) /\ j \in 0..Len(w.active) /\ 1 <= j
    BY <1>1, <1>2
  <2>4. Now(w, 1) <= Now(w, j)
    BY <1>1, <2>3, NowMonotone
  <2>. QED  BY <1>3, <2>2, <2>4
<1>. QED  BY <1>2, <1>3, <1>4, <1>5

(***************************************************************************)
(* The invariant.                                                          *)
(***************************************************************************)
\* A watchdog of the pool is free or created but not both, and g_wdnfree counts
\* the free ones.
PoolInv ==
  /\ owned \subseteq Dog /\ free \in Seq(Pool) /\ NoRepeat(free) /\ wdnfree = Len(free)
  /\ \A d \in Pool : d \notin owned <=> OnList(free, d)
  /\ \A d \in Dog : isactive[d] => d \in owned

\* Outside the interrupt no watchdog is due: wd_expiration has called them all.
WdInv ==
  /\ Shape(List) /\ Within(List) /\ PoolInv
  /\ allocs \in 0..Cardinality(Heap) /\ inirq \in {"no", "check", "func"}
  /\ inirq = "no" => Positive(List)

\* The fields of List.
LEMMA ListParts ==
  /\ List.active = active /\ List.lag = lag /\ List.isactive = isactive
  /\ Dog = Pool \cup Heap /\ Pool \cap Heap = {}
  /\ IsFiniteSet(Pool) /\ IsFiniteSet(Heap) /\ IsFiniteSet(Dog)
  /\ Cardinality(Pool) \in Nat /\ Cardinality(Heap) \in Nat
BY PoolFinite, FS_Union, FS_CardinalityType DEF List, Dog

\* The invariant of the list carries over to a step that changes only flags of
\* watchdogs that are not active, or nothing of the list.
LEMMA SameList ==
  ASSUME WdInv, active' = active, lag' = lag, isactive' = isactive
  PROVE  List' = List /\ Shape(List') /\ Within(List') /\ (Positive(List) => Positive(List'))
<1>1. List' = List
  BY DEF List
<1>. QED  BY <1>1 DEF WdInv

\* A step that becomes the list r.
LEMMA BecomesList ==
  ASSUME NEW r, r = [active |-> r.active, lag |-> r.lag, isactive |-> r.isactive],
         ListBecomes(r)
  PROVE  List' = r /\ isactive' = r.isactive
BY DEF ListBecomes, List

\* The list operations build lists.
LEMMA ListRecords ==
  /\ \A w, i : LET r == Unlink(w, i)
               IN  r = [active |-> r.active, lag |-> r.lag, isactive |-> r.isactive]
  /\ \A w, d, v : LET r == Enqueue(w, d, v)
                  IN  r = [active |-> r.active, lag |-> r.lag, isactive |-> r.isactive]
  /\ List = [active |-> List.active, lag |-> List.lag, isactive |-> List.isactive]
<1>1. ASSUME NEW w, NEW i, NEW r, r = Unlink(w, i)
      PROVE  r = [active |-> r.active, lag |-> r.lag, isactive |-> r.isactive]
  BY <1>1 DEF Unlink
<1>2. ASSUME NEW w, NEW d, NEW v, NEW r, r = Enqueue(w, d, v)
      PROVE  r = [active |-> r.active, lag |-> r.lag, isactive |-> r.isactive]
  BY <1>2 DEF Enqueue
<1>3. List = [active |-> List.active, lag |-> List.lag, isactive |-> List.isactive]
  BY DEF List
<1>. QED  BY <1>1, <1>2, <1>3

\* The pool is full and no watchdog is active.
LEMMA InitInv == Init => WdInv
<1>. SUFFICES ASSUME Init PROVE WdInv
  OBVIOUS
<1>. DEFINE n == Cardinality(Pool)
<1>1. /\ active = << >> /\ lag = [d \in Dog |-> 0] /\ isactive = [d \in Dog |-> FALSE] /\ owned = {}
      /\ free \in [1..n -> Pool] /\ (\A d \in Pool : \E i \in DOMAIN free : free[i] = d)
      /\ wdnfree = n /\ allocs = 0 /\ inirq = "no"
  BY DEF Init
<1>2. n \in Nat /\ Cardinality(Heap) \in Nat
  BY ListParts
<1>3. Shape(List) /\ Within(List) /\ Positive(List)
  <2>1. \A d \in Dog : ~List.isactive[d]
    BY <1>1, ListParts
  <2>2. List.active \in Seq(Dog) /\ NoRepeat(List.active) /\ \A d : ~OnList(List.active, d)
    BY <1>1, ListParts DEF NoRepeat, OnList
  <2>3. List.lag \in [Dog -> Lag] /\ List.isactive \in [Dog -> BOOLEAN]
    BY <1>1, ListParts, MaxDelayNat DEF Lag
  <2>. QED  BY <2>1, <2>2, <2>3 DEF Shape, Within, Positive
<1>4. free \in Seq(Pool) /\ Len(free) = n
  BY <1>1, <1>2
<1>5. NoRepeat(free)
  <2>1. free \in Surjection(1..n, Pool)
    BY <1>1 DEF Surjection
  <2>2. Cardinality(1..n) = n /\ IsFiniteSet(1..n)
    <3>. HIDE DEF n
    <3>1. Cardinality(1..n) = (IF 1 > n THEN 0 ELSE n - 1 + 1) /\ IsFiniteSet(1..n)
      BY <1>2, FS_Interval
    <3>. QED  BY <1>2, <3>1
  <2>3. free \in Injection(1..n, Pool)
    BY <2>1, <2>2, FS_SurjSameCardinalityImpliesInj
  <2>. QED  BY <1>4, <2>3 DEF Injection, IsInjective, NoRepeat
<1>6. \A d \in Pool : OnList(free, d)
  BY <1>1, <1>4 DEF OnList
<1>7. PoolInv
  BY <1>1, <1>4, <1>5, <1>6 DEF PoolInv
<1>. QED  BY <1>1, <1>2, <1>3, <1>7 DEF WdInv

\* wd_start and wd_cancel of an existing watchdog.
LEMMA StartInv ==
  ASSUME WdInv, NEW d \in owned, NEW delay \in 0..MaxDelay, Start(d, delay)
  PROVE  WdInv' /\ Left(List') = [Left(List) EXCEPT ![d] = Adjusted(delay)]
<1>. DEFINE r == wd_start(List, d, delay)
<1>1. Shape(List) /\ Within(List) /\ PoolInv /\ d \in Dog
  BY DEF WdInv, PoolInv
<1>2. /\ Shape(r) /\ Within(r) /\ (Positive(List) => Positive(r))
      /\ Left(r) = [Left(List) EXCEPT ![d] = Adjusted(delay)]
      /\ r.isactive = [List.isactive EXCEPT ![d] = TRUE]
  BY <1>1, StartKeeps
<1>3. r = [active |-> r.active, lag |-> r.lag, isactive |-> r.isactive]
  BY ListRecords DEF wd_start
<1>4. ListBecomes(r) /\ UNCHANGED <<owned, free, wdnfree, inirq, allocs>>
  BY DEF Start
<1>. HIDE DEF r
<1>5. List' = r /\ isactive' = r.isactive
  BY <1>3, <1>4, BecomesList
<1>6. \A x \in Dog : isactive'[x] => x = d \/ isactive[x]
  BY <1>1, <1>2, <1>5, ListParts DEF Shape
<1>7. PoolInv'
  BY <1>1, <1>4, <1>6 DEF PoolInv
<1>. QED  BY <1>2, <1>4, <1>5, <1>7 DEF WdInv

\* A watchdog is stopped, by wd_cancel, by wd_delete or because it expires, and
\* perhaps given back to the pool.
LEMMA StopParts ==
  ASSUME WdInv, NEW d \in Dog, NEW r, ListBecomes(r),
         r = [active |-> r.active, lag |-> r.lag, isactive |-> r.isactive],
         Shape(r), Left(r) = [Left(List) EXCEPT ![d] = Off],
         r.isactive = [List.isactive EXCEPT ![d] = FALSE]
  PROVE  /\ Shape(List') /\ Within(List') /\ (Positive(List) => Positive(List'))
         /\ Left(List') = [Left(List) EXCEPT ![d] = Off]
         /\ \A x \in Dog : isactive'[x] => x # d /\ isactive[x]
<1>1. List' = r /\ isactive' = r.isactive
  BY BecomesList
<1>2. Shape(List) /\ Within(List)
  BY DEF WdInv
<1>3. Within(r) /\ (Positive(List) => Positive(r))
  BY <1>2, StoppedInRange
<1>4. \A x \in Dog : isactive'[x] => x # d /\ isactive[x]
  BY <1>1, <1>2, ListParts DEF Shape
<1>. QED  BY <1>1, <1>3, <1>4

\* wd_cancel.
LEMMA CancelInv ==
  ASSUME WdInv, NEW d \in owned, Cancel(d)
  PROVE  WdInv' /\ Left(List') = [Left(List) EXCEPT ![d] = Off]
<1>. DEFINE r == wd_cancel(List, d)
<1>1. Shape(List) /\ Within(List) /\ PoolInv /\ d \in Dog
  BY DEF WdInv, PoolInv
<1>2. /\ Shape(r) /\ Left(r) = [Left(List) EXCEPT ![d] = Off]
      /\ r.isactive = [List.isactive EXCEPT ![d] = FALSE]
  BY <1>1, CancelKeeps
<1>3. r = [active |-> r.active, lag |-> r.lag, isactive |-> r.isactive]
  BY ListRecords DEF wd_cancel
<1>4. ListBecomes(r) /\ UNCHANGED <<owned, free, wdnfree, inirq, allocs>>
  BY DEF Cancel
<1>. HIDE DEF r
<1>5. /\ Shape(List') /\ Within(List') /\ (Positive(List) => Positive(List'))
      /\ Left(List') = [Left(List) EXCEPT ![d] = Off]
      /\ \A x \in Dog : isactive'[x] => x # d /\ isactive[x]
  BY <1>1, <1>2, <1>3, <1>4, StopParts
<1>6. PoolInv'
  BY <1>1, <1>4, <1>5 DEF PoolInv
<1>. QED  BY <1>4, <1>5, <1>6 DEF WdInv

\* wd_delete also gives it back.
LEMMA DeleteInv ==
  ASSUME WdInv, NEW d \in owned, Delete(d)
  PROVE  WdInv' /\ Left(List') = [Left(List) EXCEPT ![d] = Off]
<1>. DEFINE r == wd_cancel(List, d)
<1>1. Shape(List) /\ Within(List) /\ PoolInv /\ d \in Dog
  BY DEF WdInv, PoolInv
<1>2. /\ Shape(r) /\ Left(r) = [Left(List) EXCEPT ![d] = Off]
      /\ r.isactive = [List.isactive EXCEPT ![d] = FALSE]
  BY <1>1, CancelKeeps
<1>3. r = [active |-> r.active, lag |-> r.lag, isactive |-> r.isactive]
  BY ListRecords DEF wd_cancel
<1>4. ListBecomes(r) /\ owned' = owned \ {d} /\ UNCHANGED <<inirq, allocs>>
      /\ IF d \in Heap THEN UNCHANGED <<free, wdnfree>>
         ELSE free' = Append(free, d) /\ wdnfree' = wdnfree + 1
  BY DEF Delete
<1>. HIDE DEF r
<1>5. /\ Shape(List') /\ Within(List') /\ (Positive(List) => Positive(List'))
      /\ Left(List') = [Left(List) EXCEPT ![d] = Off]
      /\ \A x \in Dog : isactive'[x] => x # d /\ isactive[x]
  BY <1>1, <1>2, <1>3, <1>4, StopParts
<1>6. /\ owned' \subseteq Dog /\ \A x \in Dog : isactive'[x] => x \in owned'
  BY <1>1, <1>4, <1>5 DEF PoolInv
<1>7. CASE d \in Heap
  <2>1. d \notin Pool /\ free' = free /\ wdnfree' = wdnfree
    BY <1>4, <1>7, ListParts
  <2>2. PoolInv'
    BY <1>1, <1>4, <1>6, <2>1 DEF PoolInv
  <2>. QED  BY <1>4, <1>5, <2>2 DEF WdInv
<1>8. CASE d \notin Heap
  <2>1. d \in Pool /\ free' = Append(free, d) /\ wdnfree' = wdnfree + 1
    BY <1>1, <1>4, <1>8, ListParts
  <2>2. /\ free \in Seq(Pool) /\ NoRepeat(free) /\ ~OnList(free, d) /\ wdnfree = Len(free)
        /\ \A x \in Pool : x \notin owned <=> OnList(free, x)
    BY <1>1, <2>1 DEF PoolInv
  <2>3. /\ free' \in Seq(Pool) /\ Len(free') = Len(free) + 1 /\ Len(free) \in Nat
        /\ \A i \in 1..(Len(free) + 1) : free'[i] = IF i <= Len(free) THEN free[i] ELSE d
    BY <2>1, <2>2
  <2>4. NoRepeat(free')
    <3>1. ASSUME NEW i \in 1..(Len(free) + 1), NEW j \in 1..(Len(free) + 1), free'[i] = free'[j]
          PROVE  i = j
      BY <2>2, <2>3, <3>1 DEF NoRepeat, OnList
    <3>. QED  BY <2>3, <3>1 DEF NoRepeat
  <2>5. ASSUME NEW x \in Pool PROVE OnList(free', x) <=> OnList(free, x) \/ x = d
    <3>1. ASSUME OnList(free', x) PROVE OnList(free, x) \/ x = d
      BY <2>3, <3>1 DEF OnList
    <3>2. ASSUME NEW i \in 1..Len(free), free[i] = x PROVE OnList(free', x)
      <4>1. i \in 1..(Len(free) + 1) /\ free'[i] = x
        BY <2>3, <3>2
      <4>. QED  BY <2>3, <4>1 DEF OnList
    <3>3. OnList(free', d)
      <4>1. Len(free) + 1 \in 1..(Len(free) + 1) /\ free'[Len(free) + 1] = d
        BY <2>3
      <4>. QED  BY <2>3, <4>1 DEF OnList
    <3>. QED  BY <3>1, <3>2, <3>3 DEF OnList
  <2>6. PoolInv'
    <3>1. \A x \in Pool : x \notin owned' <=> OnList(free', x)
      BY <1>4, <2>2, <2>5
    <3>2. wdnfree' = Len(free')
      BY <2>1, <2>2, <2>3
    <3>. QED  BY <1>6, <2>3, <2>4, <3>1, <3>2 DEF PoolInv
  <2>. QED  BY <1>4, <1>5, <2>6 DEF WdInv
<1>. QED  BY <1>7, <1>8

\* wd_create from the pool and from the heap: the list stays as it is.
LEMMA CreateInv ==
  ASSUME WdInv, (\E interrupt \in BOOLEAN : CreateFromPool(interrupt))
                \/ \E d \in Heap : CreateFromHeap(d)
  PROVE  WdInv' /\ List' = List
<1>1. Shape(List) /\ Within(List) /\ PoolInv /\ isactive \in [Dog -> BOOLEAN]
  BY ListParts DEF WdInv, Shape
<1>2. ASSUME NEW interrupt \in BOOLEAN, CreateFromPool(interrupt) PROVE WdInv' /\ List' = List
  <2>. DEFINE h == Head(free)
              n == Len(free)
  <2>1. /\ free # << >> /\ free' = Tail(free) /\ wdnfree' = wdnfree - 1
        /\ owned' = owned \cup {h} /\ isactive' = [isactive EXCEPT ![h] = FALSE]
        /\ active' = active /\ lag' = lag /\ inirq' = inirq /\ allocs' = allocs
    BY <1>2 DEF CreateFromPool
  <2>2. /\ free \in Seq(Pool) /\ n \in Nat /\ NoRepeat(free) /\ wdnfree = n /\ owned \subseteq Dog
        /\ \A d \in Pool : d \notin owned <=> OnList(free, d)
        /\ \A d \in Dog : isactive[d] => d \in owned
    BY <1>1 DEF PoolInv
  <2>3. /\ n > 0 /\ h = free[1] /\ h \in Pool /\ h \in Dog
    BY <2>1, <2>2, ListParts
  <2>4. h \notin owned /\ ~isactive[h]
    BY <2>2, <2>3 DEF OnList
  <2>5. isactive' = isactive
    BY <1>1, <2>1, <2>4
  <2>6. /\ free' \in Seq(Pool) /\ Len(free') = n - 1
        /\ \A i \in 1..(n - 1) : free'[i] = free[i + 1]
    BY <2>1, <2>2, <2>3
  <2>. HIDE DEF h
  <2>7. NoRepeat(free')
    <3>1. ASSUME NEW i \in 1..(n - 1), NEW j \in 1..(n - 1), free'[i] = free'[j] PROVE i = j
      <4>1. i + 1 \in 1..n /\ j + 1 \in 1..n /\ free[i + 1] = free[j + 1]
        BY <2>2, <2>6, <3>1
      <4>2. i + 1 = j + 1
        BY <2>2, <4>1 DEF NoRepeat
      <4>. QED  BY <4>2
    <3>. QED  BY <2>6, <3>1 DEF NoRepeat
  <2>8. ASSUME NEW x \in Pool PROVE OnList(free', x) <=> OnList(free, x) /\ x # h
    <3>1. ASSUME NEW i \in 1..(n - 1), free'[i] = x PROVE OnList(free, x) /\ x # h
      <4>1. i + 1 \in 1..n /\ free[i + 1] = x /\ 1 \in 1..n /\ i + 1 # 1
        BY <2>2, <2>6, <3>1
      <4>. QED  BY <2>2, <2>3, <4>1 DEF OnList, NoRepeat
    <3>2. ASSUME NEW i \in 1..n, free[i] = x, x # h PROVE OnList(free', x)
      <4>1. i # 1
        BY <2>3, <3>2
      <4>2. i - 1 \in 1..(n - 1) /\ free'[i - 1] = x
        BY <2>2, <2>6, <3>2, <4>1
      <4>. QED  BY <2>6, <4>2 DEF OnList
    <3>. QED  BY <2>6, <3>1, <3>2 DEF OnList
  <2>9. PoolInv'
    <3>1. \A x \in Pool : x \notin owned' <=> OnList(free', x)
      BY <2>1, <2>2, <2>8
    <3>2. wdnfree' = Len(free') /\ owned' \subseteq Dog
      BY <2>1, <2>2, <2>3, <2>6
    <3>. QED  BY <2>1, <2>2, <2>5, <2>6, <2>7, <3>1, <3>2 DEF PoolInv
  <2>. QED  BY <2>1, <2>5, <2>9, SameList DEF WdInv
<1>3. ASSUME NEW d \in Heap, CreateFromHeap(d) PROVE WdInv' /\ List' = List
  <2>1. /\ allocs > 0 /\ allocs' = allocs - 1 /\ d \notin owned /\ d \in Dog /\ d \notin Pool
        /\ owned' = owned \cup {d} /\ isactive' = [isactive EXCEPT ![d] = FALSE]
        /\ active' = active /\ lag' = lag /\ UNCHANGED <<free, wdnfree, inirq>>
    BY <1>3, ListParts DEF CreateFromHeap
  <2>2. isactive' = isactive
    BY <1>1, <2>1 DEF PoolInv
  <2>3. PoolInv'
    BY <1>1, <2>1, <2>2 DEF PoolInv
  <2>4. allocs' \in 0..Cardinality(Heap)
    BY <2>1, ListParts DEF WdInv
  <2>. QED  BY <2>1, <2>2, <2>3, <2>4, SameList DEF WdInv
<1>. QED  BY <1>2, <1>3

\* The timer interrupt takes a tick of every watchdog.
LEMMA TimerInv ==
  ASSUME WdInv, wd_timer
  PROVE  /\ WdInv'
         /\ Left(List') = [d \in Dog |-> IF isactive[d] THEN Left(List)[d] - 1 ELSE Off]
<1>1. /\ inirq = "no" /\ inirq' = "check" /\ active' = active /\ isactive' = isactive
      /\ UNCHANGED <<owned, free, wdnfree, allocs>>
      /\ lag' = IF active = << >> THEN lag
                ELSE [lag EXCEPT ![Head(active)] = lag[Head(active)] - 1]
  BY DEF wd_timer
<1>2. Shape(List) /\ Within(List) /\ Positive(List) /\ PoolInv
  BY <1>1 DEF WdInv
<1>. DEFINE r == List'
<1>3. r.active = active' /\ r.lag = lag' /\ r.isactive = isactive'
  BY DEF List
<1>4. Ticked(List, r)
  <2>. HIDE DEF r
  <2>. QED  BY <1>1, <1>3, ListParts DEF Ticked
<1>. HIDE DEF r
<1>5. /\ Shape(r) /\ Within(r)
      /\ Left(r) = [d \in Dog |-> IF List.isactive[d] THEN Left(List)[d] - 1 ELSE Off]
  BY <1>2, <1>4, TickKeeps
<1>6. PoolInv'
  BY <1>1, <1>2 DEF PoolInv
<1>7. WdInv'
  BY <1>1, <1>5, <1>6 DEF WdInv, r
<1>. QED  BY <1>5, <1>7, ListParts DEF r

\* wd_expiration takes the watchdog off the list before it calls its function.
LEMMA ExpireInv ==
  ASSUME WdInv, Expire
  PROVE  WdInv' /\ Left(List') = [Left(List) EXCEPT ![active[1]] = Off]
<1>. DEFINE r == Unlink(List, 1)
            d == active[1]
<1>1. /\ inirq = "check" /\ active # << >> /\ ListBecomes(r) /\ inirq' = "func"
      /\ UNCHANGED <<owned, free, wdnfree, allocs>>
  BY DEF Expire
<1>2. Shape(List) /\ Within(List) /\ PoolInv
  BY DEF WdInv
<1>3. 1 \in 1..Len(List.active) /\ List.active[1] = d /\ d \in Dog
  BY <1>1, <1>2, ListParts, HeadIsFirst
<1>4. /\ Shape(r) /\ Left(r) = [Left(List) EXCEPT ![List.active[1]] = Off]
      /\ r.isactive = [List.isactive EXCEPT ![List.active[1]] = FALSE]
  BY <1>2, <1>3, UnlinkKeeps
<1>5. r = [active |-> r.active, lag |-> r.lag, isactive |-> r.isactive]
  BY ListRecords
<1>. HIDE DEF r, d
<1>6. /\ Shape(r) /\ Left(r) = [Left(List) EXCEPT ![d] = Off]
      /\ r.isactive = [List.isactive EXCEPT ![d] = FALSE]
  BY <1>3, <1>4
<1>7. /\ Shape(List') /\ Within(List') /\ Left(List') = [Left(List) EXCEPT ![d] = Off]
      /\ \A x \in Dog : isactive'[x] => x # d /\ isactive[x]
  BY <1>1, <1>3, <1>5, <1>6, StopParts
<1>8. PoolInv'
  BY <1>1, <1>2, <1>7 DEF PoolInv
<1>9. WdInv'
  BY <1>1, <1>7, <1>8 DEF WdInv
<1>. QED  BY <1>7, <1>9 DEF d

\* The interrupt ends when the first watchdog has ticks left; then all have.
LEMMA ExpireDoneInv ==
  ASSUME WdInv, ExpireDone
  PROVE  WdInv' /\ List' = List /\ Positive(List)
<1>1. /\ inirq = "check" /\ (active # << >> => lag[Head(active)] > 0) /\ inirq' = "no"
      /\ UNCHANGED <<active, lag, isactive, owned, free, wdnfree, allocs>>
  BY DEF ExpireDone
<1>2. Shape(List) /\ Within(List) /\ PoolInv
  BY DEF WdInv
<1>3. Positive(List)
  <2>1. CASE active = << >>
    <3>1. \A d \in Dog : ~List.isactive[d]
      BY <1>2, <2>1, ListParts DEF Shape, OnList
    <3>. QED  BY <3>1 DEF Positive
  <2>2. CASE active # << >>
    <3>1. ASSUME NEW d \in Dog, List.isactive[d] PROVE Left(List)[d] > 0
      <4>. DEFINE l == lag[active[1]]
      <4>1. l > 0 /\ l <= Left(List)[d] /\ l \in Nat
        BY <1>1, <1>2, <2>2, <3>1, ListParts, HeadIsFirst
      <4>2. Left(List)[d] \in Nat
        BY <1>2, <3>1, LeftTyped
      <4>. HIDE DEF l
      <4>. QED  BY <4>1, <4>2
    <3>. QED  BY <3>1 DEF Positive
  <2>. QED  BY <2>1, <2>2
<1>4. PoolInv'
  BY <1>1, <1>2 DEF PoolInv
<1>. QED  BY <1>1, <1>3, <1>4, SameList DEF WdInv

\* Every step keeps the invariant.
LEMMA NextInv ==
  ASSUME WdInv, [Next]_vars
  PROVE  WdInv'
<1>1. ASSUME UNCHANGED <<active, lag, isactive, owned, free, wdnfree>>,
             allocs' \in 0..Cardinality(Heap), inirq' = inirq \/ inirq' = "check"
      PROVE  WdInv'
  <2>1. PoolInv'
    BY <1>1 DEF WdInv, PoolInv
  <2>. QED  BY <1>1, <2>1, SameList DEF WdInv
<1>2. CASE FuncReturns \/ UNCHANGED vars
  BY <1>1, <1>2 DEF FuncReturns, vars, WdInv
<1>3. CASE NeedHeap
  <2>1. /\ allocs < Cardinality(Heap \ owned) /\ allocs' = allocs + 1 /\ inirq' = inirq
        /\ UNCHANGED <<active, lag, isactive, owned, free, wdnfree>>
    BY <1>3 DEF NeedHeap
  <2>2. Cardinality(Heap \ owned) <= Cardinality(Heap) /\ Cardinality(Heap \ owned) \in Nat
    BY ListParts, FS_Subset, FS_CardinalityType
  <2>3. allocs' \in 0..Cardinality(Heap)
    BY <2>1, <2>2, ListParts DEF WdInv
  <2>. QED  BY <1>1, <2>1, <2>3
<1>. QED  BY <1>2, <1>3, StartInv, CancelInv, DeleteInv, CreateInv, TimerInv, ExpireInv,
             ExpireDoneInv DEF Next

\* The invariant, for pools of any size.
THEOREM InvAlways == Spec => []WdInv
<1>1. WdInv /\ [Next]_vars => WdInv'
  BY NextInv
<1>. QED  BY <1>1, InitInv, PTL DEF Spec

\* The state keeps its types; in particular no lag is ever negative, although
\* wd_timer subtracts without a test, and none grows beyond the longest delay,
\* although wd_cancel adds lags up.
THEOREM TypeCorrect == Spec => []TypeOK
<1>1. WdInv => TypeOK
  <2>. SUFFICES ASSUME WdInv PROVE TypeOK
    OBVIOUS
  <2>1. /\ active \in Seq(Dog) /\ NoRepeat(active) /\ lag \in [Dog -> 0..(MaxDelay + 1)]
        /\ isactive \in [Dog -> BOOLEAN]
    BY ListParts DEF WdInv, Shape, Lag
  <2>2. Len(active) <= Cardinality(Dog)
    BY <2>1, ListParts, NoRepeatBound
  <2>3. /\ owned \subseteq Dog /\ free \in Seq(Pool) /\ wdnfree = Len(free) /\ NoRepeat(free)
    BY DEF WdInv, PoolInv
  <2>4. Len(free) <= Cardinality(Pool)
    BY <2>3, ListParts, NoRepeatBound
  <2>5. wdnfree \in 0..Cardinality(Pool)
    BY <2>3, <2>4, ListParts
  <2>. QED  BY <2>1, <2>2, <2>3, <2>5 DEF TypeOK, WdInv
<1>. QED  BY <1>1, InvAlways, PTL

\* The flag WDOGF_ACTIVE, the active list, the free list and g_wdnfree tell the
\* same story, whatever a watchdog's function starts, cancels or deletes.
THEOREM PoolAlwaysAgrees == Spec => []PoolAgrees
<1>1. WdInv => PoolAgrees
  <2>. SUFFICES ASSUME WdInv PROVE PoolAgrees
    OBVIOUS
  <2>1. /\ \A d \in Dog : isactive[d] <=> OnList(active, d)
        /\ NoRepeat(active)
    BY ListParts DEF WdInv, Shape
  <2>2. PoolInv
    BY DEF WdInv
  <2>. QED  BY <2>1, <2>2 DEF PoolAgrees, PoolInv, OnList, NoRepeat
<1>. QED  BY <1>1, InvAlways, PTL

(***************************************************************************)
(* The refinement of AbstractTimer.                                        *)
(***************************************************************************)
\* What the mapping is, before and after a step.
LEMMA MappingIs ==
  /\ [d \in Dog |-> IF isactive[d] THEN wd_gettime(List, d) ELSE Off] = Left(List)
  /\ [d \in Dog |-> IF isactive[d] THEN wd_gettime(List, d) ELSE Off]' = Left(List')
<1>1. List'.isactive = isactive'
  BY DEF List
<1>. QED  BY <1>1, ListParts DEF Left

\* A watchdog has a number of ticks left if it is active, and is off otherwise.
LEMMA OffMeansOff ==
  ASSUME WdInv
  PROVE  \A d \in Dog : /\ isactive[d] <=> Left(List)[d] # Off
                        /\ isactive[d] => Left(List)[d] \in Nat
<1>1. Shape(List) /\ isactive \in [Dog -> BOOLEAN]
  BY ListParts DEF WdInv, Shape
<1>2. \A d \in Dog : IF isactive[d] THEN Left(List)[d] \in Nat ELSE Left(List)[d] = Off
  BY <1>1, ListParts, LeftTyped
<1>. QED  BY <1>1, <1>2, OffIsNoNumber

\* A step that leaves the list and the interrupt alone is no step of a timer.
LEMMA NoTimerStep ==
  ASSUME List' = List, inirq' # "no" <=> inirq # "no"
  PROVE  UNCHANGED Timers!tvars
<1>1. Left(List') = Left(List)
  OBVIOUS
<1>2. (inirq # "no")' = (inirq # "no")
  OBVIOUS
<1>. QED  BY <1>1, <1>2, MappingIs DEF Timers!tvars

\* wd_timer is the tick.
LEMMA TimerRefines ==
  ASSUME WdInv, wd_timer
  PROVE  Timers!Tick
<1>. DEFINE L == Left(List)
<1>1. Left(List') = [d \in Dog |-> IF isactive[d] THEN L[d] - 1 ELSE Off]
  BY TimerInv
<1>2. \A d \in Dog : isactive[d] <=> L[d] # Off
  BY OffMeansOff
<1>. HIDE DEF L
<1>3. Left(List') = [d \in Dog |-> IF L[d] = Off THEN Off ELSE L[d] - 1]
  BY <1>1, <1>2
<1>4. ~(inirq # "no") /\ (inirq # "no")' = TRUE
  BY DEF wd_timer
<1>. QED  BY <1>3, <1>4, MappingIs DEF Timers!Tick, L

\* wd_expiration calls the function of a watchdog that is due, and of none that
\* is due later than another.
LEMMA ExpireRefines ==
  ASSUME WdInv, Expire
  PROVE  Timers!Fire
<1>. DEFINE L == Left(List)
            h == active[1]
<1>1. Left(List') = [L EXCEPT ![h] = Off]
  BY ExpireInv
<1>2. /\ inirq = "check" /\ inirq' = "func" /\ active # << >> /\ lag[Head(active)] <= 0
  BY DEF Expire
<1>3. /\ h \in Dog /\ isactive[h] /\ L[h] = lag[h] /\ L[h] <= 0
      /\ \A d \in Dog : isactive[d] => L[h] <= L[d]
  BY <1>2, ListParts, HeadIsFirst DEF WdInv
<1>4. \A d \in Dog : isactive[d] <=> L[d] # Off
  BY OffMeansOff
<1>. HIDE DEF L, h
<1>. DEFINE Started == {d \in Dog : L[d] # Off}
            Due == {d \in Started : L[d] <= 0}
<1>5. h \in Due /\ \A e \in Due : L[h] <= L[e]
  BY <1>3, <1>4
<1>6. (inirq # "no") /\ (inirq # "no")' = (inirq # "no")
  BY <1>2
<1>7. Timers!Started = Started
  BY MappingIs DEF Timers!Started, L
<1>8. Timers!Due = Due
  BY <1>7, MappingIs DEF Timers!Due, L
<1>. HIDE DEF Due
<1>. QED  BY <1>1, <1>5, <1>6, <1>8, MappingIs DEF Timers!Fire, L

\* When the interrupt ends, no watchdog is due.
LEMMA ExpireDoneRefines ==
  ASSUME WdInv, ExpireDone
  PROVE  Timers!TickEnds
<1>. DEFINE L == Left(List)
<1>1. List' = List /\ \A d \in Dog : isactive[d] => L[d] > 0
  BY ExpireDoneInv, ListParts DEF Positive
<1>2. \A d \in Dog : (isactive[d] <=> L[d] # Off) /\ (isactive[d] => L[d] \in Nat)
  BY OffMeansOff
<1>3. (inirq # "no") /\ (inirq # "no")' = FALSE
  BY DEF ExpireDone
<1>4. Left(List') = L
  BY <1>1
<1>. HIDE DEF L
<1>5. \A d \in Dog : ~(L[d] # Off /\ L[d] <= 0)
  BY <1>1, <1>2
<1>6. Timers!Due = {}
  <2>1. Timers!Started = {d \in Dog : L[d] # Off}
    BY MappingIs DEF Timers!Started, L
  <2>2. Timers!Due = {d \in {e \in Dog : L[e] # Off} : L[d] <= 0}
    BY <2>1, MappingIs DEF Timers!Due, L
  <2>. QED  BY <1>5, <2>2
<1>. QED  BY <1>3, <1>4, <1>6, MappingIs DEF Timers!TickEnds, L

\* wd_start, wd_cancel and wd_delete do what they say to that watchdog.
LEMMA CallsRefine ==
  ASSUME WdInv, NEW d \in owned
  PROVE  /\ Cancel(d) \/ Delete(d) => Timers!Cancel(d)
         /\ \A delay \in 0..MaxDelay : Start(d, delay) => Timers!Start(d, delay)
<1>1. ASSUME Cancel(d) \/ Delete(d) PROVE Timers!Cancel(d)
  <2>1. Left(List') = [Left(List) EXCEPT ![d] = Off]
    BY <1>1, CancelInv, DeleteInv
  <2>2. (inirq # "no")' = (inirq # "no")
    BY <1>1 DEF Cancel, Delete
  <2>. QED  BY <2>1, <2>2, MappingIs DEF Timers!Cancel
<1>2. ASSUME NEW delay \in 0..MaxDelay, Start(d, delay) PROVE Timers!Start(d, delay)
  <2>1. Left(List') = [Left(List) EXCEPT ![d] = Adjusted(delay)]
    BY <1>2, StartInv
  <2>2. (inirq # "no")' = (inirq # "no")
    BY <1>2 DEF Start
  <2>3. Adjusted(delay) = Timers!Ticks(delay)
    BY MaxDelayNat DEF Adjusted, Timers!Ticks
  <2>. QED  BY <2>1, <2>2, <2>3, MappingIs DEF Timers!Start
<1>. QED  BY <1>1, <1>2

\* Every step is a step of the timers, or none.
LEMMA StepRefines ==
  ASSUME WdInv, [Next]_vars
  PROVE  Timers!TimerNext \/ UNCHANGED Timers!tvars
<1>1. CASE wd_timer \/ Expire \/ ExpireDone
  BY <1>1, TimerRefines, ExpireRefines, ExpireDoneRefines DEF Timers!TimerNext
<1>2. ASSUME NEW d \in owned,
             Cancel(d) \/ Delete(d) \/ \E delay \in 0..MaxDelay : Start(d, delay)
      PROVE  Timers!TimerNext
  <2>1. d \in Dog
    BY DEF WdInv, PoolInv
  <2>. QED  BY <1>2, <2>1, CallsRefine DEF Timers!TimerNext
<1>3. CASE FuncReturns \/ NeedHeap \/ UNCHANGED vars
  <2>1. UNCHANGED <<active, lag, isactive>> /\ (inirq' # "no" <=> inirq # "no")
    BY <1>3 DEF FuncReturns, NeedHeap, vars
  <2>. QED  BY <2>1, SameList, NoTimerStep
<1>4. CASE (\E interrupt \in BOOLEAN : CreateFromPool(interrupt))
           \/ \E d \in Heap : CreateFromHeap(d)
  <2>1. inirq' = inirq
    BY <1>4 DEF CreateFromPool, CreateFromHeap
  <2>. QED  BY <1>4, <2>1, CreateInv, NoTimerStep
<1>. QED  BY <1>1, <1>2, <1>3, <1>4 DEF Next

\* The lags add up: each watchdog has its own number of ticks left, whatever was
\* inserted, cancelled or restarted around it, and fires in the tick it is due,
\* earliest first, however many there are and however long their delays.
THEOREM WatchdogsAreTimers == Spec => ImplementsTimers
<1>1. Init => Timers!TimerInit
  <2>. SUFFICES ASSUME Init PROVE Timers!TimerInit
    OBVIOUS
  <2>1. isactive = [d \in Dog |-> FALSE] /\ (inirq # "no") = FALSE
    BY DEF Init
  <2>2. [d \in Dog |-> IF isactive[d] THEN wd_gettime(List, d) ELSE Off] = [d \in Dog |-> Off]
    BY <2>1
  <2>. QED  BY <2>1, <2>2 DEF Timers!TimerInit
<1>2. WdInv /\ [Next]_vars => [Timers!TimerNext]_(Timers!tvars)
  BY StepRefines
<1>. QED  BY <1>1, <1>2, InvAlways, PTL DEF Spec, ImplementsTimers, Timers!TimerSpec
=============================================================================
