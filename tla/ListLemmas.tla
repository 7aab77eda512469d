---------------------------- MODULE ListLemmas ----------------------------
(***************************************************************************)
(* What insertion in a list and removal from it compute, for lists of any  *)
(* length and of any elements, and the induction principles behind it.     *)
(***************************************************************************)
EXTENDS DqList, WellFoundedInduction, TLAPS

(***************************************************************************)
(* Induction on the natural numbers, for sets instead of predicates.       *)
(***************************************************************************)
LessThan == {ss \in Nat \X Nat : ss[1] < ss[2]}

\* The order of the naturals is well founded.
LEMMA LessThanWellFounded == IsWellFoundedOn(LessThan, Nat)
BY NatLessThanWellFounded, Zenon DEF OpToRel, LessThan

\* A non-empty set of naturals has a least element.
LEMMA LeastNat ==
  ASSUME NEW S \in SUBSET Nat, S # {}
  PROVE  \E m \in S : \A k \in S : m <= k
<1>1. \E x \in S : \A y \in S : ~(<<y, x>> \in LessThan)
  BY WFMin, LessThanWellFounded
<1>2. \A x, y \in Nat : <<y, x>> \in LessThan <=> y < x
  BY DEF LessThan
<1>3. \A x, y \in S : ~(y < x) => x <= y
  OBVIOUS
<1>. QED  BY <1>1, <1>2, <1>3

\* A set that contains 0 and the successor of each of its naturals contains
\* every natural.
LEMMA InductionOnSet ==
  ASSUME NEW S, 0 \in S, \A n \in Nat : n \in S => n + 1 \in S
  PROVE  Nat \subseteq S
<1>. DEFINE B == Nat \ S
<1>1. SUFFICES ASSUME B # {} PROVE FALSE
  OBVIOUS
<1>2. B \in SUBSET Nat
  OBVIOUS
<1>3. PICK m \in B : \A k \in B : m <= k
  <2>. HIDE DEF B
  <2>. QED  BY <1>1, <1>2, LeastNat
<1>4. m # 0
  OBVIOUS
<1>5. m - 1 \in Nat /\ m - 1 \notin B
  BY <1>3, <1>4
<1>. QED  BY <1>5

(***************************************************************************)
(* Lists.                                                                  *)
(***************************************************************************)
\* Insertion makes a sequence one longer with the element at its place.
LEMMA InsertAtPosType ==
  ASSUME NEW S, NEW list \in Seq(S), NEW i \in 1..(Len(list) + 1), NEW t \in S
  PROVE  LET res == InsertAtPos(list, i, t)
         IN  /\ res \in Seq(S)
             /\ Len(res) = Len(list) + 1
             /\ \A j \in 1..(Len(list) + 1) :
                  res[j] = IF j < i THEN list[j] ELSE IF j = i THEN t ELSE list[j - 1]
BY DEF InsertAtPos

\* Insertion adds that element and no other, and no repetition if it was new.
LEMMA InsertAtPosContents ==
  ASSUME NEW S, NEW list \in Seq(S), NEW i \in 1..(Len(list) + 1), NEW t \in S
  PROVE  LET res == InsertAtPos(list, i, t)
         IN  /\ \A x \in S : OnList(res, x) <=> OnList(list, x) \/ x = t
             /\ NoRepeat(list) /\ ~OnList(list, t) => NoRepeat(res)
             /\ res[1] = IF i = 1 THEN t ELSE list[1]
<1>. DEFINE res == InsertAtPos(list, i, t)
<1>1. /\ res \in Seq(S)
      /\ Len(res) = Len(list) + 1
      /\ \A j \in 1..(Len(list) + 1) :
            res[j] = IF j < i THEN list[j] ELSE IF j = i THEN t ELSE list[j - 1]
  BY DEF InsertAtPos
<1>. HIDE DEF res
<1>2. ASSUME NEW x \in S, OnList(res, x) PROVE OnList(list, x) \/ x = t
  <2>1. PICK j \in 1..(Len(list) + 1) : res[j] = x
    BY <1>1, <1>2 DEF OnList
  <2>2. CASE j < i
    BY <1>1, <2>1, <2>2 DEF OnList
  <2>3. CASE j = i
    BY <1>1, <2>1, <2>3
  <2>4. CASE j > i
    <3>1. j - 1 \in 1..Len(list) /\ list[j - 1] = x
      BY <1>1, <2>1, <2>4
    <3>. QED  BY <3>1 DEF OnList
  <2>. QED  BY <2>2, <2>3, <2>4
<1>3. ASSUME NEW x \in S, OnList(list, x) \/ x = t PROVE OnList(res, x)
  <2>1. CASE x = t
    BY <1>1, <2>1 DEF OnList
  <2>2. ASSUME NEW k \in 1..Len(list), list[k] = x PROVE OnList(res, x)
    <3>1. CASE k < i
      BY <1>1, <2>2, <3>1 DEF OnList
    <3>2. CASE ~(k < i)
      <4>1. k + 1 \in 1..(Len(list) + 1) /\ res[k + 1] = x
        BY <1>1, <2>2, <3>2
      <4>. QED  BY <1>1, <4>1 DEF OnList
    <3>. QED  BY <3>1, <3>2
  <2>. QED  BY <1>3, <2>1, <2>2 DEF OnList
<1>4. ASSUME NoRepeat(list), ~OnList(list, t),
             NEW j \in 1..Len(res), NEW k \in 1..Len(res), res[j] = res[k]
      PROVE  j = k
  <2>. DEFINE src(n) == IF n < i THEN n ELSE n - 1
  <2>1. \A n \in 1..Len(res) : n # i => src(n) \in 1..Len(list) /\ res[n] = list[src(n)]
    BY <1>1
  <2>2. \A n \in 1..Len(res) : n # i => res[n] # t
    BY <1>4, <2>1 DEF OnList
  <2>3. res[i] = t /\ i \in 1..Len(res)
    BY <1>1
  <2>4. CASE j = i \/ k = i
    BY <1>4, <2>2, <2>3, <2>4
  <2>5. CASE j # i /\ k # i
    <3>1. src(j) = src(k)
      BY <1>4, <2>1, <2>5 DEF NoRepeat
    <3>. QED  BY <1>1, <2>5, <3>1
  <2>. QED  BY <2>4, <2>5
<1>5. res[1] = IF i = 1 THEN t ELSE list[1]
  BY <1>1
<1>. QED  BY <1>2, <1>3, <1>4, <1>5 DEF res, NoRepeat

\* dq_rem of an element of the list removes that element and no other.
LEMMA WithoutContents ==
  ASSUME NEW S, NEW list \in Seq(S), NEW t \in S, OnList(list, t)
  PROVE  LET res == Without(list, t)
         IN  /\ res \in Seq(S)
             /\ Len(res) = Len(list) - 1
             /\ NoRepeat(list) =>
                  /\ NoRepeat(res)
                  /\ \A x \in S : OnList(res, x) <=> OnList(list, x) /\ x # t
                  /\ Len(list) > 1 => res[1] = IF list[1] = t THEN list[2] ELSE list[1]
<1>. DEFINE i == CHOOSE k \in 1..Len(list) : list[k] = t
            res == [j \in 1..(Len(list) - 1) |-> IF j < i THEN list[j] ELSE list[j + 1]]
<1>1. i \in 1..Len(list) /\ list[i] = t
  BY DEF OnList
<1>2. res = Without(list, t)
  BY DEF Without
<1>. HIDE DEF i
<1>3. /\ res \in Seq(S) /\ Len(res) = Len(list) - 1
      /\ \A j \in 1..(Len(list) - 1) : res[j] = IF j < i THEN list[j] ELSE list[j + 1]
  BY <1>1
<1>. HIDE DEF res
<1>4. ASSUME NoRepeat(list),
             NEW j \in 1..Len(res), NEW k \in 1..Len(res), res[j] = res[k]
      PROVE  j = k
  BY <1>1, <1>3, <1>4 DEF NoRepeat
<1>5. ASSUME NoRepeat(list), NEW x \in S, OnList(res, x)
      PROVE  OnList(list, x) /\ x # t
  <2>1. PICK j \in 1..(Len(list) - 1) : res[j] = x
    BY <1>3, <1>5 DEF OnList
  <2>2. CASE j < i
    BY <1>1, <1>3, <1>5, <2>1, <2>2 DEF OnList, NoRepeat
  <2>3. CASE ~(j < i)
    <3>1. j + 1 \in 1..Len(list) /\ list[j + 1] = x /\ j + 1 # i
      BY <1>1, <1>3, <2>1, <2>3
    <3>. QED  BY <1>1, <1>5, <3>1 DEF OnList, NoRepeat
  <2>. QED  BY <2>2, <2>3
<1>6. ASSUME NEW x \in S, OnList(list, x), x # t
      PROVE  OnList(res, x)
  <2>1. PICK k \in 1..Len(list) : list[k] = x
    BY <1>6 DEF OnList
  <2>2. CASE k < i
    BY <1>1, <1>3, <2>1, <2>2 DEF OnList
  <2>3. CASE k > i
    <3>1. k - 1 \in 1..(Len(list) - 1) /\ res[k - 1] = x
      BY <1>1, <1>3, <2>1, <2>3
    <3>. QED  BY <1>3, <3>1 DEF OnList
  <2>. QED  BY <1>1, <1>6, <2>1, <2>2, <2>3
<1>7. ASSUME NoRepeat(list), Len(list) > 1
      PROVE  res[1] = IF list[1] = t THEN list[2] ELSE list[1]
  <2>1. CASE i = 1
    BY <1>1, <1>3, <1>7, <2>1
  <2>2. CASE i > 1
    BY <1>1, <1>3, <1>7, <2>2 DEF NoRepeat
  <2>. QED  BY <1>1, <2>1, <2>2
<1>. QED  BY <1>2, <1>3, <1>4, <1>5, <1>6, <1>7 DEF NoRepeat

(***************************************************************************)
(* Definition by recursion.                                                *)
(***************************************************************************)
Iterates(f, n, V, v0, F) ==
  /\ f \in [0..n -> V]
  /\ f[0] = v0
  /\ \A k \in 1..n : f[k] = F[k][f[k - 1]]

\* A function on 0..n can be defined by its value at 0 and a step.
LEMMA RecursionExists ==
  ASSUME NEW V, NEW v0 \in V, NEW F \in [Nat -> [V -> V]], NEW n \in Nat
  PROVE  \E f : Iterates(f, n, V, v0, F)
<1>. DEFINE S == {m \in Nat : \E f : Iterates(f, m, V, v0, F)}
<1>1. 0 \in S
  <2>1. Iterates([k \in 0..0 |-> v0], 0, V, v0, F)
    BY DEF Iterates
  <2>. QED  BY <2>1
<1>2. ASSUME NEW m \in Nat, m \in S PROVE m + 1 \in S
  <2>1. PICK f : Iterates(f, m, V, v0, F)
    BY <1>2
  <2>. DEFINE g == [k \in 0..(m + 1) |-> IF k <= m THEN f[k] ELSE F[m + 1][f[m]]]
  <2>2. g \in [0..(m + 1) -> V] /\ g[0] = v0
    BY <2>1 DEF Iterates
  <2>3. ASSUME NEW k \in 1..(m + 1) PROVE g[k] = F[k][g[k - 1]]
    <3>1. k - 1 \in 0..m /\ g[k - 1] = f[k - 1]
      OBVIOUS
    <3>2. CASE k <= m
      BY <2>1, <3>1, <3>2 DEF Iterates
    <3>3. CASE k = m + 1
      BY <3>1, <3>3
    <3>. QED  BY <3>2, <3>3
  <2>. HIDE DEF g
  <2>4. Iterates(g, m + 1, V, v0, F)
    BY <2>2, <2>3 DEF Iterates
  <2>. QED  BY <2>4
<1>. HIDE DEF S
<1>3. Nat \subseteq S
  BY <1>1, <1>2, InductionOnSet
<1>. QED  BY <1>3 DEF S
=============================================================================
