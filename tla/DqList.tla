------------------------------- MODULE DqList -------------------------------
(***************************************************************************)
(* Doubly linked lists (libs/libc/queue) as sequences: the code's pointer  *)
(* surgery is insertion at and removal from a position.                    *)
(***************************************************************************)
EXTENDS Naturals, Sequences

OnList(list, t) == \E i \in 1..Len(list) : list[i] = t

NoRepeat(list) == \A i, j \in 1..Len(list) : list[i] = list[j] => i = j

InsertAtPos(list, i, t) ==
  [j \in 1..(Len(list) + 1) |->
     IF j < i THEN list[j] ELSE IF j = i THEN t ELSE list[j - 1]]

\* dq_rem
Without(list, t) ==
  LET i == CHOOSE k \in 1..Len(list) : list[k] = t
  IN  [j \in 1..(Len(list) - 1) |-> IF j < i THEN list[j] ELSE list[j + 1]]

\* dq_addfirst, dq_addlast
AddFirst(list, t) == InsertAtPos(list, 1, t)
AddLast(list, t) == Append(list, t)
=============================================================================
