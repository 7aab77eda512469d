----------------------------- MODULE AbstractMq -----------------------------
(***************************************************************************)
(* What message queues promise about their contents: a message that was    *)
(* sent is received once, the oldest of the highest priority first.        *)
(***************************************************************************)
EXTENDS Naturals, Sequences

CONSTANTS Mq, Message

VARIABLE box  \* of each queue, the messages in the order of their arrival

MailInit == box = [q \in Mq |-> << >>]

Put(q, msg) == box' = [box EXCEPT ![q] = Append(@, msg)]

\* The oldest of the messages of the highest priority
Due(q, i) ==
  \A j \in 1..Len(box[q]) :
    /\ box[q][j].prio <= box[q][i].prio
    /\ j < i => box[q][j].prio < box[q][i].prio

Take(q) ==
  \E i \in 1..Len(box[q]) :
    /\ Due(q, i)
    /\ box' = [box EXCEPT ![q] = SubSeq(@, 1, i - 1) \o SubSeq(@, i + 1, Len(@))]

MailNext == \E q \in Mq : Take(q) \/ \E msg \in Message : Put(q, msg)

MailSpec == MailInit /\ [][MailNext]_box
=============================================================================
