--------------------------- MODULE AbstractTimer ---------------------------
(***************************************************************************)
(* What the watchdog timers promise: each started timer has a number of    *)
(* ticks left, every tick takes one from all of them, and a timer fires,   *)
(* once, in the very tick that takes its last one, earliest deadline       *)
(* first.  Timers may be started and cancelled at any time, also by the    *)
(* functions of timers that fire.                                          *)
(***************************************************************************)
EXTENDS Integers

CONSTANTS Dog, MaxDelay, Off

VARIABLES
  left,    \* the ticks left of each timer, Off for one that is not running
  firing   \* the tick interrupt is calling timer functions

tvars == <<left, firing>>

Started == {d \in Dog : left[d] # Off}
Due == {d \in Started : left[d] <= 0}

\* A timer for `delay' ticks is started somewhere inside a tick: one more makes
\* sure that all of them pass, except that 0 means the next tick.
Ticks(delay) == IF delay = 0 THEN 1 ELSE delay + 1

TimerInit == left = [d \in Dog |-> Off] /\ firing = FALSE

Start(d, delay) == left' = [left EXCEPT ![d] = Ticks(delay)] /\ UNCHANGED firing

Cancel(d) == left' = [left EXCEPT ![d] = Off] /\ UNCHANGED firing

Tick ==
  /\ ~firing
  /\ left' = [d \in Dog |-> IF left[d] = Off THEN Off ELSE left[d] - 1]
  /\ firing' = TRUE

Fire ==
  /\ firing
  /\ \E d \in Due :
       /\ \A e \in Due : left[d] <= left[e]
       /\ left' = [left EXCEPT ![d] = Off]
  /\ UNCHANGED firing

TickEnds == firing /\ Due = {} /\ firing' = FALSE /\ UNCHANGED left

TimerNext ==
  \/ Tick \/ Fire \/ TickEnds
  \/ \E d \in Dog : Cancel(d) \/ \E delay \in 0..MaxDelay : Start(d, delay)

TimerSpec == TimerInit /\ [][TimerNext]_tvars
=============================================================================
