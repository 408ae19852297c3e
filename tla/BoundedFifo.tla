----------------------------- MODULE BoundedFifo -----------------------------
(***************************************************************************)
(* What the rings between the stages of the packet pipeline promise: a     *)
(* first-in first-out queue of at most size items.  A put may be refused   *)
(* before the queue is full, but only when fewer than slack places are     *)
(* left; an item is taken in order, once, and "nothing there" is only said *)
(* when nothing is there.                                                  *)
(***************************************************************************)
EXTENDS Integers, Sequences

CONSTANTS Items,      \* what can be queued
          Limits,     \* the sizes a queue can have
          Slack(_)    \* how many places of a queue of a size may lie idle

VARIABLES fifo,       \* the items in the queue, oldest first
          limit,      \* its size
          putting,    \* what the last put said: "ok" or "full"
          taken       \* what was taken and not yet disposed of, oldest first

fifovars == <<fifo, limit, putting, taken>>

Least(a, b) == IF a < b THEN a ELSE b

FifoInit ==
  /\ fifo = <<>> /\ limit \in Limits
  /\ putting = "ok" /\ taken = <<>>

Put(x) ==
  /\ Len(fifo) < limit
  /\ fifo' = Append(fifo, x) /\ putting' = "ok"
  /\ UNCHANGED <<limit, taken>>

Refuse ==
  /\ Len(fifo) + Slack(limit) >= limit
  /\ putting' = "full"
  /\ UNCHANGED <<fifo, limit, taken>>

Take ==
  /\ fifo # <<>>
  /\ fifo' = Tail(fifo) /\ taken' = Append(taken, Head(fifo))
  /\ UNCHANGED <<limit, putting>>

\* The taker is done with what it took.
Dispose == taken' = <<>> /\ UNCHANGED <<fifo, limit, putting>>

\* What was taken last goes back in front, as far as there is room.
GiveBack ==
  /\ LET n == Least(Len(taken), limit - Len(fifo))
     IN fifo' = SubSeq(taken, Len(taken) - n + 1, Len(taken)) \o fifo
  /\ taken' = <<>>
  /\ UNCHANGED <<limit, putting>>

\* A smaller queue keeps its oldest items.
Resize(l) ==
  /\ limit' = l
  /\ fifo' = SubSeq(fifo, 1, Least(Len(fifo), l))
  /\ UNCHANGED <<putting, taken>>

FifoNext ==
  \/ \E x \in Items : Put(x)
  \/ Refuse \/ Take \/ Dispose \/ GiveBack
  \/ \E l \in Limits : Resize(l)

FifoSpec == FifoInit /\ [][FifoNext]_fifovars
=============================================================================
