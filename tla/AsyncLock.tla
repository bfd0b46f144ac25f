------------------------------ MODULE AsyncLock ------------------------------
(***************************************************************************)
(* asyncio.Lock as a FIFO queue of the tasks that want it: the head holds  *)
(* the lock, a release wakes the next one, and a waiter that is cancelled  *)
(* takes itself out of the queue.                                          *)
(***************************************************************************)
EXTENDS Integers, Sequences, Functions

HeldBy(q, a) == q # <<>> /\ Head(q) = a

WithoutNone(q, a) == q               \* fault: the cancelled waiter stays
Without(q, a) ==
  LET p == CHOOSE i \in 1 .. Len(q) : q[i] = a
  IN  [i \in 1 .. Len(q) - 1 |-> IF i < p THEN q[i] ELSE q[i + 1]]
=============================================================================
