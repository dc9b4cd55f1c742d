---------------------------- MODULE EventChannel ----------------------------
(***************************************************************************)
(* What the event queue of a delivery client promises: a bounded           *)
(* first-in first-out channel between the calls that emit events and the   *)
(* calls that poll them.  An event is refused when the channel is full,    *)
(* never dropped or overwritten afterwards; a poll takes the oldest events *)
(* and as many of them as the caller has room for.  Nothing is said here   *)
(* of slots, heads or counts.                                              *)
(***************************************************************************)
EXTENDS Naturals, Sequences

CONSTANTS
  Event,    \* the events that may be sent
  Capacity, \* how many events the channel holds
  MaxRoom   \* the largest buffer a receiver passes

VARIABLES
  pending,  \* the events sent and not yet received, oldest first
  batch     \* the events the last operation handed over

vars == <<pending, batch>>

Lesser(m, n) == IF m <= n THEN m ELSE n

Init == pending = << >> /\ batch = << >>

Send(e) ==
  /\ Len(pending) < Capacity
  /\ pending' = Append(pending, e)
  /\ batch' = << >>

\* A full channel refuses the event: nothing moves.
Refuse ==
  /\ Len(pending) = Capacity
  /\ pending' = pending
  /\ batch' = << >>

Receive(room) ==
  LET n == Lesser(room, Len(pending)) IN
  /\ batch' = SubSeq(pending, 1, n)
  /\ pending' = SubSeq(pending, n + 1, Len(pending))

Next ==
  \/ \E e \in Event : Send(e)
  \/ Refuse
  \/ \E room \in 0 .. MaxRoom : Receive(room)

Spec == Init /\ [][Next]_vars
=============================================================================
