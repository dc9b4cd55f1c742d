-------------------------- MODULE DeliveryService --------------------------
(***************************************************************************)
(* What the delivery library promises its callers (delivery.h, ADR 0007,   *)
(* 0011, 0012 and 0013), with every successful call a single step and      *)
(* every failed call no step at all: no allocations, no intermediate       *)
(* states, no ring.  A request is accepted together with its event, with   *)
(* the next identifier and with the full plan of the snapshot in use.      *)
(***************************************************************************)
EXTENDS RoutePlan

CONSTANTS
  NULL,
  Snapshots,      \* the topologies callers pass
  Transactions,   \* what they submit
  Limits,         \* the target limits they ask for
  Times,          \* the times of the clock
  MaxRequestId,   \* the last request identifier
  QueueCapacity,  \* how many events may wait
  IsValid(_)      \* the snapshots that may be installed

VARIABLES
  open,           \* is there a client
  snapshot,       \* [view, received] of the snapshot in use, or NULL
  accepted,       \* the accepted requests, oldest first
  waiting         \* the events not yet handed out, oldest first

vars == <<open, snapshot, accepted, waiting>>

Init ==
  /\ open = FALSE
  /\ snapshot = NULL
  /\ accepted = << >>
  /\ waiting = << >>

Open ==
  /\ ~open
  /\ open' = TRUE
  /\ UNCHANGED <<snapshot, accepted, waiting>>

Close ==
  /\ open
  /\ open' = FALSE
  /\ snapshot' = NULL
  /\ accepted' = << >>
  /\ waiting' = << >>

\* A newer snapshot replaces the one in use; nothing else moves.
Replace(t, now) ==
  /\ open
  /\ IsValid(t)
  /\ snapshot # NULL => t.generation > snapshot.view.generation
  /\ snapshot' = [view |-> t, received |-> now]
  /\ UNCHANGED <<open, accepted, waiting>>

Accept(bytes, limit, now) ==
  LET id == Len(accepted) + 1
      t  == snapshot.view
      r  == accepted'[id]
  IN  /\ snapshot # NULL
      /\ id <= MaxRequestId
      /\ Len(waiting) < QueueCapacity
      /\ now >= snapshot.received
      /\ Len(accepted') = id
      /\ \A i \in 1 .. id - 1 : accepted'[i] = accepted[i]
      /\ r.request_id = id
      /\ r.transaction = bytes
      /\ r.topology_generation = t.generation
      /\ r.routing_slot = t.current_slot
      /\ IsFullRoutePlan(t, t.current_slot, limit, r.targets)
      /\ waiting' = Append(waiting, [request_id |-> id,
                                     monotonic_time_ns |-> now])
      /\ UNCHANGED <<open, snapshot>>

\* The n oldest events are handed out.
HandOut(n) ==
  /\ waiting' = SubSeq(waiting, n + 1, Len(waiting))
  /\ UNCHANGED <<open, snapshot, accepted>>

Next ==
  \/ Open
  \/ Close
  \/ \E t \in Snapshots, now \in Times : Replace(t, now)
  \/ \E bytes \in Transactions, limit \in Limits, now \in Times :
       Accept(bytes, limit, now)
  \/ \E n \in 1 .. Len(waiting) : HandOut(n)

Spec == Init /\ [][Next]_vars
=============================================================================
