----------------------------- MODULE EventRing -----------------------------
(***************************************************************************)
(* The bounded event ring of a delivery client: the struct                 *)
(* solana_delivery_event_queue_t and the three code fragments that read or *)
(* write it (solana_delivery_events.c).  A ring is the record              *)
(*                                                                         *)
(*     [entries |-> 0..QueueCapacity-1 -> Event, head |-> .., count |-> ..]*)
(*                                                                         *)
(* and every operator below is a function of such a record, so that the    *)
(* stand-alone queue (EventQueue) and the whole client (DeliveryClient)    *)
(* share one translation of the code.  Slots that have been drained keep   *)
(* their old event, as in the C array: only head and count say which slots *)
(* are in use.                                                             *)
(*                                                                         *)
(* Operators whose name starts with Faulty are seeded faults: none of them *)
(* is used by the specification, each replaces the definition after it     *)
(* when the properties are tested for their power to see a bug there.      *)
(***************************************************************************)
EXTENDS Naturals, Sequences

CONSTANTS
  QueueCapacity, \* SOLANA_DELIVERY_EVENT_QUEUE_CAPACITY (64 in the code)
  NoEvent        \* what calloc leaves in a slot never written

ASSUME QueueCapacityAssumption == QueueCapacity \in Nat \ {0}

Slots == 0 .. QueueCapacity - 1

\* The rings over the events of a set E.
Ring(E) ==
  [entries : [Slots -> E \union {NoEvent}],
   head    : Slots,
   count   : 0 .. QueueCapacity]

\* The zeroed ring of a client fresh from calloc.
EmptyRing == [entries |-> [s \in Slots |-> NoEvent], head |-> 0, count |-> 0]

----------------------------------------------------------------------------
\* The free slot solana_delivery_event_queue_push writes.
FaultyTailSlot(q) == q.count % QueueCapacity
TailSlot(q) == (q.head + q.count) % QueueCapacity

FaultyHasCapacity(q) == q.count <= QueueCapacity
HasCapacity(q) == q.count < QueueCapacity

\* solana_delivery_event_queue_push, past its capacity check.
Push(q, e) ==
  [entries |-> [q.entries EXCEPT ![TailSlot(q)] = e],
   head    |-> q.head,
   count   |-> q.count + 1]

----------------------------------------------------------------------------
\* How many events one poll copies: the caller's capacity or all there are.
FaultyCopyCount(q, capacity) ==
  IF q.count >= capacity THEN capacity - 1 ELSE q.count
CopyCount(q, capacity) == IF q.count > capacity THEN capacity ELSE q.count

\* The n oldest events, in the order solana_delivery_client_poll_events
\* copies them out.
Oldest(q, n) ==
  [i \in 1 .. n |-> q.entries[(q.head + i - 1) % QueueCapacity]]

\* head and count after n events have been copied; an emptied ring starts
\* again at slot 0.
FaultyDrain(q, n) ==
  [entries |-> q.entries,
   head    |-> (q.head + n) % QueueCapacity,
   count   |-> q.count - n]
Drain(q, n) ==
  [entries |-> q.entries,
   head    |-> IF q.count = n THEN 0 ELSE (q.head + n) % QueueCapacity,
   count   |-> q.count - n]

----------------------------------------------------------------------------
\* The events a ring holds, oldest first.
Contents(q) == Oldest(q, q.count)
=============================================================================
