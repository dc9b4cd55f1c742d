----------------------------- MODULE EventQueue -----------------------------
(***************************************************************************)
(* The event queue on its own: solana_delivery_event_queue_push and        *)
(* solana_delivery_client_poll_events called in any order, with every size *)
(* of caller buffer and with buffers whose layout the poll refuses.  The   *)
(* calls on a client are serialised by its caller and neither function     *)
(* calls out, so each is one action.                                       *)
(***************************************************************************)
EXTENDS EventRing

CONSTANTS
  Event,    \* the events the client may emit
  MaxRoom   \* bound on the event_capacity a caller passes

ASSUME EventAssumption == NoEvent \notin Event
ASSUME MaxRoomAssumption == MaxRoom \in Nat

VARIABLES
  queue,    \* client->event_queue
  batch,    \* the events the last call wrote to the caller's buffer
  status    \* the status the last call returned

vars == <<queue, batch, status>>

Status == {"OK", "INVALID_ARGUMENT", "RESOURCE_EXHAUSTED"}

TypeOK ==
  /\ queue \in Ring(Event)
  /\ batch \in Seq(Event)
  /\ status \in Status

Init ==
  /\ queue = EmptyRing
  /\ batch = << >>
  /\ status = "OK"

\* solana_delivery_event_queue_push: a full queue refuses the event.
Emit(e) ==
  /\ batch' = << >>
  /\ \/ /\ HasCapacity(queue)
        /\ queue' = Push(queue, e)
        /\ status' = "OK"
     \/ /\ ~HasCapacity(queue)
        /\ status' = "RESOURCE_EXHAUSTED"
        /\ UNCHANGED queue

\* solana_delivery_client_poll_events with a buffer of room events;
\* layout_ok stands for the pointer, alignment and stride checks, which the
\* code skips when room is 0.
Poll(room, layout_ok) ==
  \/ /\ room # 0
     /\ ~layout_ok
     /\ status' = "INVALID_ARGUMENT"
     /\ batch' = << >>
     /\ UNCHANGED queue
  \/ /\ room = 0 \/ layout_ok
     /\ LET n == CopyCount(queue, room) IN
          /\ batch' = Oldest(queue, n)
          /\ queue' = IF room = 0 THEN queue ELSE Drain(queue, n)
     /\ status' = "OK"

Next ==
  \/ \E e \in Event : Emit(e)
  \/ \E room \in 0 .. MaxRoom, layout_ok \in BOOLEAN : Poll(room, layout_ok)

Spec == Init /\ [][Next]_vars

----------------------------------------------------------------------------
(***************************************************************************)
(* An emptied ring is back at slot 0 (solana_delivery_events.c:130): the   *)
(* state the rest of the code and its tests take for the initial one.      *)
(***************************************************************************)
EmptyMeansRewound == queue.count = 0 => queue.head = 0

(***************************************************************************)
(* The slots in use hold events some push stored there, never a slot       *)
(* calloc left blank, whatever the wraparound.                             *)
(***************************************************************************)
RetainedAreReal == Contents(queue) \in Seq(Event)

\* The ring implements the bounded first-in first-out channel: no event is
\* lost, repeated, reordered or invented by slot reuse and wraparound.
Channel == INSTANCE EventChannel
             WITH pending <- Contents(queue), Capacity <- QueueCapacity

ImplementsChannel == Channel!Spec
=============================================================================
