------------------------- MODULE DeliveryRefinement -------------------------
(***************************************************************************)
(* The client implements the service: however a call is cut by allocations *)
(* and clock samples, and wherever it fails, callers see it happen at one  *)
(* point or not at all.                                                    *)
(***************************************************************************)
EXTENDS DeliveryClient

\* What callers are entitled to know of a request: all but its blocks.
Visible(r) ==
  [request_id |-> r.request_id, topology_generation |-> r.topology_generation,
   routing_slot |-> r.routing_slot, transaction |-> r.transaction,
   targets |-> r.targets]

\* What says that there is no snapshot is none.
ASSUME NoSnapshotAssumption ==
  NULL \notin [view : Snapshots, received : Times]

Service ==
  INSTANCE DeliveryService WITH
    Limits   <- {o.target_limit : o \in Options},
    IsValid  <- LAMBDA t : TopologyStatus(t) = "OK",
    open     <- client # NULL,
    snapshot <- IF has_topology
                THEN [view |-> topology.view, received |-> topology.received]
                ELSE NULL,
    accepted <- [i \in 1 .. Len(requests) |->
                   Visible(requests[Len(requests) + 1 - i])],
    waiting  <- Contents(event_queue)

(***************************************************************************)
(* Every behaviour of the client is one of the service: the link of the    *)
(* request list, the identifier and the event of an accepted request       *)
(* appear in one step, with the full plan of the snapshot in use, and a    *)
(* replaced snapshot, a poll or a failed call disturbs none of them        *)
(* (solana_delivery_submission.c:143-460, solana_delivery.c:768-820).      *)
(***************************************************************************)
ImplementsService == Service!Spec
=============================================================================
