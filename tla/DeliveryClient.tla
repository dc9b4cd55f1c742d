--------------------------- MODULE DeliveryClient ---------------------------
(***************************************************************************)
(* One solana_delivery_client and the calls made on it: create, destroy,   *)
(* install_topology, submit and poll_events (solana_delivery.c,            *)
(* solana_delivery_submission.c, solana_delivery_admission.c,              *)
(* solana_delivery_events.c).                                              *)
(*                                                                         *)
(* The calls on one client are serialised by its caller, so at most one is *)
(* in progress: pc is "idle" between calls and otherwise names what the    *)
(* call in progress waits for.  A call is cut into steps where it calls    *)
(* out, to the allocator or to the clock, because there the environment    *)
(* decides what happens next (an allocation fails, the clock returns an    *)
(* error or goes backwards); all the code between two such points is one   *)
(* step.  free is called inside steps: it decides nothing.                 *)
(*                                                                         *)
(* Memory is the set heap of the blocks calloc returned that were not      *)
(* freed since.  A pointer of the code is an address or NULL; what a block *)
(* contains is kept in the variable that owns the pointer.                 *)
(***************************************************************************)
EXTENDS EventRing, TopologyValidation, RoutePlanning, RoutePlan

CONSTANTS
  NULL,
  Addr,           \* the addresses calloc can return
  Snapshots,      \* the topologies callers pass, valid or not
  Options,        \* the submit options callers pass, valid or not
  Transactions,   \* the transaction byte strings callers submit
  MaxRequestId,   \* stands for UINT64_MAX, the last request identifier
  MaxTime,        \* bound on the times the clock returns
  MaxRoom,        \* bound on the event_capacity of a poll
  ClockErrors,    \* the statuses a failing clock returns
  MonotonicClock  \* TRUE for a clock that never goes backwards

ASSUME BoundsAssumption ==
  MaxRequestId \in Nat \ {0} /\ MaxTime \in Nat /\ MaxRoom \in Nat

ASSUME SnapshotsAssumption ==
  NULL \notin Snapshots /\ \A t \in Snapshots : IsSnapshot(t)

ASSUME OptionsAssumption ==
  \A o \in Options : o.max_topology_age \in Nat /\ o.target_limit \in Nat

ASSUME EnvironmentAssumption ==
  /\ NULL \notin Addr
  /\ NULL \notin Transactions
  /\ ClockErrors \subseteq Statuses \ {"OK"}
  /\ MonotonicClock \in BOOLEAN

VARIABLES
  (* struct solana_delivery_client *)
  client,           \* its block, or NULL while there is no client
  has_topology,
  topology,         \* the snapshot, its receipt time and its four blocks
  next_request_id,  \* 0 is SOLANA_DELIVERY_REQUEST_ID_NONE
  requests,         \* the list at request_head, newest first
  event_queue,
  (* locals of the call in progress *)
  pc,
  source,           \* install: the caller's snapshot
  replacement,      \* install: the blocks of the copy being built
  submission,       \* submit: the arguments, the slot and the owned targets
  counts,           \* submit: what the counting passes returned
  scratch,          \* submit: what the writing passes wrote
  temp,             \* submit: the five blocks it may have allocated
  (* environment *)
  heap,
  clock_floor,      \* a monotonic clock returns no time before this
  (* what callers see *)
  result,           \* status and request id of the last call
  polled,           \* every event handed out, in order
  (* history *)
  installed         \* every snapshot installed, in order

client_vars == <<client, has_topology, topology, next_request_id, requests,
                 event_queue>>
submit_vars == <<submission, counts, scratch, temp>>
install_vars == <<source, replacement>>
vars == <<client_vars, pc, install_vars, submit_vars, heap, clock_floor,
          result, polled, installed>>

----------------------------------------------------------------------------
ArrayNames == {"validators", "endpoints", "validator_endpoints", "leaders"}
OwnedNames == {"transaction_copy", "owned_targets", "request"}
TempNames  == {"candidates", "routes"} \union OwnedNames

NoBlocks     == [a \in ArrayNames |-> NULL]
NoTopology   == [view |-> NULL, received |-> 0, blocks |-> NoBlocks]
NoSubmission == [transaction |-> NULL, max_topology_age |-> 0,
                 target_limit |-> 0, routing_slot |-> 0, targets |-> << >>]
NoCounts     == [candidate_count |-> 0, target_count |-> 0,
                 unique_target_count |-> 0]
NoScratch    == [candidates |-> << >>, routes |-> << >>]
NoTemp       == [n \in TempNames |-> NULL]

Times      == 0 .. MaxTime
RequestIds == 1 .. MaxRequestId
Event      == [request_id : RequestIds, monotonic_time_ns : Times]

\* What is copied into a request for each of its targets.
Identities == UNION {{t.validators[i].identity : i \in DOMAIN t.validators} :
                       t \in Snapshots}
Endpoints  == UNION {{t.endpoints[i] : i \in DOMAIN t.endpoints} :
                       t \in Snapshots}
Target == [leader_index : Nat, validator_index : Nat, endpoint_index : Nat,
           validator_identity : Identities, endpoint : Endpoints]

Request ==
  [request_id : RequestIds, topology_generation : Nat, routing_slot : Nat,
   transaction : Transactions, targets : Seq(Target),
   blocks : [OwnedNames -> Addr]]

SubmitPoints  == {"admit", "accept"} \union TempNames
InstallPoints == {"receipt"} \union ArrayNames

\* The type of the state.  scratch has none: it is what the scans of
\* RoutePlanning return, and ScratchFits says what matters of it.
TypeOK ==
  /\ client \in Addr \union {NULL}
  /\ has_topology \in BOOLEAN
  /\ topology \in [view : Snapshots \union {NULL}, received : Times,
                   blocks : [ArrayNames -> Addr \union {NULL}]]
  /\ next_request_id \in 0 .. MaxRequestId
  /\ requests \in Seq(Request)
  /\ event_queue \in Ring(Event)
  /\ pc \in {"idle"} \union SubmitPoints \union InstallPoints
  /\ source \in Snapshots \union {NULL}
  /\ replacement \in [ArrayNames -> Addr \union {NULL}]
  /\ submission \in [transaction : Transactions \union {NULL},
                     max_topology_age : Nat, target_limit : Nat,
                     routing_slot : Nat, targets : Seq(Target)]
  /\ counts \in [candidate_count : Nat, target_count : Nat,
                 unique_target_count : Nat]
  /\ temp \in [TempNames -> Addr \union {NULL}]
  /\ heap \subseteq Addr
  /\ clock_floor \in Times
  /\ result \in [status : Statuses \union {"PENDING"},
                 request_id : 0 .. MaxRequestId]
  /\ polled \in Seq(Event)
  /\ installed \in Seq([view : Snapshots, received : Times])

----------------------------------------------------------------------------
(* The environment: the allocator and the clock. *)

BlocksIn(pointers) == {pointers[x] : x \in DOMAIN pointers} \ {NULL}

\* Which free address calloc returns does not matter; the first free one
\* makes an address come back as soon as it is freed.
CanAllocate == \E b \in Addr : b \notin heap
FreshBlock == CHOOSE b \in Addr : b \notin heap

\* A successful sample t of client->monotonic_time_fn.
ReadClock(t) ==
  /\ MonotonicClock => t >= clock_floor
  /\ clock_floor' = IF MonotonicClock THEN t ELSE clock_floor

Return(status, id) ==
  /\ pc' = "idle"
  /\ result' = [status |-> status, request_id |-> id]

Continue(point) ==
  /\ pc' = point
  /\ result' = [status |-> "PENDING", request_id |-> 0]

Ready == pc = "idle" /\ client # NULL

----------------------------------------------------------------------------
(* solana_delivery_client_create and solana_delivery_client_destroy. *)

Create ==
  /\ pc = "idle" /\ client = NULL
  /\ \/ /\ Return("RESOURCE_EXHAUSTED", 0)
        /\ UNCHANGED <<client, next_request_id, heap>>
     \/ /\ CanAllocate
        /\ client' = FreshBlock
        /\ heap' = heap \union {FreshBlock}
        /\ next_request_id' = 1
        /\ Return("OK", 0)
  /\ UNCHANGED <<has_topology, topology, requests, event_queue, install_vars,
                 submit_vars, clock_floor, polled, installed>>

RequestBlocks == UNION {BlocksIn(requests[i].blocks) : i \in DOMAIN requests}

\* destroy returns nothing; what is left is the state of no client.
Destroyed == RequestBlocks \union BlocksIn(topology.blocks) \union {client}
Destroy ==
  /\ Ready
  /\ heap' = heap \ Destroyed
  /\ client' = NULL
  /\ has_topology' = FALSE
  /\ topology' = NoTopology
  /\ next_request_id' = 0
  /\ requests' = << >>
  /\ event_queue' = EmptyRing
  /\ polled' = << >>
  /\ installed' = << >>
  /\ Return("OK", 0)
  /\ UNCHANGED <<install_vars, submit_vars, clock_floor>>

----------------------------------------------------------------------------
(* solana_delivery_client_install_topology. *)

FaultyGenerationStatus(t) ==
  Require(has_topology => t.generation >= topology.view.generation,
          "TOPOLOGY_STALE")
GenerationStatus(t) ==
  Require(has_topology => t.generation > topology.view.generation,
          "TOPOLOGY_STALE")

InstallStatus(t) == FirstError(<<TopologyStatus(t), GenerationStatus(t)>>)

Install(t) ==
  /\ Ready
  /\ IF InstallStatus(t) # "OK"
     THEN Return(InstallStatus(t), 0) /\ UNCHANGED source
     ELSE Continue("validators") /\ source' = t
  /\ UNCHANGED <<client_vars, replacement, submit_vars, heap, clock_floor,
                 polled, installed>>

\* The order in which build_owned_topology clones the arrays.
AfterClone(array) ==
  CASE array = "validators"          -> "endpoints"
    [] array = "endpoints"           -> "validator_endpoints"
    [] array = "validator_endpoints" -> "leaders"
    [] array = "leaders"             -> "receipt"

\* An install that fails releases what it has copied so far.
FailInstall(status) ==
  /\ heap' = heap \ BlocksIn(replacement)
  /\ replacement' = NoBlocks
  /\ source' = NULL
  /\ Return(status, 0)

\* clone_array: an empty array needs no block.
ArrayIsEmpty(t, array) == t[array] = << >>
CloneArray(array) ==
  /\ pc = array
  /\ \/ /\ ArrayIsEmpty(source, array)
        /\ Continue(AfterClone(array))
        /\ UNCHANGED <<replacement, source, heap>>
     \/ /\ ~ArrayIsEmpty(source, array)
        /\ FailInstall("RESOURCE_EXHAUSTED")
     \/ /\ ~ArrayIsEmpty(source, array)
        /\ CanAllocate
        /\ replacement' = [replacement EXCEPT ![array] = FreshBlock]
        /\ heap' = heap \union {FreshBlock}
        /\ Continue(AfterClone(array))
        /\ UNCHANGED source
  /\ UNCHANGED <<client_vars, submit_vars, clock_floor, polled, installed>>

\* Without a receipt time there is no swap.
FaultyReceiptFails ==
  /\ pc = "receipt"
  /\ \E error \in ClockErrors : FailInstall(error)
  /\ topology' = [topology EXCEPT !.view = source]
  /\ UNCHANGED <<client, has_topology, next_request_id, requests, event_queue,
                 submit_vars, clock_floor, polled, installed>>
ReceiptFails ==
  /\ pc = "receipt"
  /\ \E error \in ClockErrors : FailInstall(error)
  /\ UNCHANGED <<client_vars, submit_vars, clock_floor, polled, installed>>

\* The receipt time t is known: the old copy is freed, the new one is in use.
Swap(t) ==
  /\ pc = "receipt"
  /\ ReadClock(t)
  /\ heap' = heap \ BlocksIn(topology.blocks)
  /\ topology' = [view |-> source, received |-> t, blocks |-> replacement]
  /\ has_topology' = TRUE
  /\ installed' = Append(installed, [view |-> source, received |-> t])
  /\ replacement' = NoBlocks
  /\ source' = NULL
  /\ Return("OK", 0)
  /\ UNCHANGED <<client, next_request_id, requests, event_queue, submit_vars,
                 polled>>

----------------------------------------------------------------------------
(* solana_delivery_client_submit. *)

\* validate_submit_options.
OptionsStatus(o) ==
  FirstError(<<Require(o.wellformed,            "INVALID_ARGUMENT"),
               Require(o.flags_are_none,        "UNSUPPORTED"),
               Require(/\ o.reserved_is_zero
                       /\ o.max_topology_age # 0
                       /\ o.target_limit # 0,   "INVALID_ARGUMENT")>>)

\* What submit checks before it reads the clock; bytes is NULL for a missing
\* or empty transaction.
SubmitStatus(bytes, o) ==
  FirstError(<<Require(bytes # NULL, "INVALID_ARGUMENT"),
               OptionsStatus(o),
               Require(has_topology, "TOPOLOGY_UNAVAILABLE")>>)

Submit(bytes, o) ==
  /\ Ready
  /\ IF SubmitStatus(bytes, o) # "OK"
     THEN Return(SubmitStatus(bytes, o), 0) /\ UNCHANGED submission
     ELSE /\ Continue("admit")
          /\ submission' = [NoSubmission EXCEPT
                              !.transaction = bytes,
                              !.max_topology_age = o.max_topology_age,
                              !.target_limit = o.target_limit]
  /\ UNCHANGED <<client_vars, install_vars, counts, scratch, temp, heap,
                 clock_floor, polled, installed>>

\* The blocks the cleanup label frees: all five after an error, only the two
\* work arrays otherwise.
FaultyCleanedUp(status) == {temp["candidates"], temp["routes"]} \ {NULL}
CleanedUp(status) ==
  IF status = "OK" THEN {temp["candidates"], temp["routes"]} \ {NULL}
                   ELSE BlocksIn(temp)

EndSubmit(status, id) ==
  /\ heap' = heap \ CleanedUp(status)
  /\ submission' = NoSubmission
  /\ counts' = NoCounts
  /\ scratch' = NoScratch
  /\ temp' = NoTemp
  /\ Return(status, id)

\* A run of checks in the middle of submit: PROCEED, or the status with
\* which the call goes to cleanup.
Stop(check, status) == IF check THEN status ELSE "PROCEED"
FirstStop(results) == FirstOther("PROCEED", results)

\* evaluate_submission_policy at clock sample t, then the counting query to
\* the resolver, whose only good answer is that there is no room.
AgeOutcome(t) ==
  FirstStop(<<Stop(t < topology.received, "INTERNAL_ERROR"),
              Stop(/\ t >= topology.received
                   /\ t - topology.received > submission.max_topology_age,
                   "TOPOLOGY_STALE")>>)
QueryOutcome(query) ==
  FirstStop(<<Stop(query.status # "RESOURCE_EXHAUSTED", query.status),
              Stop(query.count = 0, "INTERNAL_ERROR")>>)

Admit ==
  /\ pc = "admit"
  /\ \/ \E error \in ClockErrors :
          EndSubmit(error, 0) /\ UNCHANGED clock_floor
     \/ \E t \in Times :
          /\ ReadClock(t)
          /\ LET slot    == topology.view.current_slot
                 query   == ResolveSlot(topology.view, slot, 0)
                 outcome == FirstStop(<<AgeOutcome(t), QueryOutcome(query)>>)
             IN  IF outcome # "PROCEED" THEN EndSubmit(outcome, 0)
                 ELSE /\ Continue("candidates")
                      /\ submission' = [submission EXCEPT !.routing_slot = slot]
                      /\ counts' = [counts EXCEPT !.candidate_count = query.count]
                      /\ UNCHANGED <<scratch, temp, heap>>
  /\ UNCHANGED <<client_vars, install_vars, polled, installed>>

\* allocate_array for the local name, at the point of that name.  If calloc
\* succeeds, the checks up to the next call decide outcome: the call goes on
\* to the point next with new values of its locals, or to cleanup, which
\* frees this block with the others.
Allocate(name, outcome, next, new_submission, new_counts, new_scratch) ==
  /\ pc = name
  /\ \/ EndSubmit("RESOURCE_EXHAUSTED", 0)
     \/ /\ CanAllocate
        /\ IF outcome # "PROCEED" THEN EndSubmit(outcome, 0)
           ELSE /\ temp' = [temp EXCEPT ![name] = FreshBlock]
                /\ heap' = heap \union {FreshBlock}
                /\ submission' = new_submission
                /\ counts' = new_counts
                /\ scratch' = new_scratch
                /\ Continue(next)
  /\ UNCHANGED <<client_vars, install_vars, clock_floor, polled, installed>>

\* The resolver writes the candidates; the planner is asked for its counts.
AllocateCandidates ==
  LET fill  == ResolveSlot(topology.view, submission.routing_slot,
                           counts.candidate_count)
      query == PlanRoutes(fill.candidates, counts.candidate_count,
                          submission.target_limit, 0)
      outcome ==
        FirstStop(<<Stop(fill.status # "OK", fill.status),
                    Stop(fill.count # counts.candidate_count, "INTERNAL_ERROR"),
                    Stop(query.status # "RESOURCE_EXHAUSTED", query.status),
                    Stop(\/ query.target_count = 0
                         \/ query.unique_target_count < query.target_count,
                         "INTERNAL_ERROR")>>)
  IN  Allocate("candidates", outcome, "routes", submission,
               [counts EXCEPT
                  !.target_count = query.target_count,
                  !.unique_target_count = query.unique_target_count],
               [scratch EXCEPT !.candidates = fill.candidates])

\* The planner writes the routes.
AllocateRoutes ==
  LET plan == PlanRoutes(scratch.candidates, counts.candidate_count,
                         submission.target_limit, counts.target_count)
      outcome ==
        FirstStop(<<Stop(plan.status # "OK", plan.status),
                    Stop(\/ plan.target_count # counts.target_count
                         \/ plan.unique_target_count
                              # counts.unique_target_count,
                         "INTERNAL_ERROR")>>)
  IN  Allocate("routes", outcome, "transaction_copy", submission, counts,
               [scratch EXCEPT !.routes = plan.targets])

AllocateTransaction ==
  Allocate("transaction_copy", "PROCEED", "owned_targets", submission, counts,
           scratch)

\* materialize_targets: what a request keeps of a route and its snapshot.
RouteInRange(t, route) ==
  /\ InRange(route.leader_index, t.leaders)
  /\ InRange(route.validator_index, t.validators)
  /\ InRange(route.endpoint_index, t.endpoints)

TargetOf(t, route) ==
  [leader_index       |-> route.leader_index,
   validator_index    |-> route.validator_index,
   endpoint_index     |-> route.endpoint_index,
   validator_identity |-> t.validators[route.validator_index + 1].identity,
   endpoint           |-> t.endpoints[route.endpoint_index + 1]]

AllocateTargets ==
  LET outcome ==
        Stop(\/ counts.target_count = 0
             \/ \E i \in 1 .. counts.target_count :
                  ~RouteInRange(topology.view, scratch.routes[i]),
             "INTERNAL_ERROR")
  IN  Allocate("owned_targets", outcome, "request",
               [submission EXCEPT
                  !.targets = [i \in 1 .. counts.target_count |->
                                 TargetOf(topology.view, scratch.routes[i])]],
               counts, scratch)

\* An identifier and a slot of the event queue must be left.
AllocateRequest ==
  LET outcome ==
        FirstStop(<<Stop(next_request_id = 0, "RESOURCE_EXHAUSTED"),
                    Stop(~HasCapacity(event_queue), "RESOURCE_EXHAUSTED")>>)
  IN  Allocate("request", outcome, "accept", submission, counts, scratch)

FaultyNextRequestId(id) == id + 1
NextRequestId(id) == IF id = MaxRequestId THEN 0 ELSE id + 1

NewRequest ==
  [request_id          |-> next_request_id,
   topology_generation |-> topology.view.generation,
   routing_slot        |-> submission.routing_slot,
   transaction         |-> submission.transaction,
   targets             |-> submission.targets,
   blocks              |-> [n \in OwnedNames |-> temp[n]]]

\* The acceptance time is sampled and everything is committed at once.
Accept ==
  /\ pc = "accept"
  /\ \/ /\ \E error \in ClockErrors : EndSubmit(error, 0)
        /\ UNCHANGED <<clock_floor, requests, next_request_id, event_queue>>
     \/ \E t \in Times :
          /\ ReadClock(t)
          /\ IF t < topology.received
             THEN /\ EndSubmit("INTERNAL_ERROR", 0)
                  /\ UNCHANGED <<requests, next_request_id, event_queue>>
             ELSE /\ event_queue' =
                       Push(event_queue, [request_id |-> next_request_id,
                                          monotonic_time_ns |-> t])
                  /\ requests' = <<NewRequest>> \o requests
                  /\ next_request_id' = NextRequestId(next_request_id)
                  /\ EndSubmit("OK", next_request_id)
  /\ UNCHANGED <<client, has_topology, topology, install_vars, polled,
                 installed>>

----------------------------------------------------------------------------
(* solana_delivery_client_poll_events, as in EventQueue. *)

Poll(room, layout_ok) ==
  /\ Ready
  /\ IF room # 0 /\ ~layout_ok
     THEN Return("INVALID_ARGUMENT", 0) /\ UNCHANGED <<event_queue, polled>>
     ELSE LET n == CopyCount(event_queue, room) IN
          /\ polled' = polled \o Oldest(event_queue, n)
          /\ event_queue' =
               IF room = 0 THEN event_queue ELSE Drain(event_queue, n)
          /\ Return("OK", 0)
  /\ UNCHANGED <<client, has_topology, topology, next_request_id, requests,
                 install_vars, submit_vars, heap, clock_floor, installed>>

----------------------------------------------------------------------------
Init ==
  /\ client = NULL
  /\ has_topology = FALSE
  /\ topology = NoTopology
  /\ next_request_id = 0
  /\ requests = << >>
  /\ event_queue = EmptyRing
  /\ pc = "idle"
  /\ source = NULL /\ replacement = NoBlocks
  /\ submission = NoSubmission /\ counts = NoCounts /\ scratch = NoScratch
  /\ temp = NoTemp
  /\ heap = {} /\ clock_floor = 0
  /\ result = [status |-> "OK", request_id |-> 0]
  /\ polled = << >> /\ installed = << >>

\* The steps of a call in progress.
InstallStep ==
  \/ \E array \in ArrayNames : CloneArray(array)
  \/ ReceiptFails
  \/ \E t \in Times : Swap(t)
SubmitStep ==
  \/ Admit
  \/ AllocateCandidates \/ AllocateRoutes \/ AllocateTransaction
  \/ AllocateTargets \/ AllocateRequest
  \/ Accept

\* What callers do when no call is in progress.
Call ==
  \/ Create
  \/ Destroy
  \/ \E t \in Snapshots : Install(t)
  \/ \E bytes \in Transactions \union {NULL}, o \in Options : Submit(bytes, o)
  \/ \E room \in 0 .. MaxRoom, layout_ok \in BOOLEAN : Poll(room, layout_ok)

Next == Call \/ InstallStep \/ SubmitStep

Spec == Init /\ [][Next]_vars

\* The code after a call out always runs on, because the allocator and the
\* clock return; and the caller keeps polling with room for an event.  That
\* needs strong fairness: a poll has to wait for the call in progress.
UsefulPoll == \E room \in 1 .. MaxRoom : Poll(room, TRUE)
PollingSpec ==
  Spec /\ WF_vars(InstallStep \/ SubmitStep) /\ SF_vars(UsefulPoll)

----------------------------------------------------------------------------
(* Memory *)

\* Every pointer of the program, with the place that holds it.
Pointers ==
       {<<"client", client>>}
  \union {<<"topology", a, topology.blocks[a]>> : a \in ArrayNames}
  \union {<<"replacement", a, replacement[a]>> : a \in ArrayNames}
  \union {<<"submit", n, temp[n]>> : n \in TempNames}
  \union {<<"request", i, n, requests[i].blocks[n]>> :
            i \in DOMAIN requests, n \in OwnedNames}

Address(pointer) == pointer[Len(pointer)]
LivePointers == {p \in Pointers : Address(p) # NULL}

(***************************************************************************)
(* Every block that calloc returned and free did not take back is held by  *)
(* exactly one place, and no place holds a block that is not allocated:    *)
(* on every path, failing ones included, nothing leaks, nothing is freed   *)
(* twice and no two owners share a block (the fail and cleanup labels of   *)
(* build_owned_topology and submit, install's swap, destroy).              *)
(***************************************************************************)
EveryBlockHasOneOwner ==
  /\ {Address(p) : p \in LivePointers} = heap
  /\ \A p, q \in LivePointers : Address(p) = Address(q) => p = q

(***************************************************************************)
(* What the writing passes of the resolver and of the planner wrote is     *)
(* exactly as long as the block that was allocated from the counting       *)
(* passes: the loops of solana_delivery_resolution.c:110-147 and           *)
(* solana_delivery_route.c:97-117 test no bound of their own.              *)
(***************************************************************************)
ScratchFits ==
  /\ temp["candidates"] # NULL =>
       Len(scratch.candidates) = counts.candidate_count
  /\ temp["routes"] # NULL => Len(scratch.routes) = counts.target_count
  /\ temp["owned_targets"] # NULL =>
       Len(submission.targets) = counts.target_count

----------------------------------------------------------------------------
(* Requests, identifiers and events *)

(***************************************************************************)
(* Identifiers are handed out densely and never again: the list holds the  *)
(* requests Len(requests), ..., 2, 1 and the next identifier follows,      *)
(* until the last one is used up.  A call that failed, wherever it failed, *)
(* consumed none (solana_delivery_submission.c:352-429).                   *)
(***************************************************************************)
RequestIdsAreDense ==
  /\ \A i \in DOMAIN requests : requests[i].request_id = Len(requests) + 1 - i
  /\ client # NULL =>
       next_request_id = IF Len(requests) = MaxRequestId THEN 0
                         ELSE Len(requests) + 1

\* The events of the client in the order they were emitted: those handed out
\* and then those still queued.
EventLog == polled \o Contents(event_queue)

(***************************************************************************)
(* Every accepted request has exactly one accepted event, in the order of  *)
(* acceptance, and there is no event without its request, although the     *)
(* event is queued, the request linked and the identifier consumed by      *)
(* different statements and polls may come between any two submissions     *)
(* (solana_delivery_submission.c:413-429, solana_delivery_events.c).       *)
(***************************************************************************)
EveryRequestHasOneEvent ==
  /\ Len(EventLog) = Len(requests)
  /\ \A k \in DOMAIN EventLog : EventLog[k].request_id = k

(***************************************************************************)
(* With a clock that never goes backwards, events are handed out in the    *)
(* order of their times, and no request was accepted before the snapshot   *)
(* it was planned on had been received.                                    *)
(***************************************************************************)
EventTimesAreOrdered ==
  /\ \A j, k \in DOMAIN EventLog :
       j < k => EventLog[j].monotonic_time_ns <= EventLog[k].monotonic_time_ns
  /\ \A r \in DOMAIN requests, k \in DOMAIN EventLog, s \in DOMAIN installed :
       (/\ EventLog[k].request_id = requests[r].request_id
        /\ installed[s].view.generation = requests[r].topology_generation)
       => installed[s].received <= EventLog[k].monotonic_time_ns

----------------------------------------------------------------------------
(* Routing *)

(***************************************************************************)
(* Every retained request carries the plan of the snapshot whose           *)
(* generation it records, at that snapshot's slot, whatever snapshots were *)
(* installed and freed since: a generation names one snapshot in the life  *)
(* of a client, and a request owns what it was planned with                *)
(* (solana_delivery_submission.c:186-373, materialize_targets).            *)
(***************************************************************************)
RequestsMatchTheirSnapshot ==
  \A r \in DOMAIN requests :
    \E s \in DOMAIN installed :
      LET t == installed[s].view IN
      /\ requests[r].topology_generation = t.generation
      /\ requests[r].routing_slot = t.current_slot
      /\ IsRoutePlan(t, t.current_slot, requests[r].targets)

(***************************************************************************)
(* Generations increase strictly over the snapshots of one client, and the *)
(* one in use is the last installed (solana_delivery.c:783-787).           *)
(***************************************************************************)
GenerationsIncrease ==
  /\ \A j, k \in DOMAIN installed :
       j < k => installed[j].view.generation < installed[k].view.generation
  /\ has_topology = (installed # << >>)
  /\ has_topology =>
       /\ topology.view = installed[Len(installed)].view
       /\ topology.received = installed[Len(installed)].received

----------------------------------------------------------------------------
(* Calls *)

(***************************************************************************)
(* Failure atomicity: a step changes what the client holds only if it ends *)
(* a call with OK.  A call that fails, after any of its allocations or     *)
(* clock samples, leaves topology, identifiers, requests and queued events *)
(* as they were (delivery.h:222 and :264).                                 *)
(***************************************************************************)
OnlySuccessCommits ==
  [][result'.status # "OK" => UNCHANGED client_vars]_vars

(***************************************************************************)
(* A submit returns OK exactly when it has accepted one more request, with *)
(* as many targets as its limit and the snapshot allow, and hands back the *)
(* identifier of that request and no other: cleanup is one label for both  *)
(* outcomes and trusts status (solana_delivery_submission.c:246-460).      *)
(***************************************************************************)
SubmitTellsTheTruth ==
  [][(pc \in SubmitPoints /\ pc' = "idle") =>
       IF result'.status = "OK"
       THEN /\ Len(requests') = Len(requests) + 1
            /\ result'.request_id = requests'[1].request_id
            /\ result'.request_id # 0
            /\ IsFullRoutePlan(topology.view, topology.view.current_slot,
                               submission.target_limit, requests'[1].targets)
       ELSE result'.request_id = 0 /\ requests' = requests]_vars

(***************************************************************************)
(* The defensive branches that report INTERNAL_ERROR are never taken: only *)
(* a clock that fails with that status or goes backwards leads to it.      *)
(* Checked with a monotonic clock that fails with another status.          *)
(***************************************************************************)
NoInternalError == result.status # "INTERNAL_ERROR"

(***************************************************************************)
(* A caller that keeps polling is handed the event of every request it was *)
(* told had been accepted, unless it destroys the client first: no event   *)
(* is stuck behind the wraparound (solana_delivery_events.c:99-132).       *)
(***************************************************************************)
EveryEventIsPolled ==
  \A id \in RequestIds :
    (\E i \in DOMAIN requests : requests[i].request_id = id)
      ~> (\/ \E k \in DOMAIN polled : polled[k].request_id = id
          \/ client = NULL)
=============================================================================
