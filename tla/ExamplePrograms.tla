-------------------------- MODULE ExamplePrograms --------------------------
(***************************************************************************)
(* The two example programs that drive a client from main to exit:         *)
(* examples/delivery_local_acceptance.c (create, install, submit, poll,    *)
(* destroy) and examples/discovery_refresh.c (create, refresh with a       *)
(* provider of its own, destroy).  Every call is the one of DeliveryClient *)
(* or DiscoveryRefresh with all its steps; any allocation and any clock    *)
(* sample may fail, so that every exit of main is taken.                   *)
(***************************************************************************)
EXTENDS DiscoveryRefresh

CONSTANT MaxAge   \* the 60 s of the one submit, in the unit of Times

----------------------------------------------------------------------------
\* The data both programs build: one validator, its endpoint and its slot.
Validator == [wellformed |-> TRUE, identity |-> "zero"]

Endpoint ==
  [wellformed |-> TRUE, address_family |-> "IPV4", transport |-> "QUIC",
   role |-> "TPU", tail_is_zero |-> TRUE, address |-> "127.0.0.1"]

Association == [wellformed |-> TRUE, validator_index |-> 0, endpoint_index |-> 0]

Leader == [wellformed |-> TRUE, validator_index |-> 0,
           first_slot |-> 10, last_slot |-> 10]

Topology ==
  [layout_ok |-> TRUE, generation |-> 1, current_slot |-> 10,
   validators |-> <<Validator>>, endpoints |-> <<Endpoint>>,
   validator_endpoints |-> <<Association>>, leaders |-> <<Leader>>]

\* What local_acceptance submits.
Bytes == "transaction"

SubmitOption ==
  [wellformed |-> TRUE, flags_are_none |-> TRUE, reserved_is_zero |-> TRUE,
   max_topology_age |-> MaxAge, target_limit |-> 1]

\* The provider of discovery_refresh, which keeps Topology in its state.
Place == "state"

Descriptor ==
  [wellformed |-> TRUE, flags_are_none |-> TRUE, has_acquire |-> TRUE,
   context |-> Place, release |-> "release_topology"]

ASSUME ProgramsAssumption ==
  /\ Topology \in Snapshots /\ SubmitOption \in Options
  /\ Bytes \in Transactions /\ Descriptor \in Providers /\ Place \in Locations
  /\ MaxRoom >= 1   \* local_acceptance polls with room for one event

VARIABLES
  program,        \* which of the two runs
  line,           \* the call main is at
  exit_code,      \* what main will return
  request_id,     \* local_acceptance: written by submit
  release_count   \* discovery_refresh: the calls of its release callback

main_vars == <<program, line, exit_code, request_id, release_count>>
program_vars == <<all_vars, main_vars>>

Lines == {"create", "install", "submit", "poll", "refresh", "destroy", "exited"}

\* main uses the client only between its creation and its destruction.
ProgramTypeOK ==
  /\ program \in {"local_acceptance", "discovery_refresh"}
  /\ line \in Lines
  /\ exit_code \in {0, 1}
  /\ request_id \in 0 .. MaxRequestId
  /\ release_count \in 0 .. 1
  /\ (line \in {"create", "exited"}) = (client = NULL)

----------------------------------------------------------------------------
\* main waits at its line until the call returns; then it goes on, or
\* destroys the client and returns 1.
FaultyAfterCall(next) ==
  line' = IF pc' # "idle" THEN line
          ELSE IF result'.status = "OK" THEN next ELSE "exited"
AfterCall(next) ==
  line' = IF pc' # "idle" THEN line
          ELSE IF result'.status = "OK" THEN next ELSE "destroy"

FaultyCreateLine ==
  /\ line = "create"
  /\ Create
  /\ line' = IF program = "local_acceptance" THEN "install" ELSE "refresh"
  /\ UNCHANGED <<refresh_vars, program, exit_code, request_id, release_count>>
CreateLine ==
  /\ line = "create"
  /\ Create
  /\ line' = IF result'.status # "OK" THEN "exited"
             ELSE IF program = "local_acceptance" THEN "install" ELSE "refresh"
  /\ UNCHANGED <<refresh_vars, program, exit_code, request_id, release_count>>

InstallLine ==
  /\ line = "install"
  /\ Install(Topology) \/ InstallStep
  /\ AfterCall("submit")
  /\ UNCHANGED <<refresh_vars, program, exit_code, request_id, release_count>>

SubmitLine ==
  /\ line = "submit"
  /\ Submit(Bytes, SubmitOption) \/ SubmitStep
  /\ AfterCall("poll")
  /\ request_id' = result'.request_id
  /\ UNCHANGED <<refresh_vars, program, exit_code, release_count>>

\* The event of the request, and no other, makes the program succeed.
PollLine ==
  /\ line = "poll"
  /\ Poll(1, TRUE)
  /\ line' = "destroy"
  /\ exit_code' =
       IF /\ Len(polled') = Len(polled) + 1
          /\ request_id # 0
          /\ polled'[Len(polled')].request_id = request_id
       THEN 0 ELSE 1
  /\ UNCHANGED <<refresh_vars, program, request_id, release_count>>

\* acquire always lends the one place, and leaves the descriptor alone.
AcquirePlace == Acquire(Place) /\ UNCHANGED provider

\* release counts the calls it gets for that place.
ReleasePlace ==
  /\ Release
  /\ release_count' = IF refresh.location = Place THEN release_count + 1
                      ELSE release_count

ExitOf(status, releases) == IF status = "OK" /\ releases = 1 THEN 0 ELSE 1

RefreshLine ==
  /\ line = "refresh"
  /\ \/ (Refresh(Descriptor) \/ AcquirePlace \/ HandOver \/ InstallLent)
        /\ UNCHANGED release_count
     \/ ReleasePlace
  /\ IF refresh'.point # "idle" THEN UNCHANGED <<line, exit_code>>
     ELSE line' = "destroy" /\ exit_code' = ExitOf(refresh'.status,
                                                   release_count')
  /\ UNCHANGED <<program, request_id>>

DestroyLine ==
  /\ line = "destroy"
  /\ Destroy
  /\ line' = "exited"
  /\ UNCHANGED <<refresh_vars, program, exit_code, request_id, release_count>>

ProgramInit ==
  /\ RefreshInit /\ storage[Place] = Topology
  /\ program \in {"local_acceptance", "discovery_refresh"}
  /\ line = "create" /\ exit_code = 1
  /\ request_id = 0 /\ release_count = 0

ProgramNext ==
  CreateLine \/ InstallLine \/ SubmitLine \/ PollLine \/ RefreshLine
    \/ DestroyLine

ProgramSpec == ProgramInit /\ [][ProgramNext]_program_vars

----------------------------------------------------------------------------
(***************************************************************************)
(* A program that has exited has given back everything, whichever call     *)
(* failed: no block of the library is left, and no borrow of the provider  *)
(* (delivery_local_acceptance.c:53-107, discovery_refresh.c:106-125).      *)
(***************************************************************************)
ExitIsClean ==
  line = "exited" =>
    /\ heap = {}
    /\ \A call \in ReleaseCall : owed[call] = 0

(***************************************************************************)
(* A program exits with 0 exactly when it did what it demonstrates: one    *)
(* request accepted and its event received, or one snapshot installed from *)
(* the provider and given back once (delivery_local_acceptance.c:98-107,   *)
(* discovery_refresh.c:122-125).                                           *)
(***************************************************************************)
Demonstrated ==
  IF program = "local_acceptance"
  THEN /\ Len(requests) = 1 /\ Len(polled) = 1
       /\ polled[1].request_id = requests[1].request_id
  ELSE /\ has_topology /\ topology.view = Topology
       /\ release_count = 1

ExitTellsTheTruth ==
  line = "destroy" => (exit_code = 0 <=> Demonstrated)
=============================================================================
