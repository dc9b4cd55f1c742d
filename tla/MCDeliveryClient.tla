-------------------------- MODULE MCDeliveryClient --------------------------
(***************************************************************************)
(* The delivery client for TLC.  The snapshots, options and bounds are     *)
(* chosen so that every path of the code is taken: see README.md.          *)
(***************************************************************************)
EXTENDS DeliveryRefinement

Validator(name) == [wellformed |-> TRUE, identity |-> name]
Endpoint(name) ==
  [wellformed |-> TRUE, address_family |-> "IPV4", transport |-> "QUIC",
   role |-> "TPU", tail_is_zero |-> TRUE, address |-> name]
Association(v, e) ==
  [wellformed |-> TRUE, validator_index |-> v, endpoint_index |-> e]
Leader(v, first, last) ==
  [wellformed |-> TRUE, validator_index |-> v,
   first_slot |-> first, last_slot |-> last]

\* The first leader has only earlier slots; validator 0 leads slot 5 twice
\* and validator 1 once: 5 candidates, 3 of them distinct.
Rich ==
  [layout_ok |-> TRUE, generation |-> 0, current_slot |-> 5,
   validators |-> <<Validator("v0"), Validator("v1")>>,
   endpoints  |-> <<Endpoint("e0"), Endpoint("e1")>>,
   validator_endpoints |->
     <<Association(0, 1), Association(1, 0), Association(0, 0)>>,
   leaders |-> <<Leader(1, 3, 4), Leader(0, 4, 5), Leader(0, 5, 5),
                Leader(1, 5, 6)>>]

\* A later snapshot with other elements at the same indices.
Next1 ==
  [layout_ok |-> TRUE, generation |-> 1, current_slot |-> 6,
   validators |-> <<Validator("v1")>>,
   endpoints  |-> <<Endpoint("e2")>>,
   validator_endpoints |-> <<Association(0, 0)>>,
   leaders |-> <<Leader(0, 6, 6)>>]

\* The same generation with another content.
Twin1 == [Next1 EXCEPT !.current_slot = 7, !.leaders = <<Leader(0, 6, 7)>>]

\* Nothing at all: no array is allocated and no slot has a leader.
Empty2 ==
  [layout_ok |-> TRUE, generation |-> 2, current_slot |-> 6,
   validators |-> << >>, endpoints |-> << >>,
   validator_endpoints |-> << >>, leaders |-> << >>]

\* Refused: a dangling index, an unsupported transport.
Dangling == [Next1 EXCEPT !.validator_endpoints = <<Association(0, 3)>>,
                          !.generation = 2]
TcpEndpoint == [Next1 EXCEPT !.endpoints[1].transport = "UDP",
                             !.generation = 2]

MCSnapshots == {Rich, Next1, Twin1, Empty2, Dangling, TcpEndpoint}

Option(age, limit) ==
  [wellformed |-> TRUE, flags_are_none |-> TRUE, reserved_is_zero |-> TRUE,
   max_topology_age |-> age, target_limit |-> limit]

MCOptions == {Option(1, 2), [Option(1, 2) EXCEPT !.flags_are_none = FALSE]}

\* More room than Rich has targets; and a refused limit.
WideOptions == {Option(2, 4), Option(1, 1), Option(1, 0)}

\* The smallest instance in which identifiers run out and the queue fills.
LiveSnapshots == {Next1, Empty2}
LiveOptions == {Option(1, 1)}
=============================================================================
