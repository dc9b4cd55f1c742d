------------------------- MODULE MCDiscoveryRefresh -------------------------
(***************************************************************************)
(* Refreshes for TLC: descriptors that differ in context and release, two  *)
(* places, snapshots that are fresh, stale and invalid, and direct         *)
(* installs of the same snapshots in between.                              *)
(***************************************************************************)
EXTENDS DiscoveryRefresh

One(generation) ==
  [layout_ok |-> TRUE, generation |-> generation, current_slot |-> 6,
   validators |-> <<[wellformed |-> TRUE, identity |-> "v"]>>,
   endpoints |-> << >>, validator_endpoints |-> << >>, leaders |-> << >>]

Broken == [One(2) EXCEPT !.validators[1].wellformed = FALSE]

MCSnapshots == {One(0), One(1), Broken}

Descriptor(context, release) ==
  [wellformed |-> TRUE, flags_are_none |-> TRUE, has_acquire |-> TRUE,
   context |-> context, release |-> release]

MCProviders ==
  {Descriptor("c1", "r1"), Descriptor("c1", "r2"), Descriptor("c2", "r1"),
   Descriptor("c2", NULL),
   [Descriptor("c2", "r1") EXCEPT !.flags_are_none = FALSE]}
=============================================================================
