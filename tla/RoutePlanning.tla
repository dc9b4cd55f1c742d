--------------------------- MODULE RoutePlanning ---------------------------
(***************************************************************************)
(* From a slot to the targets of a request: the resolver                   *)
(* (solana_delivery_client_resolve_slot) lists the candidates a snapshot   *)
(* has for a slot, the planner (solana_delivery_plan_routes) drops the     *)
(* repeated targets and keeps the first target_limit of the others.        *)
(* Each works in two passes, one that counts and one that writes, and each *)
(* is called twice, first without room to learn how much to allocate and   *)
(* then with it.  A result is the record of the status returned, the       *)
(* counts, and what was written to the caller's array.                     *)
(***************************************************************************)
EXTENDS Naturals, Sequences, FiniteSets

SeqExt == INSTANCE SequencesExt

FaultyLeaderContainsSlot(leader, slot) == slot >= leader.first_slot
LeaderContainsSlot(leader, slot) ==
  slot >= leader.first_slot /\ slot <= leader.last_slot

Serves(association, leader) ==
  association.validator_index = leader.validator_index

\* count_slot_candidates: the first pass.
FaultyCountSlotCandidates(t, slot) ==
  Cardinality({l \in DOMAIN t.leaders : LeaderContainsSlot(t.leaders[l], slot)})
CountSlotCandidates(t, slot) ==
  Cardinality({h \in (DOMAIN t.leaders) \X (DOMAIN t.validator_endpoints) :
                 /\ LeaderContainsSlot(t.leaders[h[1]], slot)
                 /\ Serves(t.validator_endpoints[h[2]], t.leaders[h[1]])})

\* The second pass: the leaders of the slot in order, and for each the
\* associations of its validator in order.
SlotCandidates(t, slot) ==
  LET Candidate(l, a) ==
        [leader_index    |-> l - 1,
         validator_index |-> t.leaders[l].validator_index,
         endpoint_index  |-> t.validator_endpoints[a].endpoint_index]
      CandidatesOf(l) ==
        SeqExt!FlattenSeq([a \in DOMAIN t.validator_endpoints |->
                      IF Serves(t.validator_endpoints[a], t.leaders[l])
                      THEN <<Candidate(l, a)>> ELSE << >>])
  IN  SeqExt!FlattenSeq([l \in DOMAIN t.leaders |->
                    IF LeaderContainsSlot(t.leaders[l], slot)
                    THEN CandidatesOf(l) ELSE << >>])

\* solana_delivery_client_resolve_slot on an installed snapshot.
ResolveSlot(t, slot, capacity) ==
  LET required == CountSlotCandidates(t, slot)
      Result(status, count, candidates) ==
        [status |-> status, count |-> count, candidates |-> candidates]
  IN  IF required = 0 THEN Result("TOPOLOGY_UNAVAILABLE", 0, << >>)
      ELSE IF capacity < required
      THEN Result("RESOURCE_EXHAUSTED", required, << >>)
      ELSE Result("OK", required, SlotCandidates(t, slot))

----------------------------------------------------------------------------
FaultyCandidateHasSameTarget(c, d) ==
  c.leader_index = d.leader_index /\ c.endpoint_index = d.endpoint_index
CandidateHasSameTarget(c, d) ==
  c.validator_index = d.validator_index /\ c.endpoint_index = d.endpoint_index

CandidateIsFirstOccurrence(candidates, i) ==
  \A prior \in 1 .. i - 1 :
    ~CandidateHasSameTarget(candidates[prior], candidates[i])

CountUniqueTargets(candidates, candidate_count) ==
  Cardinality({i \in 1 .. candidate_count :
                 CandidateIsFirstOccurrence(candidates, i)})

FaultySelectedCount(unique_count, target_limit) ==
  IF unique_count < target_limit THEN unique_count ELSE target_limit - 1
SelectedCount(unique_count, target_limit) ==
  IF unique_count < target_limit THEN unique_count ELSE target_limit

\* The fill loop: the first occurrences in order, up to the count selected.
SelectTargets(candidates, candidate_count, selected) ==
  LET firsts == SeqExt!FlattenSeq([i \in 1 .. candidate_count |->
                              IF CandidateIsFirstOccurrence(candidates, i)
                              THEN <<candidates[i]>> ELSE << >>])
  IN  [k \in 1 .. selected |-> firsts[k]]

\* solana_delivery_plan_routes.
PlanRoutes(candidates, candidate_count, target_limit, capacity) ==
  LET unique   == CountUniqueTargets(candidates, candidate_count)
      selected == SelectedCount(unique, target_limit)
      Result(status, n, m, targets) ==
        [status |-> status, target_count |-> n,
         unique_target_count |-> m, targets |-> targets]
  IN  IF target_limit = 0 THEN Result("INVALID_ARGUMENT", 0, 0, << >>)
      ELSE IF candidate_count = 0
      THEN Result("TOPOLOGY_UNAVAILABLE", 0, 0, << >>)
      ELSE IF capacity < selected
      THEN Result("RESOURCE_EXHAUSTED", selected, unique, << >>)
      ELSE Result("OK", selected, unique,
                  SelectTargets(candidates, candidate_count, selected))
=============================================================================
