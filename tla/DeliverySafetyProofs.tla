------------------------ MODULE DeliverySafetyProofs ------------------------
(***************************************************************************)
(* What a client promises besides the books that DeliveryClientProofs      *)
(* keeps, in five parts:                                                   *)
(*   the plan a submission works out from the topology in use, step by     *)
(*     step, and the requests it leaves behind;                            *)
(*   the blocks that the client and the call in progress hold;             *)
(*   the times that are recorded;                                          *)
(*   the branches that report INTERNAL_ERROR;                              *)
(*   the refinement of DeliveryService, with what callers see.             *)
(* Each part has an inductive invariant of its own, which rests on those   *)
(* before it: PlanInv, Memory, TimesInv.                                   *)
(***************************************************************************)
EXTENDS DeliveryRefinement, DeliveryClientProofs

\* What the client works out from a snapshot at its slot: the candidates, how
\* many distinct targets they have, how many are chosen, their routes and the
\* targets copied from them.
Found(t)            == SlotCandidates(t, t.current_slot)
FoundCount(t)       == CountSlotCandidates(t, t.current_slot)
UniqueCount(t)      == CountUniqueTargets(Found(t), FoundCount(t))
Chosen(t, limit)    == SelectedCount(UniqueCount(t), limit)
Routes(t, limit)    == SelectTargets(Found(t), FoundCount(t), Chosen(t, limit))
PlanOf(t, limit)    == [i \in 1 .. Chosen(t, limit) |->
                          TargetOf(t, Routes(t, limit)[i])]

\* The counts of a plan and the lengths of what is written agree.
LEMMA PlanCountsAgree ==
  ASSUME NEW t, IsSnapshot(t), NEW limit \in Nat \ {0}
  PROVE  /\ FoundCount(t) \in Nat /\ Len(Found(t)) = FoundCount(t)
         /\ UniqueCount(t) \in Nat /\ Chosen(t, limit) \in Nat
         /\ Chosen(t, limit) <= UniqueCount(t)
         /\ FoundCount(t) > 0 => Chosen(t, limit) > 0
         /\ Len(Routes(t, limit)) = Chosen(t, limit)
         /\ Len(PlanOf(t, limit)) = Chosen(t, limit)
         /\ RoutesAreAPlan(t, t.current_slot, Chosen(t, limit), Routes(t, limit))
         /\ UniqueCount(t) = Cardinality(Destinations(t, t.current_slot))
  <1>1. t.current_slot \in Nat
    BY DEF IsSnapshot
  <1>2. FoundCount(t) \in Nat
    BY CandidateCountType DEF FoundCount
  <1>3. /\ Len(Found(t)) = FoundCount(t)
        /\ UniqueCount(t) \in Nat /\ Chosen(t, limit) \in Nat
        /\ Chosen(t, limit) <= UniqueCount(t)
        /\ FoundCount(t) > 0 => Chosen(t, limit) > 0
        /\ Len(Routes(t, limit)) = Chosen(t, limit)
        /\ RoutesAreAPlan(t, t.current_slot, Chosen(t, limit), Routes(t, limit))
        /\ UniqueCount(t) = Cardinality(Destinations(t, t.current_slot))
    <2>0. PICK slot \in Nat : slot = t.current_slot
      BY <1>1
    <2>. DEFINE found  == SlotCandidates(t, slot)
                n      == CountSlotCandidates(t, slot)
                unique == CountUniqueTargets(found, n)
                chosen == SelectedCount(unique, limit)
                routes == SelectTargets(found, n, chosen)
    <2>1. /\ Len(found) = n
          /\ Len(routes) = chosen
          /\ chosen \in Nat /\ unique \in Nat /\ chosen <= unique
          /\ RoutesAreAPlan(t, slot, chosen, routes)
          /\ n > 0 => chosen > 0
          /\ unique = Cardinality(Destinations(t, slot))
      BY RoutesArePlanned
    <2>. HIDE DEF found, n, unique, chosen, routes
    <2>2. /\ Found(t) = found /\ FoundCount(t) = n /\ UniqueCount(t) = unique
          /\ Chosen(t, limit) = chosen /\ Routes(t, limit) = routes
      BY <2>0
         DEF Found, FoundCount, UniqueCount, Chosen, Routes,
             found, n, unique, chosen, routes
    <2>. QED  BY <2>0, <2>1, <2>2
  <1>4. Len(PlanOf(t, limit)) = Chosen(t, limit)
    BY <1>3 DEF PlanOf
  <1>. QED  BY <1>2, <1>3, <1>4

\* No route of the plan of a valid snapshot leads outside its arrays.
LEMMA RoutesAreInRange ==
  ASSUME NEW t, IsSnapshot(t), TopologyStatus(t) = "OK",
         NEW limit \in Nat \ {0}, NEW i \in 1 .. Chosen(t, limit)
  PROVE  RouteInRange(t, Routes(t, limit)[i])
  <1>1. PICK h \in Hits(t, t.current_slot) :
          Routes(t, limit)[i] = CandidateOf(t, h)
    BY PlanCountsAgree DEF RoutesAreAPlan
  <1>2. /\ h[1] \in DOMAIN t.leaders /\ h[2] \in DOMAIN t.validator_endpoints
        /\ Len(t.leaders) \in Nat /\ DOMAIN t.leaders = 1 .. Len(t.leaders)
    BY DEF Hits, IsSnapshot, IsArray
  <1>3. /\ InRange(t.leaders[h[1]].validator_index, t.validators)
        /\ InRange(t.validator_endpoints[h[2]].endpoint_index, t.endpoints)
    BY <1>2, ValidSnapshotsAreClosed
  <1>4. InRange(h[1] - 1, t.leaders)
    BY <1>2 DEF InRange
  <1>. QED  BY <1>1, <1>3, <1>4 DEF RouteInRange, CandidateOf, Destination

\* The targets the client copies for a slot are what docs/architecture/0009
\* and 0010 ask of a plan, for snapshots of every size and every limit: the
\* first of each destination in the order of the hits, with the identity and
\* the endpoint the snapshot has for it, and as many as there are
\* (solana_delivery_resolution.c:61-147, solana_delivery_route.c:33-120).
THEOREM PlansAreFull ==
  ASSUME NEW t, IsSnapshot(t), NEW limit \in Nat \ {0}, FoundCount(t) > 0
  PROVE  IsFullRoutePlan(t, t.current_slot, limit, PlanOf(t, limit))
  <1>. DEFINE n == Chosen(t, limit)
              slot == t.current_slot
              routes == Routes(t, limit)
              targets == PlanOf(t, limit)
  <1>1. /\ n \in Nat /\ n > 0 /\ Len(targets) = n
        /\ RoutesAreAPlan(t, slot, n, routes)
    BY PlanCountsAgree
  <1>2. /\ DOMAIN targets = 1 .. n
        /\ \A i \in 1 .. n : targets[i] = TargetOf(t, routes[i])
    BY DEF PlanOf
  <1>3. Len(targets) = IF Cardinality(Destinations(t, slot)) < limit
                       THEN Cardinality(Destinations(t, slot)) ELSE limit
    BY <1>1, PlanCountsAgree DEF Chosen, SelectedCount
  <1>. HIDE DEF n, slot, routes, targets
  <1>4. \A i \in 1 .. n : \A d :
          LeadsTo(targets[i], d) <=> RouteDestination(routes[i]) = d
    BY <1>2 DEF LeadsTo, RouteDestination, TargetOf
  <1>5. ASSUME NEW i \in 1 .. n
        PROVE  \E h \in Hits(t, slot) :
                 /\ Describes(t, targets[i], h)
                 /\ \A g \in Hits(t, slot) :
                      Before(g, h) =>
                        \E j \in 1 .. i - 1 :
                          LeadsTo(targets[j], Destination(t, g))
    <2>1. PICK h \in Hits(t, slot) :
            /\ routes[i] = CandidateOf(t, h)
            /\ \A g \in Hits(t, slot) :
                 Before(g, h) =>
                   \E j \in 1 .. i - 1 :
                     RouteDestination(routes[j]) = Destination(t, g)
      BY <1>1 DEF RoutesAreAPlan
    <2>2. Describes(t, targets[i], h)
      BY <1>2, <2>1 DEF Describes, TargetOf, CandidateOf
    <2>3. \A j \in 1 .. i - 1 : j \in 1 .. n
      BY <1>1
    <2>. QED  BY <1>4, <2>1, <2>2, <2>3
  <1>6. \A i, j \in 1 .. n :
          LeadsTo(targets[j], <<targets[i].validator_index,
                                targets[i].endpoint_index>>) => i = j
    <2>1. \A i \in 1 .. n : <<targets[i].validator_index,
                              targets[i].endpoint_index>>
                              = RouteDestination(routes[i])
      BY <1>2 DEF RouteDestination, TargetOf
    <2>. QED  BY <1>1, <1>4, <2>1 DEF RoutesAreAPlan
  <1>7. targets # << >>
    BY <1>1
  <1>8. IsRoutePlan(t, slot, targets)
    BY <1>2, <1>5, <1>6, <1>7 DEF IsRoutePlan
  <1>. QED  BY <1>3, <1>8 DEF IsFullRoutePlan, slot, targets

----------------------------------------------------------------------------
(* The invariant of a submission in progress. *)

\* Only snapshots that passed validation are copied and in use.
SnapshotsAreValid ==
  /\ has_topology => TopologyStatus(topology.view) = "OK"
  /\ pc \in InstallPoints => TopologyStatus(source) = "OK"

ScratchIsRecord ==
  scratch = [candidates |-> scratch.candidates, routes |-> scratch.routes]

\* What a submission has worked out when it is at a point is what there is to
\* work out from the topology in use.
CandidatesArePlanned ==
  /\ ScratchIsRecord
  /\ pc \in SubmitPoints =>
       LET t     == topology.view
           limit == submission.target_limit
       IN  /\ limit > 0
           /\ pc # "admit" =>
                /\ submission.routing_slot = t.current_slot
                /\ counts.candidate_count = FoundCount(t)
                /\ FoundCount(t) > 0
           /\ pc \notin {"admit", "candidates"} =>
                /\ scratch.candidates = Found(t)
                /\ counts.target_count = Chosen(t, limit)
                /\ counts.unique_target_count = UniqueCount(t)
           /\ pc \notin {"admit", "candidates", "routes"} =>
                scratch.routes = Routes(t, limit)
           /\ pc \in {"request", "accept"} =>
                submission.targets = PlanOf(t, limit)

\* The statuses a submission fails with when the clock does not go backwards.
Failures ==
  ClockErrors \union
    {"TOPOLOGY_STALE", "TOPOLOGY_UNAVAILABLE", "RESOURCE_EXHAUSTED"}

\* A time the clock may return that lies before the receipt of the topology.
ClockGoesBack == \E t \in Times : ReadClock(t) /\ t < topology.received

NothingElse == UNCHANGED <<client_vars, install_vars, polled, installed>>

Fails == \/ \E status \in Failures : EndSubmit(status, 0)
         \/ ClockGoesBack /\ EndSubmit("INTERNAL_ERROR", 0)

GoesOn == /\ pc' \in SubmitPoints
          /\ result'.status = "PENDING"
          /\ CandidatesArePlanned'

\* A run of checks that all pass goes on.
LEMMA NoStop ==
  /\ FirstStop(<<"PROCEED", "PROCEED">>) = "PROCEED"
  /\ FirstStop(<<"PROCEED", "PROCEED", "PROCEED", "PROCEED">>) = "PROCEED"
  <1>1. ASSUME NEW results, \A i \in DOMAIN results : results[i] = "PROCEED"
        PROVE  FirstStop(results) = "PROCEED"
    <2>1. {i \in DOMAIN results : results[i] # "PROCEED"} = {}
      BY <1>1
    <2>. QED  BY <2>1 DEF FirstStop, FirstOther
  <1>2. \A i \in DOMAIN <<"PROCEED", "PROCEED">> :
          <<"PROCEED", "PROCEED">>[i] = "PROCEED"
    OBVIOUS
  <1>3. \A i \in DOMAIN <<"PROCEED", "PROCEED", "PROCEED", "PROCEED">> :
          <<"PROCEED", "PROCEED", "PROCEED", "PROCEED">>[i] = "PROCEED"
    OBVIOUS
  <1>. QED  BY <1>1, <1>2, <1>3

\* Of two checks, the first that stops decides.
LEMMA EitherStops ==
  ASSUME NEW a, NEW b
  PROVE  FirstStop(<<a, b>>) = IF a # "PROCEED" THEN a ELSE b
  <1>. DEFINE r == <<a, b>>
              others == {i \in DOMAIN r : r[i] # "PROCEED"}
              least == CHOOSE i \in others : \A j \in others : i <= j
  <1>1. DOMAIN r = {1, 2} /\ r[1] = a /\ r[2] = b
    OBVIOUS
  <1>2. FirstStop(r) = IF others = {} THEN "PROCEED" ELSE r[least]
    BY DEF FirstStop, FirstOther
  <1>. HIDE DEF r
  <1>3. CASE a # "PROCEED"
    <2>1. 1 \in others /\ \A j \in others : 1 <= j
      BY <1>1, <1>3
    <2>2. \A i \in others : (\A j \in others : i <= j) => i = 1
      BY <1>1, <2>1
    <2>. HIDE DEF others
    <2>3. least = 1
      BY <2>1, <2>2
    <2>. QED  BY <1>1, <1>2, <1>3, <2>1, <2>3 DEF r
  <1>4. CASE a = "PROCEED" /\ b # "PROCEED"
    <2>1. others = {2}
      BY <1>1, <1>4
    <2>2. least = 2
      BY <2>1
    <2>. QED  BY <1>1, <1>2, <1>4, <2>1, <2>2 DEF r
  <1>5. CASE a = "PROCEED" /\ b = "PROCEED"
    BY <1>5, NoStop
  <1>. QED  BY <1>3, <1>4, <1>5

\* A submission in progress has a valid snapshot and a limit.
LEMMA PlanPremises ==
  ASSUME IInv, SnapshotsAreValid, CandidatesArePlanned, pc \in SubmitPoints
  PROVE  /\ topology.view \in Snapshots /\ IsSnapshot(topology.view)
         /\ TopologyStatus(topology.view) = "OK"
         /\ submission.target_limit \in Nat \ {0}
         /\ submission \in SubmissionType /\ counts \in CountsType
         /\ ScratchIsRecord
  <1>1. TopologyStatus(topology.view) = "OK"
    BY DEF IInv, TopologyIsThere, SnapshotsAreValid
  <1>2. submission.target_limit \in Nat /\ submission.target_limit > 0
    BY SubmitPremises DEF CandidatesArePlanned
  <1>. QED  BY <1>1, <1>2, SubmitPremises DEF CandidatesArePlanned

\* Admission: the counting query counts the candidates there are.
LEMMA AdmitCases ==
  ASSUME IInv, SnapshotsAreValid, CandidatesArePlanned, Admit
  PROVE  NothingElse /\ (Fails \/ GoesOn)
  <1>1. NothingElse /\ pc = "admit" /\ pc \in SubmitPoints
    BY DEF Admit, SubmitPoints, NothingElse
  <1>. DEFINE v == topology.view
              slot == v.current_slot
              query == ResolveSlot(v, slot, 0)
              age(t) == AgeOutcome(t)
              outcome(t) == FirstStop(<<age(t), QueryOutcome(query)>>)
  <1>2. FoundCount(v) \in Nat
    BY <1>1, PlanPremises, CandidateCountType DEF FoundCount
  <1>3. /\ query.status \in {"TOPOLOGY_UNAVAILABLE", "RESOURCE_EXHAUSTED"}
        /\ query.status = "RESOURCE_EXHAUSTED" =>
             query.count = FoundCount(v) /\ FoundCount(v) > 0
    BY <1>2 DEF ResolveSlot, FoundCount
  <1>4. QueryOutcome(query) \in {"TOPOLOGY_UNAVAILABLE", "PROCEED"}
        /\ (QueryOutcome(query) = "PROCEED" =>
              query.status = "RESOURCE_EXHAUSTED")
    <2>. DEFINE a == Stop(query.status # "RESOURCE_EXHAUSTED", query.status)
                b == Stop(query.count = 0, "INTERNAL_ERROR")
    <2>1. QueryOutcome(query) = IF a # "PROCEED" THEN a ELSE b
      BY EitherStops DEF QueryOutcome
    <2>2. /\ query.status = "TOPOLOGY_UNAVAILABLE" => a = "TOPOLOGY_UNAVAILABLE"
          /\ query.status = "RESOURCE_EXHAUSTED" => a = "PROCEED" /\ b = "PROCEED"
      BY <1>2, <1>3 DEF Stop
    <2>. HIDE DEF a, b, query
    <2>. QED  BY <1>3, <2>1, <2>2
  <1>. HIDE DEF query
  <1>5. ASSUME NEW t \in Times
        PROVE  \/ age(t) = "INTERNAL_ERROR" /\ t < topology.received
               \/ age(t) \in {"TOPOLOGY_STALE", "PROCEED"}
    <2>. DEFINE a == Stop(t < topology.received, "INTERNAL_ERROR")
                b == Stop(/\ t >= topology.received
                          /\ t - topology.received > submission.max_topology_age,
                          "TOPOLOGY_STALE")
    <2>0. age(t) = FirstStop(<<a, b>>)
      BY DEF AgeOutcome
    <2>1. age(t) = IF a # "PROCEED" THEN a ELSE b
      <3>. HIDE DEF a, b, age
      <3>. QED  BY <2>0, EitherStops
    <2>2. /\ \/ a = "INTERNAL_ERROR" /\ t < topology.received
             \/ a = "PROCEED"
          /\ b \in {"TOPOLOGY_STALE", "PROCEED"}
      BY DEF Stop
    <2>. HIDE DEF a, b, age
    <2>. QED  BY <2>1, <2>2
  <1>. HIDE DEF age
  <1>6. ASSUME NEW t \in Times
        PROVE  \/ outcome(t) = "INTERNAL_ERROR" /\ t < topology.received
               \/ outcome(t) \in {"TOPOLOGY_STALE", "TOPOLOGY_UNAVAILABLE"}
               \/ outcome(t) = "PROCEED" /\ query.status = "RESOURCE_EXHAUSTED"
    <2>1. outcome(t) = IF age(t) # "PROCEED" THEN age(t)
                       ELSE QueryOutcome(query)
      BY EitherStops
    <2>. HIDE DEF outcome
    <2>. QED  BY <1>4, <1>5, <2>1
  <1>7. \/ \E error \in ClockErrors : EndSubmit(error, 0)
        \/ \E t \in Times :
             /\ ReadClock(t)
             /\ IF outcome(t) # "PROCEED" THEN EndSubmit(outcome(t), 0)
                ELSE /\ Continue("candidates")
                     /\ submission' = [submission EXCEPT !.routing_slot = slot]
                     /\ counts' = [counts EXCEPT !.candidate_count = query.count]
                     /\ UNCHANGED <<scratch, temp, heap>>
    BY DEF Admit, query, age
  <1>. HIDE DEF outcome
  <1>8. CASE \E error \in ClockErrors : EndSubmit(error, 0)
    BY <1>1, <1>8 DEF Fails, Failures
  <1>9. ASSUME NEW t \in Times, ReadClock(t), outcome(t) # "PROCEED",
               EndSubmit(outcome(t), 0)
        PROVE  Fails
    BY <1>6, <1>9 DEF Fails, Failures, ClockGoesBack
  <1>10. ASSUME NEW t \in Times, outcome(t) = "PROCEED",
                Continue("candidates"),
                submission' = [submission EXCEPT !.routing_slot = slot],
                counts' = [counts EXCEPT !.candidate_count = query.count],
                UNCHANGED scratch
         PROVE  GoesOn
    <2>1. /\ pc' = "candidates" /\ result'.status = "PENDING"
          /\ topology' = topology
      BY <1>1, <1>10 DEF Continue, NothingElse, client_vars
    <2>2. /\ submission'.target_limit = submission.target_limit
          /\ submission'.routing_slot = slot
          /\ counts'.candidate_count = query.count
      BY <1>1, <1>10, PlanPremises DEF SubmissionType, CountsType
    <2>3. query.count = FoundCount(v) /\ FoundCount(v) > 0
      BY <1>3, <1>6, <1>10
    <2>4. CandidatesArePlanned'
      BY <1>1, <1>10, <2>1, <2>2, <2>3, PlanPremises
         DEF CandidatesArePlanned, ScratchIsRecord
    <2>. QED  BY <2>1, <2>4 DEF GoesOn, SubmitPoints, TempNames
  <1>. QED  BY <1>1, <1>7, <1>8, <1>9, <1>10

\* An allocation after which every check passes either fails or goes on.
LEMMA AllocateCases ==
  ASSUME NEW name, NEW next, NEW locals, NEW numbers, NEW written,
         Allocate(name, "PROCEED", next, locals, numbers, written)
  PROVE  /\ NothingElse /\ topology' = topology
         /\ \/ Fails
            \/ /\ pc' = next /\ result'.status = "PENDING"
               /\ submission' = locals /\ counts' = numbers
               /\ scratch' = written
  <1>1. NothingElse /\ topology' = topology
    BY DEF Allocate, NothingElse, client_vars
  <1>2. CASE EndSubmit("RESOURCE_EXHAUSTED", 0)
    BY <1>1, <1>2 DEF Fails, Failures
  <1>3. CASE /\ Continue(next) /\ submission' = locals /\ counts' = numbers
             /\ scratch' = written
    BY <1>1, <1>3 DEF Continue
  <1>. QED  BY <1>2, <1>3, <1>1 DEF Allocate

\* The resolver fills the candidates array exactly, and the counting query to
\* the planner counts the routes there are.
LEMMA AllocateCandidatesCases ==
  ASSUME IInv, SnapshotsAreValid, CandidatesArePlanned, AllocateCandidates
  PROVE  NothingElse /\ (Fails \/ GoesOn)
  <1>. DEFINE v == topology.view
              limit == submission.target_limit
              fill == ResolveSlot(v, submission.routing_slot,
                                  counts.candidate_count)
              query == PlanRoutes(fill.candidates, counts.candidate_count,
                                  limit, 0)
              a == Stop(fill.status # "OK", fill.status)
              b == Stop(fill.count # counts.candidate_count, "INTERNAL_ERROR")
              c == Stop(query.status # "RESOURCE_EXHAUSTED", query.status)
              d == Stop(\/ query.target_count = 0
                        \/ query.unique_target_count < query.target_count,
                        "INTERNAL_ERROR")
              numbers == [counts EXCEPT
                            !.target_count = query.target_count,
                            !.unique_target_count = query.unique_target_count]
              written == [scratch EXCEPT !.candidates = fill.candidates]
  <1>1. /\ Allocate("candidates", FirstStop(<<a, b, c, d>>), "routes", submission,
                    numbers, written)
        /\ pc = "candidates" /\ pc \in SubmitPoints
    BY DEF AllocateCandidates, Allocate, SubmitPoints, TempNames
  <1>2. /\ IsSnapshot(v) /\ limit \in Nat \ {0} /\ counts \in CountsType
        /\ submission.routing_slot = v.current_slot
        /\ counts.candidate_count = FoundCount(v) /\ FoundCount(v) > 0
        /\ FoundCount(v) \in Nat /\ limit > 0 /\ ScratchIsRecord
    BY <1>1, PlanPremises, PlanCountsAgree DEF CandidatesArePlanned
  <1>3. /\ fill.status = "OK" /\ fill.count = FoundCount(v)
        /\ fill.candidates = Found(v)
    BY <1>2 DEF ResolveSlot, FoundCount, Found
  <1>. HIDE DEF fill
  <1>4. /\ Chosen(v, limit) \in Nat /\ UniqueCount(v) \in Nat
        /\ Chosen(v, limit) > 0 /\ Chosen(v, limit) <= UniqueCount(v)
    BY <1>2, PlanCountsAgree
  <1>5. /\ query.status = "RESOURCE_EXHAUSTED"
        /\ query.target_count = Chosen(v, limit)
        /\ query.unique_target_count = UniqueCount(v)
    BY <1>2, <1>3, <1>4 DEF PlanRoutes, Chosen, UniqueCount
  <1>. HIDE DEF query, limit, v
  <1>6. a = "PROCEED" /\ b = "PROCEED" /\ c = "PROCEED" /\ d = "PROCEED"
    BY <1>2, <1>3, <1>4, <1>5 DEF Stop
  <1>. HIDE DEF a, b, c, d, numbers, written
  <1>7. Allocate("candidates", "PROCEED", "routes", submission, numbers, written)
    BY <1>1, <1>6, NoStop
  <1>8. ASSUME pc' = "routes", result'.status = "PENDING",
               topology' = topology, submission' = submission,
               counts' = numbers, scratch' = written
        PROVE  GoesOn
    <2>1. /\ numbers.candidate_count = counts.candidate_count
          /\ numbers.target_count = query.target_count
          /\ numbers.unique_target_count = query.unique_target_count
      BY <1>2 DEF numbers, CountsType
    <2>2. /\ written.candidates = fill.candidates
          /\ written = [candidates |-> written.candidates,
                        routes |-> written.routes]
      BY <1>2 DEF written, ScratchIsRecord
    <2>3. CandidatesArePlanned'
      BY <1>2, <1>3, <1>5, <1>8, <2>1, <2>2
         DEF CandidatesArePlanned, ScratchIsRecord, v, limit
    <2>. QED  BY <1>8, <2>3 DEF GoesOn, SubmitPoints, TempNames
  <1>. QED  BY <1>7, <1>8, AllocateCases

\* The planner fills the routes array exactly.
LEMMA AllocateRoutesCases ==
  ASSUME IInv, SnapshotsAreValid, CandidatesArePlanned, AllocateRoutes
  PROVE  NothingElse /\ (Fails \/ GoesOn)
  <1>. DEFINE v == topology.view
              limit == submission.target_limit
              plan == PlanRoutes(scratch.candidates, counts.candidate_count,
                                 limit, counts.target_count)
              a == Stop(plan.status # "OK", plan.status)
              b == Stop(\/ plan.target_count # counts.target_count
                        \/ plan.unique_target_count
                             # counts.unique_target_count,
                        "INTERNAL_ERROR")
              written == [scratch EXCEPT !.routes = plan.targets]
  <1>1. /\ Allocate("routes", FirstStop(<<a, b>>), "transaction_copy",
                    submission, counts, written)
        /\ pc = "routes" /\ pc \in SubmitPoints
    BY DEF AllocateRoutes, Allocate, SubmitPoints, TempNames
  <1>2. /\ IsSnapshot(v) /\ limit \in Nat \ {0} /\ counts \in CountsType
        /\ submission.routing_slot = v.current_slot
        /\ counts.candidate_count = FoundCount(v) /\ FoundCount(v) > 0
        /\ scratch.candidates = Found(v)
        /\ counts.target_count = Chosen(v, limit)
        /\ counts.unique_target_count = UniqueCount(v)
        /\ FoundCount(v) \in Nat /\ limit > 0 /\ ScratchIsRecord
    BY <1>1, PlanPremises, PlanCountsAgree DEF CandidatesArePlanned
  <1>3. Chosen(v, limit) \in Nat /\ UniqueCount(v) \in Nat
    BY <1>2, PlanCountsAgree
  <1>4. /\ plan.status = "OK" /\ plan.target_count = Chosen(v, limit)
        /\ plan.unique_target_count = UniqueCount(v)
        /\ plan.targets = Routes(v, limit)
    BY <1>2, <1>3 DEF PlanRoutes, Chosen, UniqueCount, Routes
  <1>. HIDE DEF plan, limit, v
  <1>5. a = "PROCEED" /\ b = "PROCEED"
    BY <1>2, <1>4 DEF Stop
  <1>. HIDE DEF a, b, written
  <1>6. Allocate("routes", "PROCEED", "transaction_copy", submission, counts,
                 written)
    BY <1>1, <1>5, NoStop
  <1>7. ASSUME pc' = "transaction_copy", result'.status = "PENDING",
               topology' = topology, submission' = submission,
               counts' = counts, scratch' = written
        PROVE  GoesOn
    <2>1. /\ written.routes = plan.targets
          /\ written.candidates = scratch.candidates
          /\ written = [candidates |-> written.candidates,
                        routes |-> written.routes]
      BY <1>2 DEF written, ScratchIsRecord
    <2>2. CandidatesArePlanned'
      BY <1>2, <1>4, <1>7, <2>1
         DEF CandidatesArePlanned, ScratchIsRecord, v, limit
    <2>. QED  BY <1>7, <2>2 DEF GoesOn, SubmitPoints, TempNames, OwnedNames
  <1>. QED  BY <1>6, <1>7, AllocateCases

\* Copying the transaction leaves the plan as it is.
LEMMA AllocateTransactionCases ==
  ASSUME IInv, SnapshotsAreValid, CandidatesArePlanned, AllocateTransaction
  PROVE  NothingElse /\ (Fails \/ GoesOn)
  <1>1. /\ Allocate("transaction_copy", "PROCEED", "owned_targets", submission,
                    counts, scratch)
        /\ pc = "transaction_copy" /\ pc \in SubmitPoints
    BY DEF AllocateTransaction, Allocate, SubmitPoints, TempNames, OwnedNames
  <1>2. ASSUME pc' = "owned_targets", result'.status = "PENDING",
               topology' = topology, submission' = submission,
               counts' = counts, scratch' = scratch
        PROVE  GoesOn
    <2>1. CandidatesArePlanned'
      BY <1>1, <1>2 DEF CandidatesArePlanned, ScratchIsRecord
    <2>. QED  BY <1>2, <2>1 DEF GoesOn, SubmitPoints, TempNames, OwnedNames
  <1>. QED  BY <1>1, <1>2, AllocateCases

\* No route leads outside the snapshot, so the copies are made.
LEMMA AllocateTargetsCases ==
  ASSUME IInv, SnapshotsAreValid, CandidatesArePlanned, AllocateTargets
  PROVE  NothingElse /\ (Fails \/ GoesOn)
  <1>. DEFINE v == topology.view
              limit == submission.target_limit
              a == Stop(\/ counts.target_count = 0
                        \/ \E i \in 1 .. counts.target_count :
                             ~RouteInRange(v, scratch.routes[i]),
                        "INTERNAL_ERROR")
              targets == [i \in 1 .. counts.target_count |->
                            TargetOf(v, scratch.routes[i])]
              locals == [submission EXCEPT !.targets = targets]
  <1>1. /\ Allocate("owned_targets", a, "request", locals, counts, scratch)
        /\ pc = "owned_targets" /\ pc \in SubmitPoints
    BY DEF AllocateTargets, Allocate, SubmitPoints, TempNames, OwnedNames
  <1>2. /\ IsSnapshot(v) /\ TopologyStatus(v) = "OK"
        /\ limit \in Nat \ {0} /\ submission \in SubmissionType
        /\ submission.routing_slot = v.current_slot
        /\ counts.candidate_count = FoundCount(v) /\ FoundCount(v) > 0
        /\ scratch.candidates = Found(v)
        /\ counts.target_count = Chosen(v, limit)
        /\ counts.unique_target_count = UniqueCount(v)
        /\ scratch.routes = Routes(v, limit)
        /\ limit > 0 /\ ScratchIsRecord
    BY <1>1, PlanPremises DEF CandidatesArePlanned
  <1>3. /\ Chosen(v, limit) \in Nat /\ Chosen(v, limit) > 0
        /\ \A i \in 1 .. Chosen(v, limit) : RouteInRange(v, Routes(v, limit)[i])
    BY <1>2, PlanCountsAgree, RoutesAreInRange
  <1>4. targets = PlanOf(v, limit)
    BY <1>2 DEF PlanOf
  <1>. HIDE DEF limit, v, targets
  <1>5. a = "PROCEED"
    BY <1>2, <1>3 DEF Stop
  <1>. HIDE DEF a
  <1>6. ASSUME pc' = "request", result'.status = "PENDING",
               topology' = topology, submission' = locals,
               counts' = counts, scratch' = scratch
        PROVE  GoesOn
    <2>1. /\ locals.target_limit = submission.target_limit
          /\ locals.routing_slot = submission.routing_slot
          /\ locals.targets = targets
      BY <1>2 DEF SubmissionType
    <2>. HIDE DEF locals
    <2>2. CandidatesArePlanned'
      BY <1>2, <1>4, <1>6, <2>1
         DEF CandidatesArePlanned, ScratchIsRecord, v, limit
    <2>. QED  BY <1>6, <2>2 DEF GoesOn, SubmitPoints, TempNames, OwnedNames
  <1>. HIDE DEF locals
  <1>. QED  BY <1>1, <1>5, <1>6, AllocateCases

\* Without an identifier or a slot in the queue the submission ends.
LEMMA AllocateRequestCases ==
  ASSUME IInv, SnapshotsAreValid, CandidatesArePlanned, AllocateRequest
  PROVE  NothingElse /\ (Fails \/ GoesOn)
  <1>. DEFINE a == Stop(next_request_id = 0, "RESOURCE_EXHAUSTED")
              b == Stop(~HasCapacity(event_queue), "RESOURCE_EXHAUSTED")
              outcome == FirstStop(<<a, b>>)
  <1>1. /\ Allocate("request", outcome, "accept", submission, counts, scratch)
        /\ pc = "request" /\ pc \in SubmitPoints
    BY DEF AllocateRequest, Allocate, SubmitPoints, TempNames, OwnedNames
  <1>2. outcome \in {"RESOURCE_EXHAUSTED", "PROCEED"}
    <2>1. outcome = IF a # "PROCEED" THEN a ELSE b
      BY EitherStops
    <2>2. /\ a \in {"RESOURCE_EXHAUSTED", "PROCEED"}
          /\ b \in {"RESOURCE_EXHAUSTED", "PROCEED"}
      BY DEF Stop
    <2>. HIDE DEF a, b, outcome
    <2>. QED  BY <2>1, <2>2
  <1>. HIDE DEF outcome
  <1>3. CASE outcome = "RESOURCE_EXHAUSTED"
    <2>1. EndSubmit("RESOURCE_EXHAUSTED", 0) /\ NothingElse
      BY <1>1, <1>3 DEF Allocate, NothingElse
    <2>. QED  BY <2>1 DEF Fails, Failures
  <1>4. ASSUME pc' = "accept", result'.status = "PENDING",
               topology' = topology, submission' = submission,
               counts' = counts, scratch' = scratch
        PROVE  GoesOn
    <2>1. CandidatesArePlanned'
      BY <1>1, <1>4 DEF CandidatesArePlanned, ScratchIsRecord
    <2>. QED  BY <1>4, <2>1 DEF GoesOn, SubmitPoints
  <1>. QED  BY <1>1, <1>2, <1>3, <1>4, AllocateCases

\* Acceptance fails only with its clock, or commits.
LEMMA AcceptFails ==
  ASSUME IInv, Accept
  PROVE  \/ NothingElse /\ Fails
         \/ /\ pc = "accept"
            /\ UNCHANGED <<client, has_topology, topology, install_vars, polled,
                           installed>>
            /\ \E t \in Times : Commit(t)
  <1>1. CASE /\ \E error \in ClockErrors : EndSubmit(error, 0)
             /\ UNCHANGED <<clock_floor, requests, next_request_id, event_queue>>
    BY <1>1 DEF Accept, Fails, Failures, NothingElse, client_vars
  <1>2. ASSUME NEW t \in Times, ReadClock(t), t < topology.received,
               EndSubmit("INTERNAL_ERROR", 0),
               UNCHANGED <<requests, next_request_id, event_queue>>
        PROVE  NothingElse /\ Fails
    BY <1>2 DEF Accept, Fails, ClockGoesBack, NothingElse, client_vars
  <1>3. ASSUME NEW t \in Times, Commit(t)
        PROVE  /\ pc = "accept"
               /\ UNCHANGED <<client, has_topology, topology, install_vars,
                              polled, installed>>
    BY DEF Accept
  <1>. QED  BY <1>1, <1>2, <1>3 DEF Accept, Commit

\* A step of a submission fails with one of its statuses, goes on with what
\* there is to work out, or commits: the defensive branches are dead.
LEMMA SubmitStepCases ==
  ASSUME IInv, SnapshotsAreValid, CandidatesArePlanned, SubmitStep
  PROVE  \/ NothingElse /\ (Fails \/ GoesOn)
         \/ /\ pc = "accept"
            /\ UNCHANGED <<client, has_topology, topology, install_vars, polled,
                           installed>>
            /\ \E t \in Times : Commit(t)
  BY AdmitCases, AllocateCandidatesCases, AllocateRoutesCases,
     AllocateTransactionCases, AllocateTargetsCases, AllocateRequestCases,
     AcceptFails
     DEF SubmitStep

----------------------------------------------------------------------------
\* The request is planned as RequestsMatchTheirSnapshot says by one of the
\* snapshots of the history.
IsPlannedBy(request, history) ==
  \E s \in DOMAIN history :
    LET t == history[s].view IN
    /\ request.topology_generation = t.generation
    /\ request.routing_slot = t.current_slot
    /\ IsRoutePlan(t, t.current_slot, request.targets)

PlanInv == /\ Books
           /\ GenerationsIncrease
           /\ SnapshotsAreValid
           /\ CandidatesArePlanned
           /\ RequestsMatchTheirSnapshot

\* Without a call in progress only the topology in use has to be valid.
LEMMA AtRest ==
  ASSUME pc' = "idle", ScratchIsRecord', has_topology' => TopologyStatus(topology'.view) = "OK"
  PROVE  SnapshotsAreValid' /\ CandidatesArePlanned'
  BY DEF SnapshotsAreValid, CandidatesArePlanned, SubmitPoints, InstallPoints,
         ArrayNames, TempNames, OwnedNames

\* A call that is not of a submission keeps snapshots valid and plans nothing.
LEMMA CallPlans ==
  ASSUME IInv, SnapshotsAreValid, CandidatesArePlanned, Call
  PROVE  SnapshotsAreValid' /\ CandidatesArePlanned'
  <1>0. ScratchIsRecord /\ (has_topology => TopologyStatus(topology.view) = "OK")
    BY DEF SnapshotsAreValid, CandidatesArePlanned
  <1>1. CASE Create
    <2>1. /\ pc' = "idle"
          /\ UNCHANGED <<has_topology, topology, scratch>>
      BY <1>1 DEF Create, Return, submit_vars
    <2>. QED  BY <1>0, <2>1, AtRest DEF ScratchIsRecord
  <1>2. CASE Destroy
    <2>1. pc' = "idle" /\ has_topology' = FALSE /\ UNCHANGED scratch
      BY <1>2 DEF Destroy, Return, submit_vars
    <2>. QED  BY <1>0, <2>1, AtRest DEF ScratchIsRecord
  <1>3. ASSUME NEW t \in Snapshots, Install(t)
        PROVE  SnapshotsAreValid' /\ CandidatesArePlanned'
    <2>1. UNCHANGED <<has_topology, topology, scratch>>
      BY <1>3 DEF Install, client_vars, submit_vars
    <2>2. CASE InstallStatus(t) # "OK"
      <3>1. pc' = "idle"
        BY <1>3, <2>2 DEF Install, Return
      <3>. QED  BY <1>0, <2>1, <3>1, AtRest DEF ScratchIsRecord
    <2>3. CASE InstallStatus(t) = "OK"
      <3>1. pc' = "validators" /\ source' = t
        BY <1>3, <2>3 DEF Install, Continue
      <3>2. TopologyStatus(t) = "OK"
        BY <2>3, InstallStatusType
      <3>3. pc' \notin SubmitPoints
        BY <3>1 DEF SubmitPoints, TempNames, OwnedNames
      <3>. QED  BY <1>0, <2>1, <3>1, <3>2, <3>3
                DEF SnapshotsAreValid, CandidatesArePlanned, ScratchIsRecord
    <2>. QED  BY <2>2, <2>3
  <1>4. ASSUME NEW bytes, NEW o \in Options, Submit(bytes, o)
        PROVE  SnapshotsAreValid' /\ CandidatesArePlanned'
    <2>1. UNCHANGED <<has_topology, topology, scratch>>
      BY <1>4 DEF Submit, client_vars
    <2>2. CASE SubmitStatus(bytes, o) # "OK"
      <3>1. pc' = "idle"
        BY <1>4, <2>2 DEF Submit, Return
      <3>. QED  BY <1>0, <2>1, <3>1, AtRest DEF ScratchIsRecord
    <2>3. CASE SubmitStatus(bytes, o) = "OK"
      <3>1. pc' = "admit" /\ submission'.target_limit = o.target_limit
        BY <1>4, <2>3 DEF Submit, Continue, NoSubmission
      <3>2. o.target_limit > 0
        <4>1. o.target_limit # 0 /\ o.target_limit \in Nat
          BY <2>3, SubmitStatusType, OptionsAssumption
        <4>. QED  BY <4>1
      <3>3. pc' \notin InstallPoints
        BY <3>1 DEF InstallPoints, ArrayNames
      <3>. QED  BY <1>0, <2>1, <3>1, <3>2, <3>3
                DEF SnapshotsAreValid, CandidatesArePlanned, ScratchIsRecord
    <2>. QED  BY <2>2, <2>3
  <1>5. ASSUME NEW room \in 0 .. MaxRoom, NEW layout_ok \in BOOLEAN,
               Poll(room, layout_ok)
        PROVE  SnapshotsAreValid' /\ CandidatesArePlanned'
    <2>1. /\ pc' = "idle"
          /\ UNCHANGED <<has_topology, topology, scratch>>
      BY <1>5 DEF Poll, Return, submit_vars
    <2>. QED  BY <1>0, <2>1, AtRest DEF ScratchIsRecord
  <1>. QED  BY <1>1, <1>2, <1>3, <1>4, <1>5 DEF Call

\* An install copies and then puts to use the snapshot that passed.
LEMMA InstallPlans ==
  ASSUME IInv, SnapshotsAreValid, CandidatesArePlanned, InstallStep
  PROVE  SnapshotsAreValid' /\ CandidatesArePlanned'
  <1>0. ScratchIsRecord /\ (has_topology => TopologyStatus(topology.view) = "OK")
    BY DEF SnapshotsAreValid, CandidatesArePlanned
  <1>1. ASSUME NEW array \in ArrayNames, CloneArray(array)
        PROVE  SnapshotsAreValid' /\ CandidatesArePlanned'
    <2>1. /\ UNCHANGED <<has_topology, topology, scratch>>
          /\ pc \in InstallPoints
          /\ \/ pc' = "idle"
             \/ pc' = AfterClone(array) /\ source' = source
      BY <1>1 DEF CloneArray, FailInstall, Return, Continue, client_vars,
                  submit_vars, InstallPoints
    <2>2. CASE pc' = AfterClone(array) /\ source' = source
      <3>1. pc' \notin SubmitPoints
        BY <2>2 DEF AfterClone, ArrayNames, SubmitPoints, TempNames, OwnedNames
      <3>. QED  BY <1>0, <2>1, <2>2, <3>1
                DEF SnapshotsAreValid, CandidatesArePlanned, ScratchIsRecord
    <2>. QED  BY <1>0, <2>1, <2>2, AtRest DEF ScratchIsRecord
  <1>2. CASE ReceiptFails
    <2>1. pc' = "idle" /\ UNCHANGED <<has_topology, topology, scratch>>
      BY <1>2 DEF ReceiptFails, FailInstall, Return, client_vars, submit_vars
    <2>. QED  BY <1>0, <2>1, AtRest DEF ScratchIsRecord
  <1>3. ASSUME NEW t \in Times, Swap(t)
        PROVE  SnapshotsAreValid' /\ CandidatesArePlanned'
    <2>1. /\ pc' = "idle" /\ UNCHANGED scratch
          /\ topology'.view = source /\ pc = "receipt"
      BY <1>3 DEF Swap, Return, submit_vars
    <2>2. TopologyStatus(source) = "OK"
      BY <2>1 DEF SnapshotsAreValid, InstallPoints
    <2>. QED  BY <1>0, <2>1, <2>2, AtRest DEF ScratchIsRecord
  <1>. QED  BY <1>1, <1>2, <1>3 DEF InstallStep

\* A submission ends with nothing worked out.
LEMMA EndPlans ==
  ASSUME SnapshotsAreValid, UNCHANGED <<has_topology, topology>>,
         NEW status, NEW id, EndSubmit(status, id)
  PROVE  SnapshotsAreValid' /\ CandidatesArePlanned'
  <1>1. pc' = "idle" /\ scratch' = NoScratch
    BY DEF EndSubmit, Return
  <1>2. ScratchIsRecord'
    BY <1>1 DEF ScratchIsRecord, NoScratch
  <1>. QED  BY <1>1, <1>2, AtRest DEF SnapshotsAreValid

\* A submission works out the plan of the topology in use.
LEMMA SubmitPlans ==
  ASSUME IInv, SnapshotsAreValid, CandidatesArePlanned, SubmitStep
  PROVE  SnapshotsAreValid' /\ CandidatesArePlanned'
  <1>1. CASE NothingElse /\ Fails
    <2>1. UNCHANGED <<has_topology, topology>>
      BY <1>1 DEF NothingElse, client_vars
    <2>. QED  BY <1>1, <2>1, EndPlans DEF Fails
  <1>2. CASE NothingElse /\ GoesOn
    <2>1. UNCHANGED <<has_topology, topology>> /\ pc' \notin InstallPoints
      BY <1>2
         DEF NothingElse, client_vars, GoesOn, SubmitPoints, InstallPoints,
             TempNames, OwnedNames, ArrayNames
    <2>. QED  BY <1>2, <2>1 DEF GoesOn, SnapshotsAreValid
  <1>3. CASE /\ UNCHANGED <<client, has_topology, topology, install_vars, polled,
                            installed>>
             /\ \E t \in Times : Commit(t)
    <2>1. PICK t \in Times : Commit(t)
      BY <1>3
    <2>2. EndSubmit("OK", next_request_id)
      BY <2>1 DEF Commit
    <2>. QED  BY <1>3, <2>2, EndPlans
  <1>. QED  BY <1>1, <1>2, <1>3, SubmitStepCases

\* Every step keeps what is worked out right.
LEMMA StepPlans ==
  ASSUME IInv, SnapshotsAreValid, CandidatesArePlanned, [Next]_vars
  PROVE  SnapshotsAreValid' /\ CandidatesArePlanned'
  <1>1. CASE UNCHANGED vars
    <2>1. UNCHANGED <<has_topology, topology, pc, source, submission, counts,
                      scratch>>
      BY <1>1 DEF vars, client_vars, install_vars, submit_vars
    <2>. QED  BY <2>1
              DEF SnapshotsAreValid, CandidatesArePlanned, ScratchIsRecord
  <1>. QED  BY <1>1, CallPlans, InstallPlans, SubmitPlans DEF Next

----------------------------------------------------------------------------
(* The requests a client retains. *)

\* A request is added by a commit and a snapshot by a swap; only the end of
\* the client takes any away.
LEMMA HistoryStep ==
  ASSUME IInv, [Next]_vars
  PROVE  \/ requests' = << >>
         \/ UNCHANGED <<requests, installed>>
         \/ UNCHANGED requests /\ \E t \in Times : Swap(t)
         \/ /\ pc = "accept"
            /\ UNCHANGED <<client, has_topology, topology, polled, installed>>
            /\ \E t \in Times : Commit(t)
  <1>1. CASE Create
    BY <1>1 DEF Create
  <1>2. CASE Destroy
    BY <1>2 DEF Destroy
  <1>3. ASSUME NEW t \in Snapshots, Install(t)
        PROVE  UNCHANGED <<requests, installed>>
    BY <1>3 DEF Install, client_vars
  <1>4. ASSUME NEW bytes, NEW o, Submit(bytes, o)
        PROVE  UNCHANGED <<requests, installed>>
    BY <1>4 DEF Submit, client_vars
  <1>5. ASSUME NEW room \in 0 .. MaxRoom, NEW layout_ok \in BOOLEAN,
               Poll(room, layout_ok)
        PROVE  UNCHANGED <<requests, installed>>
    BY <1>5 DEF Poll
  <1>6. CASE InstallStep
    <2>1. ASSUME NEW array \in ArrayNames, CloneArray(array)
          PROVE  UNCHANGED <<requests, installed>>
      BY <2>1 DEF CloneArray, client_vars
    <2>2. CASE ReceiptFails
      BY <2>2 DEF ReceiptFails, client_vars
    <2>3. ASSUME NEW t \in Times, Swap(t)
          PROVE  UNCHANGED requests
      BY <2>3 DEF Swap
    <2>. QED  BY <1>6, <2>1, <2>2, <2>3 DEF InstallStep
  <1>7. CASE Admit
    BY <1>7 DEF Admit, client_vars
  <1>8. CASE \/ AllocateCandidates \/ AllocateRoutes \/ AllocateTransaction
             \/ AllocateTargets \/ AllocateRequest
    BY <1>8
       DEF AllocateCandidates, AllocateRoutes, AllocateTransaction,
           AllocateTargets, AllocateRequest, Allocate, client_vars
  <1>9. CASE Accept
    <2>1. /\ pc = "accept"
          /\ UNCHANGED <<client, has_topology, topology, polled, installed>>
          /\ \/ UNCHANGED requests
             \/ \E t \in Times : Commit(t)
      BY <1>9, AcceptCases
    <2>. QED  BY <2>1
  <1>10. CASE UNCHANGED vars
    BY <1>10 DEF vars, client_vars
  <1>. QED
    BY <1>1, <1>2, <1>3, <1>4, <1>5, <1>6, <1>7, <1>8, <1>9, <1>10
       DEF Next, Call, SubmitStep

\* The history after a swap.
LEMMA SwapHistory ==
  ASSUME IInv, NEW t \in Times, Swap(t)
  PROVE  /\ Len(installed) \in Nat
         /\ DOMAIN installed = 1 .. Len(installed)
         /\ DOMAIN installed' = 1 .. Len(installed) + 1
         /\ \A s \in DOMAIN installed : installed'[s] = installed[s]
         /\ installed'[Len(installed) + 1] = [view |-> source, received |-> t]
  <1>. DEFINE R == [view : Snapshots, received : Times]
              r == [view |-> source, received |-> t]
  <1>1. /\ source \in Snapshots /\ installed \in Seq(R) /\ r \in R
        /\ installed' = Append(installed, r)
    BY DEF Swap, IInv, TypeOK, InstallIsNewer, InstallPoints
  <1>. HIDE DEF R, r
  <1>2. /\ Len(installed) \in Nat /\ DOMAIN installed = 1 .. Len(installed)
        /\ Len(installed') = Len(installed) + 1
        /\ DOMAIN installed' = 1 .. Len(installed) + 1
        /\ \A s \in 1 .. Len(installed) : installed'[s] = installed[s]
        /\ installed'[Len(installed) + 1] = r
    BY <1>1, AppendProperties, LenProperties
  <1>. QED  BY <1>2 DEF r

\* The topology in use is one of those installed.
LEMMA InUseIsInstalled ==
  ASSUME IInv, GenerationsIncrease, has_topology
  PROVE  /\ Len(installed) \in DOMAIN installed
         /\ installed[Len(installed)].view = topology.view
         /\ installed[Len(installed)].received = topology.received
  <1>1. /\ Len(installed) \in Nat /\ DOMAIN installed = 1 .. Len(installed)
        /\ installed = << >> \/ Len(installed) # 0
    BY LenProperties, EmptySeq DEF IInv, TypeOK
  <1>2. has_topology = (installed # << >>)
    BY Zenon DEF GenerationsIncrease
  <1>3. installed # << >>
    BY ONLY <1>2, has_topology, Zenon
  <1>. QED  BY <1>1, <1>3 DEF GenerationsIncrease

\* The list after a commit.
LEMMA CommitList ==
  ASSUME IInv, pc = "accept", NEW t \in Times, Commit(t)
  PROVE  /\ requests'[1] = NewRequest
         /\ Len(requests) \in Nat /\ Len(requests') = Len(requests) + 1
         /\ DOMAIN requests = 1 .. Len(requests)
         /\ DOMAIN requests' = 1 .. Len(requests) + 1
         /\ \A i \in 2 .. Len(requests) + 1 : requests'[i] = requests[i - 1]
  <1>1. /\ <<NewRequest>> \in Seq(Request) /\ Len(<<NewRequest>>) = 1
        /\ <<NewRequest>>[1] = NewRequest
    <2>1. NewRequest \in Request
      BY CommitTypes
    <2>. HIDE DEF NewRequest
    <2>. QED  BY <2>1
  <1>2. /\ requests \in Seq(Request) /\ Len(requests) \in Nat
        /\ DOMAIN requests = 1 .. Len(requests)
    BY LenProperties DEF IInv, TypeOK
  <1>3. /\ <<NewRequest>> \o requests \in Seq(Request)
        /\ Len(<<NewRequest>> \o requests) = 1 + Len(requests)
        /\ \A i \in 1 .. 1 + Len(requests) :
             (<<NewRequest>> \o requests)[i]
               = IF i <= 1 THEN <<NewRequest>>[i] ELSE requests[i - 1]
    BY <1>1, <1>2, ConcatProperties
  <1>4. requests' = <<NewRequest>> \o requests
    BY DEF Commit
  <1>. QED  BY <1>1, <1>2, <1>3, <1>4, LenProperties

\* What is committed is the full plan of the topology in use.
LEMMA CommittedPlan ==
  ASSUME IInv, SnapshotsAreValid, CandidatesArePlanned, pc = "accept"
  PROVE  LET t == topology.view IN
         /\ NewRequest.topology_generation = t.generation
         /\ NewRequest.routing_slot = t.current_slot
         /\ IsFullRoutePlan(t, t.current_slot, submission.target_limit,
                            NewRequest.targets)
  <1>1. pc \in SubmitPoints
    BY DEF SubmitPoints
  <1>2. /\ IsSnapshot(topology.view)
        /\ submission.target_limit \in Nat \ {0}
    BY <1>1, PlanPremises
  <1>3. /\ submission.routing_slot = topology.view.current_slot
        /\ FoundCount(topology.view) > 0
        /\ submission.targets = PlanOf(topology.view, submission.target_limit)
    BY <1>1 DEF CandidatesArePlanned
  <1>. QED  BY <1>2, <1>3, PlansAreFull DEF NewRequest

\* Every step keeps the requests matched.
LEMMA StepMatches ==
  ASSUME PlanInv, [Next]_vars
  PROVE  RequestsMatchTheirSnapshot'
  <1>0. /\ IInv /\ SnapshotsAreValid /\ CandidatesArePlanned
        /\ GenerationsIncrease
    BY DEF PlanInv, Books
  <1>1. \A r \in DOMAIN requests : IsPlannedBy(requests[r], installed)
    BY DEF PlanInv, RequestsMatchTheirSnapshot, IsPlannedBy
  <1>2. SUFFICES \A r \in DOMAIN requests' : IsPlannedBy(requests'[r], installed')
    BY DEF RequestsMatchTheirSnapshot, IsPlannedBy
  <1>3. CASE requests' = << >>
    BY <1>3
  <1>4. CASE UNCHANGED <<requests, installed>>
    BY <1>1, <1>4
  <1>5. ASSUME UNCHANGED requests, NEW t \in Times, Swap(t)
        PROVE  \A r \in DOMAIN requests' : IsPlannedBy(requests'[r], installed')
    <2>1. \A s \in DOMAIN installed :
            s \in DOMAIN installed' /\ installed'[s] = installed[s]
      <3>1. /\ Len(installed) \in Nat
            /\ DOMAIN installed = 1 .. Len(installed)
            /\ DOMAIN installed' = 1 .. Len(installed) + 1
            /\ \A s \in DOMAIN installed : installed'[s] = installed[s]
        BY <1>0, <1>5, SwapHistory
      <3>. QED  BY <3>1
    <2>2. ASSUME NEW r \in DOMAIN requests
          PROVE  IsPlannedBy(requests[r], installed')
      BY <1>1, <2>1 DEF IsPlannedBy
    <2>. QED  BY <1>5, <2>2
  <1>6. ASSUME pc = "accept", UNCHANGED installed, NEW t \in Times, Commit(t)
        PROVE  \A r \in DOMAIN requests' : IsPlannedBy(requests'[r], installed')
    <2>1. IsPlannedBy(NewRequest, installed)
      <3>1. has_topology
        BY <1>0, <1>6 DEF IInv, TopologyIsThere, SubmitPoints
      <3>2. /\ Len(installed) \in DOMAIN installed
            /\ installed[Len(installed)].view = topology.view
        BY <1>0, <3>1, InUseIsInstalled
      <3>. QED
        BY <1>0, <1>6, <3>2, CommittedPlan DEF IsPlannedBy, IsFullRoutePlan
    <2>2. ASSUME NEW r \in DOMAIN requests'
          PROVE  IsPlannedBy(requests'[r], installed)
      <3>1. /\ Len(requests) \in Nat /\ r \in 1 .. Len(requests) + 1
            /\ DOMAIN requests = 1 .. Len(requests)
        BY <1>0, <1>6, CommitList
      <3>2. CASE r = 1
        BY <1>0, <1>6, <2>1, <3>2, CommitList
      <3>3. CASE r # 1
        <4>1. r \in 2 .. Len(requests) + 1 /\ r - 1 \in DOMAIN requests
          BY <3>1, <3>3
        <4>2. requests'[r] = requests[r - 1]
          BY <1>0, <1>6, <4>1, CommitList
        <4>. QED  BY <1>1, <4>1, <4>2
      <3>. QED  BY <3>2, <3>3
    <2>. QED  BY <1>6, <2>2
  <1>. QED  BY <1>0, <1>3, <1>4, <1>5, <1>6, HistoryStep

\* The program starts without requests and with nothing worked out.
LEMMA InitPlans == Init => PlanInv
  <1>. SUFFICES ASSUME Init  PROVE PlanInv
    OBVIOUS
  <1>1. Books
    BY InitBooks
  <1>2. has_topology = FALSE /\ installed = << >> /\ requests = << >>
        /\ pc = "idle" /\ scratch = NoScratch
    BY DEF Init
  <1>3. GenerationsIncrease
    BY <1>2, NothingInstalled
  <1>4. SnapshotsAreValid /\ CandidatesArePlanned
    BY <1>2 DEF SnapshotsAreValid, CandidatesArePlanned, ScratchIsRecord,
                NoScratch, SubmitPoints, InstallPoints, TempNames, OwnedNames,
                ArrayNames
  <1>5. RequestsMatchTheirSnapshot
    BY <1>2 DEF RequestsMatchTheirSnapshot
  <1>. QED  BY <1>1, <1>3, <1>4, <1>5 DEF PlanInv

\* The invariant holds of every behavior.
LEMMA PlanInvariance == Spec => []PlanInv
  <1>1. PlanInv /\ [Next]_vars => PlanInv'
    <2>. SUFFICES ASSUME PlanInv, [Next]_vars  PROVE PlanInv'
      OBVIOUS
    <2>1. Books /\ IInv /\ GenerationsIncrease /\ SnapshotsAreValid
          /\ CandidatesArePlanned
      BY DEF PlanInv, Books
    <2>2. Books'
      BY <2>1, StepBooks
    <2>3. GenerationsIncrease'
      BY <2>1, StepGenerations
    <2>4. SnapshotsAreValid' /\ CandidatesArePlanned'
      BY <2>1, StepPlans
    <2>5. RequestsMatchTheirSnapshot'
      BY StepMatches
    <2>. QED  BY <2>2, <2>3, <2>4, <2>5 DEF PlanInv
  <1>. QED  BY <1>1, InitPlans, PTL DEF Spec

\* Every retained request carries, for snapshots of every size, the plan of
\* the one snapshot whose generation it records, at that snapshot's slot,
\* whatever was installed and freed since and however polls, failing calls and
\* installs came between (solana_delivery_submission.c:186-429).
THEOREM RequestsArePlanned == Spec => []RequestsMatchTheirSnapshot
  <1>1. PlanInv => RequestsMatchTheirSnapshot
    BY DEF PlanInv
  <1>. QED  BY <1>1, PlanInvariance, PTL

\* A submission that ends says what it did.
LEMMA StepTellsTheTruth ==
  PlanInv /\ [Next]_vars =>
    [(pc \in SubmitPoints /\ pc' = "idle") =>
       IF result'.status = "OK"
       THEN /\ Len(requests') = Len(requests) + 1
            /\ result'.request_id = requests'[1].request_id
            /\ result'.request_id # 0
            /\ IsFullRoutePlan(topology.view, topology.view.current_slot,
                               submission.target_limit, requests'[1].targets)
       ELSE result'.request_id = 0 /\ requests' = requests]_vars
  <1>. SUFFICES ASSUME PlanInv, Next, pc \in SubmitPoints, pc' = "idle"
       PROVE  IF result'.status = "OK"
              THEN /\ Len(requests') = Len(requests) + 1
                   /\ result'.request_id = requests'[1].request_id
                   /\ result'.request_id # 0
                   /\ IsFullRoutePlan(topology.view, topology.view.current_slot,
                                      submission.target_limit,
                                      requests'[1].targets)
              ELSE result'.request_id = 0 /\ requests' = requests
    OBVIOUS
  <1>1. IInv /\ SnapshotsAreValid /\ CandidatesArePlanned
    BY DEF PlanInv, Books
  <1>2. SubmitStep
    <2>1. pc # "idle" /\ pc \notin InstallPoints
      BY DEF SubmitPoints, InstallPoints, TempNames, OwnedNames, ArrayNames
    <2>2. ~Call
      BY <2>1 DEF Call, Create, Destroy, Install, Submit, Poll, Ready
    <2>3. ~InstallStep
      BY <2>1 DEF InstallStep, CloneArray, ReceiptFails, Swap, InstallPoints
    <2>. QED  BY <2>2, <2>3 DEF Next
  <1>3. CASE NothingElse /\ Fails
    <2>1. requests' = requests
      BY <1>3 DEF NothingElse, client_vars
    <2>2. PICK status : status # "OK" /\ EndSubmit(status, 0)
      BY <1>3, EnvironmentAssumption DEF Fails, Failures
    <2>3. result'.status # "OK" /\ result'.request_id = 0
      BY <2>2 DEF EndSubmit, Return
    <2>. QED  BY <2>1, <2>3
  <1>4. CASE GoesOn
    BY <1>4 DEF GoesOn, SubmitPoints, TempNames, OwnedNames
  <1>5. ASSUME pc = "accept", NEW t \in Times, Commit(t)
        PROVE  /\ result'.status = "OK"
               /\ Len(requests') = Len(requests) + 1
               /\ result'.request_id = requests'[1].request_id
               /\ result'.request_id # 0
               /\ IsFullRoutePlan(topology.view, topology.view.current_slot,
                                  submission.target_limit,
                                  requests'[1].targets)
    <2>1. result'.status = "OK" /\ result'.request_id = next_request_id
      BY <1>5 DEF Commit, EndSubmit, Return
    <2>2. next_request_id # 0
      <3>1. next_request_id \in RequestIds
        BY <1>1, <1>5, CommitTypes
      <3>. QED  BY <3>1, BoundsAssumption DEF RequestIds
    <2>3. requests'[1] = NewRequest /\ Len(requests') = Len(requests) + 1
      BY <1>1, <1>5, CommitList
    <2>4. NewRequest.request_id = next_request_id
      BY DEF NewRequest
    <2>. QED  BY <1>1, <1>5, <2>1, <2>2, <2>3, <2>4, CommittedPlan
  <1>. QED  BY <1>1, <1>2, <1>3, <1>4, <1>5, SubmitStepCases

\* A submission returns OK exactly when it has accepted one more request, with
\* the full plan its limit and the snapshot allow, and hands back its
\* identifier; on every other path it hands back none and accepts nothing
\* (solana_delivery_submission.c:186-460).
THEOREM SubmitIsTruthful == Spec => SubmitTellsTheTruth
  BY PlanInvariance, StepTellsTheTruth, PTL DEF Spec, SubmitTellsTheTruth

----------------------------------------------------------------------------
(* The invariant of the blocks a client and the call in progress hold. *)

\* The blocks that a submission or an install at a point has still to
\* allocate.  Without such a call in progress that is all of them.
SubmitAhead(point) ==
  CASE point = "routes"           -> TempNames \ {"candidates"}
    [] point = "transaction_copy" -> OwnedNames
    [] point = "owned_targets"    -> {"owned_targets", "request"}
    [] point = "request"          -> {"request"}
    [] point = "accept"           -> {}
    [] OTHER                      -> TempNames

InstallAhead(point) ==
  CASE point = "endpoints"           -> ArrayNames \ {"validators"}
    [] point = "validator_endpoints" -> {"validator_endpoints", "leaders"}
    [] point = "leaders"             -> {"leaders"}
    [] point = "receipt"             -> {}
    [] OTHER                         -> ArrayNames

AheadIsNull ==
  /\ \A n \in SubmitAhead(pc) : temp[n] = NULL
  /\ \A a \in InstallAhead(pc) : replacement[a] = NULL

\* No block is held twice by the pointers of f.
Unshared(f) ==
  \A x, y \in DOMAIN f : f[x] # NULL /\ f[x] = f[y] => x = y

RequestsUnshared ==
  \A i, j \in DOMAIN requests, m, n \in OwnedNames :
    requests[i].blocks[m] = requests[j].blocks[n] => i = j /\ m = n

\* The five holders share no block and hold all there are.
Held(blocks, C, T, R, S, Q) ==
  /\ blocks = C \union T \union R \union S \union Q
  /\ C \intersect T = {} /\ C \intersect R = {} /\ C \intersect S = {}
  /\ C \intersect Q = {} /\ T \intersect R = {} /\ T \intersect S = {}
  /\ T \intersect Q = {} /\ R \intersect S = {} /\ R \intersect Q = {}
  /\ S \intersect Q = {}

HeapIsHeld ==
  Held(heap, {client} \ {NULL}, BlocksIn(topology.blocks),
       BlocksIn(replacement), BlocksIn(temp), RequestBlocks)

Memory == /\ AheadIsNull
          /\ HeapIsHeld
          /\ Unshared(topology.blocks)
          /\ Unshared(replacement)
          /\ Unshared(temp)
          /\ RequestsUnshared

----------------------------------------------------------------------------
(* What an allocation and a release do to the holders. *)

LEMMA HeldStep ==
  ASSUME NEW h, NEW C, NEW T, NEW R, NEW S, NEW Q, Held(h, C, T, R, S, Q)
  PROVE  /\ Held(h \ R, C, T, {}, S, Q)
         /\ Held(h \ S, C, T, R, {}, Q)
         /\ Held(h \ T, C, R, {}, S, Q)
         /\ Held(h \ (Q \union T \union C), {}, {}, R, S, {})
  BY DEF Held

LEMMA HeldMore ==
  ASSUME NEW h, NEW C, NEW T, NEW R, NEW S, NEW Q, Held(h, C, T, R, S, Q),
         NEW b, b \notin h
  PROVE  /\ Held(h \union {b}, C \union {b}, T, R, S, Q)
         /\ Held(h \union {b}, C, T, R \union {b}, S, Q)
         /\ Held(h \union {b}, C, T, R, S \union {b}, Q)
  BY DEF Held

LEMMA HeldCommit ==
  ASSUME NEW h, NEW C, NEW T, NEW R, NEW W, NEW O, NEW Q,
         Held(h, C, T, R, W \union O, Q), W \intersect O = {}
  PROVE  Held(h \ W, C, T, R, {}, O \union Q)
  BY DEF Held

\* The pointers g are those of f, but that n, which was NULL, points to b.
Grown(g, f, n, b) ==
  /\ DOMAIN g = DOMAIN f /\ n \in DOMAIN f /\ f[n] = NULL
  /\ b # NULL /\ g[n] = b
  /\ \A x \in DOMAIN f \ {n} : g[x] = f[x]

LEMMA BlocksGrow ==
  ASSUME NEW f, NEW g, NEW n, NEW b, Grown(g, f, n, b)
  PROVE  /\ BlocksIn(g) = BlocksIn(f) \union {b}
         /\ (b \notin BlocksIn(f) /\ Unshared(f)) => Unshared(g)
  <1>2. BlocksIn(g) = BlocksIn(f) \union {b}
    BY DEF Grown, BlocksIn
  <1>3. ASSUME b \notin BlocksIn(f), Unshared(f)
        PROVE  Unshared(g)
    <2>1. \A x \in DOMAIN f : f[x] # b
      BY <1>3 DEF Grown, BlocksIn
    <2>. QED  BY <1>3, <2>1 DEF Grown, Unshared
  <1>. QED  BY <1>2, <1>3

\* Nothing is held by pointers that are all NULL.
LEMMA NoneHeld ==
  /\ \A f : (\A x \in DOMAIN f : f[x] = NULL) => BlocksIn(f) = {} /\ Unshared(f)
  /\ BlocksIn(NoBlocks) = {} /\ Unshared(NoBlocks)
  /\ BlocksIn(NoTemp) = {} /\ Unshared(NoTemp)
  /\ \A a \in ArrayNames : NoBlocks[a] = NULL
  /\ \A n \in TempNames : NoTemp[n] = NULL
  BY DEF BlocksIn, Unshared, NoBlocks, NoTemp

\* A block that calloc returns is not in use.
LEMMA FreshIsFree ==
  ASSUME CanAllocate
  PROVE  FreshBlock \in Addr /\ FreshBlock \notin heap /\ FreshBlock # NULL
  BY EnvironmentAssumption DEF CanAllocate, FreshBlock

\* Outside its steps a call has all its blocks ahead.
LEMMA AheadElsewhere ==
  /\ \A point : point \notin SubmitPoints => SubmitAhead(point) = TempNames
  /\ \A point : point \notin InstallPoints => InstallAhead(point) = ArrayNames
  /\ SubmitAhead("admit") = TempNames /\ SubmitAhead("candidates") = TempNames
  /\ InstallAhead("validators") = ArrayNames
  BY DEF SubmitAhead, InstallAhead, SubmitPoints, InstallPoints, TempNames,
         OwnedNames, ArrayNames

\* The blocks of the requests after the list has changed.
LEMMA SameRequests ==
  ASSUME RequestsUnshared, UNCHANGED requests
  PROVE  RequestsUnshared' /\ RequestBlocks' = RequestBlocks
  BY DEF RequestsUnshared, RequestBlocks, BlocksIn

\* A step that moves no block.
LEMMA NothingMoves ==
  ASSUME IInv, Memory,
         UNCHANGED <<heap, client, topology, replacement, temp, requests>>,
         SubmitAhead(pc') \subseteq SubmitAhead(pc),
         InstallAhead(pc') \subseteq InstallAhead(pc)
  PROVE  Memory'
  <1>1. AheadIsNull'
    BY DEF Memory, AheadIsNull
  <1>2. RequestsUnshared' /\ RequestBlocks' = RequestBlocks
    BY SameRequests DEF Memory
  <1>3. HeapIsHeld'
    BY <1>2 DEF Memory, HeapIsHeld, BlocksIn
  <1>. QED  BY <1>1, <1>2, <1>3 DEF Memory, Unshared

----------------------------------------------------------------------------
(* Calls and installs *)

\* At rest nothing is held by a call.
LEMMA NothingInProgress ==
  ASSUME IInv, AheadIsNull
  PROVE  /\ pc \notin InstallPoints =>
              BlocksIn(replacement) = {} /\ \A a \in ArrayNames : replacement[a] = NULL
         /\ pc \notin SubmitPoints =>
              BlocksIn(temp) = {} /\ \A n \in TempNames : temp[n] = NULL
  <1>1. DOMAIN replacement = ArrayNames /\ DOMAIN temp = TempNames
    BY DEF IInv, TypeOK
  <1>. QED  BY <1>1, AheadElsewhere, NoneHeld DEF AheadIsNull

LEMMA CreateMemory ==
  ASSUME IInv, Memory, Create
  PROVE  Memory'
  <1>1. /\ pc = "idle" /\ pc' = "idle" /\ client = NULL
        /\ UNCHANGED <<topology, replacement, temp, requests>>
    BY DEF Create, Return, install_vars, submit_vars
  <1>2. CASE UNCHANGED <<client, heap>>
    BY <1>1, <1>2, NothingMoves
  <1>3. CASE /\ CanAllocate /\ client' = FreshBlock
             /\ heap' = heap \union {FreshBlock}
    <2>1. FreshBlock \notin heap /\ FreshBlock # NULL
      BY <1>3, FreshIsFree
    <2>2. Held(heap, {}, BlocksIn(topology.blocks), BlocksIn(replacement),
               BlocksIn(temp), RequestBlocks)
      BY <1>1 DEF Memory, HeapIsHeld
    <2>3. Held(heap', {} \union {FreshBlock}, BlocksIn(topology.blocks),
               BlocksIn(replacement), BlocksIn(temp), RequestBlocks)
      BY <1>3, <2>1, <2>2, HeldMore
    <2>4. {} \union {FreshBlock} = {client'} \ {NULL}
      BY <1>3, <2>1
    <2>5. RequestsUnshared' /\ RequestBlocks' = RequestBlocks
      BY <1>1, SameRequests DEF Memory
    <2>6. HeapIsHeld'
      BY <1>1, <2>3, <2>4, <2>5 DEF HeapIsHeld, BlocksIn
    <2>. QED  BY <1>1, <2>5, <2>6 DEF Memory, AheadIsNull, Unshared
  <1>. QED  BY <1>2, <1>3 DEF Create

LEMMA DestroyMemory ==
  ASSUME IInv, Memory, Destroy
  PROVE  Memory'
  <1>1. /\ pc = "idle" /\ pc' = "idle" /\ client # NULL /\ client' = NULL
        /\ topology' = NoTopology /\ requests' = << >>
        /\ UNCHANGED <<replacement, temp>>
        /\ heap' = heap \ (RequestBlocks \union BlocksIn(topology.blocks)
                             \union {client})
    BY DEF Destroy, Destroyed, Ready, Return, install_vars, submit_vars
  <1>2. {client} = {client} \ {NULL}
    BY <1>1
  <1>3. Held(heap', {}, {}, BlocksIn(replacement), BlocksIn(temp), {})
    BY <1>1, <1>2, HeldStep DEF Memory, HeapIsHeld
  <1>4. topology'.blocks = NoBlocks
    BY <1>1 DEF NoTopology
  <1>5. /\ BlocksIn(topology'.blocks) = {} /\ Unshared(topology'.blocks)
        /\ RequestBlocks' = {} /\ RequestsUnshared'
    BY <1>1, <1>4, NoneHeld DEF RequestBlocks, RequestsUnshared
  <1>6. HeapIsHeld'
    BY <1>1, <1>3, <1>5 DEF HeapIsHeld, BlocksIn
  <1>. QED  BY <1>1, <1>5, <1>6 DEF Memory, AheadIsNull, Unshared

\* A call that only starts, or that returns at once, moves no block.
LEMMA CallMemory ==
  ASSUME IInv, Memory, Call
  PROVE  Memory'
  <1>1. ASSUME NEW t \in Snapshots, Install(t)
        PROVE  Memory'
    <2>1. /\ pc = "idle" /\ pc' \in {"idle", "validators"}
          /\ UNCHANGED <<heap, client, topology, replacement, temp, requests>>
      BY <1>1
         DEF Install, Ready, Return, Continue, client_vars, submit_vars
    <2>2. /\ pc \notin InstallPoints /\ pc \notin SubmitPoints
          /\ pc' \notin SubmitPoints
      BY <2>1 DEF InstallPoints, SubmitPoints, TempNames, OwnedNames, ArrayNames
    <2>. QED  BY <2>1, <2>2, NothingMoves, AheadElsewhere
  <1>2. ASSUME NEW bytes, NEW o, Submit(bytes, o)
        PROVE  Memory'
    <2>1. /\ pc = "idle" /\ pc' \in {"idle", "admit"}
          /\ UNCHANGED <<heap, client, topology, replacement, temp, requests>>
      BY <1>2
         DEF Submit, Ready, Return, Continue, client_vars, install_vars
    <2>2. /\ pc \notin InstallPoints /\ pc \notin SubmitPoints
          /\ pc' \notin InstallPoints
      BY <2>1 DEF InstallPoints, SubmitPoints, TempNames, OwnedNames, ArrayNames
    <2>. QED  BY <2>1, <2>2, NothingMoves, AheadElsewhere
  <1>3. ASSUME NEW room \in 0 .. MaxRoom, NEW layout_ok \in BOOLEAN,
               Poll(room, layout_ok)
        PROVE  Memory'
    <2>1. /\ pc = "idle" /\ pc' = "idle"
          /\ UNCHANGED <<heap, client, topology, replacement, temp, requests>>
      BY <1>3 DEF Poll, Ready, Return, install_vars, submit_vars
    <2>. QED  BY <2>1, NothingMoves
  <1>. QED  BY <1>1, <1>2, <1>3, CreateMemory, DestroyMemory DEF Call

\* An install that fails gives back what it has copied.
LEMMA FailInstallMemory ==
  ASSUME IInv, Memory, NEW status, FailInstall(status), pc \in InstallPoints,
         UNCHANGED <<client, topology, temp, requests>>
  PROVE  Memory'
  <1>1. /\ pc' = "idle" /\ heap' = heap \ BlocksIn(replacement)
        /\ replacement' = NoBlocks
    BY DEF FailInstall, Return
  <1>2. Held(heap', {client} \ {NULL}, BlocksIn(topology.blocks), {},
             BlocksIn(temp), RequestBlocks)
    BY <1>1, HeldStep DEF Memory, HeapIsHeld
  <1>3. RequestsUnshared' /\ RequestBlocks' = RequestBlocks
    BY SameRequests DEF Memory
  <1>4. BlocksIn(replacement') = {} /\ Unshared(replacement')
    BY <1>1, NoneHeld
  <1>5. HeapIsHeld'
    BY <1>2, <1>3, <1>4 DEF HeapIsHeld, BlocksIn
  <1>6. pc \notin SubmitPoints /\ pc' \notin SubmitPoints
    BY <1>1 DEF InstallPoints, SubmitPoints, TempNames, OwnedNames, ArrayNames
  <1>7. AheadIsNull'
    <2>1. \A n \in TempNames : temp[n] = NULL
      BY <1>6, NothingInProgress DEF Memory
    <2>2. \A n \in SubmitAhead(pc') : temp'[n] = NULL
      BY <1>6, <2>1, AheadElsewhere
    <2>3. \A a \in InstallAhead(pc') : replacement'[a] = NULL
      <3>1. InstallAhead(pc') = ArrayNames
        BY <1>1, AheadElsewhere DEF InstallPoints, ArrayNames
      <3>. QED  BY <1>1, <3>1, NoneHeld
    <2>. QED  BY <2>2, <2>3 DEF AheadIsNull
  <1>. QED  BY <1>3, <1>4, <1>5, <1>7 DEF Memory, Unshared

LEMMA CloneMemory ==
  ASSUME IInv, Memory, NEW array \in ArrayNames, CloneArray(array)
  PROVE  Memory'
  <1>1. /\ pc = array /\ pc \in InstallPoints
        /\ UNCHANGED <<client, topology, temp, requests>>
    BY DEF CloneArray, client_vars, submit_vars, InstallPoints
  <1>2. /\ array \in InstallAhead(array)
        /\ InstallAhead(AfterClone(array)) = InstallAhead(array) \ {array}
        /\ array \notin SubmitPoints /\ AfterClone(array) \notin SubmitPoints
        /\ InstallAhead(array) \subseteq ArrayNames
    BY DEF AfterClone, InstallAhead, ArrayNames, SubmitPoints, TempNames,
           OwnedNames
  <1>3. CASE /\ pc' = AfterClone(array) /\ UNCHANGED <<replacement, heap>>
    BY <1>1, <1>2, <1>3, NothingMoves, AheadElsewhere
  <1>4. CASE FailInstall("RESOURCE_EXHAUSTED")
    BY <1>1, <1>4, FailInstallMemory
  <1>5. CASE /\ CanAllocate /\ pc' = AfterClone(array)
             /\ replacement' = [replacement EXCEPT ![array] = FreshBlock]
             /\ heap' = heap \union {FreshBlock}
    <2>1. FreshBlock \in Addr /\ FreshBlock \notin heap
      BY <1>5, FreshIsFree
    <2>2. /\ replacement \in [ArrayNames -> Addr \union {NULL}]
          /\ replacement[array] = NULL
      BY <1>1, <1>2 DEF Memory, AheadIsNull, IInv, TypeOK
    <2>3. FreshBlock \notin BlocksIn(replacement)
      BY <2>1 DEF Memory, HeapIsHeld, Held
    <2>4. /\ BlocksIn(replacement') = BlocksIn(replacement) \union {FreshBlock}
          /\ Unshared(replacement')
      <3>1. Grown(replacement', replacement, array, FreshBlock)
        BY <1>5, <2>1, <2>2, EnvironmentAssumption DEF Grown
      <3>. QED  BY <2>3, <3>1, BlocksGrow DEF Memory
    <2>5. Held(heap', {client} \ {NULL}, BlocksIn(topology.blocks),
               BlocksIn(replacement'), BlocksIn(temp), RequestBlocks)
      BY <1>5, <2>1, <2>4 DEF Memory, HeapIsHeld, Held
    <2>6. RequestsUnshared' /\ RequestBlocks' = RequestBlocks
      BY <1>1, SameRequests DEF Memory
    <2>7. HeapIsHeld'
      BY <1>1, <2>5, <2>6 DEF HeapIsHeld, BlocksIn
    <2>8. AheadIsNull'
      <3>1. \A a \in InstallAhead(pc') : replacement'[a] = NULL
        BY <1>1, <1>2, <1>5, <2>2 DEF Memory, AheadIsNull
      <3>2. \A n \in SubmitAhead(pc') : temp'[n] = NULL
        BY <1>1, <1>2, <1>5, AheadElsewhere DEF Memory, AheadIsNull
      <3>. QED  BY <3>1, <3>2 DEF AheadIsNull
    <2>. QED  BY <1>1, <2>4, <2>6, <2>7, <2>8 DEF Memory, Unshared
  <1>. QED  BY <1>3, <1>4, <1>5 DEF CloneArray, Continue

\* The old copy is freed and its place holds the new one.
LEMMA SwapMemory ==
  ASSUME IInv, Memory, NEW t \in Times, Swap(t)
  PROVE  Memory'
  <1>1. /\ pc = "receipt" /\ pc' = "idle"
        /\ heap' = heap \ BlocksIn(topology.blocks)
        /\ topology' = [view |-> source, received |-> t, blocks |-> replacement]
        /\ replacement' = NoBlocks
        /\ UNCHANGED <<client, temp, requests>>
    BY DEF Swap, Return, submit_vars
  <1>2. topology'.blocks = replacement
    BY <1>1
  <1>3. Held(heap', {client} \ {NULL}, BlocksIn(replacement), {},
             BlocksIn(temp), RequestBlocks)
    BY <1>1, HeldStep DEF Memory, HeapIsHeld
  <1>4. RequestsUnshared' /\ RequestBlocks' = RequestBlocks
    BY <1>1, SameRequests DEF Memory
  <1>5. BlocksIn(replacement') = {} /\ Unshared(replacement')
    BY <1>1, NoneHeld
  <1>6. HeapIsHeld'
    BY <1>1, <1>2, <1>3, <1>4, <1>5 DEF HeapIsHeld, BlocksIn
  <1>7. AheadIsNull'
    <2>1. pc \notin SubmitPoints /\ pc' \notin SubmitPoints
          /\ pc' \notin InstallPoints
      BY <1>1
         DEF InstallPoints, SubmitPoints, TempNames, OwnedNames, ArrayNames
    <2>. QED  BY <1>1, <2>1, AheadElsewhere, NoneHeld DEF Memory, AheadIsNull
  <1>. QED  BY <1>1, <1>2, <1>4, <1>5, <1>6, <1>7 DEF Memory, Unshared

LEMMA InstallMemory ==
  ASSUME IInv, Memory, InstallStep
  PROVE  Memory'
  <1>1. CASE ReceiptFails
    <2>1. /\ pc \in InstallPoints /\ \E error : FailInstall(error)
          /\ UNCHANGED <<client, topology, temp, requests>>
      BY <1>1 DEF ReceiptFails, client_vars, submit_vars, InstallPoints
    <2>. QED  BY <2>1, FailInstallMemory
  <1>. QED  BY <1>1, CloneMemory, SwapMemory DEF InstallStep

----------------------------------------------------------------------------
(* Submissions *)

\* A submission that fails gives back every block it has allocated.
LEMMA FailSubmitMemory ==
  ASSUME IInv, Memory, pc \in SubmitPoints, NEW status, status # "OK",
         NEW id, EndSubmit(status, id),
         UNCHANGED <<client, topology, replacement, requests>>
  PROVE  Memory'
  <1>1. /\ pc' = "idle" /\ heap' = heap \ BlocksIn(temp) /\ temp' = NoTemp
    BY DEF EndSubmit, Return, CleanedUp
  <1>2. Held(heap', {client} \ {NULL}, BlocksIn(topology.blocks),
             BlocksIn(replacement), {}, RequestBlocks)
    BY <1>1, HeldStep DEF Memory, HeapIsHeld
  <1>3. RequestsUnshared' /\ RequestBlocks' = RequestBlocks
    BY SameRequests DEF Memory
  <1>4. BlocksIn(temp') = {} /\ Unshared(temp')
    BY <1>1, NoneHeld
  <1>5. HeapIsHeld'
    BY <1>2, <1>3, <1>4 DEF HeapIsHeld, BlocksIn
  <1>6. AheadIsNull'
    <2>1. pc \notin InstallPoints /\ pc' \notin InstallPoints
          /\ pc' \notin SubmitPoints
      BY <1>1
         DEF InstallPoints, SubmitPoints, TempNames, OwnedNames, ArrayNames
    <2>. QED  BY <1>1, <2>1, AheadElsewhere, NoneHeld DEF Memory, AheadIsNull
  <1>. QED  BY <1>3, <1>4, <1>5, <1>6 DEF Memory, Unshared

\* A submission that goes on keeps the block it has allocated.
LEMMA AllocateMemory ==
  ASSUME IInv, Memory, NEW name \in TempNames, NEW outcome, NEW next,
         NEW locals, NEW numbers, NEW written,
         Allocate(name, outcome, next, locals, numbers, written),
         pc' \in SubmitPoints,
         name \in SubmitAhead(name),
         SubmitAhead(next) \subseteq SubmitAhead(name) \ {name}
  PROVE  Memory'
  <1>1. /\ pc = name /\ pc \in SubmitPoints
        /\ UNCHANGED <<client, topology, replacement, requests>>
    BY DEF Allocate, SubmitPoints, client_vars, install_vars
  <1>2. /\ CanAllocate /\ pc' = next
        /\ temp' = [temp EXCEPT ![name] = FreshBlock]
        /\ heap' = heap \union {FreshBlock}
    <2>1. pc' # "idle"
      BY DEF SubmitPoints, TempNames, OwnedNames
    <2>2. \A status, id : ~EndSubmit(status, id)
      BY <2>1 DEF EndSubmit, Return
    <2>. QED  BY <2>2 DEF Allocate, Continue
  <1>3. FreshBlock \in Addr /\ FreshBlock \notin heap
    BY <1>2, FreshIsFree
  <1>4. temp \in [TempNames -> Addr \union {NULL}] /\ temp[name] = NULL
    BY <1>1 DEF Memory, AheadIsNull, IInv, TypeOK
  <1>5. FreshBlock \notin BlocksIn(temp)
    BY <1>3 DEF Memory, HeapIsHeld, Held
  <1>6. /\ BlocksIn(temp') = BlocksIn(temp) \union {FreshBlock}
        /\ Unshared(temp')
    <2>1. Grown(temp', temp, name, FreshBlock)
      BY <1>2, <1>3, <1>4, EnvironmentAssumption DEF Grown
    <2>. QED  BY <1>5, <2>1, BlocksGrow DEF Memory
  <1>7. Held(heap', {client} \ {NULL}, BlocksIn(topology.blocks),
             BlocksIn(replacement), BlocksIn(temp'), RequestBlocks)
    BY <1>2, <1>3, <1>6 DEF Memory, HeapIsHeld, Held
  <1>8. RequestsUnshared' /\ RequestBlocks' = RequestBlocks
    BY <1>1, SameRequests DEF Memory
  <1>9. HeapIsHeld'
    BY <1>1, <1>7, <1>8 DEF HeapIsHeld, BlocksIn
  <1>10. AheadIsNull'
    <2>1. pc \notin InstallPoints /\ pc' \notin InstallPoints
      BY <1>1 DEF InstallPoints, SubmitPoints, TempNames, OwnedNames, ArrayNames
    <2>2. \A a \in InstallAhead(pc') : replacement'[a] = NULL
      BY <1>1, <2>1, AheadElsewhere DEF Memory, AheadIsNull
    <2>3. \A n \in SubmitAhead(pc') : temp'[n] = NULL
      <3>1. \A n \in SubmitAhead(name) : n \in TempNames
        BY DEF SubmitAhead, TempNames, OwnedNames
      <3>2. \A n \in SubmitAhead(name) : temp[n] = NULL
        BY <1>1 DEF Memory, AheadIsNull
      <3>. QED  BY <1>2, <1>4, <3>1, <3>2
    <2>. QED  BY <2>2, <2>3 DEF AheadIsNull
  <1>. QED  BY <1>1, <1>6, <1>8, <1>9, <1>10 DEF Memory, Unshared

\* Every allocation of a submission that goes on.
LEMMA GoesOnMemory ==
  ASSUME IInv, Memory, SubmitStep, pc' \in SubmitPoints
  PROVE  Memory'
  <1>1. CASE Admit
    <2>1. pc' # "idle"
      BY DEF SubmitPoints, TempNames, OwnedNames
    <2>2. \A status, id : ~EndSubmit(status, id)
      BY <2>1 DEF EndSubmit, Return
    <2>3. /\ pc = "admit" /\ pc' = "candidates"
          /\ UNCHANGED <<heap, client, topology, replacement, temp, requests>>
      BY <1>1, <2>2 DEF Admit, Continue, client_vars, install_vars
    <2>4. pc \notin InstallPoints /\ pc' \notin InstallPoints
      BY <2>3 DEF InstallPoints, ArrayNames
    <2>. QED  BY <2>3, <2>4, NothingMoves, AheadElsewhere
  <1>2. CASE AllocateCandidates
    <2>1. "candidates" \in TempNames
      BY DEF TempNames
    <2>2. /\ "candidates" \in SubmitAhead("candidates")
          /\ SubmitAhead("routes") \subseteq SubmitAhead("candidates") \ {"candidates"}
      BY DEF SubmitAhead, TempNames, OwnedNames
    <2>. QED  BY <1>2, <2>1, <2>2, AllocateMemory DEF AllocateCandidates
  <1>3. CASE AllocateRoutes
    <2>1. "routes" \in TempNames
      BY DEF TempNames
    <2>2. /\ "routes" \in SubmitAhead("routes")
          /\ SubmitAhead("transaction_copy") \subseteq SubmitAhead("routes") \ {"routes"}
      BY DEF SubmitAhead, TempNames, OwnedNames
    <2>. QED  BY <1>3, <2>1, <2>2, AllocateMemory DEF AllocateRoutes
  <1>4. CASE AllocateTransaction
    <2>1. "transaction_copy" \in TempNames
      BY DEF TempNames, OwnedNames
    <2>2. /\ "transaction_copy" \in SubmitAhead("transaction_copy")
          /\ SubmitAhead("owned_targets")
               \subseteq SubmitAhead("transaction_copy") \ {"transaction_copy"}
      BY DEF SubmitAhead, TempNames, OwnedNames
    <2>. QED  BY <1>4, <2>1, <2>2, AllocateMemory DEF AllocateTransaction
  <1>5. CASE AllocateTargets
    <2>1. "owned_targets" \in TempNames
      BY DEF TempNames, OwnedNames
    <2>2. /\ "owned_targets" \in SubmitAhead("owned_targets")
          /\ SubmitAhead("request")
               \subseteq SubmitAhead("owned_targets") \ {"owned_targets"}
      BY DEF SubmitAhead
    <2>. QED  BY <1>5, <2>1, <2>2, AllocateMemory DEF AllocateTargets
  <1>6. CASE AllocateRequest
    <2>1. "request" \in TempNames
      BY DEF TempNames, OwnedNames
    <2>2. /\ "request" \in SubmitAhead("request")
          /\ SubmitAhead("accept") \subseteq SubmitAhead("request") \ {"request"}
      BY DEF SubmitAhead
    <2>. QED  BY <1>6, <2>1, <2>2, AllocateMemory DEF AllocateRequest
  <1>7. ~Accept
    <2>1. pc' # "idle"
      BY DEF SubmitPoints, TempNames, OwnedNames
    <2>. QED  BY <2>1 DEF Accept, EndSubmit, Return
  <1>. QED  BY <1>1, <1>2, <1>3, <1>4, <1>5, <1>6, <1>7 DEF SubmitStep

\* A commit hands the three owned blocks to the request and frees the rest.
LEMMA CommitMemory ==
  ASSUME IInv, Memory, pc = "accept", NEW t \in Times, Commit(t),
         UNCHANGED <<client, topology, replacement>>
  PROVE  Memory'
  <1>. DEFINE W == {temp["candidates"], temp["routes"]} \ {NULL}
              O == {temp["transaction_copy"], temp["owned_targets"],
                    temp["request"]}
  <1>1. /\ pc' = "idle" /\ heap' = heap \ W /\ temp' = NoTemp
    BY DEF Commit, EndSubmit, Return, CleanedUp
  <1>2. /\ temp["transaction_copy"] \in Addr
        /\ temp["owned_targets"] \in Addr /\ temp["request"] \in Addr
        /\ NULL \notin Addr /\ DOMAIN temp = TempNames
    BY EnvironmentAssumption DEF IInv, SubmitIsReady, TypeOK
  <1>3. BlocksIn(temp) = W \union O
    BY <1>2 DEF BlocksIn, TempNames, OwnedNames
  <1>4. W \intersect O = {}
    BY <1>2 DEF Memory, Unshared, TempNames, OwnedNames
  <1>5. /\ requests'[1] = NewRequest
        /\ Len(requests) \in Nat
        /\ DOMAIN requests = 1 .. Len(requests)
        /\ DOMAIN requests' = 1 .. Len(requests) + 1
        /\ \A i \in 2 .. Len(requests) + 1 : requests'[i] = requests[i - 1]
    BY CommitList
  <1>6. /\ DOMAIN NewRequest.blocks = OwnedNames
        /\ \A n \in OwnedNames : NewRequest.blocks[n] = temp[n]
    BY DEF NewRequest
  <1>7. BlocksIn(NewRequest.blocks) = O
    BY <1>2, <1>6 DEF BlocksIn, OwnedNames
  <1>. HIDE DEF W, O, NewRequest
  <1>8. RequestBlocks' = O \union RequestBlocks
    <2>1. RequestBlocks' = UNION {BlocksIn(requests'[i].blocks) :
                                    i \in DOMAIN requests'}
      BY DEF RequestBlocks, BlocksIn
    <2>2. ASSUME NEW b \in RequestBlocks'
          PROVE  b \in O \union RequestBlocks
      <3>1. PICK i \in DOMAIN requests' : b \in BlocksIn(requests'[i].blocks)
        BY <2>1, <2>2
      <3>2. CASE i = 1
        BY <1>5, <1>7, <3>1, <3>2
      <3>3. CASE i # 1
        <4>1. i \in 2 .. Len(requests) + 1 /\ i - 1 \in DOMAIN requests
          BY <1>5, <3>3
        <4>. QED  BY <1>5, <3>1, <4>1 DEF RequestBlocks
      <3>. QED  BY <3>2, <3>3
    <2>3. ASSUME NEW b \in RequestBlocks
          PROVE  b \in RequestBlocks'
      <3>1. PICK i \in DOMAIN requests : b \in BlocksIn(requests[i].blocks)
        BY <2>3 DEF RequestBlocks
      <3>2. /\ i + 1 \in 2 .. Len(requests) + 1 /\ i + 1 \in DOMAIN requests'
            /\ (i + 1) - 1 = i
        BY <1>5
      <3>3. requests'[i + 1] = requests[i]
        BY <1>5, <3>2
      <3>. QED  BY <2>1, <3>1, <3>2, <3>3
    <2>4. ASSUME NEW b \in O
          PROVE  b \in RequestBlocks'
      <3>1. 1 \in DOMAIN requests'
        BY <1>5
      <3>. QED  BY <1>5, <1>7, <2>1, <3>1
    <2>. QED  BY <2>2, <2>3, <2>4
  <1>9. Held(heap', {client} \ {NULL}, BlocksIn(topology.blocks),
             BlocksIn(replacement), {}, O \union RequestBlocks)
    <2>1. Held(heap, {client} \ {NULL}, BlocksIn(topology.blocks),
               BlocksIn(replacement), W \union O, RequestBlocks)
      BY <1>3 DEF Memory, HeapIsHeld
    <2>. QED  BY <1>1, <1>4, <2>1, HeldCommit
  <1>10. RequestsUnshared'
    <2>1. \A i \in DOMAIN requests, n \in OwnedNames :
            requests[i].blocks[n] \in RequestBlocks
      <3>. SUFFICES ASSUME NEW i \in DOMAIN requests, NEW n \in OwnedNames
           PROVE requests[i].blocks[n] \in RequestBlocks
        OBVIOUS
      <3>1. requests[i] \in Request
        BY <1>5, ElementOfSeq DEF IInv, TypeOK
      <3>2. requests[i].blocks \in [OwnedNames -> Addr]
        BY <3>1 DEF Request
      <3>3. requests[i].blocks[n] \in BlocksIn(requests[i].blocks)
        BY <1>2, <3>2 DEF BlocksIn
      <3>. QED  BY <3>3 DEF RequestBlocks
    <2>2. O \intersect RequestBlocks = {}
      BY <1>3 DEF Memory, HeapIsHeld, Held
    <2>3. \A m, n \in OwnedNames : temp[m] = temp[n] => m = n
      <3>1. \A n \in OwnedNames : temp[n] # NULL /\ n \in DOMAIN temp
        BY <1>2 DEF OwnedNames, TempNames
      <3>. QED  BY <3>1 DEF Memory, Unshared
    <2>4. \A n \in OwnedNames : temp[n] \in O
      BY DEF O, OwnedNames
    <2>5. ASSUME NEW i \in DOMAIN requests', NEW j \in DOMAIN requests',
                 NEW m \in OwnedNames, NEW n \in OwnedNames,
                 requests'[i].blocks[m] = requests'[j].blocks[n]
          PROVE  i = j /\ m = n
      <3>0. i \in 1 .. Len(requests) + 1 /\ j \in 1 .. Len(requests) + 1
        BY <1>5
      <3>1. CASE i = 1 /\ j = 1
        BY <1>5, <1>6, <2>3, <2>5, <3>1
      <3>2. CASE i = 1 /\ j # 1
        <4>1. j - 1 \in DOMAIN requests /\ requests'[j] = requests[j - 1]
          BY <1>5, <3>0, <3>2
        <4>. QED  BY <1>5, <1>6, <2>1, <2>2, <2>4, <2>5, <3>2, <4>1
      <3>3. CASE i # 1 /\ j = 1
        <4>1. i - 1 \in DOMAIN requests /\ requests'[i] = requests[i - 1]
          BY <1>5, <3>0, <3>3
        <4>. QED  BY <1>5, <1>6, <2>1, <2>2, <2>4, <2>5, <3>3, <4>1
      <3>4. CASE i # 1 /\ j # 1
        <4>1. /\ i - 1 \in DOMAIN requests /\ requests'[i] = requests[i - 1]
              /\ j - 1 \in DOMAIN requests /\ requests'[j] = requests[j - 1]
          BY <1>5, <3>0, <3>4
        <4>2. i - 1 = j - 1 /\ m = n
          BY <2>5, <4>1 DEF Memory, RequestsUnshared
        <4>. QED  BY <3>0, <4>2
      <3>. QED  BY <3>1, <3>2, <3>3, <3>4
    <2>. QED  BY <2>5 DEF RequestsUnshared
  <1>11. BlocksIn(temp') = {} /\ Unshared(temp')
    BY <1>1, NoneHeld
  <1>12. HeapIsHeld'
    BY <1>8, <1>9, <1>11 DEF HeapIsHeld, BlocksIn
  <1>13. AheadIsNull'
    <2>1. pc \notin InstallPoints /\ pc' \notin InstallPoints
          /\ pc' \notin SubmitPoints
      BY <1>1
         DEF InstallPoints, SubmitPoints, TempNames, OwnedNames, ArrayNames
    <2>. QED  BY <1>1, <2>1, AheadElsewhere, NoneHeld DEF Memory, AheadIsNull
  <1>. QED  BY <1>10, <1>11, <1>12, <1>13 DEF Memory, Unshared

\* Every step of a submission.
LEMMA SubmitMemory ==
  ASSUME PlanInv, Memory, SubmitStep
  PROVE  Memory'
  <1>1. IInv /\ SnapshotsAreValid /\ CandidatesArePlanned
    BY DEF PlanInv, Books
  <1>2. CASE NothingElse /\ Fails
    <2>1. PICK status, id : status # "OK" /\ EndSubmit(status, id)
      BY <1>2, EnvironmentAssumption DEF Fails, Failures
    <2>2. UNCHANGED <<client, topology, replacement, requests>>
      BY <1>2 DEF NothingElse, client_vars, install_vars
    <2>3. pc \in SubmitPoints
      BY DEF SubmitStep, Admit, AllocateCandidates, AllocateRoutes,
             AllocateTransaction, AllocateTargets, AllocateRequest, Allocate,
             Accept, SubmitPoints, TempNames, OwnedNames
    <2>. QED  BY <1>1, <2>1, <2>2, <2>3, FailSubmitMemory
  <1>3. CASE GoesOn
    BY <1>1, <1>3, GoesOnMemory DEF GoesOn
  <1>4. ASSUME pc = "accept", UNCHANGED <<client, topology, install_vars>>,
               NEW t \in Times, Commit(t)
        PROVE  Memory'
    BY <1>1, <1>4, CommitMemory DEF install_vars
  <1>. QED  BY <1>1, <1>2, <1>3, <1>4, SubmitStepCases

LEMMA StepMemory == PlanInv /\ Memory /\ [Next]_vars => Memory'
  <1>. SUFFICES ASSUME PlanInv, Memory, [Next]_vars  PROVE Memory'
    OBVIOUS
  <1>1. IInv
    BY DEF PlanInv, Books
  <1>2. CASE UNCHANGED vars
    <2>1. UNCHANGED <<heap, client, topology, replacement, temp, requests, pc>>
      BY <1>2 DEF vars, client_vars, install_vars, submit_vars
    <2>. QED  BY <1>1, <2>1, NothingMoves
  <1>. QED  BY <1>1, <1>2, CallMemory, InstallMemory, SubmitMemory DEF Next

LEMMA InitMemory == Init => Memory
  <1>. SUFFICES ASSUME Init  PROVE Memory
    OBVIOUS
  <1>1. /\ client = NULL /\ topology.blocks = NoBlocks /\ replacement = NoBlocks
        /\ temp = NoTemp /\ heap = {} /\ requests = << >> /\ pc = "idle"
    BY DEF Init, NoTopology
  <1>2. RequestsUnshared /\ RequestBlocks = {}
    BY <1>1 DEF RequestsUnshared, RequestBlocks
  <1>3. AheadIsNull
    <2>1. pc \notin InstallPoints /\ pc \notin SubmitPoints
      BY <1>1 DEF InstallPoints, SubmitPoints, TempNames, OwnedNames, ArrayNames
    <2>. QED  BY <1>1, <2>1, AheadElsewhere, NoneHeld DEF AheadIsNull
  <1>4. HeapIsHeld
    BY <1>1, <1>2, NoneHeld DEF HeapIsHeld, Held
  <1>. QED  BY <1>1, <1>2, <1>3, <1>4, NoneHeld DEF Memory

LEMMA MemoryInvariance == Spec => [](PlanInv /\ Memory)
  <1>1. Spec => []Memory
    BY PlanInvariance, InitMemory, StepMemory, PTL DEF Spec
  <1>. QED  BY <1>1, PlanInvariance, PTL

----------------------------------------------------------------------------
(* The places that hold a pointer. *)

ClientPointers      == {<<"client", client>>}
TopologyPointers    == {<<"topology", a, topology.blocks[a]>> : a \in ArrayNames}
ReplacementPointers == {<<"replacement", a, replacement[a]>> : a \in ArrayNames}
SubmitPointers      == {<<"submit", n, temp[n]>> : n \in TempNames}
RequestPointers     == {<<"request", i, n, requests[i].blocks[n]>> :
                          i \in DOMAIN requests, n \in OwnedNames}

\* The pointers of a place point to its blocks, each to one of its own.
Owns(place, blocks) ==
  /\ \A p \in place : Address(p) # NULL => Address(p) \in blocks
  /\ \A b \in blocks : b # NULL /\ \E p \in place : Address(p) = b
  /\ \A p, q \in place : Address(p) # NULL /\ Address(p) = Address(q) => p = q

\* The pointers of a function, each with its place.
LEMMA TaggedOwn ==
  ASSUME NEW tag, NEW f, NEW place, Unshared(f),
         place = {<<tag, x, f[x]>> : x \in DOMAIN f}
  PROVE  Owns(place, BlocksIn(f))
  <1>1. \A x \in DOMAIN f :
          <<tag, x, f[x]>> \in place /\ Address(<<tag, x, f[x]>>) = f[x]
    BY DEF Address
  <1>2. ASSUME NEW p \in place
        PROVE  \E x \in DOMAIN f : p = <<tag, x, f[x]>> /\ Address(p) = f[x]
    BY <1>1
  <1>. HIDE DEF Address
  <1>3. \A p \in place : Address(p) # NULL => Address(p) \in BlocksIn(f)
    BY <1>2 DEF BlocksIn
  <1>4. \A b \in BlocksIn(f) : b # NULL /\ \E p \in place : Address(p) = b
    <2>. SUFFICES ASSUME NEW b \in BlocksIn(f)
         PROVE  b # NULL /\ \E p \in place : Address(p) = b
      OBVIOUS
    <2>1. PICK x \in DOMAIN f : b = f[x] /\ b # NULL
      BY DEF BlocksIn
    <2>. QED  BY <1>1, <2>1
  <1>5. ASSUME NEW p \in place, NEW q \in place, Address(p) # NULL,
               Address(p) = Address(q)
        PROVE  p = q
    <2>1. PICK x \in DOMAIN f : p = <<tag, x, f[x]>> /\ Address(p) = f[x]
      BY <1>2
    <2>2. PICK y \in DOMAIN f : q = <<tag, y, f[y]>> /\ Address(q) = f[y]
      BY <1>2
    <2>3. x = y
      BY <1>5, <2>1, <2>2 DEF Unshared
    <2>. QED  BY <2>1, <2>2, <2>3
  <1>. QED  BY <1>3, <1>4, <1>5 DEF Owns

LEMMA PlacesOwn ==
  ASSUME IInv, Memory
  PROVE  /\ Owns(ClientPointers, {client} \ {NULL})
         /\ Owns(TopologyPointers, BlocksIn(topology.blocks))
         /\ Owns(ReplacementPointers, BlocksIn(replacement))
         /\ Owns(SubmitPointers, BlocksIn(temp))
         /\ Owns(RequestPointers, RequestBlocks)
  <1>1. ASSUME NEW a, NEW b
        PROVE  Address(<<a, b>>) = b
    BY DEF Address
  <1>2. ASSUME NEW a, NEW b, NEW c, NEW d
        PROVE  Address(<<a, b, c, d>>) = d
    BY DEF Address
  <1>4. /\ DOMAIN topology.blocks = ArrayNames /\ DOMAIN replacement = ArrayNames
        /\ DOMAIN temp = TempNames
    BY DEF IInv, TypeOK
  <1>5. Owns(ClientPointers, {client} \ {NULL})
    BY <1>1 DEF Owns, ClientPointers
  <1>6. Owns(TopologyPointers, BlocksIn(topology.blocks))
    BY <1>4, TaggedOwn DEF TopologyPointers, Memory
  <1>7. Owns(ReplacementPointers, BlocksIn(replacement))
    BY <1>4, TaggedOwn DEF ReplacementPointers, Memory
  <1>8. Owns(SubmitPointers, BlocksIn(temp))
    BY <1>4, TaggedOwn DEF SubmitPointers, Memory
  <1>9. Owns(RequestPointers, RequestBlocks)
    <2>1. \A i \in DOMAIN requests :
            /\ DOMAIN requests[i].blocks = OwnedNames
            /\ \A n \in OwnedNames : requests[i].blocks[n] # NULL
      <3>. SUFFICES ASSUME NEW i \in DOMAIN requests
           PROVE /\ DOMAIN requests[i].blocks = OwnedNames
                 /\ \A n \in OwnedNames : requests[i].blocks[n] # NULL
        OBVIOUS
      <3>1. requests \in Seq(Request) /\ DOMAIN requests = 1 .. Len(requests)
        BY LenProperties DEF IInv, TypeOK
      <3>2. requests[i] \in Request
        BY <3>1, ElementOfSeq
      <3>3. requests[i].blocks \in [OwnedNames -> Addr]
        BY <3>2 DEF Request
      <3>. QED  BY <3>3, EnvironmentAssumption
    <2>2. \A p \in RequestPointers : Address(p) # NULL => Address(p) \in RequestBlocks
      BY <1>2, <2>1 DEF RequestPointers, RequestBlocks, BlocksIn
    <2>3. \A b \in RequestBlocks : b # NULL /\ \E p \in RequestPointers : Address(p) = b
      <3>. SUFFICES ASSUME NEW b \in RequestBlocks
           PROVE  b # NULL /\ \E p \in RequestPointers : Address(p) = b
        OBVIOUS
      <3>1. PICK i \in DOMAIN requests : b \in BlocksIn(requests[i].blocks)
        BY DEF RequestBlocks
      <3>2. PICK n \in OwnedNames : b = requests[i].blocks[n] /\ b # NULL
        BY <2>1, <3>1 DEF BlocksIn
      <3>3. <<"request", i, n, requests[i].blocks[n]>> \in RequestPointers
        BY DEF RequestPointers
      <3>. QED  BY <1>2, <3>2, <3>3
    <2>4. \A p, q \in RequestPointers : Address(p) = Address(q) => p = q
      BY <1>2 DEF RequestPointers, Memory, RequestsUnshared
    <2>. QED  BY <2>2, <2>3, <2>4 DEF Owns
  <1>. QED  BY <1>5, <1>6, <1>7, <1>8, <1>9

\* Pointers of different places point to different blocks.
LEMMA PlacesAreApart ==
  ASSUME NEW h, NEW C, NEW T, NEW R, NEW S, NEW Q, Held(h, C, T, R, S, Q),
         NEW pC, NEW pT, NEW pR, NEW pS, NEW pQ,
         Owns(pC, C), Owns(pT, T), Owns(pR, R), Owns(pS, S), Owns(pQ, Q),
         NEW live, live = {p \in pC \union pT \union pR \union pS \union pQ :
                             Address(p) # NULL}
  PROVE  /\ {Address(p) : p \in live} = h
         /\ \A p, q \in live : Address(p) = Address(q) => p = q
  <1>1. ASSUME NEW p \in live  PROVE Address(p) \in h
    BY DEF Owns, Held
  <1>2. ASSUME NEW b \in h  PROVE \E p \in live : Address(p) = b
    BY DEF Owns, Held
  <1>3. ASSUME NEW p \in live, NEW q \in live, Address(p) = Address(q)
        PROVE  p = q
    <2>1. CASE p \in pC
      BY <1>3, <2>1 DEF Owns, Held
    <2>2. CASE p \in pT
      BY <1>3, <2>2 DEF Owns, Held
    <2>3. CASE p \in pR
      BY <1>3, <2>3 DEF Owns, Held
    <2>4. CASE p \in pS
      BY <1>3, <2>4 DEF Owns, Held
    <2>5. CASE p \in pQ
      BY <1>3, <2>5 DEF Owns, Held
    <2>. QED  BY <2>1, <2>2, <2>3, <2>4, <2>5
  <1>. QED  BY <1>1, <1>2, <1>3

LEMMA MemoryIsOwned ==
  ASSUME IInv, Memory
  PROVE  EveryBlockHasOneOwner
  <1>1. LivePointers = {p \in ClientPointers \union TopologyPointers
                               \union ReplacementPointers \union SubmitPointers
                               \union RequestPointers : Address(p) # NULL}
    BY DEF LivePointers, Pointers, ClientPointers, TopologyPointers,
           ReplacementPointers, SubmitPointers, RequestPointers
  <1>2. Held(heap, {client} \ {NULL}, BlocksIn(topology.blocks),
             BlocksIn(replacement), BlocksIn(temp), RequestBlocks)
    BY DEF Memory, HeapIsHeld
  <1>. QED  BY <1>1, <1>2, PlacesOwn, PlacesAreApart DEF EveryBlockHasOneOwner

\* On every path of every call, failing ones included, every block that calloc
\* returned and free did not take back is held by exactly one place: nothing
\* leaks, nothing is freed twice and no two owners share a block
\* (solana_delivery.c:735-788, solana_delivery_submission.c:431-460).
THEOREM MemoryIsSafe == Spec => []EveryBlockHasOneOwner
  <1>1. PlanInv /\ Memory => EveryBlockHasOneOwner
    BY MemoryIsOwned DEF PlanInv, Books
  <1>. QED  BY <1>1, MemoryInvariance, PTL

\* Without a topology there is no copy of one.
NoCopyUnused == ~has_topology => topology = NoTopology

LEMMA CopyInvariance == Spec => []NoCopyUnused
  <1>1. Init => NoCopyUnused
    BY DEF Init, NoCopyUnused
  <1>2. NoCopyUnused /\ [Next]_vars => NoCopyUnused'
    <2>. SUFFICES ASSUME NoCopyUnused, [Next]_vars
                  PROVE  NoCopyUnused'
      OBVIOUS
    <2>1. ASSUME NEW t \in Times, Swap(t)
          PROVE  has_topology' = TRUE
      BY <2>1 DEF Swap
    <2>. QED  BY <2>1, TopologyStep DEF NoCopyUnused
  <1>. QED  BY <1>1, <1>2, PTL DEF Spec

\* Between calls only the client, its copy of the topology and its requests
\* have memory: whatever a call used it has freed or handed to one of them.
OnlyTheClientHolds ==
  pc = "idle" =>
    heap = ({client} \ {NULL}) \union BlocksIn(topology.blocks)
             \union RequestBlocks

\* A call leaves no block behind but what the client keeps, and destroy leaves
\* none at all: everything that was allocated in the life of a client is freed
\* with it (solana_delivery.c:735-740, solana_delivery_submission.c:431-460).
THEOREM NothingOutlivesTheClient ==
  Spec => [](OnlyTheClientHolds /\ (client = NULL => heap = {}))
  <1>1. PlanInv /\ Memory => OnlyTheClientHolds
    <2>. SUFFICES ASSUME PlanInv, Memory, pc = "idle"
                  PROVE  heap = ({client} \ {NULL}) \union BlocksIn(topology.blocks)
                                  \union RequestBlocks
      BY DEF OnlyTheClientHolds
    <2>1. pc \notin InstallPoints /\ pc \notin SubmitPoints
      BY DEF InstallPoints, SubmitPoints, ArrayNames, TempNames, OwnedNames
    <2>2. BlocksIn(replacement) = {} /\ BlocksIn(temp) = {}
      BY <2>1, NothingInProgress DEF PlanInv, Books, Memory
    <2>. QED  BY <2>2 DEF Memory, HeapIsHeld, Held
  <1>2. PlanInv /\ NoCopyUnused /\ OnlyTheClientHolds =>
          (client = NULL => heap = {})
    <2>. SUFFICES ASSUME PlanInv, NoCopyUnused, OnlyTheClientHolds, client = NULL
                  PROVE  heap = {}
      OBVIOUS
    <2>1. pc = "idle" /\ topology = NoTopology /\ requests = << >>
      BY DEF PlanInv, Books, IInv, ClientIsThere, NoCopyUnused
    <2>2. BlocksIn(topology.blocks) = {} /\ RequestBlocks = {}
      BY <2>1 DEF BlocksIn, NoTopology, NoBlocks, RequestBlocks
    <2>. QED  BY <2>1, <2>2 DEF OnlyTheClientHolds
  <1>. QED  BY <1>1, <1>2, MemoryInvariance, CopyInvariance, PTL

\* The blocks of a submission that are not ahead of it hold what is planned.
LEMMA PlannedFits ==
  ASSUME PlanInv, Memory
  PROVE  ScratchFits
  <1>1. IInv /\ SnapshotsAreValid /\ CandidatesArePlanned /\ AheadIsNull
    BY DEF PlanInv, Books, Memory
  <1>2. CASE pc \notin SubmitPoints
    <2>1. \A n \in TempNames : temp[n] = NULL
      BY <1>1, <1>2, NothingInProgress
    <2>. QED  BY <2>1 DEF ScratchFits, TempNames, OwnedNames
  <1>3. CASE pc \in SubmitPoints
    <2>. DEFINE t == topology.view
                limit == submission.target_limit
    <2>1. /\ Len(Found(t)) = FoundCount(t)
          /\ Len(Routes(t, limit)) = Chosen(t, limit)
          /\ Len(PlanOf(t, limit)) = Chosen(t, limit)
      BY <1>1, <1>3, PlanPremises, PlanCountsAgree
    <2>. HIDE DEF t, limit
    <2>2. ASSUME temp["candidates"] # NULL
          PROVE  Len(scratch.candidates) = counts.candidate_count
      <3>1. pc \notin {"admit", "candidates"}
        BY <1>1, <2>2 DEF AheadIsNull, SubmitAhead, TempNames
      <3>. QED  BY <1>1, <1>3, <2>1, <3>1 DEF CandidatesArePlanned, t
    <2>3. ASSUME temp["routes"] # NULL
          PROVE  Len(scratch.routes) = counts.target_count
      <3>1. pc \notin {"admit", "candidates", "routes"}
        BY <1>1, <2>3 DEF AheadIsNull, SubmitAhead, TempNames
      <3>. QED  BY <1>1, <1>3, <2>1, <3>1 DEF CandidatesArePlanned, t, limit
    <2>4. ASSUME temp["owned_targets"] # NULL
          PROVE  Len(submission.targets) = counts.target_count
      <3>1. pc \in {"request", "accept"}
        BY <1>1, <1>3, <2>4
           DEF AheadIsNull, SubmitAhead, TempNames, OwnedNames, SubmitPoints
      <3>. QED  BY <1>1, <1>3, <2>1, <3>1 DEF CandidatesArePlanned, t, limit
    <2>. QED  BY <2>2, <2>3, <2>4 DEF ScratchFits
  <1>. QED  BY <1>2, <1>3

\* What the writing passes write is, for snapshots of every size, exactly as
\* long as the block allocated from what the counting passes returned
\* (solana_delivery_resolution.c:110-147, solana_delivery_route.c:97-117).
THEOREM WritesFit == Spec => []ScratchFits
  BY MemoryInvariance, PlannedFits, PTL

----------------------------------------------------------------------------
(* Times *)

\* With a clock that never goes backwards, everything recorded lies before
\* what the clock may still return, and events come in the order of their
\* times.
ClockIsAhead ==
  MonotonicClock =>
    /\ topology.received <= clock_floor
    /\ \A k \in DOMAIN EventLog : EventLog[k].monotonic_time_ns <= clock_floor

EventsFollowTheClock ==
  MonotonicClock =>
    \A j, k \in DOMAIN EventLog :
      j < k => EventLog[j].monotonic_time_ns <= EventLog[k].monotonic_time_ns

\* With any clock, a request was accepted no earlier than its snapshot was
\* received: an acceptance time before the receipt is refused.
AcceptedAfterReceipt ==
  \A r \in DOMAIN requests, k \in DOMAIN EventLog, s \in DOMAIN installed :
    (/\ EventLog[k].request_id = requests[r].request_id
     /\ installed[s].view.generation = requests[r].topology_generation)
    => installed[s].received <= EventLog[k].monotonic_time_ns

TimesInv == ClockIsAhead /\ EventsFollowTheClock /\ AcceptedAfterReceipt

\* What the clock may return moves only forward.
FloorRises ==
  /\ clock_floor \in Times /\ clock_floor' \in Times
  /\ MonotonicClock => clock_floor <= clock_floor'

LEMMA ReadClockRises ==
  ASSUME IInv, NEW t \in Times, ReadClock(t)
  PROVE  FloorRises /\ (MonotonicClock => clock_floor' = t)
  <1>1. clock_floor \in Times /\ \A u \in Times : u \in Nat
    BY BoundsAssumption DEF IInv, TypeOK, Times
  <1>. QED  BY <1>1 DEF ReadClock, FloorRises

\* The steps of a client, seen from the times it records.
LEMMA TimesStep ==
  ASSUME IInv, [Next]_vars
  PROVE  \/ /\ UNCHANGED <<requests, topology, installed>>
            /\ EventLog' = EventLog /\ FloorRises
         \/ /\ requests' = << >> /\ EventLog' = << >> /\ topology' = NoTopology
            /\ clock_floor' = clock_floor
         \/ /\ UNCHANGED requests /\ EventLog' = EventLog
            /\ \E t \in Times : Swap(t)
         \/ /\ pc = "accept" /\ UNCHANGED <<topology, installed, polled>>
            /\ \E t \in Times :
                 t >= topology.received /\ ReadClock(t) /\ Commit(t)
  <1>0. clock_floor \in Times /\ \A u \in Times : u \in Nat
    BY BoundsAssumption DEF IInv, TypeOK, Times
  <1>1. ASSUME UNCHANGED <<event_queue, polled>>
        PROVE  EventLog' = EventLog
    BY <1>1 DEF EventLog, Contents, Oldest
  <1>2. ASSUME UNCHANGED clock_floor
        PROVE  FloorRises
    BY <1>0, <1>2 DEF FloorRises
  <1>3. CASE Create
    BY <1>1, <1>2, <1>3 DEF Create
  <1>4. CASE Destroy
    <2>1. /\ requests' = << >> /\ topology' = NoTopology
          /\ polled' = << >> /\ event_queue' = EmptyRing
          /\ clock_floor' = clock_floor
      BY <1>4 DEF Destroy
    <2>2. EventLog' = << >>
      <3>1. Contents(event_queue') = << >>
        BY <2>1, RestTypes
      <3>2. Contents(event_queue)' = Contents(event_queue')
        BY DEF Contents, Oldest
      <3>3. << >> \in Seq(Event)
        OBVIOUS
      <3>. QED  BY <2>1, <3>1, <3>2, <3>3, ConcatEmptySeq DEF EventLog
    <2>. QED  BY <2>1, <2>2
  <1>5. ASSUME NEW t \in Snapshots, Install(t)
        PROVE  UNCHANGED <<requests, topology, installed, event_queue, polled,
                           clock_floor>>
    BY <1>5 DEF Install, client_vars
  <1>6. ASSUME NEW bytes, NEW o, Submit(bytes, o)
        PROVE  UNCHANGED <<requests, topology, installed, event_queue, polled,
                           clock_floor>>
    BY <1>6 DEF Submit, client_vars
  <1>7. ASSUME NEW room \in 0 .. MaxRoom, NEW layout_ok \in BOOLEAN,
               Poll(room, layout_ok)
        PROVE  /\ UNCHANGED <<requests, topology, installed, clock_floor>>
               /\ EventLog' = EventLog
    <2>1. Contents(event_queue)' = Contents(event_queue')
      BY DEF Contents, Oldest
    <2>2. UNCHANGED <<requests, topology, installed, clock_floor>>
      BY <1>7 DEF Poll
    <2>. QED  BY <1>7, <2>1, <2>2, PollSplits DEF EventLog
  <1>8. CASE InstallStep
    <2>1. ASSUME NEW array \in ArrayNames, CloneArray(array)
          PROVE  UNCHANGED <<requests, topology, installed, event_queue,
                             polled, clock_floor>>
      BY <2>1 DEF CloneArray, client_vars
    <2>2. ASSUME ReceiptFails
          PROVE  UNCHANGED <<requests, topology, installed, event_queue,
                             polled, clock_floor>>
      BY <2>2 DEF ReceiptFails, client_vars
    <2>3. ASSUME NEW t \in Times, Swap(t)
          PROVE  UNCHANGED <<requests, event_queue, polled>>
      BY <2>3 DEF Swap
    <2>. QED  BY <1>1, <1>2, <1>8, <2>1, <2>2, <2>3 DEF InstallStep
  <1>9. CASE Admit
    <2>1. UNCHANGED <<requests, topology, installed, event_queue, polled>>
      BY <1>9 DEF Admit, client_vars
    <2>2. UNCHANGED clock_floor \/ \E t \in Times : ReadClock(t)
      BY <1>9 DEF Admit
    <2>. QED  BY <1>1, <1>2, <2>1, <2>2, ReadClockRises
  <1>10. CASE \/ AllocateCandidates \/ AllocateRoutes \/ AllocateTransaction
              \/ AllocateTargets \/ AllocateRequest
    <2>1. UNCHANGED <<requests, topology, installed, event_queue, polled,
                      clock_floor>>
      BY <1>10
         DEF AllocateCandidates, AllocateRoutes, AllocateTransaction,
             AllocateTargets, AllocateRequest, Allocate, client_vars
    <2>. QED  BY <1>1, <1>2, <2>1
  <1>11. CASE Accept
    <2>1. pc = "accept" /\ UNCHANGED <<topology, installed, polled>>
      BY <1>11 DEF Accept
    <2>2. CASE UNCHANGED <<clock_floor, requests, next_request_id, event_queue>>
      BY <1>1, <1>2, <2>1, <2>2
    <2>3. ASSUME NEW t \in Times, ReadClock(t), t < topology.received,
                 UNCHANGED <<requests, next_request_id, event_queue>>
          PROVE  /\ UNCHANGED <<requests, topology, installed>>
                 /\ EventLog' = EventLog /\ FloorRises
      BY <1>1, <2>1, <2>3, ReadClockRises
    <2>4. ASSUME NEW t \in Times, ReadClock(t), ~(t < topology.received),
                 Commit(t)
          PROVE  t >= topology.received
      BY <1>0, <2>4 DEF IInv, TypeOK
    <2>. QED  BY <1>11, <2>1, <2>2, <2>3, <2>4 DEF Accept, Commit
  <1>12. CASE UNCHANGED vars
    BY <1>1, <1>2, <1>12 DEF vars, client_vars
  <1>. QED
    BY <1>1, <1>2, <1>3, <1>4, <1>5, <1>6, <1>7, <1>8, <1>9, <1>10, <1>11,
       <1>12
       DEF Next, Call, SubmitStep

\* Every step keeps what is recorded before what the clock may return.
LEMMA StepTimes ==
  ASSUME PlanInv, TimesInv, [Next]_vars, PlanInv'
  PROVE  TimesInv'
  <1>1. /\ IInv /\ Books /\ GenerationsIncrease /\ RequestsMatchTheirSnapshot
        /\ GenerationsIncrease' /\ Books'
    BY DEF PlanInv, Books
  <1>2. /\ topology.received \in Nat /\ clock_floor \in Nat
        /\ \A k \in DOMAIN EventLog : EventLog[k].monotonic_time_ns \in Nat
        /\ \A u \in Times : u \in Nat
    <2>1. \A u \in Times : u \in Nat
      BY BoundsAssumption DEF Times
    <2>2. ASSUME NEW k \in DOMAIN EventLog
          PROVE  EventLog[k].monotonic_time_ns \in Times
      <3>1. EventLog \in Seq(Event) /\ DOMAIN EventLog = 1 .. Len(EventLog)
        BY <1>1, BooksType
      <3>2. EventLog[k] \in Event
        BY <3>1, ElementOfSeq
      <3>. QED  BY <3>2 DEF Event
    <2>. QED  BY <1>1, <2>1, <2>2 DEF IInv, TypeOK
  <1>3. CASE /\ UNCHANGED <<requests, topology, installed>>
             /\ EventLog' = EventLog /\ FloorRises
    <2>1. ClockIsAhead'
      <3>. SUFFICES ASSUME MonotonicClock
           PROVE  /\ topology'.received <= clock_floor'
                  /\ \A k \in DOMAIN EventLog' :
                       EventLog'[k].monotonic_time_ns <= clock_floor'
        BY DEF ClockIsAhead
      <3>1. clock_floor <= clock_floor' /\ clock_floor' \in Nat
        BY <1>2, <1>3 DEF FloorRises
      <3>2. topology.received <= clock_floor'
        BY <1>2, <3>1 DEF TimesInv, ClockIsAhead
      <3>3. ASSUME NEW k \in DOMAIN EventLog
            PROVE  EventLog[k].monotonic_time_ns <= clock_floor'
        BY <1>2, <3>1 DEF TimesInv, ClockIsAhead
      <3>. QED  BY <1>3, <3>2, <3>3
    <2>2. EventsFollowTheClock' /\ AcceptedAfterReceipt'
      BY <1>3 DEF TimesInv, EventsFollowTheClock, AcceptedAfterReceipt
    <2>. QED  BY <2>1, <2>2 DEF TimesInv
  <1>4. CASE /\ requests' = << >> /\ EventLog' = << >>
             /\ topology' = NoTopology /\ clock_floor' = clock_floor
    <2>1. DOMAIN EventLog' = {} /\ topology'.received = 0
      BY <1>4 DEF NoTopology
    <2>. QED
      BY <1>2, <1>4, <2>1
         DEF TimesInv, ClockIsAhead, EventsFollowTheClock, AcceptedAfterReceipt
  <1>5. ASSUME UNCHANGED requests, EventLog' = EventLog, NEW t \in Times, Swap(t)
        PROVE  TimesInv'
    <2>1. /\ topology'.received = t /\ ReadClock(t)
      BY <1>5 DEF Swap
    <2>2. ClockIsAhead'
      <3>1. FloorRises /\ (MonotonicClock => clock_floor' = t)
        BY <1>1, <1>5, <2>1, ReadClockRises
      <3>. SUFFICES ASSUME MonotonicClock
           PROVE  /\ topology'.received <= clock_floor'
                  /\ \A k \in DOMAIN EventLog' :
                       EventLog'[k].monotonic_time_ns <= clock_floor'
        BY DEF ClockIsAhead
      <3>2. clock_floor <= clock_floor' /\ clock_floor' = t /\ t \in Nat
        BY <1>2, <3>1 DEF FloorRises
      <3>3. topology'.received <= clock_floor'
        BY <2>1, <3>2
      <3>4. ASSUME NEW k \in DOMAIN EventLog
            PROVE  EventLog[k].monotonic_time_ns <= clock_floor'
        BY <1>2, <3>2 DEF TimesInv, ClockIsAhead
      <3>. QED  BY <1>5, <3>3, <3>4
    <2>3. EventsFollowTheClock'
      BY <1>5 DEF TimesInv, EventsFollowTheClock
    <2>4. AcceptedAfterReceipt'
      <3>1. /\ Len(installed) \in Nat
            /\ DOMAIN installed = 1 .. Len(installed)
            /\ DOMAIN installed' = 1 .. Len(installed) + 1
            /\ \A s \in DOMAIN installed : installed'[s] = installed[s]
        BY <1>1, <1>5, SwapHistory
      <3>2. ASSUME NEW r \in DOMAIN requests, NEW s \in DOMAIN installed',
                   installed'[s].view.generation
                     = requests[r].topology_generation
            PROVE  s \in DOMAIN installed
        <4>1. PICK m \in DOMAIN installed :
                requests[r].topology_generation = installed[m].view.generation
          BY <1>1 DEF RequestsMatchTheirSnapshot
        <4>2. m \in DOMAIN installed' /\ installed'[m] = installed[m]
          BY <3>1
        <4>3. CASE s = Len(installed) + 1
          <5>1. m < s
            BY <3>1, <4>3
          <5>2. installed'[m].view.generation < installed'[s].view.generation
            BY <1>1, <4>2, <5>1 DEF GenerationsIncrease
          <5>3. installed[m].view.generation \in Nat
            <6>1. installed \in Seq([view : Snapshots, received : Times])
              BY <1>1 DEF IInv, TypeOK
            <6>2. installed[m] \in [view : Snapshots, received : Times]
              BY <3>1, <6>1, ElementOfSeq
            <6>. QED  BY <6>2, SnapshotsAssumption DEF IsSnapshot
          <5>. QED  BY <3>2, <4>1, <4>2, <5>2, <5>3
        <4>. QED  BY <3>1, <4>3
      <3>. QED  BY <1>5, <3>1, <3>2 DEF TimesInv, AcceptedAfterReceipt
    <2>. QED  BY <2>2, <2>3, <2>4 DEF TimesInv
  <1>6. ASSUME pc = "accept", UNCHANGED <<topology, installed, polled>>,
               NEW t \in Times, t >= topology.received, ReadClock(t), Commit(t)
        PROVE  TimesInv'
    <2>1. /\ Len(EventLog) \in Nat /\ DOMAIN EventLog = 1 .. Len(EventLog)
          /\ Len(EventLog') = Len(EventLog) + 1
          /\ DOMAIN EventLog' = 1 .. Len(EventLog) + 1
          /\ \A k \in 1 .. Len(EventLog) : EventLog'[k] = EventLog[k]
          /\ EventLog'[Len(EventLog) + 1].monotonic_time_ns = t
      <3>. DEFINE e == [request_id |-> next_request_id, monotonic_time_ns |-> t]
      <3>1. e.monotonic_time_ns = t
        OBVIOUS
      <3>2. /\ Len(EventLog) \in Nat /\ DOMAIN EventLog = 1 .. Len(EventLog)
            /\ Len(EventLog') = Len(EventLog) + 1
            /\ DOMAIN EventLog' = 1 .. Len(EventLog) + 1
            /\ \A k \in 1 .. Len(EventLog) : EventLog'[k] = EventLog[k]
            /\ EventLog'[Len(EventLog) + 1] = e
        BY <1>1, <1>6, CommitLog
      <3>. HIDE DEF e
      <3>. QED  BY <3>1, <3>2
    <2>2. FloorRises /\ (MonotonicClock => clock_floor' = t)
      BY <1>1, <1>6, ReadClockRises
    <2>3. t \in Nat /\ clock_floor' \in Nat
      BY <1>2, <2>2 DEF FloorRises
    <2>4. ASSUME MonotonicClock
          PROVE  /\ topology'.received <= clock_floor'
                 /\ \A k \in DOMAIN EventLog' :
                      EventLog'[k].monotonic_time_ns <= clock_floor'
      <3>1. topology'.received <= clock_floor'
        BY <1>2, <1>6, <2>2, <2>3, <2>4
      <3>2. ASSUME NEW k \in DOMAIN EventLog'
            PROVE  EventLog'[k].monotonic_time_ns <= clock_floor'
        <4>1. CASE k = Len(EventLog) + 1
          BY <2>1, <2>2, <2>3, <2>4, <4>1
        <4>2. CASE k \in DOMAIN EventLog
          BY <1>2, <2>1, <2>2, <2>3, <2>4, <4>2
             DEF TimesInv, ClockIsAhead, FloorRises
        <4>. QED  BY <2>1, <4>1, <4>2
      <3>. QED  BY <3>1, <3>2
    <2>5. ASSUME MonotonicClock, NEW j \in DOMAIN EventLog',
                 NEW k \in DOMAIN EventLog', j < k
          PROVE  EventLog'[j].monotonic_time_ns <= EventLog'[k].monotonic_time_ns
      <3>1. j \in DOMAIN EventLog
        BY <2>1, <2>5
      <3>2. CASE k = Len(EventLog) + 1
        BY <2>1, <2>2, <2>3, <2>4, <2>5, <3>2
      <3>3. CASE k \in DOMAIN EventLog
        BY <2>1, <2>5, <3>1, <3>3 DEF TimesInv, EventsFollowTheClock
      <3>. QED  BY <2>1, <3>2, <3>3
    <2>6. AcceptedAfterReceipt'
      <3>1. /\ requests'[1] = NewRequest
            /\ Len(requests) \in Nat /\ Len(requests') = Len(requests) + 1
            /\ DOMAIN requests = 1 .. Len(requests)
            /\ DOMAIN requests' = 1 .. Len(requests) + 1
            /\ \A i \in 2 .. Len(requests) + 1 : requests'[i] = requests[i - 1]
        BY <1>1, <1>6, CommitList
      <3>2. /\ Len(EventLog) = Len(requests)
            /\ \A k \in DOMAIN EventLog' : EventLog'[k].request_id = k
            /\ \A i \in DOMAIN requests' :
                 requests'[i].request_id = Len(requests') + 1 - i
        BY <1>1 DEF Books, EveryRequestHasOneEvent, RequestIdsAreDense
      <3>3. ASSUME NEW r \in DOMAIN requests', NEW k \in DOMAIN EventLog',
                   NEW s \in DOMAIN installed,
                   EventLog'[k].request_id = requests'[r].request_id,
                   installed[s].view.generation
                     = requests'[r].topology_generation
            PROVE  installed[s].received <= EventLog'[k].monotonic_time_ns
        <4>1. k = Len(requests') + 1 - r
          BY <3>2, <3>3
        <4>2. CASE r = 1
          <5>1. k = Len(EventLog) + 1
            BY <3>1, <3>2, <4>1, <4>2
          <5>2. EventLog'[k].monotonic_time_ns = t
            BY <2>1, <5>1
          <5>3. installed[s].view.generation = topology.view.generation
            BY <3>1, <3>3, <4>2 DEF NewRequest
          <5>4. /\ Len(installed) \in DOMAIN installed
                /\ installed[Len(installed)].view = topology.view
                /\ installed[Len(installed)].received = topology.received
            <6>1. has_topology
              BY <1>1, <1>6 DEF IInv, TopologyIsThere, SubmitPoints
            <6>. QED  BY <1>1, <6>1, InUseIsInstalled
          <5>5. s = Len(installed)
            <6>1. /\ Len(installed) \in Nat
                  /\ DOMAIN installed = 1 .. Len(installed)
              BY <1>1, LenProperties DEF IInv, TypeOK
            <6>2. topology.view.generation \in Nat
              BY <1>1, <1>6, SnapshotsAssumption
                 DEF IInv, TopologyIsThere, SubmitPoints, IsSnapshot
            <6>3. s < Len(installed) =>
                    installed[s].view.generation
                      < installed[Len(installed)].view.generation
              BY <1>1, <5>4 DEF GenerationsIncrease
            <6>. QED  BY <5>3, <5>4, <6>1, <6>2, <6>3
          <5>. QED  BY <1>6, <5>2, <5>4, <5>5
        <4>3. CASE r # 1
          <5>1. /\ r - 1 \in DOMAIN requests /\ requests'[r] = requests[r - 1]
                /\ k \in DOMAIN EventLog /\ EventLog'[k] = EventLog[k]
            BY <2>1, <3>1, <3>2, <4>1, <4>3
          <5>. QED  BY <3>3, <5>1 DEF TimesInv, AcceptedAfterReceipt
        <4>. QED  BY <4>2, <4>3
      <3>. QED  BY <1>6, <3>3 DEF AcceptedAfterReceipt
    <2>7. ClockIsAhead' /\ EventsFollowTheClock'
      BY <2>4, <2>5 DEF ClockIsAhead, EventsFollowTheClock
    <2>. QED  BY <2>6, <2>7 DEF TimesInv
  <1>. QED  BY <1>1, <1>3, <1>4, <1>5, <1>6, TimesStep

LEMMA InitTimes == Init => TimesInv
  <1>. SUFFICES ASSUME Init  PROVE TimesInv
    OBVIOUS
  <1>1. /\ requests = << >> /\ topology = NoTopology /\ clock_floor = 0
        /\ polled = << >> /\ Contents(event_queue) = << >>
    BY RestTypes DEF Init
  <1>2. << >> \in Seq(Event)
    OBVIOUS
  <1>3. EventLog = << >>
    BY <1>1, <1>2, ConcatEmptySeq DEF EventLog
  <1>4. topology.received = 0 /\ DOMAIN EventLog = {}
    BY <1>1, <1>3 DEF NoTopology
  <1>. QED
    BY <1>1, <1>3, <1>4
       DEF TimesInv, ClockIsAhead, EventsFollowTheClock, AcceptedAfterReceipt

LEMMA TimesInvariance == Spec => [](PlanInv /\ TimesInv)
  <1>1. PlanInv /\ TimesInv /\ [Next]_vars /\ PlanInv' => TimesInv'
    BY StepTimes
  <1>. QED  BY <1>1, InitTimes, PlanInvariance, PTL DEF Spec

\* If the clock never goes backwards, events are handed out in the order of
\* their times and no request was accepted before the snapshot it was planned
\* on had been received (solana_delivery_submission.c:405-429,
\* solana_delivery_events.c:64-132).
THEOREM TimesAreOrdered == Spec => [](MonotonicClock => EventTimesAreOrdered)
  <1>1. TimesInv => (MonotonicClock => EventTimesAreOrdered)
    BY DEF TimesInv, EventsFollowTheClock, AcceptedAfterReceipt,
           EventTimesAreOrdered
  <1>. QED  BY <1>1, TimesInvariance, PTL

\* With any clock, no request was accepted before its snapshot was received:
\* submit refuses an acceptance time that lies before the receipt
\* (solana_delivery_submission.c:405-411).
THEOREM NothingIsAcceptedEarly == Spec => []AcceptedAfterReceipt
  BY TimesInvariance, PTL DEF TimesInv

----------------------------------------------------------------------------
(* INTERNAL_ERROR *)

\* The clock neither goes backwards nor fails with this status.
ClockIsSound == MonotonicClock /\ "INTERNAL_ERROR" \notin ClockErrors

LEMMA StepHasNoInternalError ==
  ASSUME PlanInv, TimesInv, ClockIsSound, NoInternalError, [Next]_vars
  PROVE  NoInternalError'
  <1>1. /\ IInv /\ SnapshotsAreValid /\ CandidatesArePlanned
        /\ "INTERNAL_ERROR" \notin Refusals
    BY DEF PlanInv, Books, Refusals
  <1>2. ASSUME NEW status, NEW id, Return(status, id),
               status # "INTERNAL_ERROR"
        PROVE  NoInternalError'
    BY <1>2 DEF Return, NoInternalError
  <1>3. ASSUME NEW point, Continue(point)
        PROVE  NoInternalError'
    BY <1>3 DEF Continue, NoInternalError
  <1>4. CASE Create \/ Destroy
    BY <1>2, <1>4 DEF Create, Destroy
  <1>5. ASSUME NEW t \in Snapshots, Install(t)
        PROVE  NoInternalError'
    <2>1. InstallStatus(t) # "INTERNAL_ERROR"
      BY <1>1, InstallStatusType
    <2>. QED  BY <1>2, <1>3, <1>5, <2>1 DEF Install
  <1>6. ASSUME NEW bytes, NEW o \in Options, Submit(bytes, o)
        PROVE  NoInternalError'
    <2>1. SubmitStatus(bytes, o) # "INTERNAL_ERROR"
      BY <1>1, SubmitStatusType
    <2>. QED  BY <1>2, <1>3, <1>6, <2>1 DEF Submit
  <1>7. ASSUME NEW room \in 0 .. MaxRoom, NEW layout_ok \in BOOLEAN,
               Poll(room, layout_ok)
        PROVE  NoInternalError'
    <2>1. Return("OK", 0) \/ Return("INVALID_ARGUMENT", 0)
      BY <1>1, <1>7, PollSplits
    <2>. QED  BY <1>2, <2>1
  <1>8. CASE InstallStep
    <2>1. ASSUME NEW array \in ArrayNames, CloneArray(array)
          PROVE  NoInternalError'
      BY <1>2, <1>3, <2>1 DEF CloneArray, FailInstall
    <2>2. CASE ReceiptFails
      BY <1>2, <2>2 DEF ReceiptFails, FailInstall, ClockIsSound
    <2>3. ASSUME NEW t \in Times, Swap(t)
          PROVE  NoInternalError'
      BY <1>2, <2>3 DEF Swap
    <2>. QED  BY <1>8, <2>1, <2>2, <2>3 DEF InstallStep
  <1>9. CASE SubmitStep
    <2>1. ~ClockGoesBack
      <3>1. topology.received \in Nat /\ clock_floor \in Nat
            /\ \A t \in Times : t \in Nat
        BY <1>1, BoundsAssumption DEF IInv, TypeOK, Times
      <3>2. MonotonicClock /\ topology.received <= clock_floor
        BY DEF TimesInv, ClockIsAhead, ClockIsSound
      <3>. QED  BY <3>1, <3>2 DEF ClockGoesBack, ReadClock
    <2>2. CASE Fails
      <3>1. PICK status \in Failures : EndSubmit(status, 0)
        BY <2>1, <2>2 DEF Fails
      <3>. QED  BY <1>2, <3>1 DEF EndSubmit, Failures, ClockIsSound
    <2>3. CASE GoesOn
      BY <2>3 DEF GoesOn, NoInternalError
    <2>4. ASSUME NEW t \in Times, Commit(t)
          PROVE  NoInternalError'
      BY <1>2, <2>4 DEF Commit, EndSubmit
    <2>. QED  BY <1>1, <1>9, <2>2, <2>3, <2>4, SubmitStepCases
  <1>10. CASE UNCHANGED vars
    BY <1>10 DEF vars, NoInternalError
  <1>. QED
    BY <1>4, <1>5, <1>6, <1>7, <1>8, <1>9, <1>10 DEF Next, Call

\* The defensive branches of install and submit that report INTERNAL_ERROR are
\* dead, for snapshots and limits of every size: the counting and the writing
\* passes agree, and only a clock that goes backwards or fails with that status
\* leads to it (solana_delivery_submission.c:186-411,
\* solana_delivery_admission.c:38-51).
THEOREM NoDefensiveBranchIsTaken ==
  Spec => [](ClockIsSound => NoInternalError)
  <1>1. Init => (ClockIsSound => NoInternalError)
    BY DEF Init, NoInternalError
  <1>2. /\ PlanInv /\ TimesInv /\ [Next]_vars
        /\ (ClockIsSound => NoInternalError)
        => (ClockIsSound => NoInternalError)'
    BY StepHasNoInternalError DEF ClockIsSound
  <1>. QED  BY <1>1, <1>2, TimesInvariance, PTL DEF Spec

----------------------------------------------------------------------------
(* The refinement of DeliveryService. *)

\* What callers see of the topology in use and of a list of requests, as
\* DeliveryRefinement maps them.
InUse == IF has_topology
         THEN [view |-> topology.view, received |-> topology.received]
         ELSE NULL
Reversed(list) ==
  [i \in 1 .. Len(list) |-> Visible(list[Len(list) + 1 - i])]

\* The plans of the service are those of the client.
LEMMA SamePlans ==
  ASSUME NEW t, NEW slot, NEW limit, NEW targets,
         IsFullRoutePlan(t, slot, limit, targets)
  PROVE  Service!IsFullRoutePlan(t, slot, limit, targets)
  <1>1. \A S : Cardinality(S) = Service!Cardinality(S)
    BY Zenon DEF Cardinality, Service!Cardinality
  <1>2. /\ IsRoutePlan(t, slot, targets) => Service!IsRoutePlan(t, slot, targets)
        /\ Destinations(t, slot) = Service!Destinations(t, slot)
    BY DEF IsRoutePlan, Destinations, Destination, Before, Hits, IsHit,
           Describes, LeadsTo, Service!IsRoutePlan, Service!Destinations,
           Service!Destination, Service!Before, Service!Hits, Service!IsHit,
           Service!Describes, Service!LeadsTo
  <1>. QED  BY <1>1, <1>2 DEF IsFullRoutePlan, Service!IsFullRoutePlan

\* What leaves the client alone, callers do not see.
LEMMA Unseen ==
  ASSUME UNCHANGED client_vars
  PROVE  UNCHANGED Service!vars
  BY DEF Service!vars, client_vars, Contents, Oldest, Visible

\* The list of accepted requests is that of the client, the oldest first.
LEMMA ReversedIsList ==
  ASSUME NEW list, Len(list) \in Nat
  PROVE  /\ Len(Reversed(list)) = Len(list)
         /\ DOMAIN Reversed(list) = 1 .. Len(list)
         /\ \A i \in 1 .. Len(list) :
              Reversed(list)[i] = Visible(list[Len(list) + 1 - i])
  <1>1. PICK n \in Nat : n = Len(list)
    OBVIOUS
  <1>. DEFINE R == {Visible(list[i]) : i \in 1 .. n}
  <1>2. \A i \in 1 .. n : Visible(list[n + 1 - i]) \in R
    OBVIOUS
  <1>3. Reversed(list) = [i \in 1 .. n |-> Visible(list[n + 1 - i])]
    BY <1>1 DEF Reversed
  <1>. HIDE DEF R
  <1>4. Reversed(list) \in Seq(R)
    BY <1>2, <1>3
  <1>. QED  BY <1>1, <1>3, <1>4, LenProperties

----------------------------------------------------------------------------
(* The limit of a submission in progress is one that a caller gave. *)

LimitIsGiven ==
  pc \in SubmitPoints =>
    submission.target_limit \in {o.target_limit : o \in Options}

\* Every step keeps the limit one that was given.
LEMMA StepLimit == PlanInv /\ LimitIsGiven /\ [Next]_vars => LimitIsGiven'
  <1>. SUFFICES ASSUME PlanInv, LimitIsGiven, [Next]_vars  PROVE LimitIsGiven'
    OBVIOUS
  <1>1. IInv /\ submission \in SubmissionType
    BY DEF PlanInv, Books, IInv, TypeOK, SubmissionType
  <1>2. ASSUME NEW status, NEW id, Return(status, id)  PROVE LimitIsGiven'
    BY <1>2 DEF Return, LimitIsGiven, SubmitPoints, TempNames, OwnedNames
  <1>3. ASSUME NEW point \in InstallPoints, Continue(point)  PROVE LimitIsGiven'
    BY <1>3 DEF Continue, LimitIsGiven, SubmitPoints, TempNames, OwnedNames,
                InstallPoints, ArrayNames
  <1>4. CASE Create \/ Destroy
    BY <1>2, <1>4 DEF Create, Destroy
  <1>5. ASSUME NEW t \in Snapshots, Install(t)  PROVE LimitIsGiven'
    BY <1>2, <1>3, <1>5 DEF Install, InstallPoints, ArrayNames
  <1>6. ASSUME NEW bytes, NEW o \in Options, Submit(bytes, o)
        PROVE  LimitIsGiven'
    <2>1. CASE SubmitStatus(bytes, o) # "OK"
      BY <1>2, <1>6, <2>1 DEF Submit
    <2>2. CASE SubmitStatus(bytes, o) = "OK"
      <3>1. submission'.target_limit = o.target_limit
        BY <1>6, <2>2 DEF Submit, NoSubmission
      <3>. QED  BY <3>1 DEF LimitIsGiven
    <2>. QED  BY <2>1, <2>2
  <1>7. ASSUME NEW room, NEW layout_ok, Poll(room, layout_ok)
        PROVE  LimitIsGiven'
    BY <1>2, <1>7 DEF Poll
  <1>8. CASE InstallStep
    <2>1. ASSUME NEW array \in ArrayNames, CloneArray(array)
          PROVE  LimitIsGiven'
      <3>1. AfterClone(array) \in InstallPoints
        BY DEF ArrayNames, InstallPoints, AfterClone
      <3>. QED  BY <1>2, <1>3, <2>1, <3>1 DEF CloneArray, FailInstall
    <2>2. CASE ReceiptFails
      BY <1>2, <2>2 DEF ReceiptFails, FailInstall
    <2>3. ASSUME NEW t \in Times, Swap(t)  PROVE LimitIsGiven'
      BY <1>2, <2>3 DEF Swap
    <2>. QED  BY <1>8, <2>1, <2>2, <2>3 DEF InstallStep
  <1>9. CASE SubmitStep
    <2>1. ASSUME NEW status, NEW id, EndSubmit(status, id)
          PROVE  LimitIsGiven'
      BY <1>2, <2>1 DEF EndSubmit
    <2>2. ASSUME pc \in SubmitPoints,
                 submission'.target_limit = submission.target_limit
          PROVE  LimitIsGiven'
      BY <2>2 DEF LimitIsGiven
    <2>3. ASSUME NEW name \in TempNames, NEW outcome, NEW next, NEW s,
                 NEW c, NEW new, s.target_limit = submission.target_limit,
                 Allocate(name, outcome, next, s, c, new)
          PROVE  LimitIsGiven'
      BY <2>1, <2>2, <2>3 DEF Allocate, SubmitPoints
    <2>4. \A targets : [submission EXCEPT !.targets = targets].target_limit
                         = submission.target_limit
      BY <1>1 DEF SubmissionType
    <2>5. CASE Admit
      <3>1. pc \in SubmitPoints
        BY <2>5 DEF Admit, SubmitPoints
      <3>2. \A slot : [submission EXCEPT !.routing_slot = slot].target_limit
                        = submission.target_limit
        BY <1>1 DEF SubmissionType
      <3>. QED  BY <2>1, <2>2, <2>5, <3>1, <3>2 DEF Admit
    <2>6. CASE AllocateCandidates \/ AllocateRoutes
      BY <2>3, <2>6 DEF AllocateCandidates, AllocateRoutes, TempNames
    <2>7. CASE AllocateTransaction \/ AllocateRequest
      BY <2>3, <2>7 DEF AllocateTransaction, AllocateRequest, TempNames,
                        OwnedNames
    <2>8. CASE AllocateTargets
      BY <2>3, <2>4, <2>8 DEF AllocateTargets, TempNames, OwnedNames
    <2>9. CASE Accept
      BY <2>1, <2>9 DEF Accept
    <2>. QED  BY <1>9, <2>5, <2>6, <2>7, <2>8, <2>9 DEF SubmitStep
  <1>10. CASE UNCHANGED vars
    BY <1>10 DEF vars, submit_vars, LimitIsGiven
  <1>. QED  BY <1>4, <1>5, <1>6, <1>7, <1>8, <1>9, <1>10 DEF Next, Call

----------------------------------------------------------------------------
(* Each step of the client is a step of the service or none. *)

\* A commit is an acceptance by the service: one request more, with the next
\* identifier, the full plan and its event.
LEMMA CommitAccepts ==
  ASSUME PlanInv, LimitIsGiven, pc = "accept",
         UNCHANGED <<client, has_topology, topology>>,
         NEW now \in Times, now >= topology.received, Commit(now)
  PROVE  Service!Accept(submission.transaction, submission.target_limit, now)
  <1>. DEFINE n == Len(requests)
              r == NewRequest
              t == topology.view
              event == [request_id |-> next_request_id,
                        monotonic_time_ns |-> now]
  <1>1. /\ IInv /\ Books /\ SnapshotsAreValid /\ CandidatesArePlanned
        /\ pc \in SubmitPoints /\ client # NULL /\ has_topology
    BY DEF PlanInv, Books, IInv, ClientIsThere, TopologyIsThere, SubmitPoints
  <1>2. /\ n \in Nat /\ Len(requests') = n + 1
        /\ requests'[1] = r
        /\ \A i \in 2 .. n + 1 : requests'[i] = requests[i - 1]
    BY <1>1, CommitList
  <1>3. /\ Len(Reversed(requests)) = n
        /\ \A i \in 1 .. n : Reversed(requests)[i] = Visible(requests[n + 1 - i])
    BY <1>2, ReversedIsList
  <1>4. /\ Len(Reversed(requests')) = n + 1
        /\ \A i \in 1 .. n + 1 :
             Reversed(requests')[i] = Visible(requests'[n + 2 - i])
    <2>1. Len(requests') \in Nat
      BY <1>2
    <2>2. \A i \in 1 .. n + 1 : Len(requests') + 1 - i = n + 2 - i
      BY <1>2
    <2>. QED  BY <1>2, <2>1, <2>2, ReversedIsList
  <1>. DEFINE old == Reversed(requests)
              new == Reversed(requests')
  <1>5. \A i \in 1 .. n : new[i] = old[i]
    <2>. SUFFICES ASSUME NEW i \in 1 .. n  PROVE new[i] = old[i]
      OBVIOUS
    <2>1. n + 2 - i \in 2 .. n + 1 /\ n + 2 - i - 1 = n + 1 - i
      BY <1>2
    <2>2. requests'[n + 2 - i] = requests[n + 1 - i]
      BY <1>2, <2>1
    <2>. QED  BY <1>2, <1>3, <1>4, <2>2
  <1>6. new[n + 1] = Visible(r)
    BY <1>2, <1>4
  <1>7. /\ r.request_id = n + 1 /\ n + 1 <= MaxRequestId
        /\ r.transaction = submission.transaction
        /\ next_request_id = n + 1
    <2>1. next_request_id = IF n = MaxRequestId THEN 0 ELSE n + 1
      BY <1>1 DEF Books, RequestIdsAreDense
    <2>2. next_request_id \in 1 .. MaxRequestId
      BY <1>1 DEF IInv, SubmitIsReady, RequestIds
    <2>. QED  BY <1>2, <2>1, <2>2, BoundsAssumption DEF NewRequest
  <1>8. /\ r.topology_generation = t.generation
        /\ r.routing_slot = t.current_slot
        /\ Service!IsFullRoutePlan(t, t.current_slot, submission.target_limit,
                                   r.targets)
    BY <1>1, CommittedPlan, SamePlans
  <1>9. /\ Contents(event_queue)' = Append(Contents(event_queue), event)
        /\ Len(Contents(event_queue)) < QueueCapacity
    <2>1. Contents(event_queue)' = Contents(event_queue')
      BY DEF Contents, Oldest
    <2>2. Contents(event_queue') = Append(Contents(event_queue), event)
      BY <1>1, CommitTypes
    <2>3. event_queue \in Ring(Event) /\ event_queue.count < QueueCapacity
      BY <1>1 DEF IInv, TypeOK, SubmitIsReady, HasCapacity
    <2>4. Len(Contents(event_queue)) = event_queue.count
      <3>1. event_queue.count \in 0 .. QueueCapacity
        BY <2>3 DEF Ring
      <3>. QED  BY <2>3, <3>1, ContentsType DEF Contents
    <2>. QED  BY <2>1, <2>2, <2>3, <2>4
  <1>10. /\ [i \in 1 .. Len(requests) |->
               Visible(requests[Len(requests) + 1 - i])] = old
         /\ [i \in 1 .. Len(requests) |->
               Visible(requests[Len(requests) + 1 - i])]' = new
    BY DEF Reversed, Visible
  <1>. HIDE DEF old, new, r
  <1>11. /\ Len(old) = n /\ Len(new) = n + 1
         /\ Visible(r).request_id = n + 1
         /\ Visible(r).transaction = submission.transaction
         /\ Visible(r).topology_generation = t.generation
         /\ Visible(r).routing_slot = t.current_slot
         /\ Visible(r).targets = r.targets
    BY <1>3, <1>4, <1>7, <1>8 DEF old, new, Visible
  <1>12. /\ InUse = [view |-> t, received |-> topology.received]
         /\ InUse # NULL /\ InUse' = InUse
    <2>1. InUse = [view |-> t, received |-> topology.received] /\ InUse' = InUse
      BY <1>1 DEF InUse
    <2>2. t \in Snapshots /\ topology.received \in Times
      BY <1>1 DEF IInv, TopologyIsThere, TypeOK
    <2>. QED  BY <2>1, <2>2, NoSnapshotAssumption
  <1>. QED
    <2>1. Service!Accept(submission.transaction, submission.target_limit, now)
          <=> LET id == Len(old) + 1
                  q  == new[id]
              IN  /\ InUse # NULL
                  /\ id <= MaxRequestId
                  /\ Len(Contents(event_queue)) < QueueCapacity
                  /\ now >= InUse.received
                  /\ Len(new) = id
                  /\ \A i \in 1 .. id - 1 : new[i] = old[i]
                  /\ q.request_id = id
                  /\ q.transaction = submission.transaction
                  /\ q.topology_generation = InUse.view.generation
                  /\ q.routing_slot = InUse.view.current_slot
                  /\ Service!IsFullRoutePlan(
                       InUse.view, InUse.view.current_slot,
                       submission.target_limit, q.targets)
                  /\ Contents(event_queue)' =
                       Append(Contents(event_queue),
                              [request_id |-> id, monotonic_time_ns |-> now])
                  /\ (client # NULL)' = (client # NULL)
                  /\ InUse' = InUse
      BY <1>10 DEF Service!Accept, InUse
    <2>. QED
      BY <1>1, <1>2, <1>5, <1>6, <1>7, <1>8, <1>9, <1>11, <1>12, <2>1

\* A poll hands out the oldest events, or none.
LEMMA PollHandsOut ==
  ASSUME IInv, NEW room \in 0 .. MaxRoom, NEW layout_ok, Poll(room, layout_ok)
  PROVE  [Service!Next]_Service!vars
  <1>1. /\ UNCHANGED <<client, has_topology, topology, requests>>
        /\ event_queue \in Ring(Event)
        /\ Contents(event_queue) \in Seq(Event)
    BY DEF Poll, IInv, TypeOK, QueuedAreReal
  <1>2. CASE event_queue' = event_queue
    BY <1>1, <1>2 DEF Service!vars, Contents, Oldest, Visible
  <1>3. CASE event_queue' # event_queue
    <2>. DEFINE n == CopyCount(event_queue, room)
                c == Contents(event_queue)
    <2>1. event_queue' = Drain(event_queue, n) /\ room # 0
      BY <1>3 DEF Poll
    <2>2. /\ event_queue.count \in Nat /\ n \in 0 .. event_queue.count
          /\ event_queue.count \in 0 .. QueueCapacity
          /\ (n = 0 => event_queue.count = 0)
      BY <1>1, <2>1, QueueCapacityAssumption, BoundsAssumption
         DEF Ring, CopyCount
    <2>. HIDE DEF n
    <2>3. /\ Contents(Drain(event_queue, n)) = SubSeq(c, n + 1, event_queue.count)
      BY <1>1, <2>2, DrainDrops
    <2>4. Len(c) = event_queue.count
      BY <1>1, <2>2, ContentsType DEF Contents
    <2>5. Contents(event_queue)' = SubSeq(c, n + 1, Len(c))
      <3>1. Contents(event_queue)' = Contents(event_queue')
        BY DEF Contents, Oldest
      <3>. QED  BY <2>1, <2>3, <2>4, <3>1
    <2>6. Service!HandOut(n)
      <3>. HIDE DEF c
      <3>. QED  BY <1>1, <2>5 DEF Service!HandOut, Visible, c
    <2>7. CASE n # 0
      <3>1. n \in 1 .. Len(c)
        BY <2>2, <2>4, <2>7
      <3>. QED  BY <2>6, <3>1 DEF Service!Next
    <2>8. CASE n = 0
      <3>1. c = << >> /\ Contents(event_queue)' = << >>
        <4>1. Len(c) = 0 /\ c \in Seq(Event)
          BY <1>1, <2>2, <2>4, <2>8
        <4>2. c = << >>
          BY <4>1, EmptySeq
        <4>. QED  BY <2>2, <2>4, <2>5, <2>8, <4>2
      <3>. QED  BY <1>1, <3>1 DEF Service!vars, Visible
    <2>. QED  BY <2>7, <2>8
  <1>. QED  BY <1>2, <1>3

\* Opening, closing, replacing, accepting and handing out are the only steps
\* of a client that callers see.
LEMMA StepImplements ==
  ASSUME PlanInv, LimitIsGiven, [Next]_vars
  PROVE  [Service!Next]_Service!vars
  <1>1. /\ IInv /\ SnapshotsAreValid /\ CandidatesArePlanned
    BY DEF PlanInv, Books
  <1>2. ASSUME UNCHANGED client_vars  PROVE [Service!Next]_Service!vars
    BY <1>2, Unseen
  <1>3. CASE Create
    <2>1. CASE UNCHANGED client
      BY <1>3, <2>1 DEF Create, Service!vars, Contents, Oldest, Visible
    <2>2. CASE client' # client
      <3>1. client = NULL /\ client' # NULL
        BY <1>3, <2>2 DEF Create
      <3>2. UNCHANGED <<has_topology, topology, requests, event_queue>>
        BY <1>3 DEF Create
      <3>3. Service!Open
        BY <3>1, <3>2 DEF Service!Open, Contents, Oldest, Visible
      <3>. QED  BY <3>3 DEF Service!Next
    <2>. QED  BY <2>1, <2>2
  <1>4. CASE Destroy
    <2>1. /\ client # NULL /\ client' = NULL /\ has_topology' = FALSE
          /\ requests' = << >> /\ event_queue' = EmptyRing
      BY <1>4 DEF Destroy, Ready
    <2>2. Contents(event_queue)' = << >>
      <3>1. Contents(event_queue)' = Contents(event_queue')
        BY DEF Contents, Oldest
      <3>. QED  BY <2>1, <3>1, RestTypes
    <2>3. Reversed(requests') = << >>
      BY <2>1 DEF Reversed
    <2>4. Service!Close
      BY <2>1, <2>2, <2>3 DEF Service!Close, Reversed, Visible
    <2>. QED  BY <2>4 DEF Service!Next
  <1>5. ASSUME NEW t \in Snapshots, Install(t)
        PROVE  [Service!Next]_Service!vars
    BY <1>2, <1>5 DEF Install
  <1>6. ASSUME NEW bytes, NEW o, Submit(bytes, o)
        PROVE  [Service!Next]_Service!vars
    BY <1>2, <1>6 DEF Submit
  <1>7. ASSUME NEW room \in 0 .. MaxRoom, NEW layout_ok \in BOOLEAN,
               Poll(room, layout_ok)
        PROVE  [Service!Next]_Service!vars
    BY <1>1, <1>7, PollHandsOut
  <1>8. CASE InstallStep
    <2>1. ASSUME NEW array \in ArrayNames, CloneArray(array)
          PROVE  [Service!Next]_Service!vars
      BY <1>2, <2>1 DEF CloneArray
    <2>2. CASE ReceiptFails
      BY <1>2, <2>2 DEF ReceiptFails
    <2>3. ASSUME NEW now \in Times, Swap(now)
          PROVE  [Service!Next]_Service!vars
      <3>1. /\ pc \in InstallPoints /\ source \in Snapshots
            /\ client # NULL /\ TopologyStatus(source) = "OK"
            /\ has_topology => source.generation > topology.view.generation
        BY <1>1, <2>3 DEF Swap, IInv, ClientIsThere, InstallIsNewer,
                          SnapshotsAreValid, InstallPoints
      <3>2. /\ topology'.view = source /\ topology'.received = now
            /\ has_topology'
            /\ UNCHANGED <<client, requests, event_queue>>
        BY <2>3 DEF Swap
      <3>3. /\ InUse' = [view |-> source, received |-> now]
            /\ InUse # NULL => has_topology /\ InUse.view = topology.view
        BY <3>2 DEF InUse
      <3>4. Service!Replace(source, now)
        BY <3>1, <3>2, <3>3
           DEF Service!Replace, InUse, Contents, Oldest, Visible
      <3>. QED  BY <2>3, <3>1, <3>4 DEF Service!Next
    <2>. QED  BY <1>8, <2>1, <2>2, <2>3 DEF InstallStep
  <1>9. CASE SubmitStep
    <2>1. CASE NothingElse
      BY <1>2, <2>1 DEF NothingElse
    <2>2. CASE Accept
      <3>1. pc = "accept" /\ UNCHANGED <<client, has_topology, topology>>
        BY <1>1, <2>2, AcceptCases
      <3>2. CASE UNCHANGED <<requests, next_request_id, event_queue>>
        BY <1>2, <3>1, <3>2 DEF client_vars
      <3>3. ASSUME NEW now \in Times, now >= topology.received, Commit(now)
            PROVE  [Service!Next]_Service!vars
        <4>1. Service!Accept(submission.transaction, submission.target_limit,
                             now)
          BY <3>1, <3>3, CommitAccepts
        <4>2. /\ submission.transaction \in Transactions
              /\ submission.target_limit \in {o.target_limit : o \in Options}
          BY <1>1, <3>1 DEF IInv, TopologyIsThere, LimitIsGiven, SubmitPoints
        <4>. QED  BY <4>1, <4>2 DEF Service!Next
      <3>. QED  BY <1>1, <2>2, <3>2, <3>3, AcceptCases
    <2>3. CASE pc # "accept"
      BY <1>1, <1>9, <2>1, <2>3, SubmitStepCases
    <2>4. CASE pc = "accept"
      BY <1>9, <2>2, <2>4
         DEF SubmitStep, Admit, AllocateCandidates, AllocateRoutes,
             AllocateTransaction, AllocateTargets, AllocateRequest, Allocate
    <2>. QED  BY <2>3, <2>4
  <1>10. CASE UNCHANGED vars
    BY <1>2, <1>10 DEF vars
  <1>. QED  BY <1>3, <1>4, <1>5, <1>6, <1>7, <1>8, <1>9, <1>10 DEF Next, Call

LEMMA InitImplements == Init => Service!Init /\ LimitIsGiven
  <1>. SUFFICES ASSUME Init  PROVE Service!Init /\ LimitIsGiven
    OBVIOUS
  <1>1. /\ client = NULL /\ has_topology = FALSE /\ requests = << >>
        /\ event_queue = EmptyRing /\ pc = "idle"
    BY DEF Init
  <1>2. Contents(event_queue) = << >>
    BY <1>1, RestTypes
  <1>3. Reversed(requests) = << >>
    BY <1>1 DEF Reversed
  <1>4. LimitIsGiven
    BY <1>1 DEF LimitIsGiven, SubmitPoints, TempNames, OwnedNames
  <1>. QED  BY <1>1, <1>2, <1>3, <1>4 DEF Service!Init, Reversed

LEMMA LimitInvariance == Spec => [](PlanInv /\ LimitIsGiven)
  <1>1. Init => LimitIsGiven
    BY InitImplements
  <1>2. PlanInv /\ LimitIsGiven /\ [Next]_vars => LimitIsGiven'
    BY StepLimit
  <1>. QED  BY <1>1, <1>2, PlanInvariance, PTL DEF Spec

\* The client implements the service for every capacity and bound, for all
\* snapshots, options and clocks, and wherever a call fails: a request appears
\* in one step with its event, the next identifier and the full plan of the
\* snapshot in use, and nothing else that callers can see changes but by a
\* swap, a poll, create or destroy (solana_delivery_submission.c:143-460,
\* solana_delivery.c:768-820, solana_delivery_events.c:64-132).
THEOREM ClientImplementsService == Spec => ImplementsService
  <1>1. Init => Service!Init
    BY InitImplements
  <1>2. PlanInv /\ LimitIsGiven /\ [Next]_vars => [Service!Next]_Service!vars
    BY StepImplements
  <1>. QED
    BY <1>1, <1>2, LimitInvariance, PTL
       DEF Spec, ImplementsService, Service!Spec

----------------------------------------------------------------------------
(***************************************************************************)
(* Progress.  EveryEventIsPolled rests on fairness, but what each step     *)
(* brings is a matter of safety: a call takes a bounded number of steps    *)
(* from its start, so that callers get to poll again, and each poll with   *)
(* room hands out what has waited longest.                                 *)
(***************************************************************************)

\* How many steps a call at a point can still take.
StepsLeft(point) ==
  CASE point = "admit"               -> 7
    [] point = "candidates"          -> 6
    [] point = "routes"              -> 5
    [] point = "transaction_copy"    -> 4
    [] point = "owned_targets"       -> 3
    [] point = "request"             -> 2
    [] point = "accept"              -> 1
    [] point = "validators"          -> 5
    [] point = "endpoints"           -> 4
    [] point = "validator_endpoints" -> 3
    [] point = "leaders"             -> 2
    [] point = "receipt"             -> 1
    [] OTHER                         -> 0

LEMMA PointsCount ==
  /\ StepsLeft("idle") = 0
  /\ \A point \in SubmitPoints \union InstallPoints : StepsLeft(point) \in 1 .. 7
  /\ \A array \in ArrayNames : StepsLeft(AfterClone(array)) < StepsLeft(array)
  <1>1. StepsLeft("idle") = 0
    BY DEF StepsLeft
  <1>2. ASSUME NEW point \in SubmitPoints \union InstallPoints
        PROVE  StepsLeft(point) \in 1 .. 7
    <2>1. point \in {"admit", "accept", "candidates", "routes",
                     "transaction_copy", "owned_targets", "request",
                     "receipt", "validators", "endpoints",
                     "validator_endpoints", "leaders"}
      BY DEF SubmitPoints, InstallPoints, TempNames, OwnedNames, ArrayNames
    <2>. QED  BY <2>1 DEF StepsLeft
  <1>3. ASSUME NEW array \in ArrayNames
        PROVE  StepsLeft(AfterClone(array)) < StepsLeft(array)
    BY DEF ArrayNames, AfterClone, StepsLeft
  <1>. QED  BY <1>1, <1>2, <1>3

\* No call goes round in a circle: each of its steps leaves fewer.
CallsAreBounded == [][pc # "idle" => StepsLeft(pc') < StepsLeft(pc)]_vars

LEMMA AllocateAdvances ==
  ASSUME NEW name, NEW outcome, NEW next, NEW s, NEW c, NEW r,
         Allocate(name, outcome, next, s, c, r),
         0 < StepsLeft(name), StepsLeft(next) < StepsLeft(name)
  PROVE  StepsLeft(pc') < StepsLeft(pc)
  <1>1. pc = name
    BY DEF Allocate
  <1>2. ASSUME NEW status, EndSubmit(status, 0)
        PROVE  pc' = "idle"
    BY <1>2 DEF EndSubmit, Return
  <1>3. pc' = "idle" \/ pc' = next
    BY <1>2 DEF Allocate, Continue
  <1>. QED  BY <1>1, <1>3, PointsCount

LEMMA StepAdvances ==
  ASSUME IInv, Next, pc # "idle"
  PROVE  StepsLeft(pc') < StepsLeft(pc)
  <1>1. StepsLeft(pc) > 0
    <2>1. pc \in SubmitPoints \union InstallPoints
      BY DEF IInv, TypeOK
    <2>2. StepsLeft(pc) \in 1 .. 7
      BY <2>1, PointsCount
    <2>. QED  BY <2>2
  <1>2. ASSUME Call
        PROVE  FALSE
    <2>1. CASE Create \/ Destroy
      BY <2>1 DEF Create, Destroy, Ready
    <2>2. ASSUME NEW t \in Snapshots, Install(t)
          PROVE  FALSE
      BY <2>2 DEF Install, Ready
    <2>3. ASSUME NEW bytes \in Transactions \union {NULL}, NEW o \in Options,
                 Submit(bytes, o)
          PROVE  FALSE
      BY <2>3 DEF Submit, Ready
    <2>4. ASSUME NEW room \in 0 .. MaxRoom, NEW layout_ok \in BOOLEAN,
                 Poll(room, layout_ok)
          PROVE  FALSE
      BY <2>4 DEF Poll, Ready
    <2>. QED  BY <1>2, <2>1, <2>2, <2>3, <2>4 DEF Call
  <1>3. ASSUME NEW array \in ArrayNames, CloneArray(array)
        PROVE  StepsLeft(pc') < StepsLeft(pc)
    <2>1. pc = array /\ (pc' = "idle" \/ pc' = AfterClone(array))
      BY <1>3 DEF CloneArray, FailInstall, Return, Continue
    <2>. QED  BY <1>1, <2>1, PointsCount
  <1>4. ASSUME \/ ReceiptFails \/ Accept
               \/ \E t \in Times : Swap(t)
        PROVE  StepsLeft(pc') < StepsLeft(pc)
    <2>1. pc' = "idle"
      BY <1>4 DEF ReceiptFails, Accept, Swap, FailInstall, EndSubmit, Return
    <2>. QED  BY <1>1, <2>1, PointsCount
  <1>5. CASE Admit
    <2>1. pc = "admit" /\ (pc' = "idle" \/ pc' = "candidates")
      BY <1>5 DEF Admit, EndSubmit, Return, Continue
    <2>. QED  BY <2>1 DEF StepsLeft
  <1>6. CASE AllocateCandidates
    <2>1. 0 < StepsLeft("candidates") /\ StepsLeft("routes") < StepsLeft("candidates")
      BY DEF StepsLeft
    <2>. QED  BY <1>6, <2>1, AllocateAdvances DEF AllocateCandidates
  <1>7. CASE AllocateRoutes
    <2>1. /\ 0 < StepsLeft("routes")
          /\ StepsLeft("transaction_copy") < StepsLeft("routes")
      BY DEF StepsLeft
    <2>. QED  BY <1>7, <2>1, AllocateAdvances DEF AllocateRoutes
  <1>8. CASE AllocateTransaction
    <2>1. /\ 0 < StepsLeft("transaction_copy")
          /\ StepsLeft("owned_targets") < StepsLeft("transaction_copy")
      BY DEF StepsLeft
    <2>. QED  BY <1>8, <2>1, AllocateAdvances DEF AllocateTransaction
  <1>9. CASE AllocateTargets
    <2>1. /\ 0 < StepsLeft("owned_targets")
          /\ StepsLeft("request") < StepsLeft("owned_targets")
      BY DEF StepsLeft
    <2>. QED  BY <1>9, <2>1, AllocateAdvances DEF AllocateTargets
  <1>10. CASE AllocateRequest
    <2>1. 0 < StepsLeft("request") /\ StepsLeft("accept") < StepsLeft("request")
      BY DEF StepsLeft
    <2>. QED  BY <1>10, <2>1, AllocateAdvances DEF AllocateRequest
  <1>. QED
    BY <1>2, <1>3, <1>4, <1>5, <1>6, <1>7, <1>8, <1>9, <1>10
       DEF Next, InstallStep, SubmitStep

\* Every call returns after at most seven steps of its own, whichever of its
\* callouts fail and however large the snapshot: none of them is retried
\* (solana_delivery.c:743-820, solana_delivery_submission.c:246-460).
THEOREM CallsReturn ==
  /\ Spec => CallsAreBounded
  /\ Spec => [](StepsLeft(pc) \in 0 .. 7 /\ (StepsLeft(pc) = 0 => pc = "idle"))
  <1>1. IInv => StepsLeft(pc) \in 0 .. 7 /\ (StepsLeft(pc) = 0 => pc = "idle")
    BY PointsCount DEF IInv, TypeOK
  <1>2. IInv /\ [Next]_vars =>
          [pc # "idle" => StepsLeft(pc') < StepsLeft(pc)]_vars
    BY StepAdvances
  <1>. QED  BY <1>1, <1>2, Invariance, PTL DEF Spec, CallsAreBounded

\* What was handed out stays handed out while the client lives, and as long
\* as a request's event has not been, a poll with room hands out one more.
PollsMakeProgress ==
  [][client' # NULL =>
       /\ \E s \in Seq(Event) : polled' = polled \o s
       /\ UsefulPoll /\ Len(polled) < Len(requests)
            => Len(polled') > Len(polled)]_vars

\* Only polls hand out.
LEMMA PolledStep ==
  ASSUME [Next]_vars
  PROVE  \/ polled' = polled
         \/ client' = NULL
         \/ \E room \in 0 .. MaxRoom, layout_ok \in BOOLEAN : Poll(room, layout_ok)
  <1>1. CASE Create \/ Destroy
    BY <1>1 DEF Create, Destroy
  <1>2. ASSUME NEW t \in Snapshots, Install(t)
        PROVE  polled' = polled
    BY <1>2 DEF Install
  <1>3. ASSUME NEW bytes, NEW o, Submit(bytes, o)
        PROVE  polled' = polled
    BY <1>3 DEF Submit
  <1>4. CASE InstallStep
    <2>1. ASSUME NEW array \in ArrayNames, CloneArray(array)
          PROVE  polled' = polled
      BY <2>1 DEF CloneArray
    <2>2. ASSUME NEW t \in Times, Swap(t)
          PROVE  polled' = polled
      BY <2>2 DEF Swap
    <2>3. CASE ReceiptFails
      BY <2>3 DEF ReceiptFails
    <2>. QED  BY <1>4, <2>1, <2>2, <2>3 DEF InstallStep
  <1>5. CASE Admit \/ Accept
    BY <1>5 DEF Admit, Accept
  <1>6. CASE \/ AllocateCandidates \/ AllocateRoutes \/ AllocateTransaction
             \/ AllocateTargets \/ AllocateRequest
    BY <1>6 DEF AllocateCandidates, AllocateRoutes, AllocateTransaction,
                AllocateTargets, AllocateRequest, Allocate
  <1>7. CASE UNCHANGED vars
    BY <1>7 DEF vars
  <1>. QED
    BY <1>1, <1>2, <1>3, <1>4, <1>5, <1>6, <1>7 DEF Next, Call, SubmitStep

\* A poll appends the oldest events, one at least if it has room and there
\* is one.
LEMMA PollAppends ==
  ASSUME IInv, NEW room \in 0 .. MaxRoom, NEW layout_ok \in BOOLEAN,
         Poll(room, layout_ok)
  PROVE  /\ \E s \in Seq(Event) : polled' = polled \o s
         /\ room # 0 /\ layout_ok /\ event_queue.count # 0
              => Len(polled') > Len(polled)
  <1>1. /\ event_queue \in Ring(Event) /\ polled \in Seq(Event)
        /\ Contents(event_queue) \in Seq(Event)
    BY DEF IInv, TypeOK, QueuedAreReal
  <1>2. CASE room # 0 /\ ~layout_ok
    <2>1. polled' = polled /\ << >> \in Seq(Event)
      BY <1>2 DEF Poll
    <2>2. polled \o << >> = polled
      BY <1>1, ConcatEmptySeq
    <2>. QED  BY <1>2, <2>1, <2>2
  <1>3. CASE ~(room # 0 /\ ~layout_ok)
    <2>. DEFINE n == CopyCount(event_queue, room)
                c == Contents(event_queue)
                s == SubSeq(c, 1, n)
    <2>1. /\ event_queue.count \in 0 .. QueueCapacity
          /\ event_queue.count \in Nat /\ n \in 0 .. event_queue.count
          /\ room # 0 /\ event_queue.count # 0 => n # 0
      BY <1>1, QueueCapacityAssumption, BoundsAssumption DEF Ring, CopyCount
    <2>2. polled' = polled \o Oldest(event_queue, n)
      BY <1>3 DEF Poll
    <2>. HIDE DEF n
    <2>3. Oldest(event_queue, n) = s
      BY <1>1, <2>1, DrainDrops
    <2>4. Len(c) = event_queue.count
      BY <1>1, <2>1, ContentsType DEF Contents
    <2>. HIDE DEF c
    <2>5. s \in Seq(Event) /\ Len(s) = n
      <3>1. c \in Seq(Event) /\ n \in 0 .. Len(c)
        BY <1>1, <2>1, <2>4 DEF c
      <3>2. s \in Seq(Event)
        BY <3>1, SplitSequence
      <3>3. Len(s) = n
        BY <2>1, <3>1, SubSeqProperties
      <3>. QED  BY <3>2, <3>3
    <2>. HIDE DEF s
    <2>6. polled' = polled \o s /\ Len(polled \o s) = Len(polled) + n
      BY <1>1, <2>2, <2>3, <2>5, ConcatProperties
    <2>7. Len(polled) \in Nat /\ n \in Nat
      BY <1>1, <2>1, LenProperties
    <2>8. /\ Len(polled') = Len(polled) + n
          /\ room # 0 /\ event_queue.count # 0 => n # 0
      BY <2>1, <2>6
    <2>9. room # 0 /\ event_queue.count # 0 => Len(polled') > Len(polled)
      BY ONLY <2>7, <2>8
    <2>. QED  BY <2>5, <2>6, <2>9
  <1>. QED  BY <1>2, <1>3

LEMMA StepHandsOut ==
  ASSUME Books, [Next]_vars, client' # NULL
  PROVE  /\ \E s \in Seq(Event) : polled' = polled \o s
         /\ UsefulPoll /\ Len(polled) < Len(requests)
              => Len(polled') > Len(polled)
  <1>1. IInv /\ EveryRequestHasOneEvent
    BY DEF Books
  <1>2. \E s \in Seq(Event) : polled' = polled \o s
    <2>1. CASE polled' = polled
      <3>1. polled \in Seq(Event) /\ << >> \in Seq(Event)
        BY <1>1 DEF IInv, TypeOK
      <3>2. polled \o << >> = polled
        BY <3>1, ConcatEmptySeq
      <3>. QED  BY <2>1, <3>1, <3>2
    <2>2. ASSUME NEW room \in 0 .. MaxRoom, NEW layout_ok \in BOOLEAN,
                 Poll(room, layout_ok)
          PROVE  \E s \in Seq(Event) : polled' = polled \o s
      BY <1>1, <2>2, PollAppends
    <2>. QED  BY <2>1, <2>2, PolledStep
  <1>3. ASSUME UsefulPoll, Len(polled) < Len(requests)
        PROVE  Len(polled') > Len(polled)
    <2>1. PICK room \in 1 .. MaxRoom : Poll(room, TRUE)
      BY <1>3 DEF UsefulPoll
    <2>2. room \in 0 .. MaxRoom /\ room # 0 /\ TRUE \in BOOLEAN
      BY BoundsAssumption
    <2>3. event_queue.count # 0
      <3>. DEFINE c == Contents(event_queue)
      <3>1. /\ event_queue \in Ring(Event) /\ polled \in Seq(Event)
            /\ c \in Seq(Event)
        BY <1>1 DEF IInv, TypeOK, QueuedAreReal
      <3>2. Len(c) = event_queue.count
        <4>1. event_queue.count \in 0 .. QueueCapacity
          BY <3>1 DEF Ring
        <4>. QED  BY <3>1, <4>1, ContentsType DEF Contents
      <3>3. Len(polled \o c) = Len(requests)
        BY <1>1 DEF EveryRequestHasOneEvent, EventLog
      <3>. HIDE DEF c
      <3>4. Len(polled \o c) = Len(polled) + Len(c) /\ Len(polled) \in Nat
        BY <3>1, ConcatProperties, LenProperties
      <3>. QED  BY <1>3, <3>2, <3>3, <3>4
    <2>. QED  BY <1>1, <2>1, <2>2, <2>3, PollAppends
  <1>. QED  BY <1>2, <1>3

\* The event of request k is the k-th handed out, whatever was queued, drained
\* and wrapped around before, and no poll with room passes it by while it
\* waits: with fairness EveryEventIsPolled follows
\* (solana_delivery_events.c:99-132).
THEOREM EventsComeInTurn ==
  /\ Spec => PollsMakeProgress
  /\ Spec => [](\A k \in DOMAIN polled : polled[k].request_id = k)
  <1>1. Books /\ [Next]_vars =>
          [client' # NULL =>
             /\ \E s \in Seq(Event) : polled' = polled \o s
             /\ UsefulPoll /\ Len(polled) < Len(requests)
                  => Len(polled') > Len(polled)]_vars
    BY StepHandsOut
  <1>2. Books => \A k \in DOMAIN polled : polled[k].request_id = k
    <2>. SUFFICES ASSUME Books, NEW k \in DOMAIN polled
                  PROVE  polled[k].request_id = k
      OBVIOUS
    <2>. DEFINE c == Contents(event_queue)
    <2>1. polled \in Seq(Event) /\ c \in Seq(Event)
      BY DEF Books, IInv, TypeOK, QueuedAreReal
    <2>2. \A j \in DOMAIN (polled \o c) : (polled \o c)[j].request_id = j
      BY DEF Books, EveryRequestHasOneEvent, EventLog
    <2>. HIDE DEF c
    <2>3. k \in DOMAIN (polled \o c) /\ (polled \o c)[k] = polled[k]
      <3>1. /\ Len(polled) \in Nat /\ DOMAIN polled = 1 .. Len(polled)
            /\ Len(c) \in Nat
        BY <2>1, LenProperties
      <3>2. /\ polled \o c \in Seq(Event)
            /\ Len(polled \o c) = Len(polled) + Len(c)
            /\ \A i \in 1 .. Len(polled) + Len(c) :
                 (polled \o c)[i] = IF i <= Len(polled) THEN polled[i]
                                    ELSE c[i - Len(polled)]
        BY <2>1, ConcatProperties
      <3>3. DOMAIN (polled \o c) = 1 .. Len(polled) + Len(c)
        BY <3>2, LenProperties
      <3>. QED  BY <3>1, <3>2, <3>3
    <2>. QED  BY <2>2, <2>3
  <1>. QED  BY <1>1, <1>2, BooksInvariance, PTL DEF Spec, PollsMakeProgress
=============================================================================
