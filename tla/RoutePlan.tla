----------------------------- MODULE RoutePlan -----------------------------
(***************************************************************************)
(* What a plan of targets for a slot must be, independently of how the     *)
(* resolver and the planner find one (docs/architecture/0009 and 0010):    *)
(* the reference their results are compared with.                          *)
(***************************************************************************)
EXTENDS Naturals, Sequences, FiniteSets

\* Leader l has the slot and association a belongs to its validator.
IsHit(t, slot, l, a) ==
  /\ slot \in t.leaders[l].first_slot .. t.leaders[l].last_slot
  /\ t.validator_endpoints[a].validator_index = t.leaders[l].validator_index

Hits(t, slot) ==
  {h \in (DOMAIN t.leaders) \X (DOMAIN t.validator_endpoints) :
     IsHit(t, slot, h[1], h[2])}

\* The order in which the hits count: by leader, then by association.
Before(g, h) == g[1] < h[1] \/ (g[1] = h[1] /\ g[2] < h[2])

\* Where a hit leads: a validator and one of its endpoints.
Destination(t, h) ==
  <<t.leaders[h[1]].validator_index, t.validator_endpoints[h[2]].endpoint_index>>

Destinations(t, slot) == {Destination(t, h) : h \in Hits(t, slot)}

\* The target is a faithful copy of what snapshot t says of hit h.
Describes(t, target, h) ==
  LET v == Destination(t, h)[1]
      e == Destination(t, h)[2]
  IN  /\ target.leader_index = h[1] - 1
      /\ target.validator_index = v
      /\ target.endpoint_index = e
      /\ target.validator_identity = t.validators[v + 1].identity
      /\ target.endpoint = t.endpoints[e + 1]

LeadsTo(target, d) == <<target.validator_index, target.endpoint_index>> = d

\* Each target describes a hit, no two have the same destination, and the
\* destinations of all earlier hits are served by earlier targets.
IsRoutePlan(t, slot, targets) ==
  /\ targets # << >>
  /\ \A i, j \in DOMAIN targets :
       LeadsTo(targets[j], <<targets[i].validator_index,
                             targets[i].endpoint_index>>) => i = j
  /\ \A i \in DOMAIN targets :
       \E h \in Hits(t, slot) :
         /\ Describes(t, targets[i], h)
         /\ \A g \in Hits(t, slot) :
              Before(g, h) =>
                \E j \in 1 .. i - 1 : LeadsTo(targets[j], Destination(t, g))

\* A plan as long as the limit and the snapshot allow.
IsFullRoutePlan(t, slot, limit, targets) ==
  LET all == Cardinality(Destinations(t, slot)) IN
  /\ IsRoutePlan(t, slot, targets)
  /\ Len(targets) = IF all < limit THEN all ELSE limit
=============================================================================
