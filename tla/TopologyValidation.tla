------------------------- MODULE TopologyValidation -------------------------
(***************************************************************************)
(* solana_delivery_topology_validate (solana_delivery.c): which caller     *)
(* snapshots may be installed, and which status the others are refused     *)
(* with.  A snapshot is the record                                         *)
(*                                                                         *)
(*   [layout_ok, generation, current_slot,                                 *)
(*    validators, endpoints, validator_endpoints, leaders]                 *)
(*                                                                         *)
(* whose last four fields are sequences of elements.  Indices inside the   *)
(* elements count from 0, as in the code, so element number i of an array  *)
(* s is s[i + 1].  What the checks of one element have in common (its      *)
(* struct_size fits the stride, its reserved bytes are zero, an endpoint's *)
(* port is not) is abstracted to the Boolean field wellformed of the       *)
(* element; layout_ok likewise stands for the checks of the outer struct   *)
(* and of the four array layouts.  Identities, ports and addresses are     *)
(* values the code copies and never looks at.                              *)
(***************************************************************************)
EXTENDS Naturals, Sequences

\* The statuses a call on a client can return.
Statuses ==
  {"OK", "INVALID_ARGUMENT", "TOPOLOGY_UNAVAILABLE", "TOPOLOGY_STALE",
   "RESOURCE_EXHAUSTED", "UNSUPPORTED", "INTERNAL_ERROR"}

\* One check: the status that goes on if it holds, or the error it returns.
Require(check, error) == IF check THEN "OK" ELSE error

\* A run of checks ends at the first result that is not the pass mark.
FirstOther(pass, results) ==
  LET others == {i \in DOMAIN results : results[i] # pass}
  IN  IF others = {} THEN pass
      ELSE results[CHOOSE i \in others : \A j \in others : i <= j]

FirstError(results) == FirstOther("OK", results)

InRange(index, array) == index \in 0 .. Len(array) - 1

\* What every snapshot is, valid or not: numbers and finite arrays.
IsArray(s) == Len(s) \in Nat /\ DOMAIN s = 1 .. Len(s)

IsSnapshot(t) ==
  /\ t.generation \in Nat
  /\ t.current_slot \in Nat
  /\ IsArray(t.validators)
  /\ IsArray(t.endpoints)
  /\ IsArray(t.validator_endpoints)
  /\ IsArray(t.leaders)
  /\ \A l \in DOMAIN t.leaders : /\ t.leaders[l].first_slot \in Nat
                                  /\ t.leaders[l].last_slot \in Nat

----------------------------------------------------------------------------
ValidatorStatus(v) == Require(v.wellformed, "INVALID_ARGUMENT")

EndpointStatus(e) ==
  FirstError(<<
    Require(e.wellformed,                        "INVALID_ARGUMENT"),
    Require(e.address_family # "UNSPEC",         "INVALID_ARGUMENT"),
    Require(e.address_family \in {"IPV4", "IPV6"}, "UNSUPPORTED"),
    Require(e.transport # "UNSPEC",              "INVALID_ARGUMENT"),
    Require(e.transport = "QUIC",                "UNSUPPORTED"),
    Require(e.role # "UNSPEC",                   "INVALID_ARGUMENT"),
    Require(e.role = "TPU",                      "UNSUPPORTED"),
    Require(e.address_family = "IPV4" => e.tail_is_zero,
                                                 "INVALID_ARGUMENT") >>)

FaultyAssociationStatus(t, a) == Require(a.wellformed, "INVALID_ARGUMENT")
AssociationStatus(t, a) ==
  Require(/\ a.wellformed
          /\ InRange(a.validator_index, t.validators)
          /\ InRange(a.endpoint_index, t.endpoints), "INVALID_ARGUMENT")

LeaderStatus(t, l) ==
  Require(/\ l.wellformed
          /\ InRange(l.validator_index, t.validators)
          /\ l.first_slot <= l.last_slot, "INVALID_ARGUMENT")

\* The four loops in turn, after the layout checks: the first error wins.
TopologyStatus(t) ==
  IF ~t.layout_ok THEN "INVALID_ARGUMENT"
  ELSE FirstError(
         [i \in DOMAIN t.validators |-> ValidatorStatus(t.validators[i])]
      \o [i \in DOMAIN t.endpoints |-> EndpointStatus(t.endpoints[i])]
      \o [i \in DOMAIN t.validator_endpoints |->
            AssociationStatus(t, t.validator_endpoints[i])]
      \o [i \in DOMAIN t.leaders |-> LeaderStatus(t, t.leaders[i])])
=============================================================================
