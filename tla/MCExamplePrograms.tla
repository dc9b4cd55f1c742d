------------------------- MODULE MCExamplePrograms -------------------------
(***************************************************************************)
(* The example programs for TLC: the library sees the data they build and  *)
(* nothing else.                                                           *)
(***************************************************************************)
EXTENDS ExamplePrograms

MCSnapshots == {Topology}
MCOptions == {SubmitOption}
MCTransactions == {Bytes}
MCProviders == {Descriptor}
MCLocations == {Place}
=============================================================================
