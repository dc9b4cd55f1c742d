---------------------------- MODULE MCEventQueue ----------------------------
(***************************************************************************)
(* The event queue for TLC: a ring of 3 slots, two kinds of event and      *)
(* caller buffers of 0 to 4 events, one more than the ring holds.  The     *)
(* ring has every combination of head, count and stale slot contents.      *)
(***************************************************************************)
EXTENDS EventQueue
=============================================================================
