------------------------- MODULE MCIngressReceiver -------------------------
(***************************************************************************)
(* Receivers for TLC, and the datagrams that can come: empty, of another   *)
(* size, with a side that is not one, and good.                            *)
(***************************************************************************)
EXTENDS IngressReceiver

Datagram(size, side) == [size |-> size, side |-> side, body |-> "b"]

MCDatagrams == {Datagram(0, 0), Datagram(33, 2), Datagram(33, 1)}
=============================================================================
