-------------------------- MODULE MCIngressStream --------------------------
(***************************************************************************)
(* One receiver, and every order of up to MaxSent datagrams of each kind.  *)
(***************************************************************************)
EXTENDS IngressStream

MCDatagrams ==
  [size : {0, 33}, side : {1}, body : 1 .. MaxSent]
    \union [size : {33}, side : {2}, body : 1 .. MaxSent]
    \union [size : {34}, side : {1}, body : 1 .. MaxSent]
=============================================================================
