------------------------- MODULE MCDatagramSegments -------------------------
(***************************************************************************)
(* DatagramSegments with the sizes of mtu_ the first two probes lead to,   *)
(* and messages of up to six datagrams of the smaller.                     *)
(***************************************************************************)
EXTENDS DatagramSegments

MCMtus == {508, 764}
MCSizes == 0..2500
SomeHops == 1..3
=============================================================================
