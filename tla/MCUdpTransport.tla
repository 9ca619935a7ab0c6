--------------------------- MODULE MCUdpTransport ---------------------------
(***************************************************************************)
(* Two nodes, with one or two paths between them.                          *)
(***************************************************************************)
EXTENDS UdpTransport, TLC

CONSTANTS a, b, p1, p2

OnePath == {p1}
TwoPaths == {p1, p2}
Both == {a, b}
MCEnds == [p \in Path |-> {a, b}]

\* The nodes are alike, and so are the paths.
Symmetry == Permutations(Both) \cup Permutations(TwoPaths)
=============================================================================
