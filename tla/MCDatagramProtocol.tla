------------------------- MODULE MCDatagramProtocol -------------------------
(***************************************************************************)
(* Small instances of DatagramProtocol: a message is its own size, counted *)
(* in smallest datagrams (MIN_MTU = 1); a refused one is larger than that. *)
(***************************************************************************)
EXTENDS DatagramProtocol

CONSTANTS a, b

MCPeer == {a, b}
MCPartner == [n \in MCPeer |-> IF n = a THEN b ELSE a]

\* A message of s units in datagrams of u units.
MCSegments(s, u) == (s + u - 1) \div u
MCSegmentSize(s, u, j) == IF s - j * u < u THEN s - j * u ELSE u

\* Who sends how many messages.
OneWay(k) == [n \in MCPeer |-> IF n = a THEN k ELSE 0]
OneWay2 == OneWay(2)
=============================================================================
