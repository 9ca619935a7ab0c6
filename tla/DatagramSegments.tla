-------------------------- MODULE DatagramSegments --------------------------
(***************************************************************************)
(* How dht_datagram_protocol cuts one message into datagrams               *)
(* (prepare_to_send) and puts it together again                            *)
(* (continue_process_messages), byte by byte: DatagramProtocol takes from  *)
(* here that the pieces of a message are its size and fit the MTU.         *)
(*                                                                         *)
(* A message has a size and a route; its content does not matter.  The     *)
(* sender's loop runs to its end under the lock, before anything is sent;  *)
(* here each turn hands its datagram over at once, which comes to the same *)
(* as the two ends share nothing but the datagrams, taken in their order.  *)
(***************************************************************************)
EXTENDS Integers

CONSTANTS
  MIN_MTU,     \* smallest size of a datagram (mtu_)
  Mtus,        \* the sizes mtu_ may have when the message is sent
  Sizes,       \* sizes of messages
  HopCounts    \* numbers of hops of the messages this node passes on

ASSUME SegmentsAssumption ==
  /\ MIN_MTU = 508 /\ Mtus \subseteq {m \in Nat : m >= MIN_MTU}
  /\ Sizes \subseteq Nat
  /\ HopCounts \subseteq 1..10   \* client::proxy_message passes on no more

\* A message goes to the partner of the session, to another node through it,
\* or on behalf of other nodes, whose ids go along.
Direct == [kind |-> "direct", hops |-> 0]
Through == [kind |-> "route", hops |-> 0]
Route == {Direct, Through} \cup [kind : {"proxy"}, hops : HopCounts]

VARIABLES
  mtu, size, route,  \* what prepare_to_send starts from
  sending,           \* "first", "next" or "sent": what it builds now
  offset,            \* bytes of the message that are cut off
  wire,              \* the datagram handed over, or Nothing
  receiving,         \* "head", "tail", "whole" or "refused"
  left,              \* bytes of the message that are still missing (size)
  got                \* bytes of the message that are put together

message == <<mtu, size, route>>
vars == <<message, sending, offset, wire, receiving, left, got>>

Nothing == [kind |-> "none", total |-> 0]
Datagram == [kind : {"none", "single", "head", "tail"}, total : Nat]

\* The bytes of a datagram that are not the message: type, index and HMAC;
\* the target; the number of hops and the hops; the size of a cut message.
INDEX_SIZE == 4
SIZE_SIZE == 4
TailOverhead == 1 + INDEX_SIZE + 32
Overhead(r) == TailOverhead + CASE r.kind = "direct" -> 0
                                [] r.kind = "route" -> 32
                                [] r.kind = "proxy" -> 32 + 1 + 32 * r.hops
\* Mutant: the field of the size is forgotten.
HeadOverheadWithoutSize(r) == Overhead(r)
HeadOverhead(r) == Overhead(r) + SIZE_SIZE

Init ==
  /\ mtu \in Mtus /\ size \in Sizes /\ route \in Route
  /\ sending = "first" /\ offset = 0 /\ wire = Nothing
  /\ receiving = "head" /\ left = 0 /\ got = 0

-----------------------------------------------------------------------------
\* prepare_to_send

\* A message goes in one datagram when it is smaller than the MTU with it.
FitsOne == Overhead(route) + size < mtu

SendSingle ==
  /\ sending = "first" /\ FitsOne /\ wire = Nothing
  /\ wire' = [kind |-> "single", total |-> Overhead(route) + size]
  /\ sending' = "sent"
  /\ UNCHANGED <<message, offset, receiving, left, got>>

\* Otherwise the first datagram is filled up.
SendHead ==
  /\ sending = "first" /\ ~ FitsOne /\ wire = Nothing
  /\ offset' = mtu - HeadOverhead(route)
  /\ wire' = [kind |-> "head", total |-> HeadOverhead(route) + offset']
  /\ sending' = "next"
  /\ UNCHANGED <<message, receiving, left, got>>

\* Mutant: the rest is compared with what the head carried.
PieceLikeHead == IF mtu - HeadOverhead(route) > size - offset
                 THEN size - offset ELSE mtu - TailOverhead

\* What the next datagram of a cut message carries.
Piece == IF mtu - TailOverhead > size - offset THEN size - offset
                                               ELSE mtu - TailOverhead
\* Mutant: the message's last byte is no longer the end.
LastPieceBehind == offset + Piece > size
\* The loop for the rest of the message is left at its end.
LastPiece == offset + Piece >= size

SendTail ==
  /\ sending = "next" /\ wire = Nothing
  /\ wire' = [kind |-> "tail", total |-> TailOverhead + Piece]
  /\ IF LastPiece THEN sending' = "sent" /\ UNCHANGED offset
                  ELSE offset' = offset + Piece /\ UNCHANGED sending
  /\ UNCHANGED <<message, receiving, left, got>>

-----------------------------------------------------------------------------
\* continue_process_messages.  Its loop starts at the head again each time a
\* datagram arrives; what it has read until then is the same every time.

ReceiveSingle ==
  /\ receiving = "head" /\ wire.kind = "single"
  /\ got' = wire.total - Overhead(route)
  /\ receiving' = "whole" /\ wire' = Nothing
  /\ UNCHANGED <<message, sending, offset, left>>

\* The size in the head must exceed what the head carries.  This check takes
\* a message that is passed on for one with one hop.
CheckedOverhead(r) ==
  CASE r.kind = "direct" -> 1 + INDEX_SIZE + SIZE_SIZE + 32
    [] r.kind = "route" -> 1 + INDEX_SIZE + SIZE_SIZE + 32 + 32
    [] r.kind = "proxy" -> 1 + INDEX_SIZE + SIZE_SIZE + 32 + 32 + 1 + 32

ReceiveHead ==
  /\ receiving = "head" /\ wire.kind = "head"
  /\ IF size <= wire.total - CheckedOverhead(route)
     THEN receiving' = "refused" /\ UNCHANGED <<left, got>>
     ELSE /\ got' = wire.total - HeadOverhead(route)
          /\ left' = size - (wire.total - HeadOverhead(route))
          /\ receiving' = "tail"
  /\ wire' = Nothing
  /\ UNCHANGED <<message, sending, offset>>

ReceiveTail ==
  /\ receiving = "tail" /\ wire.kind = "tail"
  /\ IF left < wire.total - TailOverhead
     THEN receiving' = "refused" /\ UNCHANGED <<left, got>>
     ELSE /\ got' = got + (wire.total - TailOverhead)
          /\ left' = left - (wire.total - TailOverhead)
          /\ receiving' = IF left' = 0 THEN "whole" ELSE "tail"
  /\ wire' = Nothing
  /\ UNCHANGED <<message, sending, offset>>

Next == SendSingle \/ SendHead \/ SendTail
        \/ ReceiveSingle \/ ReceiveHead \/ ReceiveTail

Spec == Init /\ [][Next]_vars

-----------------------------------------------------------------------------
\* Everything that was sent is taken.
Over == sending = "sent" /\ wire = Nothing

\* Each variable keeps its type, and the sizes are those the constants allow.
TypeOK ==
  /\ mtu \in Mtus /\ size \in Sizes /\ route \in Route
  /\ sending \in {"first", "next", "sent"} /\ offset \in Nat
  /\ wire \in Datagram /\ receiving \in {"head", "tail", "whole", "refused"}
  /\ left \in Nat /\ got \in Nat

\* prepare_to_send never builds a datagram above the MTU, none of a cut
\* message is empty, and it never reads behind the end of the message: its
\* three assertions, and the one on p1 in continue_process_messages.
CutsWell ==
  /\ wire.total <= mtu
  /\ wire.kind = "head" => wire.total > HeadOverhead(route)
  /\ wire.kind = "tail" => wire.total > TailOverhead
  /\ sending = "next" => offset <= size

\* When all datagrams of a message are taken, the message is there with all
\* its bytes, unless the check of the head refused it; and a message is never
\* complete while more of its datagrams come, which would be taken for the
\* begin of another one and block the session.
WholeMessage ==
  /\ receiving = "whole" => Over /\ got = size
  /\ Over => receiving \in {"whole", "refused"}

\* Only a message with at least two hops that has to be cut is refused, and
\* only when what is left for the tail is small: the check of the head is
\* wrong by 32 bytes for each hop but one, less the part sent in the head.
RefusedOnlyForHops ==
  receiving = "refused" =>
    /\ route.kind = "proxy" /\ route.hops >= 2
    /\ size <= mtu - HeadOverhead(route) + 32 * (route.hops - 1)
=============================================================================
