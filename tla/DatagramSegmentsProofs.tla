----------------------- MODULE DatagramSegmentsProofs -----------------------
(***************************************************************************)
(* Proofs about DatagramSegments, for every MTU of at least 508 bytes,     *)
(* every size of message and up to ten hops.                               *)
(***************************************************************************)
EXTENDS DatagramSegments, TLAPS

\* Between the two ends: how far the sender is says what is in flight, and
\* with it what the receiver has and still misses.
FirstInv ==
  sending = "first" => wire = Nothing /\ receiving = "head"

CutInv ==
  /\ sending = "next" => ~ FitsOne /\ 0 < offset /\ offset < size
  /\ receiving = "head" /\ wire = Nothing => sending = "first"

SingleInv ==
  wire.kind = "single" =>
    /\ sending = "sent" /\ receiving = "head" /\ FitsOne
    /\ wire.total = Overhead(route) + size

HeadInv ==
  wire.kind = "head" =>
    /\ sending = "next" /\ receiving = "head" /\ wire.total = mtu
    /\ offset = mtu - HeadOverhead(route)

TailInv ==
  wire.kind = "tail" =>
    /\ TailOverhead < wire.total /\ wire.total <= mtu
    /\ receiving \in {"tail", "refused"} /\ sending \in {"next", "sent"}
    /\ (receiving = "tail" =>
          IF sending = "next" THEN offset = got + (wire.total - TailOverhead)
                              ELSE left = wire.total - TailOverhead)

RestInv ==
  receiving = "tail" =>
    /\ got + left = size /\ 0 < left
    /\ wire.kind \in {"none", "tail"}
    /\ (wire = Nothing => sending = "next" /\ offset = got)

EndInv ==
  /\ receiving = "whole" => Over /\ got = size
  /\ receiving = "refused" => sending # "first" /\ wire.kind \in {"none", "tail"}

NothingInv == wire.kind = "none" => wire = Nothing

Inv == TypeOK /\ FirstInv /\ CutInv /\ SingleInv /\ HeadInv /\ TailInv
       /\ RestInv /\ EndInv /\ RefusedOnlyForHops /\ NothingInv

\* The head of a cut message leaves room for the message, on every route;
\* the check of the head is right but for the hops behind the first.
LEMMA OverheadFacts ==
  ASSUME NEW r \in Route, NEW m \in Mtus
  PROVE  /\ m \in Nat /\ Overhead(r) \in Nat /\ CheckedOverhead(r) \in Nat
         /\ HeadOverhead(r) = Overhead(r) + 4
         /\ 37 <= Overhead(r) /\ HeadOverhead(r) + 100 < m
         /\ CheckedOverhead(r) <= HeadOverhead(r)
         /\ r.kind = "proxy" =>
              r.hops \in Nat /\ CheckedOverhead(r) = HeadOverhead(r) - 32 * (r.hops - 1)
         /\ r.kind # "proxy" => CheckedOverhead(r) = HeadOverhead(r)
<1>1. m \in Nat /\ m >= 508
  BY SegmentsAssumption
<1>2. CASE r = Direct
  <2>1. r.kind = "direct"
    BY <1>2 DEF Direct
  <2>2. TailOverhead = 37 /\ Overhead(r) = 37 /\ CheckedOverhead(r) = 41
    BY <2>1 DEF Overhead, CheckedOverhead, TailOverhead, INDEX_SIZE, SIZE_SIZE
  <2> QED
    BY <1>1, <2>1, <2>2 DEF HeadOverhead, SIZE_SIZE
<1>3. CASE r = Through
  <2>1. r.kind = "route"
    BY <1>3 DEF Through
  <2>2. Overhead(r) = 69 /\ CheckedOverhead(r) = 73
    BY <2>1 DEF Overhead, CheckedOverhead, TailOverhead, INDEX_SIZE, SIZE_SIZE
  <2> QED
    BY <1>1, <2>1, <2>2 DEF HeadOverhead, SIZE_SIZE
<1>4. CASE r \in [kind : {"proxy"}, hops : HopCounts]
  <2>1. r.kind = "proxy" /\ r.hops \in 1..10
    BY <1>4, SegmentsAssumption
  <2>2. Overhead(r) = 70 + 32 * r.hops /\ CheckedOverhead(r) = 106
    BY <2>1 DEF Overhead, CheckedOverhead, TailOverhead, INDEX_SIZE, SIZE_SIZE
  <2>3. r.hops \in Nat /\ 1 <= r.hops /\ r.hops <= 10
    BY <2>1
  <2>4. Overhead(r) \in Nat /\ HeadOverhead(r) = 74 + 32 * r.hops
    BY <2>2, <2>3 DEF HeadOverhead, SIZE_SIZE
  <2>5. HeadOverhead(r) <= 394 /\ 106 <= HeadOverhead(r)
        /\ HeadOverhead(r) = Overhead(r) + 4
        /\ CheckedOverhead(r) = HeadOverhead(r) - 32 * (r.hops - 1)
    BY <2>2, <2>3, <2>4
  <2> QED
    BY <1>1, <2>1, <2>2, <2>3, <2>4, <2>5
<1> QED
  BY <1>2, <1>3, <1>4 DEF Route

LEMMA InitInv == Init => Inv
<1> SUFFICES ASSUME Init PROVE Inv
  OBVIOUS
<1> QED
  BY DEF Init, Inv, TypeOK, FirstInv, CutInv, SingleInv, HeadInv, TailInv, RestInv,
         EndInv, NothingInv, RefusedOnlyForHops, Nothing, Datagram

\* One step per action.  The message is the same all the time, so the bytes
\* each datagram spends on its header are.
LEMMA NextInv == Inv /\ [Next]_vars => Inv'
<1> SUFFICES ASSUME Inv, [Next]_vars PROVE Inv'
  OBVIOUS
<1>1. mtu \in Nat /\ size \in Nat /\ offset \in Nat /\ left \in Nat /\ got \in Nat
  BY SegmentsAssumption DEF Inv, TypeOK
<1>2. /\ Overhead(route) \in Nat /\ CheckedOverhead(route) \in Nat
      /\ HeadOverhead(route) = Overhead(route) + 4
      /\ 37 <= Overhead(route) /\ HeadOverhead(route) + 100 < mtu
      /\ CheckedOverhead(route) <= HeadOverhead(route)
      /\ route.kind = "proxy" =>
           route.hops \in Nat
           /\ CheckedOverhead(route) = HeadOverhead(route) - 32 * (route.hops - 1)
      /\ route.kind # "proxy" => CheckedOverhead(route) = HeadOverhead(route)
  BY OverheadFacts DEF Inv, TypeOK
<1>3. CASE SendSingle
  BY <1>1, <1>2, <1>3 DEF SendSingle, message, Nothing, Datagram, Inv,
     TypeOK, FirstInv, CutInv, SingleInv, HeadInv, TailInv, RestInv, EndInv,
     NothingInv, RefusedOnlyForHops, Over, FitsOne, TailOverhead, INDEX_SIZE
<1>4. CASE SendHead
  BY <1>1, <1>2, <1>4 DEF SendHead, message, Nothing, Datagram, Inv,
     TypeOK, FirstInv, CutInv, SingleInv, HeadInv, TailInv, RestInv, EndInv,
     NothingInv, RefusedOnlyForHops, Over, FitsOne, TailOverhead, INDEX_SIZE
<1>5. CASE SendTail
  BY <1>1, <1>2, <1>5 DEF SendTail, Piece, LastPiece, message, Nothing, Datagram, Inv,
     TypeOK, FirstInv, CutInv, SingleInv, HeadInv, TailInv, RestInv, EndInv,
     NothingInv, RefusedOnlyForHops, Over, FitsOne, TailOverhead, INDEX_SIZE
<1>6. CASE ReceiveSingle
  BY <1>1, <1>2, <1>6 DEF ReceiveSingle, message, Nothing, Datagram, Inv,
     TypeOK, FirstInv, CutInv, SingleInv, HeadInv, TailInv, RestInv, EndInv,
     NothingInv, RefusedOnlyForHops, Over, FitsOne, TailOverhead, INDEX_SIZE
<1>7. CASE ReceiveHead
  BY <1>1, <1>2, <1>7 DEF ReceiveHead, message, Nothing, Datagram, Inv,
     TypeOK, FirstInv, CutInv, SingleInv, HeadInv, TailInv, RestInv, EndInv,
     NothingInv, RefusedOnlyForHops, Over, FitsOne, TailOverhead, INDEX_SIZE
<1>8. CASE ReceiveTail
  BY <1>1, <1>2, <1>8 DEF ReceiveTail, message, Nothing, Datagram, Inv,
     TypeOK, FirstInv, CutInv, SingleInv, HeadInv, TailInv, RestInv, EndInv,
     NothingInv, RefusedOnlyForHops, Over, FitsOne, TailOverhead, INDEX_SIZE
<1>9. CASE UNCHANGED vars
  BY <1>9 DEF vars, message, Inv, TypeOK, FirstInv, CutInv, SingleInv, HeadInv, TailInv,
     RestInv, EndInv, NothingInv, RefusedOnlyForHops, Over, FitsOne
<1> QED
  BY <1>3, <1>4, <1>5, <1>6, <1>7, <1>8, <1>9 DEF Next

\* The end of a run: the sender is done and everything is taken.
LEMMA InvImplies == Inv => CutsWell /\ WholeMessage
<1> SUFFICES ASSUME Inv PROVE CutsWell /\ WholeMessage
  OBVIOUS
<1>1. mtu \in Nat /\ size \in Nat /\ offset \in Nat
  BY SegmentsAssumption DEF Inv, TypeOK
<1>2. 37 <= Overhead(route) /\ HeadOverhead(route) + 100 < mtu
      /\ Overhead(route) \in Nat /\ HeadOverhead(route) \in Int
  BY OverheadFacts DEF Inv, TypeOK
<1>3. CutsWell
  BY <1>1, <1>2 DEF Inv, TypeOK, CutsWell, Datagram, Nothing, SingleInv, HeadInv,
     TailInv, CutInv, NothingInv, FitsOne
<1>4. WholeMessage
  BY DEF Inv, TypeOK, WholeMessage, Over, CutInv, RestInv, EndInv, Nothing
<1> QED
  BY <1>3, <1>4

LEMMA Invariant == Spec => []Inv
  BY InitInv, NextInv, PTL DEF Spec

\* prepare_to_send keeps every datagram within the MTU, sends none of a cut
\* message empty and never reads behind the end of the message.
THEOREM CutsWithinMtu == Spec => []CutsWell
  BY Invariant, InvImplies, PTL

\* A message that is not refused is put together with exactly its bytes, by
\* the time its last datagram is read and not earlier.
THEOREM MessageComesWhole == Spec => []WholeMessage
  BY Invariant, InvImplies, PTL

\* The check of the head refuses nothing but messages with two hops or more,
\* in a window of 32 bytes for each hop but the first.
THEOREM OnlyHopsAreRefused == Spec => []RefusedOnlyForHops
<1>1. Inv => RefusedOnlyForHops
  BY DEF Inv
<1> QED
  BY <1>1, Invariant, PTL
=============================================================================
