-------------------------- MODULE DatagramProtocol --------------------------
(***************************************************************************)
(* The datagram session of libs_server/vds_dht_network                     *)
(* (dht_datagram_protocol): two peers exchange messages over UDP.  A       *)
(* message becomes one datagram, or a first datagram and continuations;    *)
(* every datagram has an index, is kept by its sender until the partner    *)
(* acknowledges it, and is handed to process_message in index order.       *)
(* Acknowledgments are periodic: the index up to which everything arrived, *)
(* and a mask of what is missing behind it.  The same timer probes for a   *)
(* larger datagram size.                                                   *)
(*                                                                         *)
(* An action is what the code does while it holds a mutex (or between two  *)
(* of them); the network loses, duplicates and reorders datagrams.  The    *)
(* peers' two directions share a session, so an error in one ends both.    *)
(***************************************************************************)
EXTENDS Naturals, Sequences, FiniteSets

CONSTANTS
  Peer, Partner,        \* the two ends, and [Peer -> Peer]
  Message,              \* messages of the layer above
  Refused,              \* segmented messages whose sizes the receiver rejects
  Garbled,              \* what a wrong reassembly would deliver
  Segments(_, _),       \* datagrams that message m takes at datagram size u
  SegmentSize(_, _, _), \* size of the j-th (from 0) of them
  IndexLimit,           \* indexes are uint32_t: 2^32
  MaskWidth,            \* bits of the acknowledgment's mask: 32
  MIN_MTU, MTU_STEP, MAX_MTU, CHECK_MTU_TIMEOUT,
  SEND_TIMEOUT, PROCESS_TIMEOUT,
  PathMtu,              \* largest datagram the network carries
  WritesFail,           \* whether a write to the socket can fail
  MaxMessages,          \* bound: [Peer -> Nat], messages a peer sends
  MaxTicks,             \* bound: where the tick counters stop
  MaxInFlight           \* bound: acknowledgments, and probes, in flight each way

ASSUME PeerAssumption ==
  /\ Partner \in [Peer -> Peer]
  /\ \A n \in Peer : Partner[n] # n /\ Partner[Partner[n]] = n

ASSUME MessageAssumption == Refused \subseteq Message /\ Garbled \notin Message

ASSUME SizeAssumption ==
  /\ {IndexLimit, MaskWidth, MIN_MTU, MTU_STEP, MAX_MTU, CHECK_MTU_TIMEOUT,
      SEND_TIMEOUT, PROCESS_TIMEOUT, PathMtu, MaxTicks, MaxInFlight} \subseteq Nat
  /\ MaxMessages \in [Peer -> Nat] /\ WritesFail \in BOOLEAN
  /\ MIN_MTU <= PathMtu /\ IndexLimit > 1 /\ MaskWidth < IndexLimit /\ MaxInFlight > 0

ASSUME SegmentAssumption ==
  \A m \in Message, u \in MIN_MTU..PathMtu :
    /\ Segments(m, u) \in Nat /\ 0 < Segments(m, u) /\ Segments(m, u) < IndexLimit
    /\ \A j \in 0..(Segments(m, u) - 1) : SegmentSize(m, u, j) \in 0..u

Index == 0..(IndexLimit - 1)

\* An index sum in uint32_t; the sums below stay under 2 * IndexLimit.
Wrap(i) == IF i < IndexLimit THEN i ELSE i - IndexLimit

\* A datagram that carries (a part of) a message.  Its kind follows from
\* segments and seg: SingleData, Data (the first of several), ContinueData.
Datagram == [index : Index, msg : Message, seg : Nat, segments : Nat, size : Nat]

IsSingle(d) == d.segments = 1
IsHead(d) == d.seg = 0

VARIABLES
  last_output,   \* last_output_index_
  output,        \* output_messages_, a set of datagrams with distinct indexes
  last_input,    \* last_input_index_: everything below it has arrived
  expected,      \* expected_index_: first index of the next message to deliver
  input,         \* input_messages_
  reading,       \* FALSE while the read loop is in continue_process_messages
  failed,        \* failed_state_
  closed,        \* the transport dropped the session
  last_sent,     \* last_sent_, in timer ticks
  last_processed,\* ticks since last_processed_
  check_mtu, mtu, input_mtu,
  net_data,      \* datagrams in flight, with their receiver
  net_acks,      \* acknowledgments in flight
  net_probes,    \* MTUTest datagrams in flight
  sent,          \* history: the messages accepted by send_message
  bounds,        \* history: message k has the indexes bounds[k] .. bounds[k+1]-1
  delivered      \* history: the messages passed to process_message

window == <<last_output, output, last_input, expected, input>>
session == <<reading, failed, closed, last_sent, last_processed>>
mtus == <<check_mtu, mtu, input_mtu>>
network == <<net_data, net_acks, net_probes>>
history == <<sent, bounds, delivered>>
vars == <<window, session, mtus, network, history>>

Has(S, i) == \E d \in S : d.index = i

WindowType ==
  /\ last_output \in [Peer -> Index] /\ output \in [Peer -> SUBSET Datagram]
  /\ last_input \in [Peer -> Index] /\ input \in [Peer -> SUBSET Datagram]
  /\ expected \in [Peer -> Nat]
SessionType ==
  /\ reading \in [Peer -> BOOLEAN] /\ failed \in [Peer -> BOOLEAN]
  /\ closed \in [Peer -> BOOLEAN]
  /\ last_sent \in [Peer -> Nat] /\ last_processed \in [Peer -> Nat]
MtuType ==
  /\ check_mtu \in [Peer -> Nat] /\ mtu \in [Peer -> Nat] /\ input_mtu \in [Peer -> Nat]
NetworkType ==
  /\ net_data \subseteq [to : Peer, dg : Datagram]
  /\ net_acks \subseteq [to : Peer, index : Index, missing : SUBSET Nat, mtu : Nat]
  /\ net_probes \subseteq [to : Peer, size : Nat]
HistoryType ==
  /\ sent \in [Peer -> Seq(Message)] /\ bounds \in [Peer -> Seq(Nat)]
  /\ delivered \in [Peer -> Seq(Message \cup {Garbled})]

TypeOK == WindowType /\ SessionType /\ MtuType /\ NetworkType /\ HistoryType

Init ==
  /\ last_output = [n \in Peer |-> 0] /\ output = [n \in Peer |-> {}]
  /\ last_input = [n \in Peer |-> 0] /\ input = [n \in Peer |-> {}]
  /\ expected = [n \in Peer |-> 0]
  /\ reading = [n \in Peer |-> TRUE] /\ failed = [n \in Peer |-> FALSE]
  /\ closed = [n \in Peer |-> FALSE]
  /\ last_sent = [n \in Peer |-> 0] /\ last_processed = [n \in Peer |-> 0]
  /\ check_mtu = [n \in Peer |-> 0] /\ mtu = [n \in Peer |-> MIN_MTU]
  /\ input_mtu = [n \in Peer |-> 0]
  /\ net_data = {} /\ net_acks = {} /\ net_probes = {}
  /\ sent = [n \in Peer |-> <<>>] /\ bounds = [n \in Peer |-> <<0>>]
  /\ delivered = [n \in Peer |-> <<>>]

-----------------------------------------------------------------------------
(***************************************************************************)
(* Sending: send_message, proxy_message, send_message_async and            *)
(* prepare_to_send.  Nothing here looks at failed_state_, so messages are  *)
(* still accepted after the index has run over; they are no longer part of *)
(* the history.                                                            *)
(***************************************************************************)

\* Mutant: the index is not cut to 32 bits.
CutWide(n, m) ==
  {[index |-> last_output[n] + j, msg |-> m, seg |-> j,
    segments |-> Segments(m, mtu[n]), size |-> SegmentSize(m, mtu[n], j)] :
      j \in 0..(Segments(m, mtu[n]) - 1)}

\* The datagrams prepare_to_send cuts m into, with indexes modulo 2^32.
Cut(n, m) ==
  {[index |-> Wrap(last_output[n] + j), msg |-> m, seg |-> j,
    segments |-> Segments(m, mtu[n]), size |-> SegmentSize(m, mtu[n], j)] :
      j \in 0..(Segments(m, mtu[n]) - 1)}

\* std::map::emplace: an index that is taken keeps its datagram.
Emplace(S, ds) == S \cup {d \in ds : ~ Has(S, d.index)}

SendMessage(n, m) ==
  LET final == Wrap(last_output[n] + Segments(m, mtu[n]))
      overflow == final < last_output[n]
  IN
  /\ ~ closed[n]
  /\ failed[n] \/ Len(sent[n]) < MaxMessages[n]
  /\ output' = [output EXCEPT ![n] = Emplace(@, Cut(n, m))]
  /\ last_output' = [last_output EXCEPT ![n] = final]
  /\ failed' = [failed EXCEPT ![n] = @ \/ overflow]
  /\ net_data' = IF overflow THEN net_data
                 ELSE net_data \cup
                   {[to |-> Partner[n], dg |-> d] :
                      d \in {e \in output'[n] : e.index \in last_output[n]..(final - 1)}}
  /\ IF failed[n] THEN UNCHANGED <<sent, bounds>>
     ELSE /\ sent' = [sent EXCEPT ![n] = Append(@, m)]
          /\ bounds' = [bounds EXCEPT ![n] =
                          Append(@, last_output[n] + Segments(m, mtu[n]))]
  /\ UNCHANGED <<last_input, expected, input, reading, closed, last_sent,
                 last_processed, mtus, net_acks, net_probes, delivered>>

-----------------------------------------------------------------------------
(***************************************************************************)
(* on_timer: count, probe for a larger datagram size, acknowledge.         *)
(***************************************************************************)

Tick(t) == IF t < MaxTicks THEN t + 1 ELSE t

\* The network carries MaxInFlight of a kind each way; x pushes out an older one.
Carry(S, x) ==
  LET same == {y \in S : y.to = x.to} IN
  IF Cardinality(same) < MaxInFlight THEN {S \cup {x}}
  ELSE {(S \ {y}) \cup {x} : y \in same}

\* Mutant: reports the size this peer probes with, not what it received.
AcknowledgmentOwnMtu(n) ==
  [to |-> Partner[n], index |-> last_input[n],
   missing |-> {i \in 1..MaskWidth : ~ Has(input[n], Wrap(last_input[n] + i))},
   mtu |-> mtu[n] + MTU_STEP]

\* send_acknowledgment
Acknowledgment(n) ==
  [to |-> Partner[n], index |-> last_input[n],
   missing |-> {i \in 1..MaskWidth : ~ Has(input[n], Wrap(last_input[n] + i))},
   mtu |-> input_mtu[n]]

OnTimer(n) ==
  /\ ~ closed[n]
  /\ check_mtu' = [check_mtu EXCEPT ![n] = IF @ < CHECK_MTU_TIMEOUT THEN @ + 1 ELSE @]
  /\ last_sent' = [last_sent EXCEPT ![n] = Tick(@)]
  /\ last_processed' = [last_processed EXCEPT ![n] = Tick(@)]
  /\ IF check_mtu'[n] < CHECK_MTU_TIMEOUT /\ mtu[n] + MTU_STEP < MAX_MTU
     THEN net_probes' \in Carry(net_probes, [to |-> Partner[n], size |-> mtu[n] + MTU_STEP])
     ELSE UNCHANGED net_probes
  /\ net_acks' \in Carry(net_acks, Acknowledgment(n))
  /\ UNCHANGED <<window, reading, failed, closed, mtu, input_mtu, net_data, history>>

-----------------------------------------------------------------------------
(***************************************************************************)
(* process_datagram, called by the transport's read loop for one datagram  *)
(* at a time.  An error makes the transport drop the session.              *)
(***************************************************************************)

Broken(n) == failed[n] \/ last_sent[n] > SEND_TIMEOUT

\* Every datagram that gets past the two checks raises input_mtu_.
SeeSize(n, size) ==
  input_mtu' = [input_mtu EXCEPT ![n] = IF @ < size THEN size ELSE @]

\* Taken from the network, or left there to arrive again.
Arrives(S, x) == {S, S \ {x}}

Close(n) == closed' = [closed EXCEPT ![n] = TRUE]

ProcessMtuTest(n, p) ==
  /\ ~ closed[n] /\ reading[n] /\ p.to = n /\ p.size <= PathMtu
  /\ net_probes' \in Arrives(net_probes, p)
  /\ IF Broken(n) THEN Close(n) /\ UNCHANGED input_mtu
     ELSE SeeSize(n, p.size) /\ UNCHANGED closed
  /\ UNCHANGED <<window, reading, failed, last_sent, last_processed,
                 check_mtu, mtu, net_data, net_acks, history>>

\* Mutants: one datagram too many, one too few is kept; the first missing
\* datagram is not sent again.
UnacknowledgedAfter(n, i) == {d \in output[n] : d.index > i}
UnacknowledgedLate(n, i) == {d \in output[n] : d.index + 1 >= i}
ResendMasked(a) == {Wrap(a.index + i) : i \in a.missing}

\* The datagrams of n that an acknowledgment up to i leaves to be repeated.
Unacknowledged(n, i) == {d \in output[n] : d.index >= i}

\* The indexes an acknowledgment asks for.
Resend(a) == {a.index} \cup {Wrap(a.index + i) : i \in a.missing}

\* process_acknowledgment.  The acknowledgment's own 11 bytes never exceed an
\* input_mtu_ that matters and are left out.  last_sent_ is written here and
\* in on_timer by different threads and without a lock: the reset may be lost.
\* A write that fails ends the resending, and with it the session.
ProcessAcknowledgment(n, a) ==
  LET kept == Unacknowledged(n, a.index)
      again == {[to |-> Partner[n], dg |-> d] : d \in {e \in kept : e.index \in Resend(a)}}
  IN
  /\ ~ closed[n] /\ reading[n] /\ a.to = n
  /\ net_acks' \in Arrives(net_acks, a)
  /\ IF Broken(n)
     THEN /\ Close(n)
          /\ UNCHANGED <<output, last_sent, mtu, net_data>>
     ELSE /\ output' = [output EXCEPT ![n] = kept]
          /\ \E t \in IF kept = output[n] THEN {last_sent[n]} ELSE {0, last_sent[n]} :
               last_sent' = [last_sent EXCEPT ![n] = t]
          /\ \/ /\ net_data' = net_data \cup again
                /\ mtu' = [mtu EXCEPT ![n] = IF @ < a.mtu THEN a.mtu ELSE @]
                /\ UNCHANGED closed
             \/ /\ WritesFail /\ again # {}
                /\ \E written \in SUBSET again : net_data' = net_data \cup written
                /\ Close(n) /\ UNCHANGED mtu
  /\ UNCHANGED <<last_output, last_input, expected, input, reading, failed,
                 last_processed, check_mtu, input_mtu, net_probes, history>>

\* A datagram with (a part of) a message: kept if its index is not there yet.
ProcessData(n, x) ==
  LET d == x.dg IN
  /\ ~ closed[n] /\ reading[n] /\ x.to = n /\ d.size <= PathMtu
  /\ net_data' \in Arrives(net_data, x)
  /\ IF Broken(n)
     THEN Close(n) /\ UNCHANGED <<input, reading, input_mtu>>
     ELSE /\ SeeSize(n, d.size)
          /\ IF last_processed[n] > PROCESS_TIMEOUT
             THEN Close(n) /\ UNCHANGED <<input, reading>>
             ELSE /\ UNCHANGED closed
                  /\ IF Has(input[n], d.index) THEN UNCHANGED <<input, reading>>
                     ELSE /\ input' = [input EXCEPT ![n] = @ \cup {d}]
                          /\ reading' = [reading EXCEPT ![n] = FALSE]
  /\ UNCHANGED <<last_output, output, last_input, expected, failed, last_sent,
                 last_processed, check_mtu, mtu, net_acks, net_probes, history>>

-----------------------------------------------------------------------------
(***************************************************************************)
(* continue_process_messages: one action per turn of its loop.  A turn     *)
(* moves last_input_index_ past what has arrived, then looks at the        *)
(* datagram with the smallest index.                                       *)
(***************************************************************************)

\* j is the first index from last_input_index_ on that has not arrived.
FirstMissing(n, j) ==
  /\ j >= last_input[n] /\ ~ Has(input[n], j)
  /\ \A i \in last_input[n]..(j - 1) : Has(input[n], i)

Advance(n) == \E j \in Index : FirstMissing(n, j) /\ last_input' = [last_input EXCEPT ![n] = j]

First(n, d) == d \in input[n] /\ \A e \in input[n] : d.index <= e.index

\* Mutants: the continuations are not waited for; they are not counted.
CompleteAtHead(n, d) == TRUE
NextExpectedByOne(n, d) == expected[n] + 1

\* All datagrams of the message that begins with d are there.
Complete(n, d) == \A j \in 1..(d.segments - 1) : Has(input[n], d.index + j)

NextExpected(n, d) == expected[n] + d.segments

\* What the code puts together: the payloads of consecutive indexes.
Reassembled(n, d) ==
  IF \A j \in 1..(d.segments - 1) :
       \E e \in input[n] : e.index = d.index + j /\ e.msg = d.msg /\ e.seg = j
  THEN d.msg ELSE Garbled

\* The loop ends: nothing left, a gap, or a message still incomplete.
ContinueStop(n) ==
  /\ ~ reading[n] /\ ~ closed[n] /\ Advance(n)
  /\ \A d \in input[n] : First(n, d) =>
       \/ d.index > expected[n]
       \/ d.index = expected[n] /\ IsHead(d) /\ ~ IsSingle(d)
            /\ d.msg \notin Refused /\ ~ Complete(n, d)
  /\ reading' = [reading EXCEPT ![n] = TRUE]
  /\ UNCHANGED <<last_output, output, expected, input, failed, closed, last_sent,
                 last_processed, mtus, network, history>>

\* A datagram of a message that was delivered before is dropped.
ContinueErase(n) ==
  /\ ~ reading[n] /\ ~ closed[n] /\ Advance(n)
  /\ \E d \in input[n] : First(n, d) /\ d.index < expected[n]
       /\ input' = [input EXCEPT ![n] = @ \ {d}]
  /\ UNCHANGED <<last_output, output, expected, session, mtus, network, history>>

\* A message is complete and goes to process_message.
ContinueDeliver(n) ==
  /\ ~ reading[n] /\ ~ closed[n] /\ Advance(n)
  /\ \E d \in input[n] :
       /\ First(n, d) /\ d.index = expected[n] /\ IsHead(d)
       /\ IsSingle(d) \/ d.msg \notin Refused
       /\ Complete(n, d)
       /\ expected' = [expected EXCEPT ![n] = NextExpected(n, d)]
       /\ delivered' = [delivered EXCEPT ![n] = Append(@, Reassembled(n, d))]
  /\ last_processed' = [last_processed EXCEPT ![n] = 0]
  /\ UNCHANGED <<last_output, output, input, reading, failed, closed, last_sent,
                 mtus, network, sent, bounds>>

\* The size checks reject the first datagram of a segmented message.
ContinueRefuse(n) ==
  /\ ~ reading[n] /\ ~ closed[n] /\ Advance(n)
  /\ \E d \in input[n] : First(n, d) /\ d.index = expected[n] /\ IsHead(d)
       /\ ~ IsSingle(d) /\ d.msg \in Refused
  /\ Close(n)
  /\ UNCHANGED <<last_output, output, expected, input, reading, failed, last_sent,
                 last_processed, mtus, network, history>>

-----------------------------------------------------------------------------
\* The network loses a datagram.  One that comes while the read loop is busy
\* waits in the socket.
Waits(x) == ~ reading[x.to] /\ ~ closed[x.to]

Lose ==
  /\ \/ \E x \in net_data :
          ~ Waits(x) /\ net_data' = net_data \ {x} /\ UNCHANGED <<net_acks, net_probes>>
     \/ \E x \in net_acks :
          ~ Waits(x) /\ net_acks' = net_acks \ {x} /\ UNCHANGED <<net_data, net_probes>>
     \/ \E x \in net_probes :
          ~ Waits(x) /\ net_probes' = net_probes \ {x} /\ UNCHANGED <<net_data, net_acks>>
  /\ UNCHANGED <<window, session, mtus, history>>

Next ==
  \/ \E n \in Peer :
       \/ \E m \in Message : SendMessage(n, m)
       \/ OnTimer(n)
       \/ \E p \in net_probes : ProcessMtuTest(n, p)
       \/ \E a \in net_acks : ProcessAcknowledgment(n, a)
       \/ \E x \in net_data : ProcessData(n, x)
       \/ ContinueStop(n) \/ ContinueErase(n) \/ ContinueDeliver(n) \/ ContinueRefuse(n)
  \/ Lose

Spec == Init /\ [][Next]_vars

-----------------------------------------------------------------------------
(***************************************************************************)
(* Fairness.  The client's timer keeps firing, the read loop does not stop *)
(* in the middle of a datagram, and the network is lossy but fair: a       *)
(* datagram that is sent again and again is received now and then.         *)
(***************************************************************************)
ContinueProcess(n) ==
  ContinueStop(n) \/ ContinueErase(n) \/ ContinueDeliver(n) \/ ContinueRefuse(n)

Senders == {n \in Peer : MaxMessages[n] > 0}

FairSpec ==
  /\ Spec
  /\ \A n \in Peer : WF_vars(OnTimer(n)) /\ WF_vars(ContinueProcess(n))
  /\ \A n \in Senders : \A i \in Index :
       /\ SF_vars(\E x \in net_data : x.dg.index = i /\ ProcessData(Partner[n], x))
       /\ SF_vars(\E a \in net_acks : a.index = i /\ ProcessAcknowledgment(n, a))

-----------------------------------------------------------------------------
(***************************************************************************)
(* Properties.                                                             *)
(***************************************************************************)

\* The session implements a FIFO channel: what process_message gets at a peer
\* is, message by message, what the partner passed to send_message, also when
\* datagrams are lost, repeated or overtaken and when the index runs over.
Channel == INSTANCE FifoChannel WITH Peer <- Peer, Partner <- Partner, Message <- Message, sent <- sent, delivered <- delivered
ChannelSpec == Channel!Spec

\* A datagram is erased from output_messages_ only when the partner has it:
\* every index handed out is still kept by the sender, waits in the partner's
\* input_messages_, or belongs to a message that was delivered.
NoLoss ==
  \A n \in Peer : ~ failed[n] =>
    \A i \in 0..(last_output[n] - 1) :
      \/ Has(output[n], i)
      \/ Has(input[Partner[n]], i)
      \/ i < expected[Partner[n]]

\* The vds_assert(false) of continue_process_messages is out of reach: the
\* datagram at expected_index_ never is a continuation.
HeadExpected ==
  \A n \in Peer : \A d \in input[n] : d.index = expected[n] => IsHead(d)

\* Probing for a larger datagram size never goes beyond what the network
\* carries, so that no datagram is too large ever to arrive.
MtuSafe == \A n \in Peer : mtu[n] <= PathMtu

\* What the proofs add to these to make them inductive: what is in flight, kept
\* or waiting comes from a message of the history, and an acknowledgment, however
\* late it comes, names nothing that has not arrived.
MtuInv ==
  /\ \A n \in Peer : mtu[n] \in MIN_MTU..PathMtu /\ input_mtu[n] <= PathMtu
  /\ \A a \in net_acks : a.mtu <= PathMtu

\* d is a datagram of a message that n sent.
Genuine(n, d) ==
  \E k \in 1..Len(sent[n]) :
    /\ d.msg = sent[n][k]
    /\ d.index = bounds[n][k] + d.seg
    /\ d.segments = bounds[n][k + 1] - bounds[n][k]
    /\ d.seg < d.segments

Covered(n, i) == Has(output[n], i) \/ i < last_input[Partner[n]]

HistoryInv(n) ==
  /\ Len(bounds[n]) = Len(sent[n]) + 1
  /\ bounds[n][1] = 0
  /\ \A j, k \in 1..Len(bounds[n]) : j < k => bounds[n][j] < bounds[n][k]
  /\ ~ failed[n] => bounds[n][Len(bounds[n])] = last_output[n]

SenderInv(n) ==
  /\ \A d \in output[n] : Genuine(n, d) \/ d.index < last_input[Partner[n]]
  /\ ~ failed[n] => \A d \in output[n] : d.index < last_output[n]
  /\ \A i \in Index : failed[n] \/ i < last_output[n] => Covered(n, i)

NetworkInv ==
  /\ \A x \in net_data : /\ x.dg.index < IndexLimit - 1
                         /\ \/ Genuine(Partner[x.to], x.dg)
                            \/ x.dg.index < last_input[x.to]
  /\ \A a \in net_acks : a.index <= last_input[Partner[a.to]]

\* n is the receiver here.
ReceiverInv(n) ==
  /\ \A d \in input[n] : Genuine(Partner[n], d) \/ d.index < expected[n]
  /\ \A i \in 0..(last_input[n] - 1) : i < expected[n] \/ Has(input[n], i)
  /\ expected[n] <= last_input[n]
  /\ Len(delivered[n]) <= Len(sent[Partner[n]])
  /\ \A k \in 1..Len(delivered[n]) : delivered[n][k] = sent[Partner[n]][k]
  /\ expected[n] = bounds[Partner[n]][Len(delivered[n]) + 1]

WindowInv ==
  /\ NetworkInv
  /\ \A n \in Peer : HistoryInv(n) /\ SenderInv(n) /\ ReceiverInv(n)

\* A message that was sent is delivered, unless the session ends.
Ended(n) == closed[n] \/ closed[Partner[n]] \/ failed[n]
EventuallyDelivered ==
  \A n \in Peer : \A k \in 1..MaxMessages[n] :
    (Len(sent[n]) >= k) ~> (Len(delivered[Partner[n]]) >= k \/ Ended(n))

\* Acknowledgments catch up: once the senders are done, no datagram is kept.
EventuallyReleased == \A n \in Peer : <>[](output[n] = {} \/ Ended(n))
=============================================================================
