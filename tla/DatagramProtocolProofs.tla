----------------------- MODULE DatagramProtocolProofs -----------------------
(***************************************************************************)
(* Proofs about DatagramProtocol, for every index limit, datagram size,    *)
(* way of cutting messages and number of messages.                         *)
(***************************************************************************)
EXTENDS DatagramProtocol, SequenceTheorems, TLAPS

USE DEF window, session, mtus, network, history

(***************************************************************************)
(* Type correctness, together with the bounds on the datagram sizes: what  *)
(* prepare_to_send produces is only known for sizes that occur.            *)
(***************************************************************************)
TypeInv == TypeOK /\ MtuInv

LEMMA InitTypeInv == Init => TypeInv
  BY PeerAssumption, SizeAssumption
  DEF Init, TypeInv, TypeOK, WindowType, SessionType, MtuType, NetworkType, HistoryType, MtuInv, Index

\* The datagrams a message is cut into are datagrams, no larger than mtu_.
LEMMA CutType ==
  ASSUME TypeInv, NEW n \in Peer, NEW m \in Message
  PROVE  /\ Cut(n, m) \subseteq Datagram
         /\ Segments(m, mtu[n]) \in Nat /\ 0 < Segments(m, mtu[n])
         /\ Segments(m, mtu[n]) < IndexLimit
<1> DEFINE u == mtu[n]
<1>1. /\ u \in MIN_MTU..PathMtu /\ PathMtu \in Nat /\ MIN_MTU \in Nat
      /\ last_output[n] \in 0..(IndexLimit - 1) /\ IndexLimit \in Nat /\ IndexLimit > 0
  BY SizeAssumption DEF TypeInv, TypeOK, WindowType, MtuInv, Index
<1>2. /\ Segments(m, u) \in Nat /\ 0 < Segments(m, u) /\ Segments(m, u) < IndexLimit
      /\ \A j \in 0..(Segments(m, u) - 1) : SegmentSize(m, u, j) \in 0..u
  BY <1>1, SegmentAssumption
<1>3. ASSUME NEW j \in 0..(Segments(m, u) - 1)
      PROVE  [index |-> Wrap(last_output[n] + j), msg |-> m, seg |-> j,
              segments |-> Segments(m, u), size |-> SegmentSize(m, u, j)] \in Datagram
  <2>1. j \in Nat /\ SegmentSize(m, u, j) \in Nat
    BY <1>1, <1>2
  <2>2. j < IndexLimit
    BY <1>1, <1>2
  <2>3. Wrap(last_output[n] + j) \in Index
    BY <1>1, <2>1, <2>2 DEF Index, Wrap
  <2> QED BY <1>2, <2>1, <2>3 DEF Datagram
<1> QED BY <1>2, <1>3 DEF Cut

LEMMA NextTypeInv == TypeInv /\ [Next]_vars => TypeInv'
<1> SUFFICES ASSUME WindowType, SessionType, MtuType, NetworkType, HistoryType, MtuInv,
                    [Next]_vars
             PROVE  TypeInv'
  BY DEF TypeInv, TypeOK
<1>t. TypeInv
  BY DEF TypeInv, TypeOK
<1>q. ASSUME WindowType', SessionType', MtuType', NetworkType', HistoryType', MtuInv'
      PROVE  TypeInv'
  BY <1>q DEF TypeInv, TypeOK
<1>w. UNCHANGED window => WindowType'
  BY DEF WindowType
<1>s. UNCHANGED session => SessionType'
  BY DEF SessionType
<1>m. UNCHANGED mtus => MtuType'
  BY DEF MtuType
<1>n. UNCHANGED network => NetworkType'
  BY DEF NetworkType
<1>h. UNCHANGED history => HistoryType'
  BY DEF HistoryType
<1>i. UNCHANGED mtus /\ net_acks' \subseteq net_acks => MtuInv'
  BY DEF MtuInv
<1>0. /\ IndexLimit \in Nat /\ IndexLimit > 1 /\ PathMtu \in Nat /\ MIN_MTU \in Nat /\ MTU_STEP \in Nat
      /\ MIN_MTU <= PathMtu
      /\ \A n \in Peer : Partner[n] \in Peer
  BY SizeAssumption, PeerAssumption
<1>1. ASSUME NEW n \in Peer, NEW m \in Message, SendMessage(n, m) PROVE TypeInv'
  <2> DEFINE s == Segments(m, mtu[n])
             final == Wrap(last_output[n] + s)
  <2>1. Cut(n, m) \subseteq Datagram /\ s \in Nat /\ 0 < s /\ s < IndexLimit
    BY <1>t, CutType
  <2>2. last_output[n] \in Nat /\ final \in Index
    BY <1>0, <2>1 DEF WindowType, Index, Wrap
  <2>3. output' \in [Peer -> SUBSET Datagram]
    BY <1>1, <2>1 DEF SendMessage, Emplace, WindowType
  <2>4. last_output' \in [Peer -> Index]
    BY <1>1, <2>2 DEF SendMessage, WindowType
  <2>5. WindowType'
    BY <1>1, <2>3, <2>4 DEF SendMessage, WindowType
  <2>6. SessionType'
    BY <1>1 DEF SendMessage, SessionType
  <2>7. NetworkType'
    <3>1. output'[n] \subseteq Datagram /\ Partner[n] \in Peer
      BY <1>0, <2>3
    <3>2. net_data' \subseteq net_data \cup [to : {Partner[n]}, dg : output'[n]]
      BY <1>1 DEF SendMessage
    <3>3. net_data' \subseteq [to : Peer, dg : Datagram]
      BY <3>1, <3>2 DEF NetworkType
    <3> QED BY <1>1, <3>3 DEF SendMessage, NetworkType
  <2>8. HistoryType'
    <3>1. CASE failed[n]
      BY <1>1, <3>1 DEF SendMessage, HistoryType
    <3>2. CASE ~ failed[n]
      <4>1. /\ Append(sent[n], m) \in Seq(Message)
            /\ Append(bounds[n], last_output[n] + s) \in Seq(Nat)
        BY <2>1, <2>2, AppendProperties DEF HistoryType
      <4> QED BY <1>1, <3>2, <4>1 DEF SendMessage, HistoryType
    <3> QED BY <3>1, <3>2
  <2>9. UNCHANGED mtus /\ UNCHANGED net_acks
    BY <1>1 DEF SendMessage
  <2> QED BY <1>q, <1>m, <1>i, <2>5, <2>6, <2>7, <2>8, <2>9
<1>2. ASSUME NEW n \in Peer, OnTimer(n) PROVE TypeInv'
  <2>1. SessionType'
    BY <1>2 DEF OnTimer, SessionType, Tick
  <2>2. MtuType'
    BY <1>2 DEF OnTimer, MtuType
  <2>3. /\ Acknowledgment(n) \in [to : Peer, index : Index, missing : SUBSET Nat, mtu : Nat]
        /\ Acknowledgment(n).mtu <= PathMtu
    BY <1>0, SizeAssumption DEF Acknowledgment, WindowType, MtuType, MtuInv
  <2>4. net_acks' \subseteq net_acks \cup {Acknowledgment(n)}
    BY <1>2 DEF OnTimer, Carry
  <2>5. net_probes' \subseteq net_probes \cup {[to |-> Partner[n], size |-> mtu[n] + MTU_STEP]}
    BY <1>2 DEF OnTimer, Carry
  <2>6. [to |-> Partner[n], size |-> mtu[n] + MTU_STEP] \in [to : Peer, size : Nat]
    BY <1>0 DEF MtuType
  <2>7. UNCHANGED <<window, history, mtu, input_mtu, net_data>>
    BY <1>2 DEF OnTimer
  <2>8. NetworkType'
    BY <2>3, <2>4, <2>5, <2>6, <2>7 DEF NetworkType
  <2>9. MtuInv'
    BY <2>3, <2>4, <2>7 DEF MtuInv
  <2> QED BY <1>q, <1>w, <1>h, <2>1, <2>2, <2>7, <2>8, <2>9
<1>3. ASSUME NEW n \in Peer, NEW p \in net_probes, ProcessMtuTest(n, p) PROVE TypeInv'
  <2>1. p.size \in Nat /\ p.size <= PathMtu
    BY <1>3 DEF ProcessMtuTest, NetworkType
  <2>2. net_probes' \subseteq net_probes
        /\ UNCHANGED <<window, history, net_data, net_acks, check_mtu, mtu,
                       reading, failed, last_sent, last_processed>>
    BY <1>3 DEF ProcessMtuTest, Arrives
  <2>3. input_mtu' = input_mtu \/ SeeSize(n, p.size)
    BY <1>3 DEF ProcessMtuTest
  <2>4. input_mtu' \in [Peer -> Nat] /\ \A k \in Peer : input_mtu'[k] <= PathMtu
    BY <2>1, <2>3 DEF SeeSize, MtuType, MtuInv
  <2>5. SessionType'
    BY <1>3, <2>2 DEF ProcessMtuTest, Close, SessionType
  <2>6. MtuType' /\ MtuInv'
    BY <2>2, <2>4 DEF MtuType, MtuInv
  <2>7. NetworkType'
    BY <2>2 DEF NetworkType
  <2> QED BY <1>q, <1>w, <1>h, <2>2, <2>5, <2>6, <2>7
<1>4. ASSUME NEW n \in Peer, NEW a \in net_acks, ProcessAcknowledgment(n, a) PROVE TypeInv'
  <2>1. a.mtu \in Nat /\ a.mtu <= PathMtu
    BY DEF NetworkType, MtuInv
  <2>2. net_acks' \subseteq net_acks
        /\ UNCHANGED <<last_output, last_input, expected, input, reading, failed,
                       last_processed, check_mtu, input_mtu, net_probes, history>>
    BY <1>4 DEF ProcessAcknowledgment, Arrives
  <2>3. mtu' \in [Peer -> Nat] /\ \A k \in Peer : mtu'[k] \in MIN_MTU..PathMtu
    BY <1>0, <1>4, <2>1 DEF ProcessAcknowledgment, MtuType, MtuInv
  <2>4. Unacknowledged(n, a.index) \subseteq output[n] /\ output[n] \subseteq Datagram
    BY DEF Unacknowledged, WindowType
  <2>5. output' = output \/ output' = [output EXCEPT ![n] = Unacknowledged(n, a.index)]
    BY <1>4 DEF ProcessAcknowledgment
  <2>6. WindowType'
    BY <2>2, <2>4, <2>5 DEF WindowType
  <2>7. SessionType'
    <3>1. last_sent' \in [Peer -> Nat]
      BY <1>4 DEF ProcessAcknowledgment, SessionType
    <3>2. closed' \in [Peer -> BOOLEAN]
      BY <1>4 DEF ProcessAcknowledgment, Close, SessionType
    <3> QED BY <2>2, <3>1, <3>2 DEF SessionType
  <2>8. NetworkType'
    <3>1. net_data' \subseteq net_data \cup [to : {Partner[n]}, dg : Unacknowledged(n, a.index)]
      BY <1>4 DEF ProcessAcknowledgment
    <3> QED BY <1>0, <2>2, <2>4, <3>1 DEF NetworkType
  <2>9. MtuType' /\ MtuInv'
    BY <2>2, <2>3 DEF MtuType, MtuInv
  <2> QED BY <1>q, <1>h, <2>2, <2>6, <2>7, <2>8, <2>9
<1>5. ASSUME NEW n \in Peer, NEW x \in net_data, ProcessData(n, x) PROVE TypeInv'
  <2>1. x.dg \in Datagram /\ x.dg.size \in Nat /\ x.dg.size <= PathMtu
    BY <1>5 DEF ProcessData, NetworkType, Datagram
  <2>2. net_data' \subseteq net_data
        /\ UNCHANGED <<last_output, output, last_input, expected, failed, last_sent,
                       last_processed, check_mtu, mtu, net_acks, net_probes, history>>
    BY <1>5 DEF ProcessData, Arrives
  <2>3. input' = input \/ input' = [input EXCEPT ![n] = @ \cup {x.dg}]
    BY <1>5 DEF ProcessData
  <2>4. WindowType'
    BY <2>1, <2>2, <2>3 DEF WindowType
  <2>5. reading' \in [Peer -> BOOLEAN] /\ closed' \in [Peer -> BOOLEAN]
    BY <1>5 DEF ProcessData, Close, SessionType
  <2>6. SessionType'
    BY <2>2, <2>5 DEF SessionType
  <2>7. input_mtu' = input_mtu \/ SeeSize(n, x.dg.size)
    BY <1>5 DEF ProcessData
  <2>8. input_mtu' \in [Peer -> Nat] /\ \A k \in Peer : input_mtu'[k] <= PathMtu
    BY <2>1, <2>7 DEF SeeSize, MtuType, MtuInv
  <2>9. MtuType' /\ MtuInv'
    BY <2>2, <2>8 DEF MtuType, MtuInv
  <2>10. NetworkType'
    BY <2>2 DEF NetworkType
  <2> QED BY <1>q, <1>h, <2>2, <2>4, <2>6, <2>9, <2>10
<1>6. ASSUME NEW n \in Peer, ContinueStop(n) PROVE TypeInv'
  <2>1. WindowType'
    BY <1>6 DEF ContinueStop, Advance, WindowType
  <2>2. SessionType'
    BY <1>6 DEF ContinueStop, SessionType
  <2>3. UNCHANGED <<mtus, network, history>>
    BY <1>6 DEF ContinueStop
  <2> QED BY <1>q, <1>m, <1>n, <1>h, <1>i, <2>1, <2>2, <2>3
<1>7. ASSUME NEW n \in Peer, ContinueErase(n) PROVE TypeInv'
  <2>1. last_input' \in [Peer -> Index]
    BY <1>7 DEF ContinueErase, Advance, WindowType
  <2>2. input' \in [Peer -> SUBSET Datagram]
    BY <1>7 DEF ContinueErase, WindowType
  <2>3. UNCHANGED <<last_output, output, expected, session, mtus, network, history>>
    BY <1>7 DEF ContinueErase
  <2>4. WindowType'
    BY <2>1, <2>2, <2>3 DEF WindowType
  <2> QED BY <1>q, <1>s, <1>m, <1>n, <1>h, <1>i, <2>3, <2>4
<1>8. ASSUME NEW n \in Peer, ContinueDeliver(n) PROVE TypeInv'
  <2>1. PICK d \in input[n] :
          /\ expected' = [expected EXCEPT ![n] = NextExpected(n, d)]
          /\ delivered' = [delivered EXCEPT ![n] = Append(@, Reassembled(n, d))]
    BY <1>8 DEF ContinueDeliver
  <2>2. d.segments \in Nat /\ d.msg \in Message
    BY DEF WindowType, Datagram
  <2>3. UNCHANGED <<last_output, output, input, reading, failed, closed, last_sent,
                    mtus, network, sent, bounds>>
    BY <1>8 DEF ContinueDeliver
  <2>4. last_input' \in [Peer -> Index]
    BY <1>8 DEF ContinueDeliver, Advance, WindowType
  <2>5. WindowType'
    <3>1. expected' \in [Peer -> Nat]
      BY <2>1, <2>2 DEF NextExpected, WindowType
    <3> QED BY <2>3, <2>4, <3>1 DEF WindowType
  <2>6. SessionType'
    BY <1>8, <2>3 DEF ContinueDeliver, SessionType
  <2>7. Append(delivered[n], Reassembled(n, d)) \in Seq(Message \cup {Garbled})
    <3>1. Reassembled(n, d) \in Message \cup {Garbled}
      BY <2>2 DEF Reassembled
    <3> QED BY <3>1, AppendProperties DEF HistoryType
  <2>8. HistoryType'
    BY <2>1, <2>3, <2>7 DEF HistoryType
  <2> QED BY <1>q, <1>m, <1>n, <1>i, <2>3, <2>5, <2>6, <2>8
<1>9. ASSUME NEW n \in Peer, ContinueRefuse(n) PROVE TypeInv'
  <2>1. WindowType'
    BY <1>9 DEF ContinueRefuse, Advance, WindowType
  <2>2. SessionType'
    BY <1>9 DEF ContinueRefuse, Close, SessionType
  <2>3. UNCHANGED <<mtus, network, history>>
    BY <1>9 DEF ContinueRefuse
  <2> QED BY <1>q, <1>m, <1>n, <1>h, <1>i, <2>1, <2>2, <2>3
<1>10. CASE Lose
  <2>1. /\ net_data' \subseteq net_data /\ net_acks' \subseteq net_acks
        /\ net_probes' \subseteq net_probes
        /\ UNCHANGED <<window, session, mtus, history>>
    BY <1>10 DEF Lose
  <2>2. NetworkType'
    BY <2>1 DEF NetworkType
  <2> QED BY <1>q, <1>w, <1>s, <1>m, <1>h, <1>i, <2>1, <2>2
<1>11. CASE UNCHANGED vars
  <2>1. UNCHANGED <<window, session, mtus, network, history>>
    BY <1>11 DEF vars
  <2> QED BY <1>q, <1>w, <1>s, <1>m, <1>n, <1>h, <1>i, <2>1
<1> QED BY <1>1, <1>2, <1>3, <1>4, <1>5, <1>6, <1>7, <1>8, <1>9, <1>10, <1>11 DEF Next

\* Type correctness of every reachable state of a session.
THEOREM SessionTypeCorrect == Spec => []TypeOK
<1>1. TypeInv => TypeOK
  BY DEF TypeInv
<1> QED BY InitTypeInv, NextTypeInv, <1>1, PTL DEF Spec

\* However the probes of on_timer, the datagrams and the acknowledgments
\* interleave, mtu_ stays a size that the network carries.
THEOREM MtuNeverTooLarge == Spec => []MtuSafe
<1>1. TypeInv => MtuSafe
  BY DEF TypeInv, MtuInv, MtuSafe
<1> QED BY InitTypeInv, NextTypeInv, <1>1, PTL DEF Spec

-----------------------------------------------------------------------------
(***************************************************************************)
(* The window invariant.                                                   *)
(***************************************************************************)
LEMMA ConstantFacts ==
  /\ IndexLimit \in Nat /\ IndexLimit > 1
  /\ \A n \in Peer : Partner[n] \in Peer /\ Partner[n] # n /\ Partner[Partner[n]] = n
  BY SizeAssumption, PeerAssumption

LEMMA InitWindowInv == Init => WindowInv
  BY ConstantFacts
  DEF Init, WindowInv, NetworkInv, HistoryInv, SenderInv, ReceiverInv, Covered, Has, Index

\* A datagram of the history stays one when the history grows.
LEMMA GenuineGrows ==
  ASSUME HistoryType, NEW n \in Peer, HistoryInv(n), NEW d, Genuine(n, d),
         \/ sent'[n] = sent[n] /\ bounds'[n] = bounds[n]
         \/ \E m \in Message, b \in Nat : /\ sent'[n] = Append(sent[n], m)
                                      /\ bounds'[n] = Append(bounds[n], b)
  PROVE  Genuine(n, d)'
<1>1. CASE sent'[n] = sent[n] /\ bounds'[n] = bounds[n]
  BY <1>1 DEF Genuine
<1>2. CASE \E m \in Message, b \in Nat : /\ sent'[n] = Append(sent[n], m)
                                     /\ bounds'[n] = Append(bounds[n], b)
  <2>1. PICK m \in Message, b \in Nat : /\ sent'[n] = Append(sent[n], m)
                                   /\ bounds'[n] = Append(bounds[n], b)
    BY <1>2
  <2>2. sent[n] \in Seq(Message) /\ bounds[n] \in Seq(Nat) /\ Len(bounds[n]) = Len(sent[n]) + 1
    BY DEF HistoryType, HistoryInv
  <2>3. /\ Len(sent'[n]) = Len(sent[n]) + 1
        /\ \A k \in 1..Len(sent[n]) : sent'[n][k] = sent[n][k]
        /\ \A k \in 1..Len(bounds[n]) : bounds'[n][k] = bounds[n][k]
    BY <2>1, <2>2, AppendProperties
  <2>4. PICK k \in 1..Len(sent[n]) :
          /\ d.msg = sent[n][k]
          /\ d.index = bounds[n][k] + d.seg
          /\ d.segments = bounds[n][k + 1] - bounds[n][k]
          /\ d.seg < d.segments
    BY DEF Genuine
  <2>5. Len(sent[n]) \in Nat /\ Len(bounds[n]) \in Nat
    BY <2>2
  <2>6. k \in 1..Len(sent'[n]) /\ k \in 1..Len(bounds[n]) /\ k + 1 \in 1..Len(bounds[n])
    BY <2>2, <2>3, <2>4, <2>5
  <2>7. /\ d.msg = sent'[n][k]
        /\ d.index = bounds'[n][k] + d.seg
        /\ d.segments = bounds'[n][k + 1] - bounds'[n][k]
    BY <2>3, <2>4, <2>6
  <2> QED BY <2>4, <2>6, <2>7 DEF Genuine
<1> QED BY <1>1, <1>2

\* What does not touch the history and the senders' windows keeps their
\* invariants: last_input_index_ only grows.
LEMMA SenderStable ==
  ASSUME WindowType, \A n \in Peer : HistoryInv(n) /\ SenderInv(n),
         UNCHANGED <<sent, bounds, output, last_output, failed>>,
         \A n \in Peer : last_input'[n] \in Nat /\ last_input[n] <= last_input'[n]
  PROVE  \A n \in Peer : HistoryInv(n)' /\ SenderInv(n)'
<1> TAKE n \in Peer
<1>1. HistoryInv(n)'
  BY DEF HistoryInv
<1>2. /\ last_input[Partner[n]] \in Nat /\ last_input'[Partner[n]] \in Nat
      /\ last_input[Partner[n]] <= last_input'[Partner[n]]
      /\ \A d \in output[n] : d.index \in Nat
  BY ConstantFacts DEF WindowType, Index, Datagram
<1>3. \A d \in output[n] : Genuine(n, d)' \/ d.index < last_input'[Partner[n]]
  BY <1>2 DEF SenderInv, Genuine
<1>4. \A i \in Index : failed[n] \/ i < last_output[n] => Covered(n, i)'
  <2> SUFFICES ASSUME NEW i \in Index, failed[n] \/ i < last_output[n] PROVE Covered(n, i)'
    OBVIOUS
  <2>1. Covered(n, i) /\ i \in Nat
    BY ConstantFacts DEF SenderInv, Index
  <2> QED BY <1>2, <2>1 DEF Covered, Has
<1>5. SenderInv(n)'
  BY <1>3, <1>4 DEF SenderInv
<1> QED BY <1>1, <1>5

\* A step that adds nothing to the network keeps its invariant.
LEMMA NetworkStable ==
  ASSUME WindowType, NetworkType, NetworkInv,
         UNCHANGED <<sent, bounds>>, net_data' \subseteq net_data, net_acks' \subseteq net_acks,
         \A n \in Peer : last_input'[n] \in Nat /\ last_input[n] <= last_input'[n]
  PROVE  NetworkInv'
<1>1. ASSUME NEW x \in net_data'
      PROVE  /\ x.dg.index < IndexLimit - 1
             /\ Genuine(Partner[x.to], x.dg)' \/ x.dg.index < last_input'[x.to]
  <2>1. x.to \in Peer /\ x.dg.index \in Nat /\ last_input[x.to] \in Nat
    BY ConstantFacts DEF NetworkType, Datagram, WindowType, Index
  <2> QED BY <2>1 DEF NetworkInv, Genuine
<1>2. ASSUME NEW a \in net_acks' PROVE a.index <= last_input'[Partner[a.to]]
  <2>1. Partner[a.to] \in Peer /\ a.index \in Nat /\ last_input[Partner[a.to]] \in Nat
    BY ConstantFacts DEF NetworkType, WindowType, Index
  <2> QED BY <2>1 DEF NetworkInv
<1> QED BY <1>1, <1>2 DEF NetworkInv

\* After last_input_index_ has moved on, everything below it is there.
LEMMA AdvanceFacts ==
  ASSUME WindowType, NEW n \in Peer, ReceiverInv(n), Advance(n)
  PROVE  /\ last_input'[n] \in Nat /\ last_input[n] <= last_input'[n]
         /\ \A k \in Peer : last_input'[k] \in Nat /\ last_input[k] <= last_input'[k]
         /\ \A k \in Peer \ {n} : last_input'[k] = last_input[k]
         /\ \A i \in 0..(last_input'[n] - 1) : i < expected[n] \/ Has(input[n], i)
         /\ ~ Has(input[n], last_input'[n])
<1>1. PICK j \in Index : FirstMissing(n, j) /\ last_input' = [last_input EXCEPT ![n] = j]
  BY DEF Advance
<1>2. /\ j \in Nat /\ last_input'[n] = j /\ \A k \in Peer \ {n} : last_input'[k] = last_input[k]
      /\ \A k \in Peer : last_input[k] \in Nat
  BY <1>1, ConstantFacts DEF WindowType, Index
<1>3. /\ j >= last_input[n] /\ ~ Has(input[n], j)
      /\ \A i \in last_input[n]..(j - 1) : Has(input[n], i)
  BY <1>1 DEF FirstMissing
<1>4. ASSUME NEW i \in 0..(j - 1) PROVE i < expected[n] \/ Has(input[n], i)
  <2>1. CASE i < last_input[n]
    <3>1. i \in 0..(last_input[n] - 1)
      BY <1>2, <2>1
    <3> QED BY <3>1 DEF ReceiverInv
  <2>2. CASE ~ (i < last_input[n])
    <3>1. i \in last_input[n]..(j - 1)
      BY <1>2, <2>2
    <3> QED BY <1>3, <3>1
  <2> QED BY <2>1, <2>2
<1> QED BY <1>2, <1>3, <1>4

\* A peer's receiving side is untouched by what happens elsewhere.
LEMMA ReceiverStable ==
  ASSUME NEW n \in Peer, ReceiverInv(n), UNCHANGED <<sent, bounds>>,
         last_input'[n] = last_input[n], expected'[n] = expected[n], input'[n] = input[n],
         delivered'[n] = delivered[n]
  PROVE  ReceiverInv(n)'
  BY DEF ReceiverInv, Genuine, Has

\* An index belongs to one message of a sender only.
LEMMA MessageOf ==
  ASSUME HistoryType, NEW n \in Peer, HistoryInv(n),
         NEW k \in 1..Len(sent[n]), NEW l \in 1..Len(sent[n]), NEW i \in Nat,
         bounds[n][k] <= i, i < bounds[n][k + 1], bounds[n][l] <= i, i < bounds[n][l + 1]
  PROVE  k = l
<1>1. /\ Len(sent[n]) \in Nat /\ Len(bounds[n]) = Len(sent[n]) + 1
      /\ \A j \in 1..Len(bounds[n]) : bounds[n][j] \in Nat
      /\ \A h, j \in 1..Len(bounds[n]) : h < j => bounds[n][h] < bounds[n][j]
  <2>1. sent[n] \in Seq(Message) /\ bounds[n] \in Seq(Nat)
    BY DEF HistoryType
  <2>2. Len(sent[n]) \in Nat /\ \A j \in 1..Len(bounds[n]) : bounds[n][j] \in Nat
    BY <2>1, LenProperties, ElementOfSeq
  <2> QED BY <2>2 DEF HistoryInv
<1>2. /\ k \in 1..Len(bounds[n]) /\ k + 1 \in 1..Len(bounds[n])
      /\ l \in 1..Len(bounds[n]) /\ l + 1 \in 1..Len(bounds[n])
  BY <1>1
<1>3. ~ (k < l)
  <2> SUFFICES ASSUME k < l PROVE FALSE
    OBVIOUS
  <2>1. k + 1 = l \/ k + 1 < l
    OBVIOUS
  <2>2. bounds[n][k + 1] <= bounds[n][l]
    BY <1>1, <1>2, <2>1
  <2> QED BY <1>1, <1>2, <2>2
<1>4. ~ (l < k)
  <2> SUFFICES ASSUME l < k PROVE FALSE
    OBVIOUS
  <2>1. l + 1 = k \/ l + 1 < k
    OBVIOUS
  <2>2. bounds[n][l + 1] <= bounds[n][k]
    BY <1>1, <1>2, <2>1
  <2> QED BY <1>1, <1>2, <2>2
<1> QED BY <1>3, <1>4

\* send_message.  Below, the steps that begin with an index are about what
\* happens when the index runs over: all indexes are then taken, or passed.
LEMMA SendWindow ==
  ASSUME TypeInv, WindowInv, NEW n \in Peer, NEW m \in Message, SendMessage(n, m)
  PROVE  WindowInv'
<1> DEFINE s == Segments(m, mtu[n])
           L == last_output[n]
           final == Wrap(L + s)
           overflow == final < L
<1>1. /\ s \in Nat /\ 0 < s /\ s < IndexLimit /\ L \in 0..(IndexLimit - 1)
      /\ IndexLimit \in Nat /\ IndexLimit > 1 /\ Cut(n, m) \subseteq Datagram
  BY ConstantFacts, CutType DEF TypeInv, TypeOK, WindowType, Index
<1>2. /\ overflow <=> L + s >= IndexLimit
      /\ ~ overflow => final = L + s
      /\ final \in 0..(IndexLimit - 1)
  BY <1>1 DEF Wrap
<1>3. /\ output' = [output EXCEPT ![n] = Emplace(@, Cut(n, m))]
      /\ last_output' = [last_output EXCEPT ![n] = final]
      /\ failed' = [failed EXCEPT ![n] = @ \/ overflow]
      /\ UNCHANGED <<last_input, expected, input, net_acks, delivered>>
  BY DEF SendMessage
<1>4. /\ output \in [Peer -> SUBSET Datagram] /\ last_output \in [Peer -> Index]
      /\ failed \in [Peer -> BOOLEAN] /\ last_input \in [Peer -> Index]
      /\ HistoryType /\ NetworkType /\ WindowType
  BY DEF TypeInv, TypeOK, WindowType, SessionType
<1>5. /\ output'[n] = Emplace(output[n], Cut(n, m)) /\ last_output'[n] = final
      /\ failed'[n] <=> failed[n] \/ overflow
      /\ \A k \in Peer \ {n} : /\ output'[k] = output[k] /\ last_output'[k] = last_output[k]
                               /\ failed'[k] = failed[k]
  BY <1>3, <1>4
<1>6. /\ failed[n] => UNCHANGED <<sent, bounds>>
      /\ ~ failed[n] => /\ sent' = [sent EXCEPT ![n] = Append(@, m)]
                        /\ bounds' = [bounds EXCEPT ![n] = Append(@, L + s)]
  BY DEF SendMessage
<1>7. /\ \A k \in Peer \ {n} : sent'[k] = sent[k] /\ bounds'[k] = bounds[k]
      /\ failed[n] => sent'[n] = sent[n] /\ bounds'[n] = bounds[n]
      /\ ~ failed[n] => sent'[n] = Append(sent[n], m) /\ bounds'[n] = Append(bounds[n], L + s)
  BY <1>4, <1>6 DEF HistoryType
<1>8. /\ \A k \in Peer : HistoryInv(k) /\ SenderInv(k) /\ ReceiverInv(k)
      /\ NetworkInv
  BY DEF WindowInv
<1>9. ASSUME NEW k \in Peer, NEW d, Genuine(k, d) PROVE Genuine(k, d)'
  <2>1. L + s \in Nat
    BY <1>1
  <2>2. \/ sent'[k] = sent[k] /\ bounds'[k] = bounds[k]
        \/ \E m_1 \in Message, b \in Nat : /\ sent'[k] = Append(sent[k], m_1)
                                       /\ bounds'[k] = Append(bounds[k], b)
    BY <1>7, <2>1
  <2> QED BY <1>4, <1>8, <1>9, <2>2, GenuineGrows
<1>10. ASSUME ~ failed[n]
       PROVE  /\ sent[n] \in Seq(Message) /\ bounds[n] \in Seq(Nat)
              /\ Len(sent[n]) \in Nat /\ Len(bounds[n]) = Len(sent[n]) + 1
              /\ Len(sent'[n]) = Len(sent[n]) + 1 /\ Len(bounds'[n]) = Len(bounds[n]) + 1
              /\ \A k \in 1..Len(sent[n]) : sent'[n][k] = sent[n][k]
              /\ \A k \in 1..Len(bounds[n]) : bounds'[n][k] = bounds[n][k] /\ bounds[n][k] \in Nat
              /\ sent'[n][Len(sent[n]) + 1] = m
              /\ bounds'[n][Len(bounds[n]) + 1] = L + s
              /\ bounds[n][Len(bounds[n])] = L
              /\ L + s \in Nat
  <2>1. sent[n] \in Seq(Message) /\ bounds[n] \in Seq(Nat) /\ L + s \in Nat
    BY <1>1, <1>4 DEF HistoryType
  <2>2. Len(bounds[n]) = Len(sent[n]) + 1 /\ bounds[n][Len(bounds[n])] = L
    BY <1>8, <1>10 DEF HistoryInv
  <2>3. /\ Len(sent'[n]) = Len(sent[n]) + 1 /\ sent'[n][Len(sent[n]) + 1] = m
        /\ \A k \in 1..Len(sent[n]) : sent'[n][k] = sent[n][k]
    BY <1>7, <1>10, <2>1, AppendProperties
  <2>4. /\ Len(bounds'[n]) = Len(bounds[n]) + 1 /\ bounds'[n][Len(bounds[n]) + 1] = L + s
        /\ \A k \in 1..Len(bounds[n]) : bounds'[n][k] = bounds[n][k]
    BY <1>7, <1>10, <2>1, AppendProperties
  <2>5. Len(sent[n]) \in Nat /\ \A k \in 1..Len(bounds[n]) : bounds[n][k] \in Nat
    BY <2>1, LenProperties, ElementOfSeq
  <2> QED BY <2>1, <2>2, <2>3, <2>4, <2>5
<1>11. ASSUME NEW k \in Peer PROVE HistoryInv(k)'
  <2>1. CASE k # n
    BY <1>5, <1>7, <1>8, <2>1 DEF HistoryInv
  <2>2. CASE k = n /\ failed[n]
    BY <1>5, <1>7, <1>8, <2>2 DEF HistoryInv
  <2>3. CASE k = n /\ ~ failed[n]
    <3>1. Len(bounds'[n]) = Len(sent'[n]) + 1 /\ bounds'[n][1] = 0
      <4>1. 1 \in 1..Len(bounds[n]) /\ bounds[n][1] = 0
        BY <1>8, <1>10, <2>3 DEF HistoryInv
      <4> QED BY <1>10, <2>3, <4>1
    <3>2. ASSUME NEW j \in 1..Len(bounds'[n]), NEW h \in 1..Len(bounds'[n]), j < h
          PROVE  bounds'[n][j] < bounds'[n][h]
      <4>1. j \in 1..Len(bounds[n]) /\ Len(bounds[n]) \in 1..Len(bounds[n])
        BY <1>10, <2>3, <3>2
      <4>2. CASE h \in 1..Len(bounds[n])
        BY <1>8, <1>10, <2>3, <3>2, <4>1, <4>2 DEF HistoryInv
      <4>3. CASE h = Len(bounds[n]) + 1
        <5>1. bounds[n][j] <= L
          <6>1. j = Len(bounds[n]) \/ j < Len(bounds[n])
            BY <1>10, <2>3, <4>1
          <6>2. j < Len(bounds[n]) => bounds[n][j] < bounds[n][Len(bounds[n])]
            BY <1>8, <4>1 DEF HistoryInv
          <6>3. bounds[n][j] \in Nat /\ bounds[n][Len(bounds[n])] = L
            BY <1>10, <2>3, <4>1
          <6> QED BY <1>1, <6>1, <6>2, <6>3
        <5>2. bounds'[n][j] = bounds[n][j] /\ bounds'[n][h] = L + s /\ bounds[n][j] \in Nat
          BY <1>10, <2>3, <4>1, <4>3
        <5> QED BY <1>1, <5>1, <5>2
      <4> QED BY <1>10, <2>3, <4>2, <4>3
    <3>3. ~ failed'[n] => bounds'[n][Len(bounds'[n])] = last_output'[n]
      BY <1>2, <1>5, <1>10, <2>3
    <3> QED BY <2>3, <3>1, <3>2, <3>3 DEF HistoryInv
  <2> QED BY <2>1, <2>2, <2>3
<1>12. ASSUME NEW j \in 0..(s - 1)
       PROVE  /\ L + j < IndexLimit => Wrap(L + j) = L + j
              /\ L + j >= IndexLimit => overflow /\ Wrap(L + j) < L
              /\ Wrap(L + j) \in Index
  BY <1>1, <1>2 DEF Wrap, Index
<1>13. ASSUME NEW d \in output'[n]
       PROVE  /\ Genuine(n, d)' \/ d.index < last_input[Partner[n]]
              /\ ~ failed'[n] => d.index < final
  <2>1. CASE d \in output[n]
    <3>1. d.index \in Nat
      BY <1>4, <2>1 DEF Datagram, Index
    <3>2. ~ failed'[n] => d.index < L /\ L < final
      BY <1>1, <1>2, <1>5, <1>8, <2>1 DEF SenderInv
    <3>3. ~ failed'[n] => d.index < final
      BY <1>1, <1>2, <3>1, <3>2
    <3> QED BY <1>8, <1>9, <2>1, <3>3 DEF SenderInv
  <2>2. CASE d \notin output[n]
    <3>1. d \in Cut(n, m) /\ ~ Has(output[n], d.index)
      BY <1>5, <2>2 DEF Emplace
    <3>2. PICK j \in 0..(s - 1) : /\ d.index = Wrap(L + j) /\ d.msg = m /\ d.seg = j
                                  /\ d.segments = s
      BY <3>1 DEF Cut
    <3>3. d.index \in Index
      BY <1>12, <3>2
    <3>4. failed[n] \/ d.index < L => d.index < last_input[Partner[n]]
      BY <1>8, <3>1, <3>3 DEF SenderInv, Covered
    <3>5. CASE failed[n]
      BY <1>5, <3>4, <3>5
    <3>6. CASE ~ failed[n] /\ L + j >= IndexLimit
      BY <1>5, <1>12, <3>2, <3>4, <3>6
    <3>7. CASE ~ failed[n] /\ L + j < IndexLimit
      <4>1. d.index = L + j
        BY <1>12, <3>2, <3>7
      <4> DEFINE k == Len(sent[n]) + 1
      <4>2. k \in 1..Len(sent'[n]) /\ sent'[n][k] = m
        BY <1>10, <3>7
      <4>3. bounds'[n][k] = L /\ bounds'[n][k + 1] = L + s
        <5>1. k = Len(bounds[n]) /\ k \in 1..Len(bounds[n])
          BY <1>10, <3>7
        <5> QED BY <1>10, <3>7, <5>1
      <4>4. Genuine(n, d)'
        <5>1. /\ d.index = bounds'[n][k] + d.seg
              /\ d.segments = bounds'[n][k + 1] - bounds'[n][k]
              /\ d.seg < d.segments
          BY <1>1, <3>2, <4>1, <4>3
        <5> HIDE DEF k
        <5> QED BY <3>2, <4>2, <5>1 DEF Genuine
      <4>5. ~ failed'[n] => d.index < final
        BY <1>1, <1>2, <1>5, <3>2, <4>1
      <4> QED BY <4>4, <4>5
    <3>8. L + j \in Nat
      BY <1>1
    <3> QED BY <1>1, <3>5, <3>6, <3>7, <3>8
  <2> QED BY <2>1, <2>2
<1>14. ASSUME NEW i \in Index, failed'[n] \/ i < final PROVE Covered(n, i)'
  <2>1. output[n] \subseteq output'[n] /\ last_input' = last_input
    BY <1>3, <1>5 DEF Emplace
  <2>2. CASE failed[n] \/ i < L
    <3>1. Covered(n, i)
      BY <1>8, <2>2 DEF SenderInv
    <3> QED BY <2>1, <3>1 DEF Covered, Has
  <2>3. CASE ~ (failed[n] \/ i < L)
    <3>1. i \in Nat /\ i < IndexLimit /\ L <= i /\ i < L + s
      BY <1>1, <1>2, <1>5, <1>14, <2>3 DEF Index
    <3>2. i - L \in 0..(s - 1) /\ L + (i - L) = i /\ Wrap(i) = i
      BY <1>1, <3>1 DEF Wrap
    <3>3. \E d \in Cut(n, m) : d.index = i
      <4> DEFINE j == i - L
                 d == [index |-> Wrap(L + j), msg |-> m, seg |-> j, segments |-> s,
                       size |-> SegmentSize(m, mtu[n], j)]
      <4>1. j \in 0..(s - 1) /\ d.index = i
        BY <3>2
      <4>2. d \in Cut(n, m)
        BY <4>1 DEF Cut
      <4> QED BY <4>1, <4>2
    <3>4. Has(output'[n], i)
      BY <1>5, <3>3 DEF Emplace, Has
    <3> QED BY <3>4 DEF Covered
  <2> QED BY <2>2, <2>3
<1>15. ASSUME NEW k \in Peer PROVE SenderInv(k)'
  <2>1. CASE k # n
    <3>1. \A d \in output[k] : Genuine(k, d)' \/ d.index < last_input[Partner[k]]
      BY <1>8, <1>9 DEF SenderInv
    <3>2. \A i \in Index : failed[k] \/ i < last_output[k] => Covered(k, i)'
      BY <1>3, <1>5, <1>8, <2>1 DEF SenderInv, Covered, Has
    <3> QED BY <1>3, <1>5, <1>8, <2>1, <3>1, <3>2 DEF SenderInv
  <2>2. CASE k = n
    BY <1>3, <1>5, <1>13, <1>14, <2>2 DEF SenderInv
  <2> QED BY <2>1, <2>2
<1>16. NetworkInv'
  <2>1. ASSUME NEW x \in net_data'
        PROVE  /\ x.dg.index < IndexLimit - 1
               /\ Genuine(Partner[x.to], x.dg)' \/ x.dg.index < last_input'[x.to]
    <3>1. CASE x \in net_data
      <4>1. x.to \in Peer /\ Partner[x.to] \in Peer
        BY <1>4, <3>1, ConstantFacts DEF NetworkType
      <4> QED BY <1>3, <1>8, <1>9, <3>1, <4>1 DEF NetworkInv
    <3>2. CASE x \notin net_data
      <4>1. ~ overflow /\ x \in {[to |-> Partner[n], dg |-> d] :
                      d \in {e \in output'[n] : e.index \in L..(final - 1)}}
        BY <3>2 DEF SendMessage
      <4>2. PICK d \in output'[n] : x = [to |-> Partner[n], dg |-> d] /\ d.index \in L..(final - 1)
        BY <4>1
      <4>3. x.to = Partner[n] /\ x.dg = d /\ Partner[x.to] = n
        BY <4>2, ConstantFacts
      <4>4. d.index < IndexLimit - 1
        BY <1>1, <1>2, <4>2
      <4> QED BY <1>3, <1>13, <4>3, <4>4
    <3> QED BY <3>1, <3>2
  <2> QED BY <1>3, <1>8, <2>1 DEF NetworkInv
<1>17. ASSUME NEW k \in Peer PROVE ReceiverInv(k)'
  <2>1. Partner[k] \in Peer /\ delivered[k] \in Seq(Message \cup {Garbled})
    BY <1>4, ConstantFacts DEF HistoryType
  <2>2. \A d \in input[k] : Genuine(Partner[k], d)' \/ d.index < expected[k]
    BY <1>8, <1>9, <2>1 DEF ReceiverInv
  <2>3. /\ Len(sent[Partner[k]]) <= Len(sent'[Partner[k]])
        /\ \A j \in 1..Len(sent[Partner[k]]) : sent'[Partner[k]][j] = sent[Partner[k]][j]
        /\ \A j \in 1..(Len(sent[Partner[k]]) + 1) : bounds'[Partner[k]][j] = bounds[Partner[k]][j]
        /\ Len(sent[Partner[k]]) \in Nat /\ Len(sent'[Partner[k]]) \in Nat
    <3>1. CASE Partner[k] = n /\ ~ failed[n]
      BY <1>10, <3>1
    <3>2. CASE ~ (Partner[k] = n /\ ~ failed[n])
      <4>1. Len(sent[Partner[k]]) \in Nat
        BY <1>4, <2>1 DEF HistoryType
      <4> QED BY <1>7, <2>1, <3>2, <4>1
    <3> QED BY <3>1, <3>2
  <2>4. /\ Len(delivered[k]) \in Nat /\ Len(delivered[k]) <= Len(sent[Partner[k]])
        /\ \A j \in 1..Len(delivered[k]) : delivered[k][j] = sent[Partner[k]][j]
        /\ expected[k] = bounds[Partner[k]][Len(delivered[k]) + 1]
    BY <1>8, <2>1 DEF ReceiverInv
  <2>5. /\ Len(delivered[k]) <= Len(sent'[Partner[k]])
        /\ \A j \in 1..Len(delivered[k]) : delivered[k][j] = sent'[Partner[k]][j]
        /\ expected[k] = bounds'[Partner[k]][Len(delivered[k]) + 1]
    <3>1. /\ Len(delivered[k]) + 1 \in 1..(Len(sent[Partner[k]]) + 1)
          /\ \A j \in 1..Len(delivered[k]) : j \in 1..Len(sent[Partner[k]])
      BY <2>3, <2>4
    <3>2. Len(delivered[k]) <= Len(sent'[Partner[k]])
      BY <2>3, <2>4
    <3> QED BY <2>3, <2>4, <3>1, <3>2
  <2> QED BY <1>3, <1>8, <2>2, <2>5 DEF ReceiverInv
<1> QED BY <1>11, <1>15, <1>16, <1>17 DEF WindowInv

\* A step that leaves the history and the windows alone, and adds nothing to the
\* network but acknowledgments of what has arrived.
LEMMA StableWindow ==
  ASSUME TypeInv, WindowInv, UNCHANGED <<window, failed, history>>,
         net_data' \subseteq net_data,
         \A a \in net_acks' : a \in net_acks \/ \E n \in Peer : a = Acknowledgment(n)
  PROVE  WindowInv'
<1>1. WindowType /\ NetworkType /\ NetworkInv
  BY DEF TypeInv, TypeOK, WindowInv
<1>2. \A n \in Peer : HistoryInv(n)' /\ SenderInv(n)' /\ ReceiverInv(n)'
  BY DEF WindowInv, HistoryInv, SenderInv, ReceiverInv, Genuine, Covered, Has
<1>3. ASSUME NEW x \in net_data'
      PROVE  /\ x.dg.index < IndexLimit - 1
             /\ Genuine(Partner[x.to], x.dg)' \/ x.dg.index < last_input'[x.to]
  BY <1>1 DEF NetworkInv, Genuine
<1>4. ASSUME NEW a \in net_acks' PROVE a.index <= last_input'[Partner[a.to]]
  <2>1. CASE a \in net_acks
    BY <1>1, <2>1 DEF NetworkInv
  <2>2. CASE \E n \in Peer : a = Acknowledgment(n)
    <3>1. PICK n \in Peer : a = Acknowledgment(n)
      BY <2>2
    <3>2. a.index = last_input[n] /\ Partner[a.to] = n /\ last_input[n] \in Nat
      BY <1>1, <3>1, ConstantFacts DEF Acknowledgment, WindowType, Index
    <3> QED BY <3>2
  <2> QED BY <2>1, <2>2
<1> QED BY <1>2, <1>3, <1>4 DEF WindowInv, NetworkInv

\* process_acknowledgment: what is erased is below the partner's
\* last_input_index_, and what is sent again was kept.
LEMMA AcknowledgmentWindow ==
  ASSUME TypeInv, WindowInv, NEW n \in Peer, NEW a \in net_acks, ProcessAcknowledgment(n, a)
  PROVE  WindowInv'
<1> DEFINE kept == Unacknowledged(n, a.index)
<1>1. /\ WindowType /\ SessionType /\ NetworkType /\ NetworkInv
      /\ \A k \in Peer : HistoryInv(k) /\ SenderInv(k) /\ ReceiverInv(k)
  BY DEF TypeInv, TypeOK, WindowInv
<1>2. /\ UNCHANGED <<last_output, last_input, expected, input, failed, history>>
      /\ net_acks' \subseteq net_acks /\ a.to = n
  BY DEF ProcessAcknowledgment, Arrives
<1>3. CASE Broken(n)
  <2>1. UNCHANGED <<window, failed, history>> /\ net_data' = net_data
    BY <1>2, <1>3 DEF ProcessAcknowledgment
  <2> QED BY <1>2, <2>1, StableWindow
<1>4. CASE ~ Broken(n)
  <2>1. /\ output' = [output EXCEPT ![n] = kept]
        /\ net_data' \subseteq net_data \cup
             {[to |-> Partner[n], dg |-> d] : d \in {e \in kept : e.index \in Resend(a)}}
        /\ ~ failed[n]
    BY <1>4 DEF ProcessAcknowledgment, Broken
  <2>2. /\ output'[n] = kept /\ \A k \in Peer \ {n} : output'[k] = output[k]
        /\ kept \subseteq output[n]
    BY <1>1, <2>1 DEF WindowType, Unacknowledged
  <2>3. /\ a.index \in Nat /\ a.index <= last_input[Partner[n]] /\ last_input[Partner[n]] \in Nat
        /\ last_output[n] \in Index /\ \A d \in output[n] : d.index \in Nat
    BY <1>1, <1>2, ConstantFacts DEF NetworkType, NetworkInv, WindowType, Datagram, Index
  <2>4. ASSUME NEW k \in Peer PROVE HistoryInv(k)' /\ ReceiverInv(k)'
    BY <1>1, <1>2 DEF HistoryInv, ReceiverInv, Genuine, Has
  <2>5. ASSUME NEW k \in Peer PROVE SenderInv(k)'
    <3>1. output'[k] \subseteq output[k]
      BY <2>2
    <3>2. \A d \in output'[k] : Genuine(k, d)' \/ d.index < last_input'[Partner[k]]
      BY <1>1, <1>2, <3>1 DEF SenderInv, Genuine
    <3>3. ~ failed'[k] => \A d \in output'[k] : d.index < last_output'[k]
      BY <1>1, <1>2, <3>1 DEF SenderInv
    <3>4. ASSUME NEW i \in Index, failed'[k] \/ i < last_output'[k] PROVE Covered(k, i)'
      <4>1. Covered(k, i) /\ i \in Nat
        BY <1>1, <1>2, <3>4, ConstantFacts DEF SenderInv, Index
      <4>2. CASE k # n
        BY <1>2, <2>2, <4>1, <4>2 DEF Covered, Has
      <4>3. CASE k = n /\ i < a.index
        <5>1. i < last_input[Partner[k]]
          BY <2>3, <4>1, <4>3
        <5> QED BY <1>2, <5>1 DEF Covered
      <4>4. CASE k = n /\ ~ (i < a.index)
        <5>1. Has(output[n], i) => Has(kept, i)
          BY <2>3, <4>1, <4>4 DEF Has, Unacknowledged
        <5> QED BY <1>2, <2>2, <4>1, <4>4, <5>1 DEF Covered
      <4> QED BY <4>2, <4>3, <4>4
    <3> QED BY <3>2, <3>3, <3>4 DEF SenderInv
  <2>6. ASSUME NEW x \in net_data'
        PROVE  /\ x.dg.index < IndexLimit - 1
               /\ Genuine(Partner[x.to], x.dg)' \/ x.dg.index < last_input'[x.to]
    <3>1. CASE x \in net_data
      BY <1>1, <1>2, <3>1 DEF NetworkInv, Genuine
    <3>2. CASE x \notin net_data
      <4>1. PICK d \in kept : x = [to |-> Partner[n], dg |-> d]
        BY <2>1, <3>2
      <4>2. x.to = Partner[n] /\ x.dg = d /\ Partner[x.to] = n /\ d \in output[n]
        BY <2>2, <4>1, ConstantFacts
      <4>3. d.index < last_output[n] /\ d.index < IndexLimit - 1
        BY <1>1, <2>1, <2>3, <4>2, ConstantFacts DEF SenderInv, Index
      <4>4. Genuine(n, d)' \/ d.index < last_input'[Partner[n]]
        BY <1>1, <1>2, <4>2 DEF SenderInv, Genuine
      <4> QED BY <4>2, <4>3, <4>4
    <3> QED BY <3>1, <3>2
  <2>7. NetworkInv'
    BY <1>1, <1>2, <2>6 DEF NetworkInv
  <2> QED BY <2>4, <2>5, <2>7 DEF WindowInv
<1> QED BY <1>3, <1>4

\* process_datagram of a datagram with (a part of) a message.
LEMMA DataWindow ==
  ASSUME TypeInv, WindowInv, NEW n \in Peer, NEW x \in net_data, ProcessData(n, x)
  PROVE  WindowInv'
<1>1. /\ WindowType /\ NetworkType /\ NetworkInv
      /\ \A k \in Peer : HistoryInv(k) /\ SenderInv(k) /\ ReceiverInv(k)
      /\ \A k \in Peer : last_input[k] \in Nat
  BY ConstantFacts DEF TypeInv, TypeOK, WindowInv, WindowType, Index
<1>2. /\ UNCHANGED <<last_output, output, last_input, expected, failed, net_acks, history>>
      /\ net_data' \subseteq net_data /\ x.to = n
  BY DEF ProcessData, Arrives
<1>3. \/ input' = input
      \/ input' = [input EXCEPT ![n] = @ \cup {x.dg}] /\ ~ Has(input[n], x.dg.index)
  BY DEF ProcessData
<1>4. NetworkInv'
  BY <1>1, <1>2, NetworkStable
<1>5. \A k \in Peer : HistoryInv(k)' /\ SenderInv(k)'
  BY <1>1, <1>2, SenderStable
<1>6. ASSUME NEW k \in Peer PROVE ReceiverInv(k)'
  <2>1. CASE input'[k] = input[k]
    BY <1>1, <1>2, <2>1, ReceiverStable
  <2>2. CASE input'[k] # input[k]
    <3>1. k = n /\ input'[n] = input[n] \cup {x.dg} /\ ~ Has(input[n], x.dg.index)
      BY <1>1, <1>3, <2>2 DEF WindowType
    <3>2. \A i \in Nat : Has(input[n], i) => Has(input'[n], i)
      BY <3>1 DEF Has
    <3>3. Genuine(Partner[n], x.dg) \/ x.dg.index < last_input[n]
      BY <1>1, <1>2 DEF NetworkInv
    <3>4. x.dg.index < last_input[n] => x.dg.index < expected[n]
      <4>1. x.dg.index \in Nat
        BY <1>1, ConstantFacts DEF NetworkType, Datagram, Index
      <4>2. x.dg.index < last_input[n] => x.dg.index \in 0..(last_input[n] - 1)
        BY <1>1, <4>1
      <4> QED BY <1>1, <3>1, <4>2 DEF ReceiverInv
    <3>5. ASSUME NEW d \in input'[n] PROVE Genuine(Partner[n], d)' \/ d.index < expected'[n]
      <4>1. Genuine(Partner[n], d) \/ d.index < expected[n]
        BY <1>1, <3>1, <3>3, <3>4 DEF ReceiverInv
      <4> QED BY <1>2, <4>1 DEF Genuine
    <3>6. \A i \in 0..(last_input'[n] - 1) : i < expected'[n] \/ Has(input'[n], i)
      BY <1>1, <1>2, <3>2 DEF ReceiverInv
    <3> QED BY <1>1, <1>2, <3>1, <3>5, <3>6 DEF ReceiverInv
  <2> QED BY <2>1, <2>2
<1> QED BY <1>4, <1>5, <1>6 DEF WindowInv

\* A turn of continue_process_messages moves last_input_index_ of one peer and
\* leaves all senders alone; what is left to show is about that peer.
LEMMA TurnWindow ==
  ASSUME TypeInv, WindowInv, NEW n \in Peer, Advance(n),
         UNCHANGED <<last_output, output, failed, network, sent, bounds>>,
         \A k \in Peer \ {n} : /\ expected'[k] = expected[k] /\ input'[k] = input[k]
                               /\ delivered'[k] = delivered[k],
         ReceiverInv(n)'
  PROVE  WindowInv'
<1>1. /\ WindowType /\ NetworkType /\ NetworkInv
      /\ \A k \in Peer : HistoryInv(k) /\ SenderInv(k) /\ ReceiverInv(k)
  BY DEF TypeInv, TypeOK, WindowInv
<1>2. /\ \A k \in Peer : last_input'[k] \in Nat /\ last_input[k] <= last_input'[k]
      /\ \A k \in Peer \ {n} : last_input'[k] = last_input[k]
  BY <1>1, AdvanceFacts
<1>3. NetworkInv'
  BY <1>1, <1>2, NetworkStable
<1>4. \A k \in Peer : HistoryInv(k)' /\ SenderInv(k)'
  BY <1>1, <1>2, SenderStable
<1>5. \A k \in Peer \ {n} : ReceiverInv(k)'
  BY <1>1, <1>2, ReceiverStable
<1> QED BY <1>3, <1>4, <1>5 DEF WindowInv

\* The loop ends, drops a datagram of a message that was delivered, or gives up.
LEMMA IdleTurnWindow ==
  ASSUME TypeInv, WindowInv, NEW n \in Peer,
         ContinueStop(n) \/ ContinueErase(n) \/ ContinueRefuse(n)
  PROVE  WindowInv'
<1>1. WindowType /\ ReceiverInv(n) /\ Advance(n)
  BY DEF TypeInv, TypeOK, WindowInv, ContinueStop, ContinueErase, ContinueRefuse
<1>2. /\ UNCHANGED <<last_output, output, expected, failed, network, history>>
      /\ \/ input' = input
         \/ \E d \in input[n] : d.index < expected[n] /\ input' = [input EXCEPT ![n] = @ \ {d}]
  BY DEF ContinueStop, ContinueErase, ContinueRefuse
<1>3. /\ \A k \in Peer \ {n} : input'[k] = input[k]
      /\ input'[n] \subseteq input[n]
      /\ \A d \in input[n] : d \in input'[n] \/ d.index < expected[n]
  BY <1>1, <1>2 DEF WindowType
<1>4. /\ last_input'[n] \in Nat /\ last_input[n] \in Nat /\ last_input[n] <= last_input'[n]
      /\ \A i \in 0..(last_input'[n] - 1) : i < expected[n] \/ Has(input[n], i)
  BY <1>1, AdvanceFacts, ConstantFacts DEF WindowType, Index
<1>5. \A i \in 0..(last_input'[n] - 1) : i < expected'[n] \/ Has(input'[n], i)
  BY <1>2, <1>3, <1>4 DEF Has
<1>6. expected'[n] <= last_input'[n]
  BY <1>1, <1>2, <1>4 DEF ReceiverInv, WindowType
<1>7. \A d \in input'[n] : Genuine(Partner[n], d)' \/ d.index < expected'[n]
  BY <1>1, <1>2, <1>3 DEF ReceiverInv, Genuine
<1>8. ReceiverInv(n)'
  BY <1>1, <1>2, <1>5, <1>6, <1>7 DEF ReceiverInv
<1> QED BY <1>1, <1>2, <1>3, <1>8, TurnWindow

\* What is known of the bounds of n's messages.
LEMMA BoundsFacts ==
  ASSUME HistoryType, NEW n \in Peer, HistoryInv(n)
  PROVE  /\ Len(sent[n]) \in Nat /\ Len(bounds[n]) = Len(sent[n]) + 1
         /\ \A j \in 1..Len(bounds[n]) : bounds[n][j] \in Nat
         /\ \A h, j \in 1..Len(bounds[n]) : h <= j => bounds[n][h] <= bounds[n][j]
         /\ \A h, j \in 1..Len(bounds[n]) : h < j => bounds[n][h] < bounds[n][j]
<1>1. sent[n] \in Seq(Message) /\ bounds[n] \in Seq(Nat)
  BY DEF HistoryType
<1>2. Len(sent[n]) \in Nat /\ \A j \in 1..Len(bounds[n]) : bounds[n][j] \in Nat
  BY <1>1, LenProperties, ElementOfSeq
<1> QED BY <1>2 DEF HistoryInv

\* The datagram at expected_index_ is the first one of the next message.
LEMMA ExpectedMessage ==
  ASSUME TypeInv, WindowInv, NEW n \in Peer, NEW d \in input[n], d.index = expected[n]
  PROVE  LET p == Partner[n]
             k == Len(delivered[n]) + 1
         IN /\ k \in 1..Len(sent[p]) /\ d.msg = sent[p][k] /\ d.seg = 0
            /\ bounds[p][k] = expected[n] /\ bounds[p][k + 1] = expected[n] + d.segments
<1> DEFINE p == Partner[n]
           k == Len(delivered[n]) + 1
<1>1. /\ WindowType /\ HistoryType /\ ReceiverInv(n) /\ HistoryInv(p) /\ p \in Peer
  BY ConstantFacts DEF TypeInv, TypeOK, WindowInv
<1>2. d.index \in Nat /\ d.seg \in Nat /\ d.segments \in Nat /\ expected[n] \in Nat
  BY <1>1, ConstantFacts DEF WindowType, Datagram, Index
<1>3. /\ Len(sent[p]) \in Nat /\ Len(bounds[p]) = Len(sent[p]) + 1
      /\ \A j \in 1..Len(bounds[p]) : bounds[p][j] \in Nat
      /\ \A h, j \in 1..Len(bounds[p]) : h <= j => bounds[p][h] <= bounds[p][j]
      /\ \A h, j \in 1..Len(bounds[p]) : h < j => bounds[p][h] < bounds[p][j]
  BY <1>1, BoundsFacts
<1>4. k \in Nat /\ k >= 1 /\ k <= Len(sent[p]) + 1 /\ bounds[p][k] = expected[n]
  <2>1. delivered[n] \in Seq(Message \cup {Garbled})
    BY <1>1 DEF HistoryType
  <2>2. Len(delivered[n]) \in Nat
    BY <2>1, LenProperties
  <2> QED BY <1>1, <1>3, <2>2 DEF ReceiverInv
<1>5. PICK l \in 1..Len(sent[p]) :
        /\ d.msg = sent[p][l]
        /\ d.index = bounds[p][l] + d.seg
        /\ d.segments = bounds[p][l + 1] - bounds[p][l]
        /\ d.seg < d.segments
  <2>1. Genuine(p, d)
    BY <1>1, <1>2 DEF ReceiverInv
  <2> QED BY <2>1 DEF Genuine
<1>6. /\ bounds[p][l] <= d.index /\ d.index < bounds[p][l + 1]
      /\ l \in 1..Len(bounds[p]) /\ l + 1 \in 1..Len(bounds[p])
  <2>1. l \in 1..Len(bounds[p]) /\ l + 1 \in 1..Len(bounds[p])
    BY <1>3
  <2>2. bounds[p][l] \in Nat /\ bounds[p][l + 1] \in Nat
    BY <1>3, <2>1
  <2>3. bounds[p][l] <= d.index /\ d.index < bounds[p][l + 1]
    BY <1>2, <1>5, <2>2
  <2> QED BY <2>1, <2>3
<1>7. k <= Len(sent[p])
  <2> SUFFICES ASSUME k = Len(sent[p]) + 1 PROVE FALSE
    BY <1>3, <1>4
  <2>1. k \in 1..Len(bounds[p]) /\ l + 1 <= k
    BY <1>3, <1>5
  <2>2. bounds[p][l + 1] <= bounds[p][k]
    BY <1>3, <1>6, <2>1
  <2> QED BY <1>2, <1>3, <1>4, <1>6, <2>1, <2>2
<1>8. /\ k \in 1..Len(sent[p]) /\ k \in 1..Len(bounds[p]) /\ k + 1 \in 1..Len(bounds[p])
      /\ k < k + 1
  BY <1>3, <1>4, <1>7
<1>9. bounds[p][k] <= d.index /\ d.index < bounds[p][k + 1]
  <2>1. bounds[p][k] < bounds[p][k + 1]
    BY <1>3, <1>8
  <2> QED BY <1>2, <1>4, <2>1
<1>10. k = l
  BY <1>1, <1>2, <1>5, <1>6, <1>8, <1>9, MessageOf
<1>11. bounds[p][k + 1] \in Nat /\ bounds[p][k] \in Nat
  BY <1>3, <1>8
<1> HIDE DEF p, k
<1>12. d.seg = 0 /\ bounds[p][k + 1] = expected[n] + d.segments
  <2>1. d.index = bounds[p][k] + d.seg /\ d.segments = bounds[p][k + 1] - bounds[p][k]
    BY <1>5, <1>10
  <2>2. d.index = expected[n] /\ bounds[p][k] = expected[n]
    BY <1>4
  <2>3. d.seg = 0
    BY <1>2, <2>1, <2>2
  <2>4. bounds[p][k + 1] = expected[n] + d.segments
    BY <1>2, <1>11, <2>1, <2>2
  <2> QED BY <2>3, <2>4
<1> QED BY <1>4, <1>5, <1>8, <1>10, <1>12 DEF p, k

\* The datagrams that follow it belong to the same message, in order: what is put
\* together is the message.
LEMMA ReassembledIsMessage ==
  ASSUME TypeInv, WindowInv, NEW n \in Peer, NEW d \in input[n], d.index = expected[n],
         Complete(n, d)
  PROVE  Reassembled(n, d) = d.msg
<1> DEFINE p == Partner[n]
           k == Len(delivered[n]) + 1
<1>1. /\ WindowType /\ HistoryType /\ ReceiverInv(n) /\ HistoryInv(p) /\ p \in Peer
  BY ConstantFacts DEF TypeInv, TypeOK, WindowInv
<1>2. d.segments \in Nat /\ expected[n] \in Nat
  BY <1>1 DEF WindowType, Datagram
<1>3. /\ k \in 1..Len(sent[p]) /\ d.msg = sent[p][k]
      /\ bounds[p][k] = expected[n] /\ bounds[p][k + 1] = expected[n] + d.segments
  BY ExpectedMessage
<1>4. /\ Len(sent[p]) \in Nat /\ Len(bounds[p]) = Len(sent[p]) + 1
      /\ \A j \in 1..Len(bounds[p]) : bounds[p][j] \in Nat
  BY <1>1, BoundsFacts
<1> HIDE DEF p, k
<1>5. ASSUME NEW j \in 1..(d.segments - 1)
      PROVE  \E e \in input[n] : e.index = d.index + j /\ e.msg = d.msg /\ e.seg = j
  <2>1. PICK e \in input[n] : e.index = d.index + j
    BY DEF Complete, Has
  <2>2. e.index = expected[n] + j /\ e.index \in Nat /\ e.seg \in Nat /\ e.segments \in Nat
    BY <1>1, <1>2, <2>1, ConstantFacts DEF WindowType, Datagram, Index
  <2>3. Genuine(p, e)
    BY <1>1, <1>2, <2>2 DEF ReceiverInv, p
  <2>4. PICK l \in 1..Len(sent[p]) :
          /\ e.msg = sent[p][l]
          /\ e.index = bounds[p][l] + e.seg
          /\ e.segments = bounds[p][l + 1] - bounds[p][l]
          /\ e.seg < e.segments
    BY <2>3 DEF Genuine
  <2>5. l \in 1..Len(bounds[p]) /\ l + 1 \in 1..Len(bounds[p])
    BY <1>4
  <2>6. bounds[p][l] \in Nat /\ bounds[p][l + 1] \in Nat
    BY <1>4, <2>5
  <2>7. bounds[p][l] <= e.index /\ e.index < bounds[p][l + 1]
    BY <2>2, <2>4, <2>6
  <2>8. bounds[p][k] <= e.index /\ e.index < bounds[p][k + 1]
    BY <1>2, <1>3, <2>2
  <2>9. k = l
    BY <1>1, <1>3, <2>2, <2>7, <2>8, MessageOf
  <2>10. e.index = bounds[p][k] + e.seg /\ e.msg = d.msg
    BY <1>3, <2>4, <2>9
  <2>11. e.seg = j
    BY <1>2, <1>3, <2>2, <2>10
  <2> QED BY <2>1, <2>10, <2>11
<1> QED BY <1>5 DEF Reassembled

\* A message is complete and goes to process_message.
LEMMA DeliverWindow ==
  ASSUME TypeInv, WindowInv, NEW n \in Peer, ContinueDeliver(n)
  PROVE  /\ WindowInv'
         /\ Len(delivered[n]) + 1 \in 1..Len(sent[Partner[n]])
         /\ delivered' = [delivered EXCEPT ![n] =
                            Append(@, sent[Partner[n]][Len(delivered[n]) + 1])]
<1> DEFINE p == Partner[n]
           k == Len(delivered[n]) + 1
<1>1. /\ WindowType /\ HistoryType /\ ReceiverInv(n) /\ HistoryInv(p) /\ p \in Peer
      /\ Advance(n)
  BY ConstantFacts DEF TypeInv, TypeOK, WindowInv, ContinueDeliver
<1>2. PICK d \in input[n] :
        /\ d.index = expected[n] /\ Complete(n, d)
        /\ expected' = [expected EXCEPT ![n] = NextExpected(n, d)]
        /\ delivered' = [delivered EXCEPT ![n] = Append(@, Reassembled(n, d))]
  BY DEF ContinueDeliver
<1>3. UNCHANGED <<last_output, output, input, failed, network, sent, bounds>>
  BY DEF ContinueDeliver
<1>4. d.segments \in Nat /\ expected[n] \in Nat /\ last_input[n] \in Nat
  BY <1>1, ConstantFacts DEF WindowType, Datagram, Index
<1>5. /\ k \in 1..Len(sent[p]) /\ d.msg = sent[p][k]
      /\ bounds[p][k] = expected[n] /\ bounds[p][k + 1] = expected[n] + d.segments
  BY <1>2, ExpectedMessage
<1>6. Reassembled(n, d) = sent[p][k]
  BY <1>2, <1>5, ReassembledIsMessage
<1>7. /\ expected'[n] = expected[n] + d.segments
      /\ \A j \in Peer \ {n} : expected'[j] = expected[j] /\ delivered'[j] = delivered[j]
      /\ delivered'[n] = Append(delivered[n], sent[p][k])
  BY <1>1, <1>2, <1>6 DEF NextExpected, WindowType, HistoryType
<1>8. /\ last_input'[n] \in Nat /\ last_input[n] <= last_input'[n]
      /\ \A i \in 0..(last_input'[n] - 1) : i < expected[n] \/ Has(input[n], i)
      /\ ~ Has(input[n], last_input'[n])
  BY <1>1, AdvanceFacts
<1>9. expected'[n] <= last_input'[n]
  <2> SUFFICES ASSUME last_input'[n] < expected'[n] PROVE FALSE
    BY <1>4, <1>7, <1>8
  <2>1. expected[n] <= last_input'[n] /\ last_input'[n] < expected[n] + d.segments
    BY <1>1, <1>4, <1>7, <1>8 DEF ReceiverInv
  <2> DEFINE j == last_input'[n] - expected[n]
  <2>2. j \in 0..(d.segments - 1) /\ last_input'[n] = d.index + j
    BY <1>2, <1>4, <1>8, <2>1
  <2>3. CASE j = 0
    BY <1>2, <1>4, <1>8, <2>2, <2>3 DEF Has
  <2>4. CASE j # 0
    BY <1>2, <1>4, <1>8, <2>2, <2>4 DEF Complete
  <2> QED BY <2>3, <2>4
<1>10. \A i \in 0..(last_input'[n] - 1) : i < expected'[n] \/ Has(input'[n], i)
  BY <1>3, <1>4, <1>7, <1>8
<1>11. ASSUME NEW e \in input'[n] PROVE Genuine(Partner[n], e)' \/ e.index < expected'[n]
  <2>1. Genuine(p, e) \/ e.index < expected[n]
    BY <1>1, <1>3 DEF ReceiverInv
  <2>2. e.index \in Nat
    BY <1>1, <1>3, ConstantFacts DEF WindowType, Datagram, Index
  <2> QED BY <1>3, <1>4, <1>7, <2>1, <2>2 DEF Genuine
<1>12. /\ Len(delivered'[n]) = k /\ Len(delivered[n]) \in Nat
       /\ \A j \in 1..k : delivered'[n][j] = sent'[p][j]
  <2>1. delivered[n] \in Seq(Message \cup {Garbled}) /\ sent[p] \in Seq(Message)
    BY <1>1 DEF HistoryType
  <2>2. sent[p][k] \in Message \cup {Garbled}
    BY <1>5, <2>1, ElementOfSeq
  <2>3. /\ Len(delivered'[n]) = k /\ Len(delivered[n]) \in Nat
        /\ delivered'[n][k] = sent[p][k]
        /\ \A j \in 1..Len(delivered[n]) : delivered'[n][j] = delivered[n][j]
    BY <1>7, <2>1, <2>2, AppendProperties, LenProperties
  <2>4. \A j \in 1..k : j = k \/ j \in 1..Len(delivered[n])
    BY <2>3
  <2> QED BY <1>1, <1>3, <2>3, <2>4 DEF ReceiverInv
<1>13. k <= Len(sent'[p]) /\ expected'[n] = bounds'[p][k + 1]
  BY <1>1, <1>3, <1>5, <1>7, BoundsFacts
<1>14. ReceiverInv(n)'
  BY <1>9, <1>10, <1>11, <1>12, <1>13 DEF ReceiverInv
<1>15. WindowInv'
  BY <1>1, <1>3, <1>7, <1>14, TurnWindow
<1> QED BY <1>2, <1>5, <1>6, <1>15

\* Only send_message adds to the history of sent messages, and only a complete
\* message adds to that of the delivered ones: every step is one of the channel.
LEMMA NextWindowInv ==
  TypeInv /\ WindowInv /\ [Next]_vars => WindowInv' /\ [Channel!Next]_<<sent, delivered>>
<1> SUFFICES ASSUME TypeInv, WindowInv, [Next]_vars
             PROVE  WindowInv' /\ [Channel!Next]_<<sent, delivered>>
  OBVIOUS
<1> USE DEF Channel!Next, Channel!Send, Channel!Deliver
<1>1. ASSUME NEW n \in Peer, NEW m \in Message, SendMessage(n, m)
      PROVE  WindowInv' /\ [Channel!Next]_<<sent, delivered>>
  <2>1. UNCHANGED delivered /\ \/ UNCHANGED sent
                               \/ sent' = [sent EXCEPT ![n] = Append(@, m)]
    BY <1>1 DEF SendMessage
  <2> QED BY <1>1, <2>1, SendWindow
<1>2. ASSUME NEW n \in Peer, OnTimer(n)
      PROVE  WindowInv' /\ [Channel!Next]_<<sent, delivered>>
  <2>1. /\ UNCHANGED <<window, failed, history, net_data>>
        /\ net_acks' \in Carry(net_acks, Acknowledgment(n))
    BY <1>2 DEF OnTimer
  <2>2. net_acks' \subseteq net_acks \cup {Acknowledgment(n)}
    BY <2>1 DEF Carry
  <2> QED BY <2>1, <2>2, StableWindow
<1>3. ASSUME NEW n \in Peer, NEW p \in net_probes, ProcessMtuTest(n, p)
      PROVE  WindowInv' /\ [Channel!Next]_<<sent, delivered>>
  <2>1. UNCHANGED <<window, failed, history, net_data, net_acks>>
    BY <1>3 DEF ProcessMtuTest
  <2> QED BY <2>1, StableWindow
<1>4. ASSUME NEW n \in Peer, NEW a \in net_acks, ProcessAcknowledgment(n, a)
      PROVE  WindowInv' /\ [Channel!Next]_<<sent, delivered>>
  BY <1>4, AcknowledgmentWindow DEF ProcessAcknowledgment
<1>5. ASSUME NEW n \in Peer, NEW x \in net_data, ProcessData(n, x)
      PROVE  WindowInv' /\ [Channel!Next]_<<sent, delivered>>
  BY <1>5, DataWindow DEF ProcessData
<1>6. ASSUME NEW n \in Peer, ContinueStop(n) \/ ContinueErase(n) \/ ContinueRefuse(n)
      PROVE  WindowInv' /\ [Channel!Next]_<<sent, delivered>>
  BY <1>6, IdleTurnWindow DEF ContinueStop, ContinueErase, ContinueRefuse
<1>7. ASSUME NEW n \in Peer, ContinueDeliver(n)
      PROVE  WindowInv' /\ [Channel!Next]_<<sent, delivered>>
  <2>1. /\ WindowInv' /\ UNCHANGED sent
        /\ Len(delivered[n]) + 1 \in 1..Len(sent[Partner[n]])
        /\ delivered' = [delivered EXCEPT ![n] =
                           Append(@, sent[Partner[n]][Len(delivered[n]) + 1])]
    BY <1>7, DeliverWindow DEF ContinueDeliver
  <2>2. Len(delivered[n]) + 1 <= Len(sent[Partner[n]])
    BY <2>1
  <2> QED BY <2>1, <2>2
<1>8. CASE Lose
  <2>1. /\ UNCHANGED <<window, session, history>>
        /\ net_data' \subseteq net_data /\ net_acks' \subseteq net_acks
    BY <1>8 DEF Lose
  <2> QED BY <2>1, StableWindow
<1>9. CASE UNCHANGED vars
  BY <1>9, StableWindow DEF vars
<1> QED BY <1>1, <1>2, <1>3, <1>4, <1>5, <1>6, <1>7, <1>8, <1>9 DEF Next

LEMMA SessionWindow == Spec => [](TypeInv /\ WindowInv)
<1>1. Init => TypeInv /\ WindowInv
  BY InitTypeInv, InitWindowInv
<1>2. TypeInv /\ WindowInv /\ [Next]_vars => (TypeInv /\ WindowInv)'
  BY NextTypeInv, NextWindowInv
<1> QED BY <1>1, <1>2, PTL DEF Spec

\* Whatever is lost, repeated or overtaken, process_acknowledgment erases from
\* output_messages_ only what the partner has.
THEOREM NoDatagramLost == Spec => []NoLoss
<1>1. TypeInv /\ WindowInv => NoLoss
  <2> SUFFICES ASSUME TypeInv, WindowInv, NEW n \in Peer, ~ failed[n],
                      NEW i \in 0..(last_output[n] - 1)
               PROVE  \/ Has(output[n], i)
                      \/ Has(input[Partner[n]], i)
                      \/ i < expected[Partner[n]]
    BY DEF NoLoss
  <2>1. /\ SenderInv(n) /\ Partner[n] \in Peer /\ ReceiverInv(Partner[n])
        /\ last_output[n] \in Index /\ last_input[Partner[n]] \in Index
    BY ConstantFacts DEF WindowInv, TypeInv, TypeOK, WindowType
  <2>2. i \in Index /\ i < last_output[n]
    BY <2>1, ConstantFacts DEF Index
  <2>3. Covered(n, i)
    BY <2>1, <2>2 DEF SenderInv
  <2>4. CASE Has(output[n], i)
    BY <2>4
  <2>5. CASE i < last_input[Partner[n]]
    <3>1. i \in 0..(last_input[Partner[n]] - 1)
      BY <2>1, <2>5, ConstantFacts DEF Index
    <3> QED BY <2>1, <3>1 DEF ReceiverInv
  <2> QED BY <2>3, <2>4, <2>5 DEF Covered
<1> QED BY <1>1, SessionWindow, PTL

\* continue_process_messages never finds a continuation at expected_index_: its
\* vds_assert(false) is out of reach.
THEOREM ExpectedIsHead == Spec => []HeadExpected
<1>1. TypeInv /\ WindowInv => HeadExpected
  BY ExpectedMessage DEF HeadExpected, IsHead
<1> QED BY <1>1, SessionWindow, PTL

\* A session is a FIFO channel: process_message gets the partner's messages, each
\* one whole, once and in the order of send_message.
THEOREM SessionIsChannel == Spec => ChannelSpec
<1>1. Init => Channel!Init
  BY DEF Init, Channel!Init
<1>2. TypeInv /\ WindowInv /\ [Next]_vars => [Channel!Next]_(Channel!vars)
  BY NextWindowInv DEF Channel!vars
<1> QED BY <1>1, <1>2, SessionWindow, PTL DEF Spec, ChannelSpec, Channel!Spec
=============================================================================
