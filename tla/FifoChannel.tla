---------------------------- MODULE FifoChannel ----------------------------
(***************************************************************************)
(* What a datagram session promises the layers above it: between a peer    *)
(* and its partner, messages are handed over exactly once, in the order    *)
(* in which they were sent.  A session may stop at any point; it never     *)
(* skips, repeats, reorders or invents a message.                          *)
(***************************************************************************)
EXTENDS Naturals, Sequences

CONSTANTS Peer,      \* the two ends of the session
          Partner,   \* [Peer -> Peer], the other end
          Message    \* the messages that can be sent

VARIABLES sent,      \* sent[n]: the messages n passed to send_message
          delivered  \* delivered[n]: the messages handed to process_message at n

vars == <<sent, delivered>>

Init == /\ sent = [n \in Peer |-> <<>>]
        /\ delivered = [n \in Peer |-> <<>>]

\* n sends a message.
Send(n) ==
  /\ \E m \in Message : sent' = [sent EXCEPT ![n] = Append(@, m)]
  /\ UNCHANGED delivered

\* The next message of n's partner reaches n.
Deliver(n) ==
  LET next == Len(delivered[n]) + 1 IN
  /\ next <= Len(sent[Partner[n]])
  /\ delivered' = [delivered EXCEPT ![n] = Append(@, sent[Partner[n]][next])]
  /\ UNCHANGED sent

Next == \E n \in Peer : Send(n) \/ Deliver(n)

Spec == Init /\ [][Next]_vars
=============================================================================
