---------------------------- MODULE UdpTransport ----------------------------
(***************************************************************************)
(* How nodes get sessions with each other and lose them: the handshake and *)
(* the read loop of udp_transport, and the entry a session has in the      *)
(* routing table (dht_route), by which messages find it.                   *)
(*                                                                         *)
(* Two nodes may reach each other by several pairs of addresses; each pair *)
(* is a path, and stands for the address of the other end in sessions_.    *)
(* What happens inside a session is left to DatagramProtocol: here it      *)
(* carries acknowledgments, which are not signed, and pings and pongs,     *)
(* which stand for every signed message: one sent over the routing table   *)
(* and one sent as an answer over the session that was asked.              *)
(***************************************************************************)
EXTENDS Naturals, FiniteSets

CONSTANTS
  Node, Path,
  Ends,          \* the two nodes of a path

  MaxSessions,   \* bound: session objects made
  MaxFailures,   \* bound: sessions that fail by themselves (a timeout)
  MaxErrors,     \* bound: writes to the socket that fail
  MaxDoubles,    \* bound: datagrams the network doubles
  MaxInFlight    \* bound: datagrams on the network

ASSUME TransportAssumption ==
  /\ Ends \in [Path -> SUBSET Node]
  /\ \A p \in Path : \E n, m \in Node : n # m /\ Ends[p] = {n, m}
  /\ {MaxSessions, MaxFailures, MaxErrors, MaxDoubles, MaxInFlight} \subseteq Nat

VARIABLES
  session,   \* sessions_[address].session_ of a node for a path
  blocked,   \* blocked_, with whether update_time_ is a minute ago
  route,     \* the session by which route_ reaches the other end of a path
  reading,   \* what continue_read does
  ticking,   \* the timer of the client runs
  network,   \* datagrams in flight
  made, failures, errors, doubles   \* how far the bounds are used up

node == <<session, blocked, route, reading, ticking>>
bounds == <<made, failures, errors>>
net == <<network, doubles>>
vars == <<node, net, bounds>>

\* A session is an object with a key.  Welcome carries the key to the other
\* end, where the session is another object with the same key.
Key == 1..MaxSessions
NoSession == [key |-> 0, object |-> 0]
Session == [key : Key, object : Key]
\* Mutant: the key is that of no session.
NewNone == made
New == made + 1

Kind == {"Handshake", "Welcome", "Failed", "Ack", "Ping", "Pong"}
Datagram == [kind : Kind, path : Path, to : Node, key : Key \cup {0}]
Unsigned(k, p, n) == [kind |-> k, path |-> p, to |-> n, key |-> 0]
Keyed(k, p, n, key) == [kind |-> k, path |-> p, to |-> n, key |-> key]
Other(n, p) == CHOOSE m \in Ends[p] : m # n

\* Steps of the read loop: waiting for a datagram, between add_session and the
\* Welcome for a new session, or left for good after an error.
Ready == [step |-> "ready", path |-> {}, key |-> 0]
Stopped == [step |-> "stopped", path |-> {}, key |-> 0]
Welcoming(p, key) == [step |-> "welcoming", path |-> p, key |-> key]

Init ==
  /\ session = [n \in Node |-> [p \in Path |-> NoSession]]
  /\ blocked = [n \in Node |-> [p \in Path |-> "no"]]
  /\ route = [n \in Node |-> [p \in Path |-> NoSession]]
  /\ reading = [n \in Node |-> Ready] /\ ticking = [n \in Node |-> TRUE]
  /\ network = {} /\ made = 0 /\ failures = 0 /\ errors = 0 /\ doubles = 0

Has(n, p) == session[n][p] # NoSession

-----------------------------------------------------------------------------
\* What a node sends by itself, all but PingRoute from its timer.
Room == Cardinality(network) < MaxInFlight

Emit(n, p, d) ==
  /\ n \in Ends[p] /\ Room
  /\ network' = network \cup {d}
  /\ UNCHANGED <<node, bounds, doubles>>

\* try_handshake, of a known address.
TryHandshake(n, p) ==
  /\ ticking[n]
  /\ IF blocked[n][p] = "no" THEN ~ Has(n, p) ELSE blocked[n][p] = "old"
  /\ Emit(n, p, Unsigned("Handshake", p, Other(n, p)))

\* broadcast_handshake asks everyone, those it has a session with too.
BroadcastHandshake(n, p) ==
  ticking[n] /\ Emit(n, p, Unsigned("Handshake", p, Other(n, p)))

\* on_timer of the sessions: an acknowledgment, and tests of the MTU.
OnTimer(n, p) ==
  ticking[n] /\ Has(n, p) /\ Emit(n, p, Unsigned("Ack", p, Other(n, p)))

\* dht_route::on_timer, and every message sent through the routing table.
PingRoute(n, p) ==
  /\ route[n][p] # NoSession
  /\ Emit(n, p, Keyed("Ping", p, Other(n, p), route[n][p].key))

\* A write that fails in a timer: timer::execute_async does not schedule it
\* again.
TimerFails(n) ==
  /\ ticking[n] /\ errors < MaxErrors
  /\ \E p \in Path : Has(n, p)
  /\ ticking' = [ticking EXCEPT ![n] = FALSE] /\ errors' = errors + 1
  /\ UNCHANGED <<session, blocked, route, reading, net, made, failures>>

\* A node of an answer takes the place of an entry in a full bucket that is not
\* good.  Ten pings in a row without a pong make it so, and the network may lose
\* them at any time: the session it had stays.
Overwrite(n, p) ==
  /\ reading[n] = Ready /\ route[n][p] # NoSession
  /\ route' = [route EXCEPT ![n][p] = NoSession]
  /\ UNCHANGED <<session, blocked, reading, ticking, net, bounds>>

\* A minute goes by after update_time_ was set.
Minute(n, p) ==
  /\ blocked[n][p] = "recent"
  /\ blocked' = [blocked EXCEPT ![n][p] = "old"]
  /\ UNCHANGED <<session, route, reading, ticking, net, bounds>>

Lose(d) == network' = network \ {d} /\ UNCHANGED <<node, bounds, doubles>>

-----------------------------------------------------------------------------
\* continue_read: one turn of the loop takes one datagram off the network,
\* which may have a double of it, and may answer with one.
Take(n, d, answers) ==
  /\ reading[n] = Ready /\ d \in network /\ d.to = n
  /\ \/ network' = (network \ {d}) \cup answers /\ UNCHANGED doubles
     \/ /\ Room /\ doubles < MaxDoubles /\ doubles' = doubles + 1
        /\ network' = network \cup answers

IsHandshake(d) == d.kind \in {"Handshake", "Welcome", "Failed"}
Refusal(n, d) == Unsigned("Failed", d.path, Other(n, d.path))

\* A blocked address is ignored; what belongs to a session is refused.
Shut(n, d) == blocked[n][d.path] = "recent"
              \/ (blocked[n][d.path] = "old" /\ ~ IsHandshake(d))

\* Mutant: a blocked address gets no answer.
BlockedSilence(n, d) == {}
BlockedAnswer(n, d) == IF IsHandshake(d) THEN {} ELSE {Refusal(n, d)}

TakeBlocked(n, d) ==
  /\ Shut(n, d) /\ Take(n, d, BlockedAnswer(n, d))
  /\ UNCHANGED <<node, bounds>>

\* Sessions with the sender by other paths.  One that is blocked is erased
\* with its entry, any other makes the handshake a duplicate.
Twins(n, p) == {q \in Path : n \in Ends[q] /\ Has(n, q) /\ Other(n, q) = Other(n, p)}
\* Mutant: only the address of the handshake is looked at.
IsDuplicateSelf(n, p) == Has(n, p)
IsDuplicate(n, p) == \E q \in Twins(n, p) : blocked[n][q] = "no"
Erased(n, p) == {q \in Twins(n, p) : blocked[n][q] # "no"}

\* dht_route::add_node, of who sends: an entry with the same address is kept.
AddRoute(n, p, s) ==
  route' = [route EXCEPT ![n][p] = IF @ = NoSession THEN s ELSE @]

\* Mutant: the flag stays.
UnblockNot(n, p) == UNCHANGED blocked
Unblock(n, p) == blocked' = [blocked EXCEPT ![n][p] = "no"]

TakeHandshake(n, d) ==
  LET p == d.path  s == [key |-> New, object |-> New] IN
  /\ d.kind = "Handshake" /\ ~ Shut(n, d) /\ Take(n, d, {})
  /\ IF Has(n, p) \/ IsDuplicate(n, p) \/ made = MaxSessions
     THEN Unblock(n, p) /\ UNCHANGED <<session, route, reading, ticking, bounds>>
     ELSE /\ session' = [session EXCEPT ![n] =
               [q \in Path |-> IF q = p THEN s
                               ELSE IF q \in Erased(n, p) THEN NoSession ELSE @[q]]]
          /\ blocked' = [blocked EXCEPT ![n] =
               [q \in Path |-> IF q = p \/ q \in Erased(n, p) THEN "no" ELSE @[q]]]
          /\ AddRoute(n, p, s)
          /\ reading' = [reading EXCEPT ![n] = Welcoming(p, s.key)]
          /\ made' = New
          /\ UNCHANGED <<ticking, failures, errors>>

\* The Welcome is written when add_session is through; an error ends the loop.
WriteWelcome(n) ==
  LET r == reading[n] IN
  /\ r.step = "welcoming"
  /\ \/ /\ Room
        /\ network' = network \cup {Keyed("Welcome", r.path, Other(n, r.path), r.key)}
        /\ reading' = [reading EXCEPT ![n] = Ready] /\ UNCHANGED errors
     \/ /\ errors < MaxErrors /\ errors' = errors + 1
        /\ reading' = [reading EXCEPT ![n] = Stopped] /\ UNCHANGED network
  /\ UNCHANGED <<session, blocked, route, ticking, made, failures, doubles>>

\* A Welcome makes a session whatever there is.  An error of add_session or
\* on_new_session ends the loop.
TakeWelcome(n, d) ==
  LET p == d.path  s == [key |-> d.key, object |-> New] IN
  /\ d.kind = "Welcome" /\ ~ Shut(n, d) /\ Take(n, d, {}) /\ Unblock(n, p)
  /\ IF made = MaxSessions
     THEN UNCHANGED <<session, route, reading, ticking, bounds>>
     ELSE /\ session' = [session EXCEPT ![n][p] = s]
          /\ AddRoute(n, p, s)
          /\ made' = New
          /\ \/ UNCHANGED <<reading, errors>>
             \/ /\ errors < MaxErrors /\ errors' = errors + 1
                /\ reading' = [reading EXCEPT ![n] = Stopped]
          /\ UNCHANGED <<ticking, failures>>

\* Mutant: the entry stays.
DropSession(n, p) ==
  /\ session' = [session EXCEPT ![n][p] = NoSession]
  /\ blocked' = [blocked EXCEPT ![n][p] = "recent"] /\ UNCHANGED route
\* The session and its entry in the table go, the address is blocked.
Drop(n, p) ==
  /\ route' = [route EXCEPT ![n][p] = IF Has(n, p) THEN NoSession ELSE @]
  /\ session' = [session EXCEPT ![n][p] = NoSession]
  /\ blocked' = [blocked EXCEPT ![n][p] = "recent"]

TakeFailed(n, d) ==
  /\ d.kind = "Failed" /\ ~ Shut(n, d) /\ Take(n, d, {})
  /\ Drop(n, d.path) /\ UNCHANGED <<reading, ticking, bounds>>

\* Mutant: the signature is not looked at.
AcceptsAll(n, d) == TRUE
\* process_datagram takes acknowledgments unseen, the rest if it is signed with
\* the key of the session.
Accepts(n, d) == d.kind = "Ack" \/ d.key = session[n][d.path].key

TakeData(n, d) ==
  LET p == d.path IN
  /\ ~ IsHandshake(d) /\ ~ Shut(n, d) /\ Has(n, p) /\ Accepts(n, d)
  /\ Take(n, d, IF d.kind = "Ping"
                THEN {Keyed("Pong", p, Other(n, p), session[n][p].key)} ELSE {})
  /\ IF d.kind = "Ack" THEN UNCHANGED route ELSE AddRoute(n, p, session[n][p])
  /\ UNCHANGED <<session, blocked, reading, ticking, bounds>>

\* What nobody can take, or makes process_datagram fail, is answered with
\* Failed.  When the answer cannot be written the loop ends, but not where
\* there was no session.
Refuse(n, d) ==
  /\ Drop(n, d.path)
  /\ \/ Take(n, d, {Refusal(n, d)}) /\ UNCHANGED <<reading, errors>>
     \/ /\ Has(n, d.path) /\ errors < MaxErrors /\ errors' = errors + 1
        /\ Take(n, d, {}) /\ reading' = [reading EXCEPT ![n] = Stopped]
  /\ UNCHANGED <<ticking, made>>

TakeUnknown(n, d) ==
  /\ ~ IsHandshake(d) /\ ~ Shut(n, d) /\ ~ Has(n, d.path)
  /\ Refuse(n, d) /\ UNCHANGED failures

TakeInvalid(n, d) ==
  /\ ~ IsHandshake(d) /\ ~ Shut(n, d) /\ Has(n, d.path) /\ ~ Accepts(n, d)
  /\ Refuse(n, d) /\ UNCHANGED failures

\* The session is over by itself: Send timeout, Process timeout, Invalid data.
TakeTooLate(n, d) ==
  /\ ~ IsHandshake(d) /\ ~ Shut(n, d) /\ Has(n, d.path) /\ Accepts(n, d)
  /\ failures < MaxFailures /\ failures' = failures + 1
  /\ Refuse(n, d)

Receive(n, d) ==
  \/ TakeBlocked(n, d) \/ TakeHandshake(n, d) \/ TakeWelcome(n, d) \/ TakeFailed(n, d)
  \/ TakeData(n, d) \/ TakeUnknown(n, d) \/ TakeInvalid(n, d) \/ TakeTooLate(n, d)

\* No datagram stays on the network.
Passing == \E d \in network : Lose(d) \/ Receive(d.to, d)

Next ==
  \/ \E n \in Node, p \in Path :
       \/ TryHandshake(n, p) \/ BroadcastHandshake(n, p) \/ OnTimer(n, p)
       \/ PingRoute(n, p) \/ Overwrite(n, p) \/ Minute(n, p)
  \/ \E n \in Node : WriteWelcome(n) \/ TimerFails(n)
  \/ Passing

Spec == Init /\ [][Next]_vars

\* The table is pinged, the timer of the sessions runs, the read loop gets on,
\* and the network does not lose for ever what is sent to a node again and again;
\* no datagram stays there.
Arrives(n, k) == \E d \in network : d.kind = k /\ d.to = n /\ Receive(n, d)

FairSpec ==
  /\ Spec
  /\ SF_vars(\E n \in Node, p \in Path : PingRoute(n, p))
  /\ SF_vars(\E n \in Node, p \in Path : OnTimer(n, p))
  /\ SF_vars(\E n \in Node : WriteWelcome(n)) /\ WF_vars(Passing)
  /\ \A n \in Node, k \in {"Ack", "Ping", "Pong", "Failed"} : SF_vars(Arrives(n, k))

-----------------------------------------------------------------------------
\* Each variable keeps its type.
TypeOK ==
  /\ session \in [Node -> [Path -> Session \cup {NoSession}]]
  /\ blocked \in [Node -> [Path -> {"no", "recent", "old"}]]
  /\ route \in [Node -> [Path -> Session \cup {NoSession}]]
  /\ reading \in [Node -> {Ready, Stopped} \cup {Welcoming(p, k) : p \in Path, k \in Key}]
  /\ ticking \in [Node -> BOOLEAN] /\ network \subseteq Datagram
  /\ made \in 0..MaxSessions /\ failures \in 0..MaxFailures
  /\ errors \in 0..MaxErrors /\ doubles \in 0..MaxDoubles

\* A blocked address has no session.  So the search for duplicates in
\* continue_read never erases an entry of sessions_, which could be the one
\* that is in use there.
BlockedHasNoSession ==
  \A n \in Node, p \in Path : blocked[n][p] # "no" => ~ Has(n, p)

\* No entry of the routing table outlives the session of its address, though it
\* may be of a session a Welcome has replaced: nothing is sent to an address
\* after its last session is dropped.  A session may have lost its entry.
RouteHasSession ==
  \A n \in Node, p \in Path : route[n][p] # NoSession => Has(n, p)

\* The sessions continue_read made for Handshakes, with keys of its own.
Accepted(n, p) == Has(n, p) /\ session[n][p].key = session[n][p].object

\* A node accepts one session with another, whatever paths the Handshakes come
\* by and whatever it has begun itself: the purpose of the search for
\* duplicates.  A second one can only be by a Welcome.
OneAcceptedPerPartner ==
  \A n \in Node, p, q \in Path :
    Accepted(n, p) /\ Accepted(n, q) /\ Other(n, p) = Other(n, q) => p = q

\* A session that only one end has does not last: the other end answers what
\* it gets with Failed, also while it has the address blocked, and it gets
\* acknowledgments where the entry of the session is overwritten.
HalfOpen(n, p) == Has(n, p) /\ ~ Has(Other(n, p), p)
HalfOpenEnds ==
  \A p \in Path : \A n \in Ends[p] : HalfOpen(n, p) ~> ~ HalfOpen(n, p)

\* Two ends with different keys, as handshakes that cross leave them, do not
\* stay so: one of them refuses what the other signed, unless both have lost
\* the entries by which they would sign anything.
Crossed(p) == \E n, m \in Ends[p] : Has(n, p) /\ Has(m, p) /\ session[n][p].key # session[m][p].key
Unrouted(p) == \A n \in Ends[p] : route[n][p] = NoSession
CrossedEnds == \A p \in Path : Crossed(p) ~> ~ Crossed(p) \/ Unrouted(p)
=============================================================================
