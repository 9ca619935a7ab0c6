------------------------------ MODULE DhtRoute ------------------------------
(***************************************************************************)
(* The routing tables of the DHT (vds_dht_network/impl/dht_route.cpp) and  *)
(* the messages that nodes pass on with them (dht_session.cpp, and send,   *)
(* proxy_message and the handlers of dht_network_client.cpp).              *)
(*                                                                         *)
(* Sessions come and go as UdpTransport makes them: each end keeps the one *)
(* it made for a Handshake until a Welcome replaces it.  A new session is  *)
(* an object with a key of its own, but the table tells sessions apart by  *)
(* the address of the other end, and there a node has one address.         *)
(***************************************************************************)
EXTENDS Naturals, FiniteSets, SequencesExt

CONSTANTS
  Bits,         \* the length of an id
  Node,         \* ids of the nodes: sequences of bits
  Absent,       \* ids of no node
  Lookup,       \* ids that nodes are searched near
  Target,       \* ids that messages are sent to
  Link,         \* sets of two nodes that can have a session
  MAX_NODES,    \* the room of a bucket
  GoodPings,    \* an entry with fewer pings without a pong is good: 10
  PingRange,    \* pinged_ is a number below this: 256
  HopRange,     \* hops_ is a number below this: 256
  FindCount,    \* how many nodes dht_find_node is answered with: 70
  MaxHops,      \* a message with more hops turns back: 10
  MaxSessions,  \* bound: sessions of each link, one after the other
  MaxSends,     \* bound: messages sent for their own sake
  MaxInFlight,  \* bound: timers wait while more messages are under way
  MaxFailed,    \* bound: nothing new begins while more Faileds are under way
  LosesFailed   \* bound: whether a Failed can be lost

ASSUME RouteAssumption ==
  /\ Bits \in Nat \ {0}
  /\ Node \cup Absent \subseteq [1..Bits -> {0, 1}]
  /\ Node \cap Absent = {}
  /\ \A link \in Link : \E n, m \in Node : n # m /\ link = {n, m}
  /\ {MAX_NODES, GoodPings, PingRange, HopRange, FindCount, MaxHops} \subseteq Nat
  /\ {MaxSends, MaxInFlight, MaxFailed} \subseteq Nat /\ LosesFailed \in BOOLEAN
  /\ MaxSessions \in [Link -> Nat] /\ Lookup \cup Target \subseteq Node \cup Absent
  /\ GoodPings < PingRange /\ 0 < HopRange

VARIABLES
  table,     \* the entries of a node, in the order in which they were added
  session,   \* the number of the session a node has with another, 0 for none
  used,      \* the number of the last session of a link
  control,   \* Welcomes under way, with the number of their session, and Faileds, with 0
  network,   \* messages under way
  sends      \* how many messages were sent for their own sake

vars == <<table, session, used, control, network, sends>>

Id == Node \cup Absent

\* A session object, as one end has it: the other end, and the number.
Partner(n) == {m \in Node : {n, m} \in Link}
Current(n, s) == session[n][s.node] = s.number

Init ==
  /\ table = [n \in Node |-> <<>>]
  /\ session = [n \in Node |-> [m \in Partner(n) |-> 0]]
  /\ used = [link \in Link |-> 0]
  /\ control = {}
  /\ network = {}
  /\ sends = 0

-----------------------------------------------------------------------------
(* Ids. *)

\* distance: exclusive or, as a number.
distance(a, b) ==
  LET value[i \in 0..Bits] ==
        IF i = 0 THEN 0 ELSE 2 * value[i - 1] + (IF a[i] = b[i] THEN 0 ELSE 1)
  IN value[Bits]

\* distance_exp: the number of leading bits that are the same; 0 for equal ids.
distance_exp(a, b) ==
  IF a = b THEN 0 ELSE (CHOOSE i \in 1..Bits : a[i] # b[i] /\ \A j \in 1..(i - 1) : a[j] = b[j]) - 1

-----------------------------------------------------------------------------
(* The table.  An entry is reached by a session; the same id may have one  *)
(* for each address.                                                       *)

is_good(e) == e.pinged < GoodPings
Entry(id, s, hops) == [id |-> id, via |-> s, hops |-> hops, pinged |-> 0]
SameRoute(e, id, s) == e.id = id /\ e.via.node = s.node

\* bucket::add_node, with the tests of dht_route::add_node.
Bucket(n, t, id) == {k \in DOMAIN t : distance_exp(n, t[k].id) = distance_exp(n, id)}
Bad(n, t, id) == {k \in Bucket(n, t, id) : ~ is_good(t[k])}
FirstOf(K) == CHOOSE k \in K : \A j \in K : k <= j

add_node(n, t, id, s, hops, allow_skip) ==
  IF id = n \/ (\E k \in DOMAIN t : SameRoute(t[k], id, s)) THEN t
  ELSE IF ~ allow_skip \/ hops = 0 \/ Cardinality(Bucket(n, t, id)) < MAX_NODES
  THEN Append(t, Entry(id, s, hops))
  ELSE IF Bad(n, t, id) # {} THEN [t EXCEPT ![FirstOf(Bad(n, t, id))] = Entry(id, s, hops)]
  ELSE t

\* Nodes learned over a session, one after the other.
add_nodes(n, t, s, nodes, allow_skip) ==
  LET after[k \in 0..Len(nodes)] ==
        IF k = 0 THEN t
        ELSE add_node(n, after[k - 1], nodes[k].id, s, nodes[k].hops, allow_skip)
  IN after[Len(nodes)]

\* add_route: the nodes a message came by are that many hops behind the session.
Route(hops) == [k \in DOMAIN hops |-> [id |-> hops[k], hops |-> k - 1]]
add_route(n, t, hops, s) == add_nodes(n, t, s, Route(hops), FALSE)

\* The entries that stay, in their order.
Keep(t, E) ==
  LET kept[k \in 0..Len(t)] ==
        IF k = 0 THEN <<>>
        ELSE IF t[k] \in E THEN Append(kept[k - 1], t[k]) ELSE kept[k - 1]
  IN kept[Len(t)]

\* Mutant: only the other end itself goes, not the nodes behind it.
RemovePartner(t, m) == Keep(t, {e \in ToSet(t) : e.id # m})
\* remove_session: the entries over the address of a session with m.
remove_session(t, m) == Keep(t, {e \in ToSet(t) : e.via.node # m})

\* mark_pinged
mark_pinged(t, id, s) ==
  [k \in DOMAIN t |-> IF SameRoute(t[k], id, s) THEN [t[k] EXCEPT !.pinged = 0] ELSE t[k]]

\* looking_nodes and search_nodes: good entries among those allowed, from the
\* bucket of the target, then from those further and further away on both sides
\* until there are max_count of them; of each node the one with fewest hops.
Away(i, j) == IF i < j THEN j - i ELSE i - j

Within(n, t, target, radius, allowed) ==
  {k \in DOMAIN t : /\ is_good(t[k]) /\ t[k] \in allowed
                    /\ Away(distance_exp(n, t[k].id), distance_exp(n, target)) <= radius}
Ids(t, K) == {t[k].id : k \in K}

\* The entry of an id among the entries K.
Shortest(t, K, id) ==
  LET same == {k \in K : t[k].id = id}
  IN t[FirstOf({k \in same : \A j \in same : t[k].hops <= t[j].hops})]

search_nodes(n, t, target, max_count, allowed) ==
  LET Found(radius) == Within(n, t, target, radius, allowed)
      enough == {r \in 0..Bits : r = Bits \/ Cardinality(Ids(t, Found(r))) >= max_count}
      K == Found(FirstOf(enough))
  IN {Shortest(t, K, id) : id \in Ids(t, K)}

\* for_near with one node: the nearest of those found, if any.
for_near(n, t, target, allowed) ==
  LET found == search_nodes(n, t, target, 1, allowed)
  IN {e \in found : \A f \in found : distance(e.id, target) <= distance(f.id, target)}

get_neighbors(t) == {e \in ToSet(t) : e.hops = 0}

-----------------------------------------------------------------------------
(* Messages.  hops[1] is the node that a message comes from, the last one  *)
(* who sent it.                                                            *)

\* send_message and proxy_message of a session, also of one that is over: the
\* message is signed with the key of that session.
Over(n, s, type, target, hops, nodes) ==
  {[type |-> type, target |-> target, to |-> s.node, number |-> s.number,
    hops |-> <<n>> \o hops, nodes |-> nodes]}

OverAll(n, E, type, target, hops, nodes) ==
  UNION {Over(n, e.via, type, target, hops, nodes) : e \in E}

send(n, t, type, target, nodes) ==
  OverAll(n, for_near(n, t, target, ToSet(t)), type, target, <<>>, nodes)

\* Mutant: the node is compared, not the one it is reached over.
NotAgainItself(hops, e) == e.id \notin ToSet(hops)
\* Not to a node that has passed the message on.
NotAgain(hops, e) == e.via.node \notin ToSet(hops)

Forward(n, t, type, target, hops, nodes) ==
  OverAll(n, for_near(n, t, target, {e \in ToSet(t) : NotAgain(hops, e)}), type, target, hops, nodes)

Nearest(target, ids) == CHOOSE a \in ids : \A b \in ids : distance(target, a) <= distance(target, b)

\* Mutant: beyond the limit a message begins anew.
proxy_anew(n, t, type, target, hops, nodes) ==
  IF Len(hops) > MaxHops
  THEN Forward(n, t, type, target, <<Nearest(target, {n} \cup ToSet(hops))>>, nodes)
  ELSE Forward(n, t, type, target, hops, nodes)
\* proxy_message: beyond the limit a message goes back to who sent it, in the
\* name of the node that is nearest to the target.
proxy_message(n, t, type, target, hops, nodes) ==
  IF Len(hops) > MaxHops
  THEN Forward(n, t, type, Last(hops), <<Nearest(target, {n} \cup ToSet(hops))>>, nodes)
  ELSE Forward(n, t, type, target, hops, nodes)

-----------------------------------------------------------------------------
(* Steps. *)

\* add_session: the session is new to the transport, but not to the table if
\* that has an entry of the node over the same address.
add_session(n, m, k) ==
  /\ session' = [session EXCEPT ![n][m] = k]
  /\ table' = [table EXCEPT ![n] = add_node(n, @, m, [node |-> m, number |-> k], 0, FALSE)]

Faileds == {w \in control : w.number = 0}
Quiet == Cardinality(Faileds) <= MaxFailed

\* A Handshake of m comes to n: a session with a new key, and a Welcome with it.
OnHandshake(n, m) ==
  /\ Quiet /\ session[n][m] = 0 /\ used[{n, m}] < MaxSessions[{n, m}]
  /\ used' = [used EXCEPT ![{n, m}] = @ + 1]
  /\ add_session(n, m, used[{n, m}] + 1)
  /\ control' = control \cup {[to |-> m, from |-> n, number |-> used[{n, m}] + 1]}
  /\ UNCHANGED <<network, sends>>

\* A Welcome: the session is replaced, also one that the handshake of the other
\* end has made meanwhile.
OnWelcome(w) ==
  /\ w.number # 0
  /\ add_session(w.to, w.from, w.number)
  /\ control' = control \ {w}
  /\ UNCHANGED <<used, network, sends>>

\* A datagram is lost, or is a Welcome that comes to a blocked address.
Lose(w) ==
  /\ w.number # 0 \/ LosesFailed
  /\ control' = control \ {w}
  /\ UNCHANGED <<table, session, used, network, sends>>

\* remove_session at one end, which is done with some messages; of those it has sent
\* to the other, some are lost, since it does not send them again.
Drop(n, m, done) ==
  /\ session' = [session EXCEPT ![n][m] = 0]
  /\ table' = [table EXCEPT ![n] = remove_session(@, m)]
  /\ \E lost \in SUBSET {msg \in network : msg.hops[1] = n /\ msg.to = m} :
       network' = network \ (done \cup lost)
  /\ UNCHANGED <<used, sends>>

\* One end drops the session, or refuses what comes without one, and sends Failed.
Fail(n, m, done) ==
  /\ Drop(n, m, done)
  /\ control' = control \cup {[to |-> m, from |-> n, number |-> 0]}

\* Failed comes: that end drops its session, which may be another one by now.
OnFailed(w) ==
  /\ w.number = 0
  /\ Drop(w.to, w.from, {})
  /\ control' = control \ {w}

Disconnect(n, m) ==
  /\ Quiet /\ session[n][m] # 0 /\ used[{n, m}] < MaxSessions[{n, m}]
  /\ Fail(n, m, {})

Data == {msg \in network : msg.type = "data"}
Calm == Quiet /\ Cardinality(network \ Data) <= MaxInFlight

\* pinged_ is a byte.
OncePinged(e) == [e EXCEPT !.pinged = (@ + 1) % PingRange]

\* dht_route::on_timer: every entry is pinged.
Tick(n) ==
  /\ Calm /\ table[n] # <<>>
  /\ table' = [table EXCEPT ![n] =
       [k \in DOMAIN @ |-> OncePinged(@[k])]]
  /\ network' = network \cup UNION {Over(n, e.via, "ping", e.id, <<>>, <<>>) : e \in ToSet(table[n])}
  /\ UNCHANGED <<session, used, control, sends>>

\* update_route_table: the neighbours are asked for nodes near some id.
UpdateRouteTable(n, id) ==
  /\ Calm /\ id # n
  /\ network' = network \cup
       UNION {Over(n, e.via, "find_node", e.id, <<>>, <<id>>) : e \in get_neighbors(table[n])}
  /\ UNCHANGED <<table, session, used, control, sends>>

\* A message of the log or of the replicas.
Send(n, id) ==
  /\ Quiet /\ sends < MaxSends /\ id # n
  /\ sends' = sends + 1
  /\ network' = network \cup send(n, table[n], "data", id, <<>>)
  /\ UNCHANGED <<table, session, used, control>>

\* dht_session::process_message: learn from the way the message took, then pass
\* it on or handle it.
Via(msg) == [node |-> msg.hops[1], number |-> msg.number]
Learned(msg) == add_route(msg.to, table[msg.to], msg.hops, Via(msg))
Handle(msg, t, answer) ==
  /\ table' = [table EXCEPT ![msg.to] = t]
  /\ network' = (network \ {msg}) \cup answer
  /\ UNCHANGED <<session, used, control, sends>>

\* Mutant: the message is only dropped.
DropForeign(msg) ==
  ~ Current(msg.to, Via(msg)) /\ Handle(msg, table[msg.to], {})
\* The signature is not of the session that the node has, if any: that fails.
Refuse(msg) == ~ Current(msg.to, Via(msg)) /\ Fail(msg.to, msg.hops[1], {msg})

PassOn(msg) ==
  /\ Current(msg.to, Via(msg)) /\ msg.target # msg.to
  /\ Handle(msg, Learned(msg),
            proxy_message(msg.to, Learned(msg), msg.type, msg.target, msg.hops, msg.nodes))

For(msg, type) == Current(msg.to, Via(msg)) /\ msg.target = msg.to /\ msg.type = type

OnData(msg) ==
  /\ For(msg, "data")
  /\ Handle(msg, Learned(msg), {})

\* apply_message(dht_find_node): what is found, by the distance.
ByDistance(nodes, id) ==
  {s \in [1..Cardinality(nodes) -> nodes] :
     \A i, j \in DOMAIN s : i < j => distance(s[i].id, id) < distance(s[j].id, id)}

OnFindNode(msg) ==
  LET t == Learned(msg)
      id == Head(msg.nodes)
      found == search_nodes(msg.to, t, id, FindCount,
                            {e \in ToSet(t) : e.id \notin ToSet(msg.hops)})
  IN /\ For(msg, "find_node")
     /\ \E result \in ByDistance({[id |-> e.id, hops |-> e.hops] : e \in found}, id) :
          Handle(msg, t, IF result = <<>> THEN {} ELSE send(msg.to, t, "found", Last(msg.hops), result))

\* Mutant: as many hops as the node that answers has.
FoundAsTold(msg) == add_nodes(msg.to, Learned(msg), Via(msg), msg.nodes, TRUE)
\* apply_message(dht_find_node_response): the handshake with each new node makes
\* the read loop wait, so nothing comes between.
Further(p, hops) == [p EXCEPT !.hops = (@ + Len(hops) + 1) % HopRange]
Found(msg) ==
  add_nodes(msg.to, Learned(msg), Via(msg), [k \in DOMAIN msg.nodes |-> Further(msg.nodes[k], msg.hops)], TRUE)

OnFound(msg) == For(msg, "found") /\ Handle(msg, Found(msg), {})

\* apply_message(dht_ping): the answer takes the session the ping came by.
OnPing(msg) ==
  /\ For(msg, "ping")
  /\ Handle(msg, Learned(msg), Over(msg.to, Via(msg), "pong", Last(msg.hops), <<>>, <<>>))

\* apply_message(dht_pong)
Pong(msg) == mark_pinged(Learned(msg), Last(msg.hops), Via(msg))

OnPong(msg) ==
  /\ For(msg, "pong")
  /\ Handle(msg, Pong(msg), {})

Deliver(msg) ==
  Refuse(msg) \/ PassOn(msg) \/ OnData(msg) \/ OnFindNode(msg) \/ OnFound(msg) \/ OnPing(msg) \/ OnPong(msg)

Next ==
  \/ \E n \in Node : \E m \in Partner(n) : OnHandshake(n, m) \/ Disconnect(n, m)
  \/ \E w \in control : OnWelcome(w) \/ OnFailed(w) \/ Lose(w)
  \/ \E n \in Node : Tick(n) \/ (\E id \in Lookup : UpdateRouteTable(n, id)) \/ (\E id \in Target : Send(n, id))
  \/ \E msg \in network : Deliver(msg)

Spec == Init /\ [][Next]_vars

\* Datagrams are sent again until they are acknowledged, so a message that is
\* under way arrives; a Failed that is not lost arrives; and the timer of a server
\* goes off again and again.
Delivered(messages) == ~ (messages \subseteq network')

Fairness ==
  /\ []<>(Data = {}) \/ []<><<Delivered(Data)>>_vars
  /\ []<>(network = Data) \/ []<><<Delivered(network \ Data)>>_vars
  /\ \A n \in Node : <>[](~ Calm \/ table[n] = <<>>) \/ []<><<Tick(n)>>_vars
  /\ WF_vars(\E w \in control : OnFailed(w))

FairSpec == Spec /\ Fairness

-----------------------------------------------------------------------------
(***************************************************************************)
(* Properties.                                                             *)
(***************************************************************************)

Number == Nat \ {0}
SessionOf(n) == [node : Partner(n), number : Number]
Entries(n) == [id : Node \ {n}, via : SessionOf(n), hops : Nat, pinged : Nat]
Message(types, nodes) ==
  [type : types, target : Id, to : Node, number : Number, hops : Seq(Node), nodes : nodes]
Question == Message({"data", "find_node", "ping", "pong"}, Seq(Id))
Answer == Message({"found"}, Seq([id : Node, hops : Nat]))

\* Every variable keeps its type: a node has no entry of itself, and all that is
\* kept or sent is over some session with a partner; answers carry nodes.
TypeOK ==
  /\ table = [n \in Node |-> table[n]] /\ \A n \in Node : table[n] \in Seq(Entries(n))
  /\ session = [n \in Node |-> session[n]] /\ \A n \in Node : session[n] \in [Partner(n) -> Nat]
  /\ used \in [Link -> Nat]
  /\ control \subseteq [to : Node, from : Node, number : Nat]
  /\ \A w \in control : w.from \in Partner(w.to)
  /\ \A msg \in network : IF msg.type = "found" THEN msg \in Answer ELSE msg \in Question
  /\ sends \in Nat

\* A message comes from a partner, on a way that its receiver was not on.
OnTheWay ==
  \A msg \in network :
    /\ msg.hops # <<>> /\ msg.hops[1] \in Partner(msg.to)
    /\ msg.to \notin ToSet(msg.hops)

\* No entry outlives the session with its address, also where the entry is of
\* an earlier session with the same address: remove_session finds it.
EntriesHaveSession ==
  \A n \in Node : \A e \in ToSet(table[n]) : session[n][e.via.node] # 0

\* What a table takes for a neighbour, and sends everything for its neighbours
\* to, is the other end of a session.  Not the converse: a partner whose pings
\* have gone unanswered can give its place to another node of an answer, and come
\* back by the same answer with its hops.
NeighborsAreDirect ==
  \A n \in Node : \A e \in ToSet(table[n]) : e.hops = 0 => e.id = e.via.node

\* What proxy_message of a session asserts: a node does not pass on what is for
\* itself, nor back to where it comes from; and more: to no node it came by.
PassedOnwards ==
  \A msg \in network : Len(msg.hops) > 1 =>
    msg.target # msg.hops[1] /\ msg.to \notin ToSet(msg.hops)

\* A table does not go on with the object of a session that has been replaced:
\* what is sent over it makes the other end refuse the session, and both ends
\* begin again.
Stale(n) == \E e \in ToSet(table[n]) : ~ Current(n, e.via)
StaleEntryGoes == \A n \in Node : Stale(n) ~> ~ Stale(n)

\* A message comes to its end, also when nobody has the id it is for or when it
\* has come too far and turns back.  The exception: one that turns back in the
\* name of the node it goes back to, since that was the nearest.  Nobody may
\* pass it on to that node, and it can go to and fro for ever.
Circles(msg) == msg.target \in ToSet(msg.hops)
DataEnds == Data # {} ~> \A msg \in Data : Circles(msg)
=============================================================================
