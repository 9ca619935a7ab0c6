--------------------------- MODULE DhtRouteProofs ---------------------------
(***************************************************************************)
(* Proofs about DhtRoute, for any nodes and links, ids of any length, and  *)
(* any limits.                                                             *)
(***************************************************************************)
EXTENDS DhtRoute, FiniteSetTheorems, SequenceTheorems, TLAPS

\* What is true of no least number is true of none.
LEMMA Least ==
  ASSUME NEW K, K \subseteq Nat, K # {}
  PROVE  \E k \in K : \A j \in K : k <= j
<1>1. \E k \in K : \A j \in K : ~ (<<j, k>> \in OpToRel(<, Nat))
  BY NatLessThanWellFounded, WFMin
<1>2. PICK k \in K : \A j \in K : <<j, k>> \notin OpToRel(<, Nat)
  BY <1>1
<1>3. \A j \in K : ~ (j < k)
  BY <1>2 DEF OpToRel
<1> QED BY <1>3

LEMMA FirstOfIsIn ==
  ASSUME NEW K, K \subseteq Nat, K # {}
  PROVE  FirstOf(K) \in K
BY Least DEF FirstOf

-----------------------------------------------------------------------------
(***************************************************************************)
(* The recursive functions of DhtRoute have values: there is no shortest   *)
(* sequence for which they had none.                                       *)
(***************************************************************************)
LEMMA AddNodesUnfolds ==
  ASSUME NEW n, NEW t, NEW s, NEW nodes, Len(nodes) \in Nat, NEW allow_skip
  PROVE  \E after :
           /\ after[0] = t
           /\ \A k \in 1..Len(nodes) :
                after[k] = add_node(n, after[k - 1], nodes[k].id, s, nodes[k].hops, allow_skip)
           /\ add_nodes(n, t, s, nodes, allow_skip) = after[Len(nodes)]
<1> DEFINE Step(u, k) == IF k = 0 THEN t ELSE add_node(n, u[k - 1], nodes[k].id, s, nodes[k].hops, allow_skip)
           Without == {m \in Nat : ~ \E u : u = [k \in 0..m |-> Step(u, k)]}
<1>1. Without = {}
  <2> SUFFICES ASSUME Without # {} PROVE FALSE
    OBVIOUS
  <2>1. PICK m \in Without : \A j \in Without : m <= j
    BY Least
  <2>2. CASE m = 0
    <3> DEFINE u == [k \in 0..0 |-> t]
    <3>1. u = [k \in 0..m |-> Step(u, k)]
      BY <2>2
    <3> QED BY <3>1, <2>1
  <2>3. CASE m # 0
    <3>1. m - 1 \in Nat /\ m - 1 \notin Without
      <4>1. m \in Nat
        BY <2>1
      <4>2. m - 1 \in Nat /\ ~ (m <= m - 1)
        BY <4>1, <2>3
      <4> HIDE DEF Without
      <4> QED BY <4>2, <2>1
    <3>2. PICK u : u = [k \in 0..(m - 1) |-> Step(u, k)]
      BY <3>1
    <3> DEFINE v == [k \in 0..m |-> IF k = m THEN Step(u, m) ELSE u[k]]
    <3>3. \A k \in 0..m : v[k] = Step(v, k)
      <4> TAKE k \in 0..m
      <4>1. k # 0 => k - 1 \in 0..(m - 1) /\ v[k - 1] = u[k - 1]
        BY <2>1
      <4>2. k # m => k \in 0..(m - 1) /\ u[k] = Step(u, k)
        BY <2>1, <3>2
      <4> QED BY <4>1, <4>2, <2>1
    <3>4. v = [k \in 0..m |-> Step(v, k)]
      BY <3>3
    <3> QED BY <3>4, <2>1
  <2> QED BY <2>2, <2>3
<1>2. \E u : u = [k \in 0..Len(nodes) |-> Step(u, k)]
  BY <1>1
<1> DEFINE after == CHOOSE u : u = [k \in 0..Len(nodes) |-> Step(u, k)]
<1>3. after = [k \in 0..Len(nodes) |-> Step(after, k)]
  BY <1>2
<1>4. add_nodes(n, t, s, nodes, allow_skip) = after[Len(nodes)]
  BY DEF add_nodes
<1>5. after[0] = t /\ \A k \in 1..Len(nodes) : after[k] = add_node(n, after[k - 1], nodes[k].id, s, nodes[k].hops, allow_skip)
  <2>1. Len(nodes) \in Nat
    OBVIOUS
  <2>2. 0 \in 0..Len(nodes) /\ \A k \in 1..Len(nodes) : k \in 0..Len(nodes) /\ k # 0
    BY <2>1
  <2> HIDE DEF after
  <2> QED BY <2>2, <1>3
<1> HIDE DEF after
<1> QED BY <1>4, <1>5

LEMMA KeepUnfolds ==
  ASSUME NEW t, Len(t) \in Nat, NEW E
  PROVE  \E u :
           /\ u[0] = <<>>
           /\ \A k \in 1..Len(t) : u[k] = IF t[k] \in E THEN Append(u[k - 1], t[k]) ELSE u[k - 1]
           /\ Keep(t, E) = u[Len(t)]
<1> DEFINE Step(u, k) == IF k = 0 THEN <<>> ELSE IF t[k] \in E THEN Append(u[k - 1], t[k]) ELSE u[k - 1]
           Without == {m \in Nat : ~ \E u : u = [k \in 0..m |-> Step(u, k)]}
<1>1. Without = {}
  <2> SUFFICES ASSUME Without # {} PROVE FALSE
    OBVIOUS
  <2>1. PICK m \in Without : \A j \in Without : m <= j
    BY Least
  <2>2. CASE m = 0
    <3> DEFINE u == [k \in 0..0 |-> <<>>]
    <3>1. u = [k \in 0..m |-> Step(u, k)]
      BY <2>2
    <3> QED BY <3>1, <2>1
  <2>3. CASE m # 0
    <3>1. m - 1 \in Nat /\ m - 1 \notin Without
      <4>1. m \in Nat
        BY <2>1
      <4>2. m - 1 \in Nat /\ ~ (m <= m - 1)
        BY <4>1, <2>3
      <4> HIDE DEF Without
      <4> QED BY <4>2, <2>1
    <3>2. PICK u : u = [k \in 0..(m - 1) |-> Step(u, k)]
      BY <3>1
    <3> DEFINE v == [k \in 0..m |-> IF k = m THEN Step(u, m) ELSE u[k]]
    <3>3. \A k \in 0..m : v[k] = Step(v, k)
      <4> TAKE k \in 0..m
      <4>1. k # 0 => k - 1 \in 0..(m - 1) /\ v[k - 1] = u[k - 1]
        BY <2>1
      <4>2. k # m => k \in 0..(m - 1)
        BY <2>1
      <4>3. k # m => u[k] = Step(u, k)
        <5> HIDE DEF Step
        <5> QED BY <4>2, <3>2
      <4> QED BY <4>1, <4>2, <4>3, <2>1
    <3>4. v = [k \in 0..m |-> Step(v, k)]
      BY <3>3
    <3> QED BY <3>4, <2>1
  <2> QED BY <2>2, <2>3
<1>2. \E u : u = [k \in 0..Len(t) |-> Step(u, k)]
  BY <1>1
<1> DEFINE unfolded == CHOOSE u : u = [k \in 0..Len(t) |-> Step(u, k)]
<1>3. unfolded = [k \in 0..Len(t) |-> Step(unfolded, k)]
  BY <1>2
<1>4. Keep(t, E) = unfolded[Len(t)]
  BY DEF Keep
<1>5. unfolded[0] = <<>> /\ \A k \in 1..Len(t) : unfolded[k] = IF t[k] \in E THEN Append(unfolded[k - 1], t[k]) ELSE unfolded[k - 1]
  <2>1. Len(t) \in Nat
    OBVIOUS
  <2>2. 0 \in 0..Len(t) /\ \A k \in 1..Len(t) : k \in 0..Len(t) /\ k # 0
    BY <2>1
  <2> HIDE DEF unfolded
  <2> QED BY <2>2, <1>3
<1> HIDE DEF unfolded
<1> QED BY <1>4, <1>5

LEMMA DistanceUnfolds ==
  ASSUME NEW a, NEW b
  PROVE  \E u :
           /\ u[0] = 0
           /\ \A k \in 1..Bits : u[k] = 2 * u[k - 1] + (IF a[k] = b[k] THEN 0 ELSE 1)
           /\ distance(a, b) = u[Bits]
<1> DEFINE Step(u, k) == IF k = 0 THEN 0 ELSE 2 * u[k - 1] + (IF a[k] = b[k] THEN 0 ELSE 1)
           Without == {m \in Nat : ~ \E u : u = [k \in 0..m |-> Step(u, k)]}
<1>1. Without = {}
  <2> SUFFICES ASSUME Without # {} PROVE FALSE
    OBVIOUS
  <2>1. PICK m \in Without : \A j \in Without : m <= j
    BY Least
  <2>2. CASE m = 0
    <3> DEFINE u == [k \in 0..0 |-> 0]
    <3>1. u = [k \in 0..m |-> Step(u, k)]
      BY <2>2
    <3> QED BY <3>1, <2>1
  <2>3. CASE m # 0
    <3>1. m - 1 \in Nat /\ m - 1 \notin Without
      <4>1. m \in Nat
        BY <2>1
      <4>2. m - 1 \in Nat /\ ~ (m <= m - 1)
        BY <4>1, <2>3
      <4> HIDE DEF Without
      <4> QED BY <4>2, <2>1
    <3>2. PICK u : u = [k \in 0..(m - 1) |-> Step(u, k)]
      BY <3>1
    <3> DEFINE v == [k \in 0..m |-> IF k = m THEN Step(u, m) ELSE u[k]]
    <3>3. \A k \in 0..m : v[k] = Step(v, k)
      <4> TAKE k \in 0..m
      <4>1. k # 0 => k - 1 \in 0..(m - 1) /\ v[k - 1] = u[k - 1]
        BY <2>1
      <4>2. k # m => k \in 0..(m - 1)
        BY <2>1
      <4>3. k # m => u[k] = Step(u, k)
        <5> HIDE DEF Step
        <5> QED BY <4>2, <3>2
      <4> QED BY <4>1, <4>2, <4>3, <2>1
    <3>4. v = [k \in 0..m |-> Step(v, k)]
      BY <3>3
    <3> QED BY <3>4, <2>1
  <2> QED BY <2>2, <2>3
<1>2. \E u : u = [k \in 0..Bits |-> Step(u, k)]
  <2>1. Bits \in Nat
    BY RouteAssumption
  <2> QED BY <1>1, <2>1
<1> DEFINE unfolded == CHOOSE u : u = [k \in 0..Bits |-> Step(u, k)]
<1>3. unfolded = [k \in 0..Bits |-> Step(unfolded, k)]
  BY <1>2
<1>4. distance(a, b) = unfolded[Bits]
  BY DEF distance
<1>5. unfolded[0] = 0 /\ \A k \in 1..Bits : unfolded[k] = 2 * unfolded[k - 1] + (IF a[k] = b[k] THEN 0 ELSE 1)
  <2>1. Bits \in Nat
    BY RouteAssumption
  <2>2. 0 \in 0..Bits /\ \A k \in 1..Bits : k \in 0..Bits /\ k # 0
    BY <2>1
  <2> HIDE DEF unfolded
  <2> QED BY <2>2, <1>3
<1> HIDE DEF unfolded
<1> QED BY <1>4, <1>5

-----------------------------------------------------------------------------
(***************************************************************************)
(* What the operators on tables return.                                    *)
(***************************************************************************)

\* An entry that was learned over session s: as the node id, which is hops behind
\* it; as one of the nodes of a sequence; as one of the nodes a message came by.
LearntAs(e, s, id, hops) == e.via = s /\ e.id = id /\ e.hops = hops
LearntFrom(e, s, nodes) == \E k \in 1..Len(nodes) : LearntAs(e, s, nodes[k].id, nodes[k].hops)
LearntOnWay(e, s, hops) == \E k \in 1..Len(hops) : LearntAs(e, s, hops[k], k - 1)

LEMMA EntryAdded ==
  ASSUME NEW n \in Node, NEW t \in Seq(Entries(n)), NEW id \in Node, NEW s \in SessionOf(n),
         NEW hops \in Nat, NEW allow_skip
  PROVE  LET u == add_node(n, t, id, s, hops, allow_skip)
         IN  /\ u \in Seq(Entries(n))
             /\ \A e \in ToSet(u) : e \in ToSet(t) \/ LearntAs(e, s, id, hops)
<1> DEFINE new == Entry(id, s, hops)
           u == add_node(n, t, id, s, hops, allow_skip)
           first == FirstOf(Bad(n, t, id))
<1>1. id # n => new \in Entries(n) /\ LearntAs(new, s, id, hops)
  BY DEF Entry, Entries, LearntAs
<1>2. Len(t) \in Nat /\ t \in [1..Len(t) -> Entries(n)]
  BY LenProperties
<1> HIDE DEF new, first
<1>3. CASE u = t
  BY <1>3
<1>4. CASE u = Append(t, new) /\ id # n
  <2>1. u \in Seq(Entries(n)) /\ Len(u) = Len(t) + 1 /\ u[Len(t) + 1] = new
        /\ \A k \in 1..Len(t) : u[k] = t[k]
    BY <1>1, <1>4, AppendProperties
  <2>2. DOMAIN u = 1..(Len(t) + 1)
    BY <2>1, <1>2, LenProperties
  <2>3. \A k \in DOMAIN u : u[k] = new \/ (k \in DOMAIN t /\ u[k] = t[k])
    BY <2>1, <2>2, <1>2
  <2> QED BY <2>1, <2>3, <1>1, <1>4 DEF ToSet
<1>5. CASE u = [t EXCEPT ![first] = new] /\ id # n /\ Bad(n, t, id) # {}
  <2>1. first \in 1..Len(t)
    <3>1. Bad(n, t, id) \subseteq 1..Len(t)
      BY <1>2 DEF Bad, Bucket
    <3> QED BY <3>1, <1>5, <1>2, FirstOfIsIn DEF first
  <2>2. u \in Seq(Entries(n))
    BY <2>1, <1>1, <1>5, ExceptSeq
  <2>3. \A k \in DOMAIN u : k \in DOMAIN t /\ (u[k] = new \/ u[k] = t[k])
    BY <1>5, <1>2
  <2> QED BY <2>2, <2>3, <1>1, <1>5 DEF ToSet
<1>6. \/ u = t
      \/ u = Append(t, new) /\ id # n
      \/ u = [t EXCEPT ![first] = new] /\ id # n /\ Bad(n, t, id) # {}
  BY DEF add_node, new, first
<1> QED BY <1>3, <1>4, <1>5, <1>6

\* A table that learns nodes over a session has new entries only over that.
LEMMA NodesAdded ==
  ASSUME NEW n \in Node, NEW t \in Seq(Entries(n)), NEW s \in SessionOf(n),
         NEW nodes \in Seq([id : Node, hops : Nat]), NEW allow_skip
  PROVE  LET u == add_nodes(n, t, s, nodes, allow_skip)
         IN  /\ u \in Seq(Entries(n))
             /\ \A e \in ToSet(u) : e \in ToSet(t) \/ LearntFrom(e, s, nodes)
<1> DEFINE Sound(u) == u \in Seq(Entries(n)) /\ \A e \in ToSet(u) : e \in ToSet(t) \/ LearntFrom(e, s, nodes)
<1>1. Len(nodes) \in Nat /\ \A k \in 1..Len(nodes) : nodes[k].id \in Node /\ nodes[k].hops \in Nat
  <2>1. Len(nodes) \in Nat
    BY LenProperties
  <2>2. \A k \in 1..Len(nodes) : nodes[k] \in [id : Node, hops : Nat]
    BY ElementOfSeq
  <2> QED BY <2>1, <2>2
<1>2. PICK after :
        /\ after[0] = t
        /\ \A k \in 1..Len(nodes) :
             after[k] = add_node(n, after[k - 1], nodes[k].id, s, nodes[k].hops, allow_skip)
        /\ add_nodes(n, t, s, nodes, allow_skip) = after[Len(nodes)]
  BY <1>1, AddNodesUnfolds
<1> DEFINE Wrong == {k \in 0..Len(nodes) : ~ Sound(after[k])}
<1>3. Wrong = {}
  <2> SUFFICES ASSUME Wrong # {} PROVE FALSE
    OBVIOUS
  <2>1. PICK m \in Wrong : \A j \in Wrong : m <= j
    <3>1. Wrong \subseteq Nat
      BY <1>1
    <3> QED BY <3>1, Least
  <2>2. m \in 0..Len(nodes) /\ ~ Sound(after[m])
    BY <2>1
  <2>3. after[0] = t /\ Sound(t)
    BY <1>1, <1>2
  <2>4. m # 0
    BY <2>2, <2>3
  <2>5. m - 1 \in 0..Len(nodes) /\ m \in 1..Len(nodes) /\ m - 1 \notin Wrong
    <3>1. m - 1 \in 0..Len(nodes) /\ m \in 1..Len(nodes) /\ ~ (m <= m - 1)
      BY <2>2, <2>4, <1>1
    <3> HIDE DEF Wrong
    <3> QED BY <3>1, <2>1
  <2>6. Sound(after[m - 1])
    BY <2>5
  <2>7. after[m] = add_node(n, after[m - 1], nodes[m].id, s, nodes[m].hops, allow_skip)
    BY <1>2, <2>5, <2>4, <2>2
  <2>8. /\ after[m] \in Seq(Entries(n))
        /\ \A e \in ToSet(after[m]) :
             e \in ToSet(after[m - 1]) \/ LearntAs(e, s, nodes[m].id, nodes[m].hops)
    <3>1. after[m - 1] \in Seq(Entries(n)) /\ nodes[m].id \in Node /\ nodes[m].hops \in Nat
      BY <2>5, <2>6, <1>1
    <3> QED BY <2>7, <3>1, EntryAdded
  <2>9. \A e \in ToSet(after[m]) : e \in ToSet(t) \/ LearntFrom(e, s, nodes)
    BY <2>5, <2>6, <2>8 DEF LearntFrom
  <2> QED BY <2>2, <2>8, <2>9
<1>4. Len(nodes) \in 0..Len(nodes)
  BY <1>1
<1>5. Sound(after[Len(nodes)])
  BY <1>3, <1>4
<1> QED BY <1>2, <1>5

LEMMA FunctionIsSeq ==
  ASSUME NEW S, NEW m \in Nat, NEW f \in [1..m -> S]
  PROVE  f \in Seq(S)
<1>1. f \in UNION {[1..k -> S] : k \in Nat}
  OBVIOUS
<1> QED BY <1>1, SeqDef, Zenon

\* add_route, for the way a message came.
LEMMA RouteAdded ==
  ASSUME NEW n \in Node, NEW t \in Seq(Entries(n)), NEW s \in SessionOf(n), NEW hops \in Seq(Node)
  PROVE  LET u == add_route(n, t, hops, s)
         IN  /\ u \in Seq(Entries(n))
             /\ \A e \in ToSet(u) : e \in ToSet(t) \/ LearntOnWay(e, s, hops)
<1>1. Len(hops) \in Nat /\ DOMAIN hops = 1..Len(hops) /\ \A k \in 1..Len(hops) : hops[k] \in Node
  BY LenProperties, ElementOfSeq
<1>2. Route(hops) \in [1..Len(hops) -> [id : Node, hops : Nat]]
  BY <1>1 DEF Route
<1>3. Route(hops) \in Seq([id : Node, hops : Nat])
  BY <1>1, <1>2, FunctionIsSeq
<1>4. Len(Route(hops)) = Len(hops)
  BY <1>1, <1>2, <1>3, LenProperties
<1>5. \A k \in 1..Len(hops) : Route(hops)[k].id = hops[k] /\ Route(hops)[k].hops = k - 1
  BY <1>1 DEF Route
<1>6. \A e : LearntFrom(e, s, Route(hops)) => LearntOnWay(e, s, hops)
  BY <1>4, <1>5 DEF LearntFrom, LearntOnWay
<1> QED BY <1>3, <1>6, NodesAdded DEF add_route

\* remove_session: nothing stays but what is to stay.
LEMMA OnlyKept ==
  ASSUME NEW S, NEW t \in Seq(S), NEW E
  PROVE  Keep(t, E) \in Seq(S) /\ ToSet(Keep(t, E)) \subseteq ToSet(t) \cap E
<1> DEFINE Sound(u) == u \in Seq(S) /\ ToSet(u) \subseteq ToSet(t) \cap E
<1>1. Len(t) \in Nat /\ DOMAIN t = 1..Len(t) /\ \A k \in 1..Len(t) : t[k] \in S
  BY ElementOfSeq, LenProperties
<1>2. PICK u :
        /\ u[0] = <<>>
        /\ \A k \in 1..Len(t) : u[k] = IF t[k] \in E THEN Append(u[k - 1], t[k]) ELSE u[k - 1]
        /\ Keep(t, E) = u[Len(t)]
  BY <1>1, KeepUnfolds
<1> DEFINE Wrong == {k \in 0..Len(t) : ~ Sound(u[k])}
<1>3. Wrong = {}
  <2> SUFFICES ASSUME Wrong # {} PROVE FALSE
    OBVIOUS
  <2>1. PICK m \in Wrong : \A j \in Wrong : m <= j
    <3>1. Wrong \subseteq Nat
      BY <1>1
    <3> QED BY <3>1, Least
  <2>2. m \in 0..Len(t) /\ ~ Sound(u[m])
    BY <2>1
  <2>3. Sound(u[0])
    BY <1>2, EmptySeq DEF ToSet
  <2>4. m # 0
    BY <2>2, <2>3
  <2>5. m - 1 \in 0..Len(t) /\ m \in 1..Len(t) /\ m - 1 \notin Wrong
    <3>1. m - 1 \in 0..Len(t) /\ m \in 1..Len(t) /\ ~ (m <= m - 1)
      BY <2>2, <2>4, <1>1
    <3> HIDE DEF Wrong
    <3> QED BY <3>1, <2>1
  <2>6. Sound(u[m - 1])
    BY <2>5
  <2>7. CASE t[m] \notin E
    BY <2>2, <2>5, <2>6, <2>7, <1>2
  <2>8. CASE t[m] \in E
    <3> DEFINE v == u[m - 1]
    <3>1. u[m] = Append(v, t[m]) /\ t[m] \in S /\ t[m] \in ToSet(t)
      BY <1>1, <1>2, <2>5, <2>8 DEF ToSet
    <3>2. v \in Seq(S) /\ ToSet(v) \subseteq ToSet(t) \cap E
      BY <2>6
    <3> HIDE DEF v
    <3>3. /\ u[m] \in Seq(S) /\ Len(u[m]) = Len(v) + 1
          /\ \A k \in 1..Len(v) : u[m][k] = v[k]
          /\ u[m][Len(v) + 1] = t[m]
      BY <3>1, <3>2, AppendProperties
    <3>4. Len(v) \in Nat /\ DOMAIN v = 1..Len(v) /\ DOMAIN u[m] = 1..(Len(v) + 1)
      BY <3>2, <3>3, LenProperties
    <3>5. \A k \in DOMAIN u[m] : u[m][k] = t[m] \/ (k \in DOMAIN v /\ u[m][k] = v[k])
      BY <3>3, <3>4
    <3>6. ToSet(u[m]) \subseteq ToSet(t) \cap E
      BY <3>1, <3>2, <3>5, <2>8 DEF ToSet
    <3> QED BY <3>3, <3>6, <2>2
  <2> QED BY <2>7, <2>8
<1>4. Sound(u[Len(t)])
  BY <1>1, <1>3
<1> QED BY <1>2, <1>4

\* Only pinged_ changes.
SameWay(e, f) == e.via = f.via /\ e.id = f.id /\ e.hops = f.hops

LEMMA PongsMarked ==
  ASSUME NEW n \in Node, NEW t \in Seq(Entries(n)), NEW id, NEW s
  PROVE  LET u == mark_pinged(t, id, s)
         IN  u \in Seq(Entries(n)) /\ \A e \in ToSet(u) : \E f \in ToSet(t) : SameWay(e, f)
<1> DEFINE u == mark_pinged(t, id, s)
<1>1. Len(t) \in Nat /\ DOMAIN t = 1..Len(t) /\ \A k \in 1..Len(t) : t[k] \in Entries(n)
  BY LenProperties, ElementOfSeq
<1>2. DOMAIN u = 1..Len(t) /\ u = [k \in 1..Len(t) |-> u[k]]
  BY <1>1 DEF mark_pinged
<1>3. \A k \in 1..Len(t) : u[k] \in Entries(n) /\ SameWay(u[k], t[k])
  BY <1>1 DEF mark_pinged, Entries, SameWay
<1> HIDE DEF u
<1>4. u \in Seq(Entries(n))
  BY <1>1, <1>2, <1>3, FunctionIsSeq
<1> QED BY <1>1, <1>2, <1>3, <1>4 DEF ToSet, u

LEMMA PingsCounted ==
  ASSUME NEW n \in Node, NEW t \in Seq(Entries(n))
  PROVE  LET u == [k \in DOMAIN t |-> OncePinged(t[k])]
         IN  u \in Seq(Entries(n)) /\ \A e \in ToSet(u) : \E f \in ToSet(t) : SameWay(e, f)
<1> DEFINE u == [k \in DOMAIN t |-> OncePinged(t[k])]
<1>1. Len(t) \in Nat /\ DOMAIN t = 1..Len(t) /\ \A k \in 1..Len(t) : t[k] \in Entries(n)
  BY LenProperties, ElementOfSeq
<1>2. DOMAIN u = 1..Len(t) /\ u = [k \in 1..Len(t) |-> u[k]]
  BY <1>1
<1>3. \A k \in 1..Len(t) : u[k] \in Entries(n) /\ SameWay(u[k], t[k])
  <2>1. PingRange \in Nat /\ PingRange > 0
    BY RouteAssumption
  <2>2. \A e \in Entries(n) : OncePinged(e) \in Entries(n) /\ SameWay(OncePinged(e), e)
    <3> TAKE e \in Entries(n)
    <3>1. (e.pinged + 1) % PingRange \in Nat
      BY <2>1 DEF Entries
    <3> QED BY <3>1 DEF Entries, OncePinged, SameWay
  <2> QED BY <1>1, <2>2
<1> HIDE DEF u
<1>4. u \in Seq(Entries(n))
  BY <1>1, <1>2, <1>3, FunctionIsSeq
<1> QED BY <1>1, <1>2, <1>3, <1>4 DEF ToSet, u

\* The nodes of an answer, as far as they are away from who asked.
LEMMA FurtherNodes ==
  ASSUME NEW nodes \in Seq([id : Node, hops : Nat]), NEW hops \in Seq(Node)
  PROVE  [k \in DOMAIN nodes |-> Further(nodes[k], hops)] \in Seq([id : Node, hops : Nat])
<1> DEFINE u == [k \in DOMAIN nodes |-> Further(nodes[k], hops)]
<1>1. Len(nodes) \in Nat /\ DOMAIN nodes = 1..Len(nodes) /\ Len(hops) \in Nat
      /\ \A k \in 1..Len(nodes) : nodes[k] \in [id : Node, hops : Nat]
  BY LenProperties, ElementOfSeq
<1>2. \A p \in [id : Node, hops : Nat] : Further(p, hops) \in [id : Node, hops : Nat]
  <2> TAKE p \in [id : Node, hops : Nat]
  <2>1. HopRange \in Nat /\ HopRange > 0
    BY RouteAssumption
  <2>2. (p.hops + Len(hops) + 1) % HopRange \in Nat
    BY <2>1, <1>1
  <2> QED BY <2>2 DEF Further
<1>3. u \in [1..Len(nodes) -> [id : Node, hops : Nat]]
  BY <1>1, <1>2
<1> HIDE DEF u
<1>4. u \in Seq([id : Node, hops : Nat])
  BY <1>1, <1>3, FunctionIsSeq
<1> QED BY <1>4 DEF u

LEMMA DistanceIsNumber ==
  ASSUME NEW a, NEW b
  PROVE  distance(a, b) \in Nat
<1>1. Bits \in Nat
  BY RouteAssumption
<1>2. PICK u :
        /\ u[0] = 0
        /\ \A k \in 1..Bits : u[k] = 2 * u[k - 1] + (IF a[k] = b[k] THEN 0 ELSE 1)
        /\ distance(a, b) = u[Bits]
  BY DistanceUnfolds
<1> DEFINE Wrong == {k \in 0..Bits : u[k] \notin Nat}
<1>3. Wrong = {}
  <2> SUFFICES ASSUME Wrong # {} PROVE FALSE
    OBVIOUS
  <2>1. PICK m \in Wrong : \A j \in Wrong : m <= j
    <3>1. Wrong \subseteq Nat
      BY <1>1
    <3> QED BY <3>1, Least
  <2>2. m \in 1..Bits /\ u[m] \notin Nat
    BY <2>1, <1>1, <1>2
  <2>3. m - 1 \in 0..Bits /\ ~ (m <= m - 1)
    BY <2>2, <1>1
  <2>4. u[m - 1] \in Nat
    BY <2>1, <2>3
  <2> QED BY <2>2, <2>4, <1>2
<1> QED BY <1>1, <1>2, <1>3

LEMMA NearestIsOne ==
  ASSUME NEW ids, ids # {}, NEW target
  PROVE  Nearest(target, ids) \in ids
<1> DEFINE K == {distance(target, a) : a \in ids}
<1>1. K \subseteq Nat /\ K # {}
  BY DistanceIsNumber
<1>2. PICK k \in K : \A j \in K : k <= j
  BY <1>1, Least
<1>3. PICK a \in ids : k = distance(target, a)
  BY <1>2
<1>4. \A b \in ids : distance(target, a) <= distance(target, b)
  BY <1>2, <1>3
<1> QED BY <1>4 DEF Nearest

-----------------------------------------------------------------------------
(***************************************************************************)
(* What is found is in the table, and among the entries allowed.           *)
(***************************************************************************)
LEMMA ShortestIsOne ==
  ASSUME NEW n \in Node, NEW t \in Seq(Entries(n)), NEW K, K \subseteq DOMAIN t, NEW id \in Ids(t, K)
  PROVE  \E k \in K : /\ Shortest(t, K, id) = t[k] /\ t[k].id = id
                      /\ \A j \in K : t[j].id = id => t[k].hops <= t[j].hops
<1> DEFINE same == {k \in K : t[k].id = id}
           H == {t[k].hops : k \in same}
           shortest == {k \in same : \A j \in same : t[k].hops <= t[j].hops}
<1>1. DOMAIN t \subseteq Nat /\ \A k \in DOMAIN t : t[k].hops \in Nat
  <2>1. DOMAIN t = 1..Len(t) /\ \A k \in 1..Len(t) : t[k] \in Entries(n)
    BY LenProperties, ElementOfSeq
  <2> QED BY <2>1 DEF Entries
<1>2. same # {}
  BY DEF Ids
<1>3. H \subseteq Nat /\ H # {}
  BY <1>1, <1>2
<1>4. PICK h \in H : \A g \in H : h <= g
  BY <1>3, Least
<1>5. PICK k \in same : h = t[k].hops
  BY <1>4
<1>6. k \in shortest
  BY <1>4, <1>5
<1>7. shortest \subseteq Nat /\ shortest # {}
  BY <1>1, <1>6
<1>8. FirstOf(shortest) \in shortest
  BY <1>7, FirstOfIsIn
<1>9. Shortest(t, K, id) = t[FirstOf(shortest)]
  BY DEF Shortest
<1> QED BY <1>8, <1>9

LEMMA FoundInTable ==
  ASSUME NEW n \in Node, NEW t \in Seq(Entries(n)), NEW target, NEW max_count, NEW allowed
  PROVE  LET found == search_nodes(n, t, target, max_count, allowed)
         IN  found \subseteq ToSet(t) \cap allowed /\ IsFiniteSet(found)
<1> DEFINE Within_(radius) == Within(n, t, target, radius, allowed)
           enough == {r \in 0..Bits : r = Bits \/ Cardinality(Ids(t, Within_(r))) >= max_count}
           K == Within_(FirstOf(enough))
           found == {Shortest(t, K, id) : id \in Ids(t, K)}
<1>1. search_nodes(n, t, target, max_count, allowed) = found
  BY DEF search_nodes
<1>2. K \subseteq DOMAIN t /\ \A k \in K : t[k] \in allowed
  BY DEF Within
<1>3. DOMAIN t = 1..Len(t) /\ Len(t) \in Nat
  BY LenProperties
<1> HIDE DEF K
<1>4. \A id \in Ids(t, K) : \E k \in K : Shortest(t, K, id) = t[k]
  BY <1>2, ShortestIsOne
<1>5. found \subseteq ToSet(t) \cap allowed
  BY <1>2, <1>4 DEF ToSet
<1>6. IsFiniteSet(found)
  <2> DEFINE f == [k \in K |-> Shortest(t, K, t[k].id)]
  <2>1. IsFiniteSet(K)
    <3>1. IsFiniteSet(1..Len(t))
      BY <1>3, FS_Interval
    <3>2. K \in SUBSET (1..Len(t))
      BY <1>2, <1>3
    <3> QED BY <3>1, <3>2, FS_Subset
  <2>2. f \in Surjection(K, found)
    BY DEF Surjection, Ids
  <2> QED BY <2>1, <2>2, FS_Surjection
<1> QED BY <1>1, <1>5, <1>6

LEMMA NearInTable ==
  ASSUME NEW n \in Node, NEW t \in Seq(Entries(n)), NEW target, NEW allowed
  PROVE  for_near(n, t, target, allowed) \subseteq ToSet(t) \cap allowed
BY FoundInTable DEF for_near

LEMMA DistanceExpIsBucket ==
  ASSUME NEW a \in Id, NEW b \in Id
  PROVE  distance_exp(a, b) \in 0..(Bits - 1)
<1>1. Bits \in Nat \ {0} /\ a \in [1..Bits -> {0, 1}] /\ b \in [1..Bits -> {0, 1}]
  BY RouteAssumption DEF Id
<1>2. CASE a = b
  BY <1>1, <1>2 DEF distance_exp
<1>3. CASE a # b
  <2> DEFINE D == {i \in 1..Bits : a[i] # b[i]}
             First(i) == a[i] # b[i] /\ \A j \in 1..(i - 1) : a[j] = b[j]
  <2>1. D \subseteq Nat /\ D # {}
    BY <1>1, <1>3
  <2>2. PICK i \in D : \A j \in D : i <= j
    BY <2>1, Least
  <2>3. \A j \in 1..(i - 1) : j \in 1..Bits /\ ~ (i <= j)
    BY <1>1, <2>2
  <2>4. \A j \in 1..(i - 1) : a[j] = b[j]
    BY <2>2, <2>3
  <2>5. i \in 1..Bits /\ First(i)
    BY <2>2, <2>4
  <2> HIDE DEF First
  <2>6. (CHOOSE j \in 1..Bits : First(j)) \in 1..Bits
    BY <2>5
  <2>7. distance_exp(a, b) = (CHOOSE j \in 1..Bits : First(j)) - 1
    BY <1>3 DEF distance_exp, First
  <2> QED BY <1>1, <2>6, <2>7
<1> QED BY <1>2, <1>3

\* search_nodes: what is found is good, a node is found only once, and by the
\* fewest hops of all its good entries, whatever their order in the table.
THEOREM SearchIsShortest ==
  ASSUME NEW n \in Node, NEW t \in Seq(Entries(n)), NEW target, NEW max_count, NEW allowed,
         NEW e \in search_nodes(n, t, target, max_count, allowed)
  PROVE  /\ is_good(e) /\ e \in allowed
         /\ \A f \in ToSet(t) \cap allowed : is_good(f) /\ f.id = e.id => e.hops <= f.hops
         /\ \A f \in search_nodes(n, t, target, max_count, allowed) : f.id = e.id => f = e
<1> DEFINE Within_(radius) == Within(n, t, target, radius, allowed)
           enough == {r \in 0..Bits : r = Bits \/ Cardinality(Ids(t, Within_(r))) >= max_count}
           K == Within_(FirstOf(enough))
<1>1. search_nodes(n, t, target, max_count, allowed) = {Shortest(t, K, id) : id \in Ids(t, K)}
  BY DEF search_nodes
<1>2. K \subseteq DOMAIN t
  BY DEF Within
<1>3. \A k \in K : is_good(t[k]) /\ t[k] \in allowed
  BY DEF Within
<1>4. \A k \in K, j \in DOMAIN t :
        is_good(t[j]) /\ t[j] \in allowed /\ t[j].id = t[k].id => j \in K
  BY DEF Within
<1> HIDE DEF K
<1>5. PICK id \in Ids(t, K) : e = Shortest(t, K, id)
  BY <1>1
<1>6. PICK k \in K : e = t[k] /\ e.id = id /\ \A j \in K : t[j].id = id => e.hops <= t[j].hops
  BY <1>2, <1>5, ShortestIsOne
<1>7. is_good(e) /\ e \in allowed
  BY <1>3, <1>6
<1>8. ASSUME NEW f \in ToSet(t) \cap allowed, is_good(f), f.id = e.id
      PROVE  e.hops <= f.hops
  <2>1. PICK j \in DOMAIN t : f = t[j]
    BY DEF ToSet
  <2>2. j \in K
    BY <1>4, <1>6, <1>8, <2>1
  <2> QED BY <1>6, <1>8, <2>1, <2>2
<1>9. ASSUME NEW f \in search_nodes(n, t, target, max_count, allowed), f.id = e.id
      PROVE  f = e
  <2>1. PICK id2 \in Ids(t, K) : f = Shortest(t, K, id2)
    BY <1>1
  <2>2. f.id = id2
    BY <1>2, <2>1, ShortestIsOne
  <2> QED BY <1>5, <1>6, <1>9, <2>1, <2>2
<1> QED BY <1>7, <1>8, <1>9

\* looking_nodes and for_near: as long as the table has a good entry that is
\* allowed, however far its bucket is, a message is sent on.
THEOREM SearchFinds ==
  ASSUME NEW n \in Node, NEW t \in Seq(Entries(n)), NEW target \in Id, NEW allowed,
         \E e \in ToSet(t) : is_good(e) /\ e \in allowed
  PROVE  for_near(n, t, target, allowed) # {}
<1> DEFINE Within_(radius) == Within(n, t, target, radius, allowed)
           enough == {r \in 0..Bits : r = Bits \/ Cardinality(Ids(t, Within_(r))) >= 1}
           first == FirstOf(enough)
           found == search_nodes(n, t, target, 1, allowed)
           K == {distance(e.id, target) : e \in found}
<1>1. Bits \in Nat
  BY RouteAssumption
<1>2. PICK k \in DOMAIN t : is_good(t[k]) /\ t[k] \in allowed
  BY DEF ToSet
<1>3. t[k].id \in Id /\ n \in Id
  <2>1. DOMAIN t = 1..Len(t)
    BY LenProperties
  <2>2. t[k] \in Entries(n)
    BY <1>2, <2>1, ElementOfSeq
  <2> QED BY <2>2 DEF Entries, Id
<1>4. k \in Within_(Bits)
  <2>1. distance_exp(n, t[k].id) \in 0..(Bits - 1) /\ distance_exp(n, target) \in 0..(Bits - 1)
    BY <1>3, DistanceExpIsBucket
  <2>2. Away(distance_exp(n, t[k].id), distance_exp(n, target)) <= Bits
    BY <1>1, <2>1 DEF Away
  <2> QED BY <1>2, <2>2 DEF Within
<1>5. first \in enough
  <2>1. enough \subseteq Nat /\ Bits \in enough
    BY <1>1
  <2> HIDE DEF enough
  <2> QED BY <2>1, FirstOfIsIn
<1>6. Ids(t, Within_(first)) # {}
  <2>1. CASE first = Bits
    BY <2>1, <1>4 DEF Ids
  <2>2. CASE Cardinality(Ids(t, Within_(first))) >= 1
    <3>1. Cardinality({}) = 0
      BY FS_EmptySet
    <3>2. ASSUME Ids(t, Within_(first)) = {} PROVE FALSE
      <4>1. Cardinality(Ids(t, Within_(first))) = 0
        BY <3>1, <3>2
      <4> HIDE DEF Within_, first
      <4> QED BY <2>2, <4>1
    <3> QED BY <3>2
  <2> QED BY <1>5, <2>1, <2>2
<1>7. found # {}
  BY <1>6 DEF search_nodes
<1>8. K \subseteq Nat /\ K # {}
  BY <1>7, DistanceIsNumber
<1>9. PICK d \in K : \A c \in K : d <= c
  BY <1>8, Least
<1>10. PICK e \in found : d = distance(e.id, target)
  BY <1>9
<1>11. \A f \in found : distance(e.id, target) <= distance(f.id, target)
  BY <1>9, <1>10
<1> QED BY <1>11 DEF for_near

\* An answer is a sequence of nodes with their hops.
LEMMA AnswerIsSequence ==
  ASSUME NEW found, IsFiniteSet(found), NEW n \in Node, found \subseteq Entries(n), NEW id,
         NEW result \in ByDistance({[id |-> e.id, hops |-> e.hops] : e \in found}, id)
  PROVE  result \in Seq([id : Node, hops : Nat])
<1> DEFINE nodes == {[id |-> e.id, hops |-> e.hops] : e \in found}
           f == [e \in found |-> [id |-> e.id, hops |-> e.hops]]
<1>1. f \in Surjection(found, nodes)
  BY DEF Surjection
<1>2. IsFiniteSet(nodes) /\ Cardinality(nodes) \in Nat
  BY <1>1, FS_Surjection, FS_CardinalityType
<1>3. nodes \subseteq [id : Node, hops : Nat]
  BY DEF Entries
<1>4. result \in [1..Cardinality(nodes) -> nodes]
  BY DEF ByDistance
<1> HIDE DEF nodes
<1>5. result \in [1..Cardinality(nodes) -> [id : Node, hops : Nat]]
  BY <1>3, <1>4
<1> QED BY <1>2, <1>5, FunctionIsSeq

-----------------------------------------------------------------------------
(***************************************************************************)
(* What is sent.                                                           *)
(***************************************************************************)
LEMMA PartnerFacts ==
  ASSUME NEW n \in Node, NEW m \in Partner(n)
  PROVE  m \in Node /\ m # n /\ n \in Partner(m) /\ {n, m} \in Link
<1>1. m \in Node /\ {n, m} \in Link /\ {m, n} = {n, m}
  BY DEF Partner
<1>2. PICK a, b \in Node : a # b /\ {n, m} = {a, b}
  BY <1>1, RouteAssumption
<1> QED BY <1>1, <1>2 DEF Partner

\* What is true of a message under way.
Sound(msg) ==
  /\ IF msg.type = "found" THEN msg \in Answer ELSE msg \in Question
  /\ msg.hops # <<>> /\ msg.hops[1] \in Partner(msg.to)
  /\ msg.to \notin ToSet(msg.hops)
  /\ Len(msg.hops) > 1 => msg.target # msg.hops[1]

Carries(type, nodes) ==
  \/ type = "found" /\ nodes \in Seq([id : Node, hops : Nat])
  \/ type \in {"data", "find_node", "ping", "pong"} /\ nodes \in Seq(Id)

LEMMA OverIsSound ==
  ASSUME NEW n \in Node, NEW s \in SessionOf(n), NEW type, NEW target \in Id, NEW hops \in Seq(Node), NEW nodes,
         Carries(type, nodes), s.node \notin ToSet(hops), hops # <<>> => target # n
  PROVE  \A msg \in Over(n, s, type, target, hops, nodes) : Sound(msg)
<1> DEFINE way == <<n>> \o hops
           msg == [type |-> type, target |-> target, to |-> s.node, number |-> s.number,
                   hops |-> way, nodes |-> nodes]
<1>1. s.node \in Node /\ s.node # n /\ n \in Partner(s.node) /\ s.number \in Number
  BY PartnerFacts DEF SessionOf
<1>2. <<n>> \in Seq(Node) /\ Len(<<n>>) = 1 /\ <<n>>[1] = n
  OBVIOUS
<1>3. /\ way \in Seq(Node) /\ Len(way) = Len(hops) + 1 /\ Len(hops) \in Nat
      /\ \A i \in 1..(Len(hops) + 1) : way[i] = IF i <= 1 THEN n ELSE hops[i - 1]
      /\ DOMAIN hops = 1..Len(hops) /\ DOMAIN way = 1..Len(way)
  BY <1>2, ConcatProperties, LenProperties
<1> HIDE DEF way
<1>4. way[1] = n /\ way # <<>> /\ (Len(way) > 1 => hops # <<>>)
  BY <1>3
<1>5. s.node \notin ToSet(way)
  <2> SUFFICES ASSUME NEW i \in 1..Len(way), way[i] = s.node PROVE FALSE
    BY <1>3 DEF ToSet
  <2>1. i > 1
    BY <1>1, <1>4
  <2>2. i - 1 \in DOMAIN hops /\ hops[i - 1] = s.node
    BY <1>3, <2>1
  <2> QED BY <2>2 DEF ToSet
<1>6. IF type = "found" THEN msg \in Answer ELSE msg \in Question
  BY <1>1, <1>3 DEF Carries, Answer, Question, Message
<1>7. Sound(msg)
  BY <1>1, <1>4, <1>5, <1>6 DEF Sound
<1>8. Over(n, s, type, target, hops, nodes) = {msg}
  BY DEF Over, way
<1> QED BY <1>7, <1>8

LEMMA OverAllIsSound ==
  ASSUME NEW n \in Node, NEW E \in SUBSET Entries(n), NEW type, NEW target \in Id, NEW hops \in Seq(Node), NEW nodes,
         Carries(type, nodes), \A e \in E : e.via.node \notin ToSet(hops), hops # <<>> => target # n
  PROVE  \A msg \in OverAll(n, E, type, target, hops, nodes) : Sound(msg)
<1>1. \A e \in E : e.via \in SessionOf(n)
  BY DEF Entries
<1>2. \A e \in E : \A msg \in Over(n, e.via, type, target, hops, nodes) : Sound(msg)
  BY <1>1, OverIsSound
<1> QED BY <1>2 DEF OverAll

LEMMA TableEntries ==
  ASSUME NEW n \in Node, NEW t \in Seq(Entries(n))
  PROVE  ToSet(t) \subseteq Entries(n)
BY LenProperties, ElementOfSeq DEF ToSet

LEMMA SendIsSound ==
  ASSUME NEW n \in Node, NEW t \in Seq(Entries(n)), NEW type, NEW target \in Id, NEW nodes, Carries(type, nodes)
  PROVE  \A msg \in send(n, t, type, target, nodes) : Sound(msg)
<1>1. for_near(n, t, target, ToSet(t)) \in SUBSET Entries(n)
  BY NearInTable, TableEntries
<1>2. <<>> \in Seq(Node) /\ \A m : m \notin ToSet(<<>>)
  BY EmptySeq DEF ToSet
<1> QED BY <1>1, <1>2, OverAllIsSound DEF send

LEMMA ForwardIsSound ==
  ASSUME NEW n \in Node, NEW t \in Seq(Entries(n)), NEW type, NEW target \in Id, NEW hops \in Seq(Node), NEW nodes,
         Carries(type, nodes), target # n
  PROVE  \A msg \in Forward(n, t, type, target, hops, nodes) : Sound(msg)
<1> DEFINE allowed == {e \in ToSet(t) : NotAgain(hops, e)}
           E == for_near(n, t, target, allowed)
<1>1. E \subseteq ToSet(t) \cap allowed
  BY NearInTable
<1>2. E \in SUBSET Entries(n) /\ \A e \in E : e.via.node \notin ToSet(hops)
  BY <1>1, TableEntries DEF NotAgain
<1>3. Forward(n, t, type, target, hops, nodes) = OverAll(n, E, type, target, hops, nodes)
  BY DEF Forward
<1> HIDE DEF E
<1> QED BY <1>2, <1>3, OverAllIsSound

\* Also a message that turns back: its sender is not the node that it is at.
LEMMA ProxyIsSound ==
  ASSUME NEW n \in Node, NEW t \in Seq(Entries(n)), NEW type, NEW target \in Id, NEW hops \in Seq(Node), NEW nodes,
         Carries(type, nodes), target # n, hops # <<>>, n \notin ToSet(hops)
  PROVE  \A msg \in proxy_message(n, t, type, target, hops, nodes) : Sound(msg)
<1> DEFINE back == Last(hops)
           nearest == Nearest(target, {n} \cup ToSet(hops))
<1>1. Len(hops) \in Nat /\ DOMAIN hops = 1..Len(hops) /\ Len(hops) # 0 /\ \A i \in 1..Len(hops) : hops[i] \in Node
  BY LenProperties, ElementOfSeq, EmptySeq
<1>2. back \in ToSet(hops) /\ ToSet(hops) \subseteq Node
  BY <1>1 DEF ToSet, Last
<1>3. back \in Id /\ back # n
  BY <1>2 DEF Id
<1>4. nearest \in Node
  BY <1>2, NearestIsOne
<1>5. <<nearest>> \in Seq(Node)
  BY <1>4
<1> HIDE DEF back, nearest
<1>6. \A msg \in Forward(n, t, type, back, <<nearest>>, nodes) : Sound(msg)
  BY <1>3, <1>5, ForwardIsSound
<1>7. \A msg \in Forward(n, t, type, target, hops, nodes) : Sound(msg)
  BY ForwardIsSound
<1> QED BY <1>6, <1>7 DEF proxy_message, back, nearest

-----------------------------------------------------------------------------
(***************************************************************************)
(* The invariant.                                                          *)
(***************************************************************************)
RouteInv == TypeOK /\ OnTheWay /\ EntriesHaveSession /\ PassedOnwards

\* What an invariant says of the tables and the sessions, and of the messages.
TablesInv ==
  /\ table = [n \in Node |-> table[n]] /\ \A n \in Node : table[n] \in Seq(Entries(n))
  /\ session = [n \in Node |-> session[n]] /\ \A n \in Node : session[n] \in [Partner(n) -> Nat]
  /\ EntriesHaveSession

LEMMA RouteInvParts ==
  RouteInv <=>
    /\ TablesInv
    /\ used \in [Link -> Nat]
    /\ control \subseteq [to : Node, from : Node, number : Nat]
    /\ \A w \in control : w.from \in Partner(w.to)
    /\ \A msg \in network : Sound(msg)
    /\ sends \in Nat
BY DEF RouteInv, TablesInv, TypeOK, OnTheWay, PassedOnwards, Sound

LEMMA RouteInvNext ==
  ASSUME TablesInv', used' \in [Link -> Nat],
         control' \subseteq [to : Node, from : Node, number : Nat],
         \A w \in control' : w.from \in Partner(w.to),
         \A msg \in network' : Sound(msg),
         sends' \in Nat
  PROVE  RouteInv'
BY DEF RouteInv, TablesInv, TypeOK, OnTheWay, PassedOnwards, Sound

LEMMA MessageFacts ==
  ASSUME NEW msg, Sound(msg)
  PROVE  /\ msg.to \in Node /\ msg.hops[1] \in Partner(msg.to) /\ Via(msg) \in SessionOf(msg.to)
         /\ msg.hops \in Seq(Node) /\ msg.hops # <<>> /\ msg.to \notin ToSet(msg.hops)
         /\ msg.target \in Id /\ Carries(msg.type, msg.nodes) /\ msg.number \in Number
         /\ Last(msg.hops) \in Id
<1>1. /\ msg.to \in Node /\ msg.hops \in Seq(Node) /\ msg.target \in Id /\ msg.number \in Number
      /\ Carries(msg.type, msg.nodes)
  BY DEF Sound, Carries, Answer, Question, Message
<1>2. msg.hops[1] \in Partner(msg.to) /\ msg.hops # <<>> /\ msg.to \notin ToSet(msg.hops)
  BY DEF Sound
<1>3. Last(msg.hops) \in Id
  <2>1. Len(msg.hops) \in Nat /\ Len(msg.hops) # 0
    BY <1>1, <1>2, LenProperties, EmptySeq
  <2> QED BY <1>1, <2>1, ElementOfSeq DEF Last, Id
<1> QED BY <1>1, <1>2, <1>3 DEF Via, SessionOf

LEMMA InitRouteInv == Init => RouteInv
<1> SUFFICES ASSUME Init PROVE RouteInv
  OBVIOUS
<1>1. \A n \in Node : table[n] = <<>> /\ session[n] = [m \in Partner(n) |-> 0]
  BY DEF Init
<1>2. \A n \in Node : table[n] \in Seq(Entries(n)) /\ ToSet(table[n]) = {} /\ session[n] \in [Partner(n) -> Nat]
  <2>1. \A S : <<>> \in Seq(S)
    BY EmptySeq
  <2>2. ToSet(<<>>) = {}
    BY DEF ToSet
  <2>3. \A n \in Node : table[n] \in Seq(Entries(n)) /\ ToSet(table[n]) = {}
    BY <1>1, <2>1, <2>2, Zenon
  <2>4. \A n \in Node : session[n] \in [Partner(n) -> Nat]
    <3> TAKE n \in Node
    <3>1. session[n] = [m \in Partner(n) |-> 0]
      BY <1>1
    <3> QED BY <3>1
  <2> QED BY <2>3, <2>4
<1>3. table = [n \in Node |-> table[n]] /\ session = [n \in Node |-> session[n]]
  BY DEF Init
<1>4. TablesInv
  BY <1>2, <1>3 DEF TablesInv, EntriesHaveSession
<1>5. used \in [Link -> Nat] /\ control = {} /\ network = {} /\ sends = 0
  BY DEF Init
<1> QED BY <1>4, <1>5, RouteInvParts

\* A session is made or replaced: the entries over its address go on.
LEMMA AddSessionKeeps ==
  ASSUME TablesInv, NEW n \in Node, NEW m \in Partner(n), NEW k \in Number, add_session(n, m, k)
  PROVE  TablesInv'
<1> DEFINE s == [node |-> m, number |-> k]
           t == add_node(n, table[n], m, s, 0, FALSE)
<1>1. s \in SessionOf(n) /\ m \in Node /\ k \in Nat /\ k # 0
  BY PartnerFacts DEF SessionOf, Number
<1>2. table[n] \in Seq(Entries(n))
  BY DEF TablesInv
<1>3. t \in Seq(Entries(n)) /\ \A e \in ToSet(t) : e \in ToSet(table[n]) \/ e.via = s
  <2>1. t \in Seq(Entries(n)) /\ \A e \in ToSet(t) : e \in ToSet(table[n]) \/ LearntAs(e, s, m, 0)
    BY <1>1, <1>2, EntryAdded
  <2> QED BY <2>1 DEF LearntAs
<1>4. table' = [table EXCEPT ![n] = t] /\ session' = [session EXCEPT ![n][m] = k]
  BY DEF add_session
<1> HIDE DEF t
<1>5. table' = [o \in Node |-> table'[o]] /\ table'[n] = t /\ \A o \in Node \ {n} : table'[o] = table[o]
  BY <1>4 DEF TablesInv
<1>6. /\ session' = [o \in Node |-> session'[o]] /\ session'[n] = [session[n] EXCEPT ![m] = k]
      /\ \A o \in Node \ {n} : session'[o] = session[o]
  BY <1>4 DEF TablesInv
<1>7. /\ session'[n] \in [Partner(n) -> Nat] /\ session'[n][m] # 0
      /\ \A o \in Partner(n) : session[n][o] # 0 => session'[n][o] # 0
  BY <1>1, <1>6 DEF TablesInv
<1>8. \A o \in Node : session'[o] \in [Partner(o) -> Nat]
  BY <1>6, <1>7 DEF TablesInv
<1>9. \A o \in Node : table'[o] \in Seq(Entries(o))
  BY <1>3, <1>5 DEF TablesInv
<1>10. \A o \in Node : \A e \in ToSet(table'[o]) : session'[o][e.via.node] # 0
  <2> TAKE o \in Node
  <2>1. CASE o # n
    BY <2>1, <1>5, <1>6 DEF TablesInv, EntriesHaveSession
  <2>2. CASE o = n
    <3> TAKE e \in ToSet(table'[o])
    <3>1. CASE e.via = s
      BY <3>1, <2>2, <1>7
    <3>2. CASE e \in ToSet(table[n])
      <4>1. e.via.node \in Partner(n) /\ session[n][e.via.node] # 0
        BY <3>2, <1>2, TableEntries DEF TablesInv, EntriesHaveSession, Entries, SessionOf
      <4> QED BY <4>1, <2>2, <1>7
    <3> QED BY <3>1, <3>2, <1>3, <1>5, <2>2
  <2> QED BY <2>1, <2>2
<1> QED BY <1>5, <1>6, <1>8, <1>9, <1>10 DEF TablesInv, EntriesHaveSession

\* One end drops a session: no entry over its address stays there.
LEMMA DropKeeps ==
  ASSUME RouteInv, NEW n \in Node, NEW m \in Partner(n), NEW done, Drop(n, m, done),
         control' \subseteq [to : Node, from : Node, number : Nat],
         \A w \in control' : w.from \in Partner(w.to)
  PROVE  RouteInv'
<1>1. m \in Node /\ m # n
  BY PartnerFacts
<1>2. TablesInv
  BY RouteInvParts
<1> DEFINE Less(o, p) == remove_session(table[o], p)
<1>3. \A o \in Node : \A p : /\ Less(o, p) \in Seq(Entries(o))
                             /\ \A e \in ToSet(Less(o, p)) : e \in ToSet(table[o]) /\ e.via.node # p
  BY <1>2, OnlyKept DEF TablesInv, remove_session
<1>4. /\ table' = [table EXCEPT ![n] = Less(n, m)]
      /\ session' = [session EXCEPT ![n][m] = 0]
      /\ network' \subseteq network /\ UNCHANGED <<used, sends>>
  BY DEF Drop
<1> HIDE DEF Less
<1>5. /\ table' = [o \in Node |-> table'[o]] /\ table'[n] = Less(n, m)
      /\ \A o \in Node \ {n} : table'[o] = table[o]
  BY <1>2, <1>4 DEF TablesInv
<1>6. /\ session' = [o \in Node |-> session'[o]]
      /\ session'[n] = [session[n] EXCEPT ![m] = 0]
      /\ \A o \in Node \ {n} : session'[o] = session[o]
  BY <1>2, <1>4 DEF TablesInv
<1>7. \A o \in Node : session'[o] \in [Partner(o) -> Nat] /\ table'[o] \in Seq(Entries(o))
  <2> TAKE o \in Node
  <2>1. CASE o = n
    BY <2>1, <1>2, <1>3, <1>5, <1>6 DEF TablesInv
  <2>2. CASE o # n
    BY <2>2, <1>2, <1>5, <1>6 DEF TablesInv
  <2> QED BY <2>1, <2>2
<1>8. \A o \in Node : \A e \in ToSet(table[o]) : e.via.node \in Partner(o) /\ session[o][e.via.node] # 0
  <2> TAKE o \in Node
  <2>1. table[o] \in Seq(Entries(o)) /\ \A e \in ToSet(table[o]) : session[o][e.via.node] # 0
    BY <1>2 DEF TablesInv, EntriesHaveSession
  <2>2. ToSet(table[o]) \subseteq Entries(o)
    BY <2>1, TableEntries
  <2> QED BY <2>1, <2>2 DEF Entries, SessionOf
<1>9. \A o \in Node : \A e \in ToSet(table'[o]) : session'[o][e.via.node] # 0
  <2> TAKE o \in Node
  <2>1. CASE o = n
    BY <2>1, <1>3, <1>5, <1>6, <1>8, <1>2 DEF TablesInv
  <2>2. CASE o # n
    BY <2>2, <1>5, <1>6, <1>8
  <2> QED BY <2>1, <2>2
<1>10. TablesInv'
  BY <1>5, <1>6, <1>7, <1>9 DEF TablesInv, EntriesHaveSession
<1>11. /\ used' \in [Link -> Nat]
       /\ \A msg \in network' : Sound(msg)
       /\ sends' \in Nat
  BY <1>4, RouteInvParts
<1> QED BY <1>10, <1>11, RouteInvNext

LEMMA FailKeeps ==
  ASSUME RouteInv, NEW n \in Node, NEW m \in Partner(n), NEW done, Fail(n, m, done)
  PROVE  RouteInv'
<1> DEFINE w == [to |-> m, from |-> n, number |-> 0]
<1>1. Drop(n, m, done) /\ control' = control \cup {w}
  BY DEF Fail
<1>2. w \in [to : Node, from : Node, number : Nat] /\ w.from \in Partner(w.to)
  BY PartnerFacts
<1> HIDE DEF w
<1>3. /\ control' \subseteq [to : Node, from : Node, number : Nat]
      /\ \A v \in control' : v.from \in Partner(v.to)
  BY <1>1, <1>2, RouteInvParts
<1> QED BY <1>1, <1>3, DropKeeps

\* A message is handled: what the table has then is over sessions, and what is
\* sent for it is sound.
LEMMA HandleKeeps ==
  ASSUME RouteInv, NEW msg \in network, NEW t \in Seq(Entries(msg.to)), NEW answer, Handle(msg, t, answer),
         \A e \in ToSet(t) : session[msg.to][e.via.node] # 0, \A m \in answer : Sound(m)
  PROVE  RouteInv'
<1>1. TablesInv /\ msg.to \in Node
  BY RouteInvParts, MessageFacts
<1>2. table' = [table EXCEPT ![msg.to] = t] /\ network' \subseteq network \cup answer
      /\ UNCHANGED <<session, used, control, sends>>
  BY DEF Handle
<1>3. /\ table' = [o \in Node |-> table'[o]] /\ table'[msg.to] = t
      /\ \A o \in Node \ {msg.to} : table'[o] = table[o]
  BY <1>1, <1>2 DEF TablesInv
<1>4. TablesInv'
  BY <1>1, <1>2, <1>3 DEF TablesInv, EntriesHaveSession
<1>5. \A m \in network' : Sound(m)
  BY <1>2, RouteInvParts
<1>6. /\ used' \in [Link -> Nat]
      /\ control' \subseteq [to : Node, from : Node, number : Nat]
      /\ \A w \in control' : w.from \in Partner(w.to)
      /\ sends' \in Nat
  BY <1>2, RouteInvParts
<1> QED BY <1>4, <1>5, <1>6, RouteInvNext

LEMMA LearnedFacts ==
  ASSUME RouteInv, NEW msg \in network, Current(msg.to, Via(msg))
  PROVE  /\ Learned(msg) \in Seq(Entries(msg.to))
         /\ session[msg.to][Via(msg).node] # 0
         /\ \A e \in ToSet(Learned(msg)) : session[msg.to][e.via.node] # 0
<1>1. /\ msg.to \in Node /\ Via(msg) \in SessionOf(msg.to) /\ msg.hops \in Seq(Node)
      /\ msg.number \in Number /\ TablesInv
  BY RouteInvParts, MessageFacts
<1>2. session[msg.to][Via(msg).node] # 0
  BY <1>1 DEF Current, Via, Number
<1>3. table[msg.to] \in Seq(Entries(msg.to)) /\ \A e \in ToSet(table[msg.to]) : session[msg.to][e.via.node] # 0
  BY <1>1 DEF TablesInv, EntriesHaveSession
<1>4. /\ Learned(msg) \in Seq(Entries(msg.to))
      /\ \A e \in ToSet(Learned(msg)) : e \in ToSet(table[msg.to]) \/ e.via = Via(msg)
  <2>1. /\ Learned(msg) \in Seq(Entries(msg.to))
        /\ \A e \in ToSet(Learned(msg)) :
             e \in ToSet(table[msg.to]) \/ LearntOnWay(e, Via(msg), msg.hops)
    BY <1>1, <1>3, RouteAdded DEF Learned
  <2> QED BY <2>1 DEF LearntOnWay, LearntAs
<1> QED BY <1>2, <1>3, <1>4

\* Each way in which a message that is under way comes to its end.
LEMMA DeliverKeeps ==
  ASSUME RouteInv, NEW msg \in network, Deliver(msg)
  PROVE  RouteInv'
<1> DEFINE n == msg.to
           t == Learned(msg)
<1>1. /\ n \in Node /\ msg.hops[1] \in Partner(n) /\ Via(msg) \in SessionOf(n)
      /\ msg.hops \in Seq(Node) /\ msg.hops # <<>> /\ n \notin ToSet(msg.hops)
      /\ msg.target \in Id /\ Carries(msg.type, msg.nodes) /\ msg.number \in Number
      /\ Last(msg.hops) \in Id
  BY RouteInvParts, MessageFacts
<1>2. Current(n, Via(msg)) =>
        /\ t \in Seq(Entries(n)) /\ session[n][Via(msg).node] # 0
        /\ \A e \in ToSet(t) : session[n][e.via.node] # 0
  BY LearnedFacts
<1> HIDE DEF n, t
<1>3. CASE Refuse(msg)
  BY <1>1, <1>3, FailKeeps DEF Refuse, n
<1>4. CASE PassOn(msg)
  <2> DEFINE answer == proxy_message(n, t, msg.type, msg.target, msg.hops, msg.nodes)
  <2>1. Current(n, Via(msg)) /\ msg.target # n /\ Handle(msg, t, answer)
    BY <1>4 DEF PassOn, n, t
  <2>2. \A m \in answer : Sound(m)
    BY <1>1, <1>2, <2>1, ProxyIsSound
  <2> QED BY <1>2, <2>1, <2>2, HandleKeeps DEF n
<1>5. CASE OnData(msg)
  BY <1>2, <1>5, HandleKeeps DEF OnData, For, n, t
<1>6. CASE OnFindNode(msg)
  <2> DEFINE id == Head(msg.nodes)
             found == search_nodes(n, t, id, FindCount, {e \in ToSet(t) : e.id \notin ToSet(msg.hops)})
             nodes == {[id |-> e.id, hops |-> e.hops] : e \in found}
             sent(result) == IF result = <<>> THEN {} ELSE send(n, t, "found", Last(msg.hops), result)
  <2>1. Current(n, Via(msg)) /\ \E result \in ByDistance(nodes, id) : Handle(msg, t, sent(result))
    BY <1>6 DEF OnFindNode, For, n, t
  <2>2. found \subseteq Entries(n) /\ IsFiniteSet(found)
    BY <1>1, <1>2, <2>1, FoundInTable, TableEntries
  <2> HIDE DEF found, id
  <2>3. PICK result \in ByDistance(nodes, id) : Handle(msg, t, sent(result))
    BY <2>1
  <2>4. result \in Seq([id : Node, hops : Nat])
    BY <1>1, <2>2, AnswerIsSequence
  <2>5. Carries("found", result)
    BY <2>4 DEF Carries
  <2>6. \A m \in sent(result) : Sound(m)
    BY <1>1, <1>2, <2>1, <2>5, SendIsSound
  <2> HIDE DEF sent
  <2> QED BY <1>2, <2>1, <2>3, <2>6, HandleKeeps DEF n
<1>7. CASE OnFound(msg)
  <2> DEFINE nodes == [k \in DOMAIN msg.nodes |-> Further(msg.nodes[k], msg.hops)]
             u == add_nodes(n, t, Via(msg), nodes, TRUE)
  <2>1. Current(n, Via(msg)) /\ msg.type = "found" /\ Handle(msg, u, {})
    BY <1>7 DEF OnFound, Found, For, n, t
  <2>2. nodes \in Seq([id : Node, hops : Nat])
    BY <1>1, <2>1, FurtherNodes DEF Carries
  <2> HIDE DEF nodes
  <2>3. u \in Seq(Entries(n)) /\ \A e \in ToSet(u) : e \in ToSet(t) \/ e.via = Via(msg)
    <3>1. u \in Seq(Entries(n)) /\ \A e \in ToSet(u) : e \in ToSet(t) \/ LearntFrom(e, Via(msg), nodes)
      BY <1>1, <1>2, <2>1, <2>2, NodesAdded
    <3> QED BY <3>1 DEF LearntFrom, LearntAs
  <2>4. \A e \in ToSet(u) : session[n][e.via.node] # 0
    BY <1>2, <2>1, <2>3
  <2> HIDE DEF u
  <2> QED BY <2>1, <2>3, <2>4, HandleKeeps DEF n
<1>8. CASE OnPing(msg)
  <2> DEFINE answer == Over(n, Via(msg), "pong", Last(msg.hops), <<>>, <<>>)
  <2>1. Current(n, Via(msg)) /\ Handle(msg, t, answer)
    BY <1>8 DEF OnPing, For, n, t
  <2>2. <<>> \in Seq(Node) /\ Carries("pong", <<>>) /\ Via(msg).node \notin ToSet(<<>>)
    BY EmptySeq DEF Carries, ToSet
  <2>3. \A m \in answer : Sound(m)
    BY <1>1, <2>2, OverIsSound
  <2> QED BY <1>2, <2>1, <2>3, HandleKeeps DEF n
<1>9. CASE OnPong(msg)
  <2> DEFINE u == mark_pinged(t, Last(msg.hops), Via(msg))
  <2>1. Current(n, Via(msg)) /\ Handle(msg, u, {})
    BY <1>9 DEF OnPong, Pong, For, n, t
  <2>2. u \in Seq(Entries(n)) /\ \A e \in ToSet(u) : \E f \in ToSet(t) : e.via = f.via
    BY <1>1, <1>2, <2>1, PongsMarked DEF SameWay
  <2>3. \A e \in ToSet(u) : session[n][e.via.node] # 0
    BY <1>2, <2>1, <2>2
  <2> HIDE DEF u
  <2> QED BY <2>1, <2>2, <2>3, HandleKeeps DEF n
<1> QED BY <1>3, <1>4, <1>5, <1>6, <1>7, <1>8, <1>9 DEF Deliver

\* The sessions of the transport.
LEMMA SessionsKeep ==
  ASSUME RouteInv,
         \/ \E n \in Node : \E m \in Partner(n) : OnHandshake(n, m) \/ Disconnect(n, m)
         \/ \E w \in control : OnWelcome(w) \/ OnFailed(w) \/ Lose(w)
  PROVE  RouteInv'
<1>1. /\ TablesInv /\ used \in [Link -> Nat] /\ sends \in Nat
      /\ control \subseteq [to : Node, from : Node, number : Nat]
      /\ \A w \in control : w.from \in Partner(w.to)
      /\ \A msg \in network : Sound(msg)
  BY RouteInvParts
<1>2. ASSUME NEW n \in Node, NEW m \in Partner(n), OnHandshake(n, m)
      PROVE  RouteInv'
  <2> DEFINE k == used[{n, m}] + 1
             w == [to |-> m, from |-> n, number |-> k]
  <2>1. m \in Node /\ n \in Partner(m) /\ {n, m} \in Link
    BY PartnerFacts
  <2>2. k \in Number /\ used' \in [Link -> Nat]
    <3>1. used[{n, m}] \in Nat
      BY <1>1, <2>1
    <3>2. k \in Number
      BY <3>1 DEF Number
    <3>3. used' = [used EXCEPT ![{n, m}] = k] /\ k \in Nat
      BY <1>2, <3>2 DEF OnHandshake, Number
    <3> HIDE DEF k
    <3> QED BY <1>1, <3>2, <3>3
  <2>3. TablesInv'
    BY <1>1, <1>2, <2>2, AddSessionKeeps DEF OnHandshake
  <2>4. control' = control \cup {w} /\ network' = network /\ sends' = sends
    BY <1>2 DEF OnHandshake
  <2>5. w \in [to : Node, from : Node, number : Nat] /\ w.from \in Partner(w.to)
    BY <2>1, <2>2 DEF Number
  <2> HIDE DEF w
  <2>6. control' \subseteq [to : Node, from : Node, number : Nat] /\ \A v \in control' : v.from \in Partner(v.to)
    BY <1>1, <2>4, <2>5
  <2> QED BY <1>1, <2>2, <2>3, <2>4, <2>6, RouteInvNext
<1>3. ASSUME NEW n \in Node, NEW m \in Partner(n), Disconnect(n, m)
      PROVE  RouteInv'
  BY <1>3, FailKeeps DEF Disconnect
<1>4. ASSUME NEW w \in control, OnWelcome(w)
      PROVE  RouteInv'
  <2>1. w.to \in Node /\ w.from \in Partner(w.to) /\ w.number \in Number
    BY <1>1, <1>4 DEF OnWelcome, Number
  <2>2. TablesInv'
    BY <1>1, <1>4, <2>1, AddSessionKeeps DEF OnWelcome
  <2>3. control' \subseteq control /\ UNCHANGED <<used, network, sends>>
    BY <1>4 DEF OnWelcome
  <2> QED BY <1>1, <2>2, <2>3, RouteInvNext
<1>5. ASSUME NEW w \in control, Lose(w)
      PROVE  RouteInv'
  <2>1. control' \subseteq control /\ UNCHANGED <<table, session, used, network, sends>>
    BY <1>5 DEF Lose
  <2>2. TablesInv'
    BY <1>1, <2>1 DEF TablesInv, EntriesHaveSession
  <2> QED BY <1>1, <2>1, <2>2, RouteInvNext
<1>6. ASSUME NEW w \in control, OnFailed(w)
      PROVE  RouteInv'
  <2>1. w.to \in Node /\ w.from \in Partner(w.to)
    BY <1>1
  <2>2. Drop(w.to, w.from, {}) /\ control' \subseteq control
    BY <1>6 DEF OnFailed
  <2> QED BY <1>1, <2>1, <2>2, DropKeeps
<1> QED BY <1>2, <1>3, <1>4, <1>5, <1>6

\* The timers, and what a node sends for its own sake.
LEMMA TimersKeep ==
  ASSUME RouteInv, NEW n \in Node,
         \/ Tick(n)
         \/ \E id \in Lookup : UpdateRouteTable(n, id)
         \/ \E id \in Target : Send(n, id)
  PROVE  RouteInv'
<1>1. /\ TablesInv /\ used \in [Link -> Nat] /\ sends \in Nat
      /\ control \subseteq [to : Node, from : Node, number : Nat]
      /\ \A w \in control : w.from \in Partner(w.to)
      /\ \A msg \in network : Sound(msg)
  BY RouteInvParts
<1>2. /\ table[n] \in Seq(Entries(n)) /\ ToSet(table[n]) \subseteq Entries(n)
      /\ \A e \in ToSet(table[n]) : e.id \in Id /\ e.via \in SessionOf(n) /\ session[n][e.via.node] # 0
  <2>1. table[n] \in Seq(Entries(n))
    BY <1>1 DEF TablesInv
  <2> QED BY <1>1, <2>1, TableEntries DEF TablesInv, EntriesHaveSession, Entries, Id
<1>3. <<>> \in Seq(Node) /\ <<>> \in Seq(Id) /\ \A m : m \notin ToSet(<<>>)
  BY EmptySeq DEF ToSet
<1>4. CASE Tick(n)
  <2> DEFINE u == [k \in DOMAIN table[n] |-> OncePinged(table[n][k])]
             pings == UNION {Over(n, e.via, "ping", e.id, <<>>, <<>>) : e \in ToSet(table[n])}
  <2>1. /\ table' = [table EXCEPT ![n] = u] /\ network' = network \cup pings
        /\ UNCHANGED <<session, used, control, sends>>
    BY <1>4 DEF Tick
  <2>2. u \in Seq(Entries(n)) /\ \A e \in ToSet(u) : \E f \in ToSet(table[n]) : e.via = f.via
    BY <1>2, PingsCounted DEF SameWay
  <2> HIDE DEF u
  <2>3. \A e \in ToSet(u) : session[n][e.via.node] # 0
    BY <1>2, <2>2
  <2>4. /\ table' = [o \in Node |-> table'[o]] /\ table'[n] = u
        /\ \A o \in Node \ {n} : table'[o] = table[o]
    BY <1>1, <2>1 DEF TablesInv
  <2>5. TablesInv'
    BY <1>1, <2>1, <2>2, <2>3, <2>4 DEF TablesInv, EntriesHaveSession
  <2>6. Carries("ping", <<>>)
    BY <1>3 DEF Carries
  <2>7. \A e \in ToSet(table[n]) : \A msg \in Over(n, e.via, "ping", e.id, <<>>, <<>>) : Sound(msg)
    BY <1>2, <1>3, <2>6, OverIsSound
  <2>8. \A msg \in network' : Sound(msg)
    BY <1>1, <2>1, <2>7
  <2> QED BY <1>1, <2>1, <2>5, <2>8, RouteInvNext
<1>5. ASSUME NEW id \in Lookup, UpdateRouteTable(n, id)
      PROVE  RouteInv'
  <2> DEFINE asked == UNION {Over(n, e.via, "find_node", e.id, <<>>, <<id>>) : e \in get_neighbors(table[n])}
  <2>1. network' = network \cup asked /\ UNCHANGED <<table, session, used, control, sends>>
    BY <1>5 DEF UpdateRouteTable
  <2>2. Carries("find_node", <<id>>)
    <3>1. id \in Id
      BY RouteAssumption DEF Id
    <3> QED BY <3>1 DEF Carries
  <2>3. \A e \in get_neighbors(table[n]) : \A msg \in Over(n, e.via, "find_node", e.id, <<>>, <<id>>) : Sound(msg)
    BY <1>2, <1>3, <2>2, OverIsSound DEF get_neighbors
  <2>4. \A msg \in network' : Sound(msg)
    BY <1>1, <2>1, <2>3
  <2>5. TablesInv'
    BY <1>1, <2>1 DEF TablesInv, EntriesHaveSession
  <2> QED BY <1>1, <2>1, <2>4, <2>5, RouteInvNext
<1>6. ASSUME NEW id \in Target, Send(n, id)
      PROVE  RouteInv'
  <2>0. id \in Id
    BY RouteAssumption DEF Id
  <2>1. /\ network' = network \cup send(n, table[n], "data", id, <<>>) /\ sends' = sends + 1
        /\ UNCHANGED <<table, session, used, control>>
    BY <1>6 DEF Send
  <2>2. Carries("data", <<>>)
    BY <1>3 DEF Carries
  <2>3. \A msg \in network' : Sound(msg)
    BY <1>1, <1>2, <2>0, <2>1, <2>2, SendIsSound
  <2>4. TablesInv'
    BY <1>1, <2>1 DEF TablesInv, EntriesHaveSession
  <2>5. sends' \in Nat
    BY <1>1, <2>1
  <2> QED BY <1>1, <2>1, <2>3, <2>4, <2>5, RouteInvNext
<1> QED BY <1>4, <1>5, <1>6

LEMMA NextRouteInv == RouteInv /\ [Next]_vars => RouteInv'
<1> SUFFICES ASSUME RouteInv, [Next]_vars PROVE RouteInv'
  OBVIOUS
<1>1. CASE UNCHANGED vars
  BY <1>1, RouteInvParts, RouteInvNext DEF vars, TablesInv, EntriesHaveSession
<1>2. CASE Next
  BY <1>2, SessionsKeep, TimersKeep, DeliverKeeps DEF Next
<1> QED BY <1>1, <1>2

LEMMA RouteInvariant == Spec => []RouteInv
BY InitRouteInv, NextRouteInv, PTL DEF Spec

-----------------------------------------------------------------------------
(***************************************************************************)
(* What counts as a neighbour.  hops_ is a byte, so a node that is far     *)
(* enough away would come out as one; nothing else does.                   *)
(***************************************************************************)

\* No answer under way tells of a node whose hops run over for who gets it.
HopsFit ==
  \A msg \in network : msg.type = "found" =>
    \A k \in DOMAIN msg.nodes : msg.nodes[k].hops + Len(msg.hops) + 1 < HopRange

Direct(t) == \A e \in ToSet(t) : e.hops = 0 => e.id = e.via.node

LEMMA SameWayDirect ==
  ASSUME NEW t, Direct(t), NEW u, \A e \in ToSet(u) : \E f \in ToSet(t) : SameWay(e, f)
  PROVE  Direct(u)
BY DEF Direct, SameWay

\* The sender of a message is the only one on its way that is learned as a neighbour.
LEMMA LearnedDirect ==
  ASSUME RouteInv, NEW msg \in network, Direct(table[msg.to])
  PROVE  Learned(msg) \in Seq(Entries(msg.to)) /\ Direct(Learned(msg))
<1>1. /\ msg.to \in Node /\ Via(msg) \in SessionOf(msg.to) /\ msg.hops \in Seq(Node)
      /\ table[msg.to] \in Seq(Entries(msg.to))
  BY RouteInvParts, MessageFacts DEF TablesInv
<1>2. /\ Learned(msg) \in Seq(Entries(msg.to))
      /\ \A e \in ToSet(Learned(msg)) : e \in ToSet(table[msg.to]) \/ LearntOnWay(e, Via(msg), msg.hops)
  BY <1>1, RouteAdded DEF Learned
<1>3. \A e : LearntOnWay(e, Via(msg), msg.hops) /\ e.hops = 0 => e.id = e.via.node
  <2> SUFFICES ASSUME NEW e, NEW k \in 1..Len(msg.hops), LearntAs(e, Via(msg), msg.hops[k], k - 1), e.hops = 0
               PROVE  e.id = e.via.node
    BY DEF LearntOnWay
  <2>1. Len(msg.hops) \in Nat
    BY <1>1, LenProperties
  <2>2. k = 1
    BY <2>1 DEF LearntAs
  <2> QED BY <2>2 DEF LearntAs, Via
<1> QED BY <1>2, <1>3 DEF Direct

\* apply_message(dht_find_node_response): every node of an answer is at least one hop
\* behind who answers.
LEMMA FoundDirect ==
  ASSUME RouteInv, HopsFit, NEW msg \in network, msg.type = "found", Direct(table[msg.to])
  PROVE  Direct(Found(msg))
<1> DEFINE n == msg.to
           t == Learned(msg)
           nodes == [k \in DOMAIN msg.nodes |-> Further(msg.nodes[k], msg.hops)]
           u == add_nodes(n, t, Via(msg), nodes, TRUE)
<1>1. /\ n \in Node /\ Via(msg) \in SessionOf(n) /\ msg.hops \in Seq(Node)
      /\ msg.nodes \in Seq([id : Node, hops : Nat])
  BY RouteInvParts, MessageFacts DEF Carries
<1>2. t \in Seq(Entries(n)) /\ Direct(t)
  BY LearnedDirect
<1>3. nodes \in Seq([id : Node, hops : Nat])
  BY <1>1, FurtherNodes
<1>4. Len(nodes) = Len(msg.nodes) /\ DOMAIN msg.nodes = 1..Len(msg.nodes) /\ Len(msg.hops) \in Nat
  BY <1>1, <1>3, LenProperties
<1>5. \A k \in 1..Len(nodes) : nodes[k].hops # 0
  <2> TAKE k \in 1..Len(nodes)
  <2>1. k \in DOMAIN msg.nodes /\ msg.nodes[k] \in [id : Node, hops : Nat]
    BY <1>1, <1>4, ElementOfSeq
  <2> DEFINE h == msg.nodes[k].hops + Len(msg.hops) + 1
  <2>2. h \in Nat /\ h # 0 /\ h < HopRange /\ HopRange \in Nat
    <3>1. HopRange \in Nat /\ msg.nodes[k].hops \in Nat
      BY <2>1, RouteAssumption
    <3>2. h < HopRange
      BY <2>1 DEF HopsFit
    <3>3. \A a, b \in Nat : a + b + 1 \in Nat /\ a + b + 1 # 0
      OBVIOUS
    <3>4. h \in Nat /\ h # 0
      BY <1>4, <3>1, <3>3
    <3> QED BY <3>1, <3>2, <3>4
  <2>3. nodes[k].hops = h % HopRange
    BY <2>1 DEF Further
  <2> HIDE DEF h
  <2>4. h % HopRange = h
    BY <2>2
  <2> HIDE DEF nodes
  <2> QED BY <2>2, <2>3, <2>4
<1> HIDE DEF nodes, t
<1>6. \A e \in ToSet(u) : e \in ToSet(t) \/ LearntFrom(e, Via(msg), nodes)
  BY <1>1, <1>2, <1>3, NodesAdded
<1>7. Direct(u)
  BY <1>2, <1>5, <1>6 DEF Direct, LearntFrom, LearntAs
<1> QED BY <1>7 DEF Found, nodes, t

LEMMA AddSessionDirect ==
  ASSUME TablesInv, NeighborsAreDirect, NEW n \in Node, NEW m \in Partner(n), NEW k \in Number,
         add_session(n, m, k)
  PROVE  NeighborsAreDirect'
<1> DEFINE s == [node |-> m, number |-> k]
           t == add_node(n, table[n], m, s, 0, FALSE)
<1>1. s \in SessionOf(n) /\ m \in Node /\ table[n] \in Seq(Entries(n)) /\ s.node = m
  BY PartnerFacts DEF SessionOf, TablesInv
<1>2. table' = [table EXCEPT ![n] = t]
  BY DEF add_session
<1> HIDE DEF s
<1>3. \A e \in ToSet(t) : e \in ToSet(table[n]) \/ LearntAs(e, s, m, 0)
  BY <1>1, EntryAdded
<1>4. Direct(t)
  BY <1>1, <1>3 DEF NeighborsAreDirect, Direct, LearntAs
<1> HIDE DEF t
<1>5. \A o \in Node : table'[o] = table[o] \/ table'[o] = t
  BY <1>2 DEF TablesInv
<1> QED BY <1>4, <1>5 DEF NeighborsAreDirect, Direct

LEMMA DropDirect ==
  ASSUME RouteInv, NeighborsAreDirect, NEW n \in Node, NEW m \in Partner(n), NEW done, Drop(n, m, done)
  PROVE  NeighborsAreDirect'
<1> DEFINE Less(o, p) == remove_session(table[o], p)
<1>1. m \in Node /\ TablesInv /\ \A o \in Node : table[o] \in Seq(Entries(o))
  BY PartnerFacts, RouteInvParts DEF TablesInv
<1>2. \A o \in Node : \A p : ToSet(Less(o, p)) \subseteq ToSet(table[o])
  BY <1>1, OnlyKept DEF remove_session
<1>3. table' = [table EXCEPT ![n] = Less(n, m)]
  BY DEF Drop
<1> HIDE DEF Less
<1>4. \A o \in Node : ToSet(table'[o]) \subseteq ToSet(table[o])
  BY <1>1, <1>2, <1>3 DEF TablesInv
<1> QED BY <1>4 DEF NeighborsAreDirect

LEMMA HandleDirect ==
  ASSUME RouteInv, NeighborsAreDirect, NEW msg \in network, NEW t, NEW answer, Handle(msg, t, answer), Direct(t)
  PROVE  NeighborsAreDirect'
<1>1. TablesInv /\ msg.to \in Node
  BY RouteInvParts, MessageFacts
<1>2. \A o \in Node : table'[o] = table[o] \/ table'[o] = t
  BY <1>1 DEF Handle, TablesInv
<1> QED BY <1>2 DEF NeighborsAreDirect, Direct

LEMMA DeliverDirect ==
  ASSUME RouteInv, HopsFit, NeighborsAreDirect, NEW msg \in network, Deliver(msg)
  PROVE  NeighborsAreDirect'
<1>1. TablesInv /\ msg.to \in Node /\ msg.hops[1] \in Partner(msg.to) /\ Direct(table[msg.to])
  BY RouteInvParts, MessageFacts DEF NeighborsAreDirect, Direct
<1>2. Learned(msg) \in Seq(Entries(msg.to)) /\ Direct(Learned(msg))
  BY <1>1, LearnedDirect
<1>3. CASE Refuse(msg)
  BY <1>1, <1>3, DropDirect DEF Refuse, Fail
<1>4. CASE OnFound(msg)
  <2>1. msg.type = "found" /\ Handle(msg, Found(msg), {})
    BY <1>4 DEF OnFound, For
  <2> QED BY <1>1, <2>1, FoundDirect, HandleDirect
<1>5. CASE OnPong(msg)
  <2>1. Handle(msg, Pong(msg), {})
    BY <1>5 DEF OnPong
  <2>2. Direct(Pong(msg))
    BY <1>1, <1>2, PongsMarked, SameWayDirect DEF Pong
  <2> QED BY <2>1, <2>2, HandleDirect
<1>6. CASE PassOn(msg) \/ OnData(msg) \/ OnFindNode(msg) \/ OnPing(msg)
  <2>1. \E answer : Handle(msg, Learned(msg), answer)
    BY <1>6 DEF PassOn, OnData, OnFindNode, OnPing
  <2> QED BY <1>2, <2>1, HandleDirect
<1> QED BY <1>3, <1>4, <1>5, <1>6 DEF Deliver

LEMMA NextDirect ==
  ASSUME RouteInv, HopsFit, NeighborsAreDirect, [Next]_vars
  PROVE  NeighborsAreDirect'
<1>1. TablesInv /\ \A n \in Node : table[n] \in Seq(Entries(n)) /\ Direct(table[n])
  BY RouteInvParts DEF NeighborsAreDirect, Direct, TablesInv
<1>2. ASSUME NEW n \in Node, NEW m \in Partner(n), NEW k \in Number, add_session(n, m, k)
      PROVE  NeighborsAreDirect'
  BY <1>1, <1>2, AddSessionDirect
<1>3. ASSUME NEW n \in Node, NEW m \in Partner(n), OnHandshake(n, m)
      PROVE  NeighborsAreDirect'
  <2>1. {n, m} \in Link /\ used[{n, m}] \in Nat
    BY PartnerFacts, RouteInvParts
  <2>2. used[{n, m}] + 1 \in Number
    BY <2>1 DEF Number
  <2> QED BY <1>2, <1>3, <2>2 DEF OnHandshake
<1>4. ASSUME NEW w \in control, OnWelcome(w)
      PROVE  NeighborsAreDirect'
  <2>1. w.to \in Node /\ w.from \in Partner(w.to) /\ w.number \in Number
    BY <1>4, RouteInvParts DEF OnWelcome, Number
  <2> QED BY <1>2, <1>4, <2>1 DEF OnWelcome
<1>5. ASSUME NEW n \in Node, NEW m \in Partner(n), Disconnect(n, m)
      PROVE  NeighborsAreDirect'
  BY <1>5, DropDirect DEF Disconnect, Fail
<1>6. ASSUME NEW n \in Node, Tick(n)
      PROVE  NeighborsAreDirect'
  <2> DEFINE u == [k \in DOMAIN table[n] |-> OncePinged(table[n][k])]
  <2>1. Direct(u)
    BY <1>1, PingsCounted, SameWayDirect
  <2>2. table' = [table EXCEPT ![n] = u]
    BY <1>6 DEF Tick
  <2> HIDE DEF u
  <2>3. \A o \in Node : table'[o] = table[o] \/ table'[o] = u
    BY <1>1, <2>2 DEF TablesInv
  <2> QED BY <2>1, <2>3 DEF NeighborsAreDirect, Direct
<1>7. CASE UNCHANGED table
  BY <1>7 DEF NeighborsAreDirect
<1>8. ASSUME NEW msg \in network, Deliver(msg)
      PROVE  NeighborsAreDirect'
  BY <1>8, DeliverDirect
<1>9. ASSUME NEW n \in Node, (\E id \in Lookup : UpdateRouteTable(n, id)) \/ (\E id \in Target : Send(n, id))
      PROVE  UNCHANGED table
  BY <1>9 DEF UpdateRouteTable, Send
<1>10. (\E w \in control : Lose(w)) \/ UNCHANGED vars => UNCHANGED table
  BY DEF Lose, vars
<1>11. ASSUME NEW w \in control, OnFailed(w)
       PROVE  NeighborsAreDirect'
  <2>1. w.to \in Node /\ w.from \in Partner(w.to)
    BY RouteInvParts
  <2> QED BY <1>11, <2>1, DropDirect DEF OnFailed
<1> QED BY <1>3, <1>4, <1>5, <1>6, <1>7, <1>8, <1>9, <1>10, <1>11 DEF Next

-----------------------------------------------------------------------------
\* Tables, sessions and messages keep their types: what a node keeps or sends is
\* always over a session with a partner, and it never has an entry of itself.
THEOREM RouteTypeCorrect == Spec => []TypeOK
<1>1. RouteInv => TypeOK
  BY DEF RouteInv
<1> QED BY <1>1, RouteInvariant, PTL

\* remove_session leaves no entry over a session that is over, whatever sessions
\* were replaced and whatever was learned over them meanwhile.
THEOREM EntriesGoWithSession == Spec => []EntriesHaveSession
<1>1. RouteInv => EntriesHaveSession
  BY DEF RouteInv
<1> QED BY <1>1, RouteInvariant, PTL

\* proxy_message never sends a message to a node that it came by, nor on to one
\* whose id it has, also where the message turns back.
THEOREM MessagesPassOnwards == Spec => []PassedOnwards
<1>1. RouteInv => PassedOnwards
  BY DEF RouteInv
<1> QED BY <1>1, RouteInvariant, PTL

\* add_route and apply_message(dht_find_node_response): as long as the byte of hops_
\* does not run over, a table takes only the other ends of its sessions for neighbours.
THEOREM NeighborsAreOtherEnds == Spec /\ []HopsFit => []NeighborsAreDirect
<1>1. Init => NeighborsAreDirect
  BY DEF Init, NeighborsAreDirect, ToSet
<1>2. RouteInv /\ HopsFit /\ NeighborsAreDirect /\ [Next]_vars => NeighborsAreDirect'
  BY NextDirect
<1> QED BY <1>1, <1>2, RouteInvariant, PTL DEF Spec
=============================================================================
