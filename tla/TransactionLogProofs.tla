------------------------ MODULE TransactionLogProofs ------------------------
(***************************************************************************)
(* Proofs about the transaction log, for any databases, messages, blocks,  *)
(* nodes, clocks and bounds: what undo_record makes of apply_record, for   *)
(* one message and for all the messages of a block; what no save and no    *)
(* delivery of blocks ever does to the log of a node.                      *)
(***************************************************************************)
EXTENDS LogSync, SequenceTheorems, WellFoundedInduction, FiniteSetTheorems, TLAPS

\* What a column of the balances holds, and what a value of a message can be.
Column == (-Half)..(Half - 1)
Value == 0..(2 * Half - 1)

\* What is asked of a database, and of a message, here.
Balances(f) ==
  /\ f = [key \in DOMAIN f |-> f[key]]
  /\ \A key \in DOMAIN f : f[key] \in [confirmed : Column, proposed : Column]

Database(d) ==
  /\ d = [record |-> d.record, votes |-> d.votes, balance |-> d.balance, rows |-> d.rows,
          error |-> d.error]
  /\ Balances(d.balance)

Valued(m) == m.kind \in {"payment", "issue"} => m.value \in Value

\* The rows that only one message can write.
Unique(rows) == {row \in rows : row[1] \notin {"user", "node", "channel"}}

\* Undoing gives back what there was.
Same(d, e) ==
  /\ Database(d) /\ Database(e)
  /\ d.balance = e.balance /\ Unique(d.rows) = Unique(e.rows) /\ d.error = e.error

\* Votes, and that they are not withdrawn.
Vote == [approved : BOOLEAN, new_member : BOOLEAN]

Votes(f) == f = [key \in DOMAIN f |-> f[key]] /\ \A key \in DOMAIN f : f[key] \in Vote

Approved(f, key) == key \in DOMAIN f /\ f[key].approved

VotesGrow(f, g) == DOMAIN f \subseteq DOMAIN g /\ \A key : Approved(f, key) => Approved(g, key)

\* There are no new approvals, but for one of key if given.
ApprovedAlready(f, g, given, key) ==
  \A k : Approved(g, k) => Approved(f, k) \/ (given /\ k = key)

\* What the messages of a block leave alone.
After(d, e) ==
  /\ Database(e) /\ e.record = d.record
  /\ Votes(d.votes) => Votes(e.votes)
  /\ VotesGrow(d.votes, e.votes)
  /\ \A k : Approved(e.votes, k) => Approved(d.votes, k)

-----------------------------------------------------------------------------
(***************************************************************************)
(* One message.                                                            *)
(***************************************************************************)
\* A value is got back from its column, and what was taken from a column by adding
\* it again, whether or not 64 bits were enough.
LEMMA WidthFacts ==
  /\ Half \in Nat \ {0} /\ 0 \in Column
  /\ \A u \in Value : ToColumn(u) \in Column /\ FromColumn(ToColumn(u)) = u
  /\ \A c \in Column : FromColumn(c) \in Value /\ ToColumn(FromColumn(c)) = c
  /\ \A c \in Column, v \in Value :
       /\ Less(c, v) \in Column /\ Plus(c, v) \in Column
       /\ Plus(Less(c, v), v) = c
       /\ FromColumn(c) >= v => FromColumn(Less(c, v)) = FromColumn(c) - v
<1> USE DEF Column, Value
<1>1. Half \in Nat \ {0}
  BY WidthAssumption
<1>2. \A u \in Value : ToColumn(u) \in Column /\ FromColumn(ToColumn(u)) = u
  BY <1>1 DEF ToColumn, FromColumn
<1>3. \A c \in Column : FromColumn(c) \in Value /\ ToColumn(FromColumn(c)) = c
  BY <1>1 DEF ToColumn, FromColumn
<1>4. ASSUME NEW c \in Column, NEW v \in Value
      PROVE  /\ Less(c, v) \in Column /\ Plus(c, v) \in Column
             /\ Plus(Less(c, v), v) = c
             /\ FromColumn(c) >= v => FromColumn(Less(c, v)) = FromColumn(c) - v
  <2> DEFINE u == FromColumn(c)
             rest == IF u - v < 0 THEN u - v + 2 * Half ELSE u - v
             sum == IF u + v < 2 * Half THEN u + v ELSE u + v - 2 * Half
             back == IF rest + v < 2 * Half THEN rest + v ELSE rest + v - 2 * Half
  <2>1. u \in Value /\ ToColumn(u) = c
    BY <1>3
  <2>2. Less(c, v) = ToColumn(rest) /\ Plus(c, v) = ToColumn(sum)
    BY <1>1, <2>1 DEF Less, Plus
  <2> HIDE DEF u
  <2>3. rest \in Value /\ sum \in Value /\ back = u /\ (u >= v => rest = u - v)
    BY <1>1, <2>1
  <2>4. FromColumn(Less(c, v)) = rest
    BY <1>2, <2>2, <2>3
  <2>5. Plus(Less(c, v), v) = ToColumn(back)
    BY <1>1, <2>3, <2>4 DEF Plus
  <2> QED BY <1>2, <2>1, <2>2, <2>3, <2>4, <2>5 DEF u
<1> QED BY <1>1, <1>2, <1>3, <1>4

LEMMA RowChanged ==
  ASSUME NEW f, Balances(f), NEW key \in DOMAIN f, NEW row \in [confirmed : Column, proposed : Column]
  PROVE  Balances([f EXCEPT ![key] = row])
BY DEF Balances

LEMMA RowPut ==
  ASSUME NEW f, Balances(f), NEW key, NEW row \in [confirmed : Column, proposed : Column]
  PROVE  LET g == Extended(f, key, row)
         IN  /\ Balances(g) /\ DOMAIN g = DOMAIN f \cup {key} /\ g[key] = row
             /\ \A k \in DOMAIN f \ {key} : g[k] = f[k]
<1> DEFINE g == Extended(f, key, row)
<1>1. g = [k \in DOMAIN f \cup {key} |-> IF k = key THEN row ELSE f[k]]
  BY DEF Extended
<1> HIDE DEF g
<1>2. DOMAIN g = DOMAIN f \cup {key} /\ g[key] = row /\ \A k \in DOMAIN f \ {key} : g[k] = f[k]
  BY <1>1
<1>3. g = [k \in DOMAIN g |-> g[k]]
  BY <1>1
<1>4. \A k \in DOMAIN g : g[k] \in [confirmed : Column, proposed : Column]
  BY <1>2 DEF Balances
<1> QED BY <1>2, <1>3, <1>4 DEF Balances, g

LEMMA RowDropped ==
  ASSUME NEW f, Balances(f), NEW key
  PROVE  LET g == Restrict(f, DOMAIN f \ {key})
         IN  /\ Balances(g) /\ DOMAIN g = DOMAIN f \ {key}
             /\ \A k \in DOMAIN g : g[k] = f[k]
BY DEF Balances, Restrict

LEMMA PutThenDrop ==
  ASSUME NEW f, Balances(f), NEW key, key \notin DOMAIN f, NEW row \in [confirmed : Column, proposed : Column]
  PROVE  LET g == Extended(f, key, row)
         IN  Restrict(g, DOMAIN g \ {key}) = f
<1> DEFINE g == Extended(f, key, row)
<1>1. DOMAIN g = DOMAIN f \cup {key} /\ \A k \in DOMAIN f \ {key} : g[k] = f[k]
  BY RowPut
<1> HIDE DEF g
<1>2. DOMAIN g \ {key} = DOMAIN f /\ \A k \in DOMAIN f : g[k] = f[k]
  BY <1>1
<1>3. Restrict(g, DOMAIN f) = [k \in DOMAIN f |-> f[k]]
  BY <1>2 DEF Restrict
<1> QED BY <1>2, <1>3 DEF Balances, g

LEMMA BalanceInserted ==
  ASSUME NEW d, Database(d), NEW w, NEW c, NEW value \in Value
  PROVE  Database(InsertBalance(d, w, c, value))
<1>0. [confirmed |-> 0, proposed |-> ToColumn(value)] \in [confirmed : Column, proposed : Column]
  BY WidthFacts
<1>1. Balances(Extended(d.balance, <<w, c>>, [confirmed |-> 0, proposed |-> ToColumn(value)]))
  BY <1>0, RowPut DEF Database
<1> QED BY <1>1 DEF Database, InsertBalance, Put, Fail

LEMMA BalanceIsNew ==
  ASSUME NEW d, Database(d), NEW w, NEW c, NEW value,
         NEW key, key = <<w, c>>, NEW row, row = [confirmed |-> 0, proposed |-> ToColumn(value)],
         NEW e, e = InsertBalance(d, w, c, value), ~ Failed(e)
  PROVE  key \notin DOMAIN d.balance /\ e.rows = d.rows /\ e.balance = Extended(d.balance, key, row)
BY DEF Database, InsertBalance, Put, Fail, Failed

LEMMA ApplyKeeps ==
  ASSUME NEW d, Database(d), NEW b, NEW m, Valued(m), ~ Refuses(d, m)
  PROVE  Database(Apply(d, b, m))
<1>2. ASSUME NEW e, Database(e), NEW w, NEW c, NEW value \in Value
      PROVE  Database(InsertBalance(e, w, c, value))
  BY <1>2, BalanceInserted
<1>3. CASE m.kind = "payment"
  <2> DEFINE key == Source(m)
             row == [d.balance[key] EXCEPT !.proposed = Less(@, m.value)]
             e == [d EXCEPT !.balance = [@ EXCEPT ![key] = row]]
  <2>1. key \in DOMAIN d.balance /\ FromColumn(d.balance[key].proposed) >= m.value /\ m.value \in Value
    BY <1>3 DEF Refuses, Payable, Valued
  <2>2. row \in [confirmed : Column, proposed : Column]
    BY <2>1, WidthFacts DEF Database, Balances
  <2>3. Balances([d.balance EXCEPT ![key] = row])
    BY <2>1, <2>2, RowChanged DEF Database
  <2>4. Database(e)
    BY <2>3 DEF Database
  <2>5. Apply(d, b, m) = InsertBalance(e, m.target, b.id, m.value)
    BY <1>3 DEF Apply, Database
  <2> HIDE DEF e
  <2> QED BY <1>2, <2>1, <2>4, <2>5
<1>4. CASE m.kind = "issue"
  BY <1>2, <1>4 DEF Apply, Valued
<1>5. CASE m.kind \notin {"payment", "issue"}
  BY <1>5 DEF Apply, InsertVote, Insert, Fail, Database
<1> QED BY <1>3, <1>4, <1>5

LEMMA UndoKeeps ==
  ASSUME NEW d, Database(d), NEW b, NEW m, Valued(m)
  PROVE  Database(Undo(d, b, m))
<1>1. ASSUME NEW e, Database(e), NEW key PROVE Database(Drop(e, key))
  <2>1. Balances(Restrict(e.balance, DOMAIN e.balance \ {key}))
    BY <1>1, RowDropped DEF Database
  <2> QED BY <1>1, <2>1 DEF Database, Drop
<1>2. CASE m.kind = "payment" /\ Source(m) \in DOMAIN d.balance
  <2> DEFINE row == [d.balance[Source(m)] EXCEPT !.proposed = Plus(@, m.value)]
             e == [d EXCEPT !.balance = [@ EXCEPT ![Source(m)] = row]]
  <2>1. row \in [confirmed : Column, proposed : Column]
    BY <1>2, WidthFacts DEF Database, Balances, Valued
  <2>2. Balances([d.balance EXCEPT ![Source(m)] = row])
    BY <1>2, <2>1, RowChanged DEF Database
  <2>3. Database(e)
    BY <2>2 DEF Database
  <2>4. Undo(d, b, m) = Drop(e, <<m.target, b.id>>)
    BY <1>2 DEF Undo, Database
  <2> HIDE DEF e
  <2> QED BY <1>1, <2>3, <2>4
<1>3. CASE m.kind = "payment" /\ Source(m) \notin DOMAIN d.balance
  BY <1>3 DEF Undo, Fail, Database
<1>4. CASE m.kind = "issue"
  BY <1>1, <1>4 DEF Undo
<1>5. CASE m.kind \notin {"payment", "issue"}
  BY <1>5 DEF Undo, Database
<1> QED BY <1>2, <1>3, <1>4, <1>5

\* undo_record is the inverse of apply_record, on the balances and on the rows that
\* only one message can write.
LEMMA UndoRestores ==
  ASSUME NEW d, Database(d), ~ Failed(d), NEW b, NEW m, Valued(m), ~ Refuses(d, m),
         ~ Failed(Apply(d, b, m)), NEW e, Same(e, Apply(d, b, m))
  PROVE  Same(Undo(e, b, m), d)
<1> DEFINE s == Apply(d, b, m)
<1>1. /\ Database(s) /\ Database(e) /\ e.balance = s.balance /\ Unique(e.rows) = Unique(s.rows)
      /\ e.error = s.error /\ s.error = "" /\ d.error = ""
  BY ApplyKeeps DEF Same, Failed
<1>2. Database(Undo(e, b, m))
  BY <1>1, UndoKeeps
<1>3. CASE m.kind = "payment"
  <2> DEFINE key == Source(m)
             new == <<m.target, b.id>>
             row == [d.balance[key] EXCEPT !.proposed = Less(@, m.value)]
             taken == [d.balance EXCEPT ![key] = row]
             f == [d EXCEPT !.balance = taken]
             given == [confirmed |-> 0, proposed |-> ToColumn(m.value)]
  <2>1. key \in DOMAIN d.balance /\ FromColumn(d.balance[key].proposed) >= m.value /\ m.value \in Value
    BY <1>3 DEF Refuses, Payable, Valued
  <2>2. row \in [confirmed : Column, proposed : Column]
    BY <2>1, WidthFacts DEF Database, Balances
  <2>3. Balances(taken)
    BY <2>1, <2>2, RowChanged DEF Database
  <2>4. Database(f) /\ f.balance = taken /\ f.rows = d.rows /\ f.error = ""
    <3>1. Balances(taken)
      BY <2>3
    <3> HIDE DEF taken
    <3>2. f = [record |-> d.record, votes |-> d.votes, balance |-> taken, rows |-> d.rows,
               error |-> d.error]
      BY DEF Database
    <3> HIDE DEF f
    <3> QED BY <1>1, <3>1, <3>2 DEF Database
  <2>5. s = InsertBalance(f, m.target, b.id, m.value)
    BY <1>3 DEF Apply, Database
  <2> HIDE DEF s, f
  <2>6. new \notin DOMAIN taken /\ s.rows = d.rows /\ s.balance = Extended(taken, new, given)
    <3> HIDE DEF taken
    <3>1. ~ Failed(s)
      BY <1>1 DEF Failed
    <3>2. /\ new \notin DOMAIN f.balance /\ s.rows = f.rows
          /\ s.balance = Extended(f.balance, new, given)
      <4>1. new = <<m.target, b.id>> /\ given = [confirmed |-> 0, proposed |-> ToColumn(m.value)]
        OBVIOUS
      <4>2. Database(f)
        BY <2>4
      <4> HIDE DEF new, given
      <4> QED BY <2>5, <3>1, <4>1, <4>2, BalanceIsNew
    <3> QED BY <2>4, <3>2
  <2>7. /\ DOMAIN s.balance = DOMAIN taken \cup {new}
        /\ \A k \in DOMAIN taken : s.balance[k] = taken[k]
    <3>1. given \in [confirmed : Column, proposed : Column]
      BY <2>1, WidthFacts
    <3> HIDE DEF taken, given, new
    <3>2. LET g == Extended(taken, new, given)
          IN  DOMAIN g = DOMAIN taken \cup {new} /\ \A k \in DOMAIN taken \ {new} : g[k] = taken[k]
      BY <2>3, <3>1, RowPut
    <3> QED BY <2>6, <3>2
  <2>8. DOMAIN taken = DOMAIN d.balance /\ key # new /\ e.balance[key] = row
    BY <1>1, <2>1, <2>6, <2>7
  <2>9. [e.balance[key] EXCEPT !.proposed = Plus(@, m.value)] = d.balance[key]
    <3>1. d.balance[key] \in [confirmed : Column, proposed : Column]
      BY <2>1 DEF Database, Balances
    <3> DEFINE old == d.balance[key]
    <3>2. old = [confirmed |-> old.confirmed, proposed |-> old.proposed]
          /\ old.proposed \in Column /\ m.value \in Value
      BY <2>1, <3>1
    <3> HIDE DEF old
    <3>3. [[old EXCEPT !.proposed = Less(@, m.value)] EXCEPT !.proposed = Plus(@, m.value)]
          = [confirmed |-> old.confirmed, proposed |-> Plus(Less(old.proposed, m.value), m.value)]
      <4> DEFINE less == [old EXCEPT !.proposed = Less(@, m.value)]
      <4>1. less = [confirmed |-> old.confirmed, proposed |-> Less(old.proposed, m.value)]
        BY <3>2
      <4> HIDE DEF less
      <4>2. [less EXCEPT !.proposed = Plus(@, m.value)]
            = [confirmed |-> old.confirmed, proposed |-> Plus(Less(old.proposed, m.value), m.value)]
        BY <4>1
      <4> QED BY <4>2 DEF less
    <3>4. Plus(Less(old.proposed, m.value), m.value) = old.proposed
      BY <3>2, WidthFacts
    <3>5. [[old EXCEPT !.proposed = Less(@, m.value)] EXCEPT !.proposed = Plus(@, m.value)] = old
      BY <3>2, <3>3, <3>4
    <3> QED BY <2>8, <3>5 DEF old
  <2>10. /\ Undo(e, b, m).balance
              = Restrict([e.balance EXCEPT ![key] = d.balance[key]], DOMAIN e.balance \ {new})
         /\ Undo(e, b, m).rows = e.rows /\ Undo(e, b, m).error = e.error
    BY <1>1, <1>3, <2>1, <2>7, <2>8, <2>9 DEF Undo, Drop, Database
  <2>11. Restrict([e.balance EXCEPT ![key] = d.balance[key]], DOMAIN e.balance \ {new}) = d.balance
    <3>1. DOMAIN e.balance \ {new} = DOMAIN d.balance
      BY <1>1, <2>6, <2>7, <2>8
    <3>2. \A k \in DOMAIN d.balance : [e.balance EXCEPT ![key] = d.balance[key]][k] = d.balance[k]
      BY <1>1, <2>1, <2>7, <2>8
    <3> QED BY <3>1, <3>2 DEF Restrict, Database, Balances
  <2> QED BY <1>1, <1>2, <2>6, <2>10, <2>11 DEF Same
<1>4. CASE m.kind = "issue"
  <2> DEFINE new == <<m.wallet, b.id>>
             given == [confirmed |-> 0, proposed |-> ToColumn(m.value)]
  <2>1. s = InsertBalance(d, m.wallet, b.id, m.value) /\ m.value \in Value
    BY <1>4 DEF Apply, Valued
  <2> HIDE DEF s
  <2>2. new \notin DOMAIN d.balance /\ s.rows = d.rows /\ s.balance = Extended(d.balance, new, given)
    <3>1. ~ Failed(s)
      BY <1>1 DEF Failed
    <3>2. new = <<m.wallet, b.id>> /\ given = [confirmed |-> 0, proposed |-> ToColumn(m.value)]
      OBVIOUS
    <3> HIDE DEF new, given
    <3> QED BY <2>1, <3>1, <3>2, BalanceIsNew
  <2>3. Restrict(s.balance, DOMAIN s.balance \ {new}) = d.balance
    <3>1. given \in [confirmed : Column, proposed : Column]
      BY <2>1, WidthFacts
    <3> HIDE DEF given, new
    <3> QED BY <2>2, <3>1, PutThenDrop DEF Database
  <2>4. /\ Undo(e, b, m).balance = Restrict(e.balance, DOMAIN e.balance \ {new})
        /\ Undo(e, b, m).rows = e.rows /\ Undo(e, b, m).error = e.error
    BY <1>1, <1>4 DEF Undo, Drop, Database
  <2> QED BY <1>1, <1>2, <2>2, <2>3, <2>4 DEF Same
<1>5. CASE m.kind \notin {"payment", "issue"}
  <2>1. s.balance = d.balance /\ e.balance = d.balance
    BY <1>1, <1>5 DEF Apply, InsertVote, Insert, Fail, Database
  <2>2. Undo(e, b, m).balance = d.balance /\ Undo(e, b, m).error = ""
    BY <1>1, <1>5, <2>1 DEF Undo, Database
  <2>3. CASE m.kind \in {"user", "node", "channel"}
    <3>1. \A row \in RowsOf(b, m) : row[1] \in {"user", "node", "channel"}
      BY <2>3 DEF RowsOf
    <3>2. s.rows = d.rows \cup RowsOf(b, m)
      BY <1>1, <2>3 DEF Apply, InsertVote, Insert, Fail, Database
    <3>3. Undo(e, b, m).rows \in {e.rows, e.rows \ RowsOf(b, m)}
      BY <1>1, <2>3 DEF Undo, Database
    <3>4. Unique(Undo(e, b, m).rows) = Unique(d.rows)
      <4> HIDE DEF s
      <4>1. Unique(s.rows) = Unique(d.rows)
        BY <3>1, <3>2 DEF Unique
      <4>2. Unique(Undo(e, b, m).rows) = Unique(e.rows)
        BY <3>1, <3>3 DEF Unique
      <4> QED BY <1>1, <4>1, <4>2
    <3> QED BY <1>1, <1>2, <2>2, <3>4 DEF Same
  <2>4. CASE m.kind \notin {"user", "node", "channel"}
    <3>1. s.rows = d.rows \cup RowsOf(b, m) /\ RowsOf(b, m) \cap d.rows = {}
      BY <1>1, <1>5, <2>4 DEF Apply, Insert, Fail, Database
    <3>2. Undo(e, b, m).rows = e.rows \ RowsOf(b, m)
      BY <1>1, <1>5, <2>4 DEF Undo, Database
    <3>3. Unique(Undo(e, b, m).rows) = Unique(d.rows)
      <4>1. Unique(Undo(e, b, m).rows) = Unique(e.rows) \ RowsOf(b, m)
        BY <3>2 DEF Unique
      <4>2. Unique(s.rows) \ RowsOf(b, m) = Unique(d.rows)
        BY <3>1 DEF Unique
      <4> QED BY <1>1, <4>1, <4>2
    <3> QED BY <1>1, <1>2, <2>2, <3>3 DEF Same
  <2> QED BY <2>3, <2>4
<1> QED BY <1>3, <1>4, <1>5

-----------------------------------------------------------------------------
(***************************************************************************)
(* All messages of a block.  The recursive functions have values: there is *)
(* no shortest sequence of messages for which they had none.               *)
(***************************************************************************)
LEMMA Least ==
  ASSUME NEW K, K \subseteq Nat, K # {}
  PROVE  \E k \in K : \A j \in K : k <= j
<1>1. PICK k \in K : \A j \in K : ~ (<<j, k>> \in OpToRel(<, Nat))
  BY NatLessThanWellFounded, WFMin
<1>2. \A j \in K : ~ (j < k)
  BY <1>1 DEF OpToRel
<1> QED BY <1>2

UndoAll(d, b, messages) == ForEach(d, b, messages, Undo)
UndoStep(e, b, m) == IF Failed(e) THEN e ELSE Undo(e, b, m)
ConsensusStep(e, b, m) == IF Failed(e) THEN e ELSE Consensus(e, b, m)
ProcessStep(r, b, m) ==
  IF Failed(r.db) \/ ~ r.completed THEN r
  ELSE IF Refuses(r.db, m)
  THEN [r EXCEPT !.completed = FALSE, !.db = UndoAll(@, b, r.undo)]
  ELSE [db |-> Apply(r.db, b, m), completed |-> TRUE, undo |-> <<m>> \o r.undo]

UndoWay(u, d, b, messages) ==
  /\ u[0] = d
  /\ \A k \in 1..Len(messages) : u[k] = UndoStep(u[k - 1], b, messages[k])
  /\ UndoAll(d, b, messages) = u[Len(messages)]

LEMMA UndoUnfolds ==
  ASSUME NEW d, NEW b, NEW messages, Len(messages) \in Nat
  PROVE  \E u : UndoWay(u, d, b, messages)
<1> DEFINE Step(u, k) == IF k = 0 THEN d ELSE UndoStep(u[k - 1], b, messages[k])
           Without == {m \in Nat : ~ \E u : u = [k \in 0..m |-> Step(u, k)]}
<1>1. Without = {}
  <2> SUFFICES ASSUME Without # {} PROVE FALSE
    OBVIOUS
  <2>1. PICK m \in Without : \A j \in Without : m <= j
    BY Least
  <2>2. CASE m = 0
    <3> DEFINE u == [k \in 0..0 |-> d]
    <3>1. u = [k \in 0..m |-> Step(u, k)]
      BY <2>2
    <3> QED BY <3>1, <2>1
  <2>3. CASE m # 0
    <3>1. m - 1 \in Nat /\ m - 1 \notin Without
      <4>1. m - 1 \in Nat /\ ~ (m <= m - 1)
        BY <2>1, <2>3
      <4> HIDE DEF Without
      <4> QED BY <4>1, <2>1
    <3>2. PICK u : u = [k \in 0..(m - 1) |-> Step(u, k)]
      BY <3>1
    <3> DEFINE v == [k \in 0..m |-> IF k = m THEN Step(u, m) ELSE u[k]]
    <3>3. \A k \in 0..m : v[k] = Step(v, k)
      <4> TAKE k \in 0..m
      <4>1. k # 0 => k - 1 \in 0..(m - 1) /\ v[k - 1] = u[k - 1]
        BY <2>1
      <4>2. k # m => k \in 0..(m - 1)
        BY <2>1
      <4>3. k # m => u[k] = Step(u, k)
        <5> HIDE DEF Step
        <5> QED BY <4>2, <3>2
      <4> QED BY <4>1, <4>2, <4>3, <2>1
    <3>4. v = [k \in 0..m |-> Step(v, k)]
      BY <3>3
    <3> QED BY <3>4, <2>1
  <2> QED BY <2>2, <2>3
<1>2. \E u : u = [k \in 0..Len(messages) |-> Step(u, k)]
  BY <1>1
<1> DEFINE after == CHOOSE u : u = [k \in 0..Len(messages) |-> Step(u, k)]
<1>3. after = [k \in 0..Len(messages) |-> Step(after, k)]
  BY <1>2
<1>4. UndoAll(d, b, messages) = after[Len(messages)]
  BY DEF UndoAll, ForEach, UndoStep
<1>5. after[0] = d /\ \A k \in 1..Len(messages) : after[k] = UndoStep(after[k - 1], b, messages[k])
  <2>1. 0 \in 0..Len(messages) /\ \A k \in 1..Len(messages) : k \in 0..Len(messages) /\ k # 0
    OBVIOUS
  <2> HIDE DEF after
  <2> QED BY <2>1, <1>3
<1> HIDE DEF after
<1>6. UndoWay(after, d, b, messages)
  BY <1>4, <1>5 DEF UndoWay
<1> QED BY <1>6

LEMMA ConsensusUnfolds ==
  ASSUME NEW d, NEW b, Len(b.messages) \in Nat
  PROVE  \E u :
           /\ u[0] = d
           /\ \A k \in 1..Len(b.messages) : u[k] = ConsensusStep(u[k - 1], b, b.messages[k])
           /\ consensus_records(d, b) = u[Len(b.messages)]
<1> DEFINE Step(u, k) == IF k = 0 THEN d ELSE ConsensusStep(u[k - 1], b, b.messages[k])
           Without == {m \in Nat : ~ \E u : u = [k \in 0..m |-> Step(u, k)]}
<1>1. Without = {}
  <2> SUFFICES ASSUME Without # {} PROVE FALSE
    OBVIOUS
  <2>1. PICK m \in Without : \A j \in Without : m <= j
    BY Least
  <2>2. CASE m = 0
    <3> DEFINE u == [k \in 0..0 |-> d]
    <3>1. u = [k \in 0..m |-> Step(u, k)]
      BY <2>2
    <3> QED BY <3>1, <2>1
  <2>3. CASE m # 0
    <3>1. m - 1 \in Nat /\ m - 1 \notin Without
      <4>1. m - 1 \in Nat /\ ~ (m <= m - 1)
        BY <2>1, <2>3
      <4> HIDE DEF Without
      <4> QED BY <4>1, <2>1
    <3>2. PICK u : u = [k \in 0..(m - 1) |-> Step(u, k)]
      BY <3>1
    <3> DEFINE v == [k \in 0..m |-> IF k = m THEN Step(u, m) ELSE u[k]]
    <3>3. \A k \in 0..m : v[k] = Step(v, k)
      <4> TAKE k \in 0..m
      <4>1. k # 0 => k - 1 \in 0..(m - 1) /\ v[k - 1] = u[k - 1]
        BY <2>1
      <4>2. k # m => k \in 0..(m - 1)
        BY <2>1
      <4>3. k # m => u[k] = Step(u, k)
        <5> HIDE DEF Step
        <5> QED BY <4>2, <3>2
      <4> QED BY <4>1, <4>2, <4>3, <2>1
    <3>4. v = [k \in 0..m |-> Step(v, k)]
      BY <3>3
    <3> QED BY <3>4, <2>1
  <2> QED BY <2>2, <2>3
<1>2. \E u : u = [k \in 0..Len(b.messages) |-> Step(u, k)]
  BY <1>1
<1> DEFINE after == CHOOSE u : u = [k \in 0..Len(b.messages) |-> Step(u, k)]
<1>3. after = [k \in 0..Len(b.messages) |-> Step(after, k)]
  BY <1>2
<1>4. consensus_records(d, b) = after[Len(b.messages)]
  BY DEF consensus_records, ForEach, ConsensusStep
<1>5. after[0] = d /\ \A k \in 1..Len(b.messages) : after[k] = ConsensusStep(after[k - 1], b, b.messages[k])
  <2>1. 0 \in 0..Len(b.messages) /\ \A k \in 1..Len(b.messages) : k \in 0..Len(b.messages) /\ k # 0
    OBVIOUS
  <2> HIDE DEF after
  <2> QED BY <2>1, <1>3
<1> HIDE DEF after
<1> QED BY <1>4, <1>5

LEMMA ProcessUnfolds ==
  ASSUME NEW d, NEW b, Len(b.messages) \in Nat
  PROVE  \E u :
           /\ u[0] = [db |-> d, completed |-> TRUE, undo |-> <<>>]
           /\ \A k \in 1..Len(b.messages) : u[k] = ProcessStep(u[k - 1], b, b.messages[k])
           /\ process_records(d, b) = u[Len(b.messages)]
<1> DEFINE Step(u, k) == IF k = 0 THEN [db |-> d, completed |-> TRUE, undo |-> <<>>] ELSE ProcessStep(u[k - 1], b, b.messages[k])
           Without == {m \in Nat : ~ \E u : u = [k \in 0..m |-> Step(u, k)]}
<1>1. Without = {}
  <2> SUFFICES ASSUME Without # {} PROVE FALSE
    OBVIOUS
  <2>1. PICK m \in Without : \A j \in Without : m <= j
    BY Least
  <2>2. CASE m = 0
    <3> DEFINE u == [k \in 0..0 |-> [db |-> d, completed |-> TRUE, undo |-> <<>>]]
    <3>1. u = [k \in 0..m |-> Step(u, k)]
      BY <2>2
    <3> QED BY <3>1, <2>1
  <2>3. CASE m # 0
    <3>1. m - 1 \in Nat /\ m - 1 \notin Without
      <4>1. m - 1 \in Nat /\ ~ (m <= m - 1)
        BY <2>1, <2>3
      <4> HIDE DEF Without
      <4> QED BY <4>1, <2>1
    <3>2. PICK u : u = [k \in 0..(m - 1) |-> Step(u, k)]
      BY <3>1
    <3> DEFINE v == [k \in 0..m |-> IF k = m THEN Step(u, m) ELSE u[k]]
    <3>3. \A k \in 0..m : v[k] = Step(v, k)
      <4> TAKE k \in 0..m
      <4>1. k # 0 => k - 1 \in 0..(m - 1) /\ v[k - 1] = u[k - 1]
        BY <2>1
      <4>2. k # m => k \in 0..(m - 1)
        BY <2>1
      <4>3. k # m => u[k] = Step(u, k)
        <5> HIDE DEF Step
        <5> QED BY <4>2, <3>2
      <4> QED BY <4>1, <4>2, <4>3, <2>1
    <3>4. v = [k \in 0..m |-> Step(v, k)]
      BY <3>3
    <3> QED BY <3>4, <2>1
  <2> QED BY <2>2, <2>3
<1>2. \E u : u = [k \in 0..Len(b.messages) |-> Step(u, k)]
  BY <1>1
<1> DEFINE after == CHOOSE u : u = [k \in 0..Len(b.messages) |-> Step(u, k)]
<1>3. after = [k \in 0..Len(b.messages) |-> Step(after, k)]
  BY <1>2
<1>4. process_records(d, b) = after[Len(b.messages)]
  BY DEF process_records, ProcessStep, UndoAll
<1>5. after[0] = [db |-> d, completed |-> TRUE, undo |-> <<>>] /\ \A k \in 1..Len(b.messages) : after[k] = ProcessStep(after[k - 1], b, b.messages[k])
  <2>1. 0 \in 0..Len(b.messages) /\ \A k \in 1..Len(b.messages) : k \in 0..Len(b.messages) /\ k # 0
    OBVIOUS
  <2> HIDE DEF after
  <2> QED BY <2>1, <1>3
<1> HIDE DEF after
<1> QED BY <1>4, <1>5

-----------------------------------------------------------------------------
(***************************************************************************)
(* What holds of the blocks.                                               *)
(***************************************************************************)
\* Undoing the messages that led from s[0] to s[k], the last one first, leads back.
LEMMA UndoLeadsBack ==
  ASSUME NEW b, NEW k \in Nat, NEW s, NEW M, NEW undo, Len(undo) = k,
         \A i \in 0..k : Database(s[i]) /\ ~ Failed(s[i]),
         \A i \in 1..k : Valued(M[i]) /\ ~ Refuses(s[i - 1], M[i]) /\ s[i] = Apply(s[i - 1], b, M[i]),
         \A j \in 1..k : undo[j] = M[k - j + 1]
  PROVE  Same(UndoAll(s[k], b, undo), s[0])
<1>1. PICK u :
        /\ u[0] = s[k]
        /\ \A j \in 1..k : u[j] = UndoStep(u[j - 1], b, undo[j])
        /\ UndoAll(s[k], b, undo) = u[k]
  <2>1. \E u : UndoWay(u, s[k], b, undo)
    BY UndoUnfolds
  <2> QED BY <2>1 DEF UndoWay
<1> DEFINE Wrong == {j \in 0..k : ~ Same(u[j], s[k - j])}
<1>2. Wrong = {}
  <2> SUFFICES ASSUME Wrong # {} PROVE FALSE
    OBVIOUS
  <2>1. PICK m \in Wrong : \A j \in Wrong : m <= j
    <3>1. Wrong \subseteq Nat
      OBVIOUS
    <3> QED BY <3>1, Least
  <2>2. m \in 0..k /\ ~ Same(u[m], s[k - m])
    BY <2>1
  <2>3. Same(u[0], s[k - 0])
    BY <1>1 DEF Same
  <2>4. m # 0
    BY <2>2, <2>3
  <2>5. /\ m \in 1..k /\ m - 1 \in 0..k /\ m - 1 \notin Wrong /\ k - m + 1 \in 1..k
        /\ k - m \in 0..k /\ (k - m + 1) - 1 = k - m /\ k - (m - 1) = k - m + 1
    <3>1. m \in 1..k
      BY <2>2, <2>4
    <3>2. m - 1 \in 0..k /\ ~ (m <= m - 1) /\ k - m + 1 \in 1..k /\ k - m \in 0..k
      BY <3>1
    <3>3. (k - m + 1) - 1 = k - m /\ k - (m - 1) = k - m + 1
      BY <3>1
    <3> HIDE DEF Wrong
    <3> QED BY <3>1, <3>2, <3>3, <2>1
  <2> DEFINE d == s[k - m]
             message == M[k - m + 1]
  <2>6. Same(u[m - 1], s[k - m + 1])
    BY <2>5
  <2>7. /\ Database(d) /\ ~ Failed(d) /\ Valued(message) /\ ~ Refuses(d, message)
        /\ s[k - m + 1] = Apply(d, b, message) /\ ~ Failed(s[k - m + 1])
    BY <2>5
  <2>8. ~ Failed(u[m - 1])
    BY <2>6, <2>7 DEF Same, Failed
  <2>9. u[m] = Undo(u[m - 1], b, message)
    BY <1>1, <2>5, <2>8 DEF UndoStep
  <2> HIDE DEF d, message
  <2>10. Same(u[m], d)
    BY <2>6, <2>7, <2>9, UndoRestores
  <2> QED BY <2>2, <2>10 DEF d
<1>3. Same(u[k], s[k - k]) /\ k - k = 0
  BY <1>2
<1> QED BY <1>1, <1>3

Valid(b) == b.messages \in Seq(ToSet(b.messages)) /\ \A m \in ToSet(b.messages) : Valued(m)

\* How far process_records has come.
LEMMA ProcessSteps ==
  ASSUME NEW d, Database(d), ~ Failed(d), NEW b, Valid(b)
  PROVE  LET n == Len(b.messages)
             M == b.messages
             p == process_records(d, b)
         IN  \/ p.completed /\ Failed(p.db)
             \/ ~ p.completed /\ Same(p.db, d)
             \/ /\ p.completed
                /\ \E s : /\ s[0] = d /\ s[n] = p.db
                          /\ \A i \in 0..n : Database(s[i]) /\ ~ Failed(s[i])
                          /\ \A i \in 1..n : /\ Valued(M[i]) /\ ~ Refuses(s[i - 1], M[i])
                                             /\ s[i] = Apply(s[i - 1], b, M[i])
<1> DEFINE n == Len(b.messages)
           M == b.messages
<1>1. n \in Nat /\ M \in Seq(ToSet(M)) /\ \A i \in 1..n : Valued(M[i])
  <2>1. n \in Nat /\ DOMAIN M = 1..n /\ M \in Seq(ToSet(M))
    BY LenProperties DEF Valid
  <2> QED BY <2>1 DEF Valid, ToSet
<1>2. PICK r :
        /\ r[0] = [db |-> d, completed |-> TRUE, undo |-> <<>>]
        /\ \A k \in 1..n : r[k] = ProcessStep(r[k - 1], b, M[k])
        /\ process_records(d, b) = r[n]
  BY <1>1, ProcessUnfolds
<1> HIDE DEF n, M
<1> DEFINE Way(k) ==
             /\ \A i \in 0..k : Database(r[i].db) /\ ~ Failed(r[i].db)
             /\ \A i \in 1..k : /\ Valued(M[i]) /\ ~ Refuses(r[i - 1].db, M[i])
                                /\ r[i].db = Apply(r[i - 1].db, b, M[i])
             /\ r[k].undo \in Seq(ToSet(M)) /\ Len(r[k].undo) = k
             /\ \A j \in 1..k : r[k].undo[j] = M[k - j + 1]
           Good(k) ==
             /\ r[k] = [db |-> r[k].db, completed |-> r[k].completed, undo |-> r[k].undo]
             /\ r[k].completed \in BOOLEAN
             /\ IF r[k].completed THEN Failed(r[k].db) \/ Way(k) ELSE Same(r[k].db, d)
           Wrong == {k \in 0..n : ~ Good(k)}
<1>3. Wrong = {}
  <2> SUFFICES ASSUME Wrong # {} PROVE FALSE
    OBVIOUS
  <2>1. PICK m \in Wrong : \A j \in Wrong : m <= j
    <3>1. Wrong \subseteq Nat
      BY <1>1
    <3> QED BY <3>1, Least
  <2>2. m \in 0..n /\ ~ Good(m)
    BY <2>1
  <2>3. Good(0)
    BY <1>2, EmptySeq
  <2>4. m # 0
    BY <2>2, <2>3
  <2>5. m \in 1..n /\ m - 1 \in 0..n /\ m - 1 \in Nat /\ m - 1 \notin Wrong
    <3>1. m \in 1..n /\ m - 1 \in 0..n /\ m - 1 \in Nat /\ ~ (m <= m - 1)
      BY <2>2, <2>4, <1>1
    <3> HIDE DEF Wrong
    <3> QED BY <3>1, <2>1
  <2> DEFINE q == r[m - 1]
             message == M[m]
  <2>6. Good(m - 1)
    BY <2>5
  <2>7. r[m] = ProcessStep(q, b, message) /\ Valued(message)
    BY <1>1, <1>2, <2>5
  <2>8. CASE r[m] = q /\ (Failed(q.db) \/ ~ q.completed)
    BY <2>2, <2>6, <2>8
  <2>9. CASE ~ Failed(q.db) /\ q.completed /\ Refuses(q.db, message)
    <3>1. r[m] = [db |-> UndoAll(q.db, b, q.undo), completed |-> FALSE, undo |-> q.undo]
      BY <2>6, <2>7, <2>9 DEF ProcessStep
    <3>2. Way(m - 1)
      BY <2>6, <2>9
    <3>3. Same(UndoAll(q.db, b, q.undo), r[0].db)
      <4> DEFINE s == [i \in 0..(m - 1) |-> r[i].db]
      <4>1. s[0] = r[0].db /\ s[m - 1] = q.db
        BY <2>5
      <4>2. /\ \A i \in 0..(m - 1) : Database(s[i]) /\ ~ Failed(s[i])
            /\ \A i \in 1..(m - 1) : /\ Valued(M[i]) /\ ~ Refuses(s[i - 1], M[i])
                                     /\ s[i] = Apply(s[i - 1], b, M[i])
        <5>1. \A i \in 1..(m - 1) : i \in 0..(m - 1) /\ i - 1 \in 0..(m - 1)
          BY <2>5
        <5> QED BY <3>2, <5>1
      <4>3. Len(q.undo) = m - 1 /\ \A j \in 1..(m - 1) : q.undo[j] = M[(m - 1) - j + 1]
        BY <3>2
      <4> DEFINE k == m - 1
                 undo == q.undo
      <4>4. /\ k \in Nat /\ Len(undo) = k /\ \A j \in 1..k : undo[j] = M[k - j + 1]
            /\ \A i \in 0..k : Database(s[i]) /\ ~ Failed(s[i])
            /\ \A i \in 1..k : Valued(M[i]) /\ ~ Refuses(s[i - 1], M[i]) /\ s[i] = Apply(s[i - 1], b, M[i])
        BY <2>5, <4>2, <4>3
      <4> HIDE DEF s, k, undo
      <4>5. Same(UndoAll(s[k], b, undo), s[0])
        BY <4>4, UndoLeadsBack
      <4> QED BY <4>1, <4>5 DEF k, undo
    <3>4. Same(r[m].db, d) /\ ~ r[m].completed
      BY <1>2, <3>1, <3>3
    <3> QED BY <2>2, <3>1, <3>4
  <2>10. CASE ~ Failed(q.db) /\ q.completed /\ ~ Refuses(q.db, message)
    <3>1. r[m] = [db |-> Apply(q.db, b, message), completed |-> TRUE, undo |-> <<message>> \o q.undo]
      BY <2>7, <2>10 DEF ProcessStep
    <3>2. Way(m - 1)
      BY <2>6, <2>10
    <3>3. Database(q.db)
      BY <2>5, <3>2
    <3>4. Database(r[m].db)
      BY <2>7, <2>10, <3>1, <3>3, ApplyKeeps
    <3>5. message \in ToSet(M)
      <4>1. DOMAIN M = 1..n
        BY <1>1, LenProperties DEF n, M
      <4> QED BY <2>5, <4>1 DEF ToSet
    <3>6. /\ r[m].undo \in Seq(ToSet(M)) /\ Len(r[m].undo) = m
          /\ \A j \in 1..m : r[m].undo[j] = IF j <= 1 THEN message ELSE q.undo[j - 1]
      <4> DEFINE one == <<message>>
                 undo == q.undo
      <4>1. one \in Seq(ToSet(M)) /\ Len(one) = 1 /\ one[1] = message
        BY <3>5
      <4>2. undo \in Seq(ToSet(M)) /\ Len(undo) = m - 1
        BY <3>2
      <4> HIDE DEF one, undo
      <4>3. /\ one \o undo \in Seq(ToSet(M)) /\ Len(one \o undo) = Len(one) + Len(undo)
            /\ \A j \in 1..(Len(one) + Len(undo)) :
                 (one \o undo)[j] = IF j <= Len(one) THEN one[j] ELSE undo[j - Len(one)]
        BY <4>1, <4>2, ConcatProperties
      <4>4. r[m].undo = one \o undo /\ 1 + (m - 1) = m
        BY <2>5, <3>1 DEF one, undo
      <4>5. \A j \in 1..m : (one \o undo)[j] = IF j <= 1 THEN message ELSE undo[j - 1]
        BY <4>1, <4>2, <4>3, <4>4, <2>5
      <4> QED BY <4>1, <4>2, <4>3, <4>4, <4>5 DEF undo
    <3>7. \A j \in 1..m : r[m].undo[j] = M[m - j + 1]
      <4> TAKE j \in 1..m
      <4>1. CASE j = 1
        BY <2>5, <3>6, <4>1
      <4>2. CASE j # 1
        <5>1. j - 1 \in 1..(m - 1) /\ (m - 1) - (j - 1) + 1 = m - j + 1 /\ ~ (j <= 1)
          BY <2>5, <4>2
        <5> QED BY <3>2, <3>6, <5>1
      <4> QED BY <4>1, <4>2
    <3>8. CASE ~ Failed(r[m].db)
      <4>1. \A i \in 0..m : i \in 0..(m - 1) \/ i = m
        BY <2>5
      <4>2. \A i \in 1..m : i \in 1..(m - 1) \/ i = m
        BY <2>5
      <4>3. r[m].db = Apply(r[m - 1].db, b, M[m]) /\ Valued(M[m]) /\ ~ Refuses(r[m - 1].db, M[m])
        BY <2>7, <2>10, <3>1
      <4>4. \A i \in 0..m : Database(r[i].db) /\ ~ Failed(r[i].db)
        BY <3>2, <3>4, <3>8, <4>1
      <4>5. \A i \in 1..m : /\ Valued(M[i]) /\ ~ Refuses(r[i - 1].db, M[i])
                            /\ r[i].db = Apply(r[i - 1].db, b, M[i])
        BY <3>2, <4>2, <4>3
      <4>6. Way(m)
        BY <3>6, <3>7, <4>4, <4>5
      <4> HIDE DEF Way
      <4> QED BY <2>2, <3>1, <4>6
    <3>9. CASE Failed(r[m].db)
      BY <2>2, <3>1, <3>9
    <3> QED BY <3>8, <3>9
  <2> QED BY <2>6, <2>7, <2>8, <2>9, <2>10 DEF ProcessStep
<1>4. Good(n)
  <2>1. n \in 0..n
    BY <1>1
  <2> HIDE DEF Good
  <2> QED BY <2>1, <1>3
<1>5. CASE ~ r[n].completed
  BY <1>2, <1>4, <1>5 DEF n
<1>6. CASE r[n].completed /\ Failed(r[n].db)
  BY <1>2, <1>6 DEF n
<1>7. CASE r[n].completed /\ ~ Failed(r[n].db)
  <2> DEFINE s == [i \in 0..n |-> r[i].db]
  <2>1. Way(n)
    BY <1>4, <1>7
  <2>2. s[0] = d /\ s[n] = process_records(d, b).db
    BY <1>1, <1>2
  <2>3. \A i \in 1..n : i \in 0..n /\ i - 1 \in 0..n
    BY <1>1
  <2>4. /\ \A i \in 0..n : Database(s[i]) /\ ~ Failed(s[i])
        /\ \A i \in 1..n : /\ Valued(M[i]) /\ ~ Refuses(s[i - 1], M[i])
                           /\ s[i] = Apply(s[i - 1], b, M[i])
    BY <2>1, <2>3
  <2> HIDE DEF s
  <2> QED BY <1>2, <1>7, <2>2, <2>4 DEF n, M
<1> QED BY <1>5, <1>6, <1>7

\* process_records: a block with a message that is refused leaves every balance,
\* and every row that only it could write, as if it had not been tried; and undoing
\* what was applied before that message never fails.
THEOREM RefusedBlockLeavesNothing ==
  ASSUME NEW d, Database(d), ~ Failed(d), NEW b, Valid(b), ~ process_records(d, b).completed
  PROVE  Same(process_records(d, b).db, d) /\ ~ Failed(process_records(d, b).db)
BY ProcessSteps DEF Same, Failed

\* undo_records after process_records of the same block: every balance, proposed
\* and confirmed, is what it was, whatever the block spends and gives, also what
\* it spends of its own.
THEOREM UndoneBlockLeavesNothing ==
  ASSUME NEW d, Database(d), ~ Failed(d), NEW b, Valid(b),
         ~ Failed(process_records(d, b).db), process_records(d, b).completed
  PROVE  Same(undo_records(process_records(d, b).db, b), d)
<1> DEFINE n == Len(b.messages)
           M == b.messages
           undo == Reverse(M)
           p == process_records(d, b).db
<1>1. PICK s :
        /\ s[0] = d /\ s[n] = p
        /\ \A i \in 0..n : Database(s[i]) /\ ~ Failed(s[i])
        /\ \A i \in 1..n : Valued(M[i]) /\ ~ Refuses(s[i - 1], M[i]) /\ s[i] = Apply(s[i - 1], b, M[i])
  BY ProcessSteps
<1>2. n \in Nat
  BY LenProperties DEF Valid
<1>3. Len(undo) = n /\ \A j \in 1..n : undo[j] = M[n - j + 1]
  BY <1>2 DEF Reverse
<1>4. undo_records(p, b) = UndoAll(p, b, undo)
  BY DEF undo_records, UndoAll
<1> HIDE DEF n, M, undo, p
<1>5. Same(UndoAll(s[n], b, undo), s[0])
  BY <1>1, <1>2, <1>3, UndoLeadsBack
<1> QED BY <1>1, <1>4, <1>5 DEF p

LEMMA ConsensusKeeps ==
  ASSUME NEW d, Database(d), NEW b, NEW m, Valued(m)
  PROVE  Database(Consensus(d, b, m))
<1> DEFINE f == d.balance
<1>0. Balances(f) /\ \A key \in DOMAIN f : f[key] \in [confirmed : Column, proposed : Column]
  BY DEF Database, Balances
<1>1. CASE m.kind = "payment"
  <2> DEFINE key == Source(m)
             new == <<m.target, b.id>>
             less == [f[key] EXCEPT !.confirmed = Less(@, m.value)]
             taken == [f EXCEPT ![key] = less]
             more == [taken[new] EXCEPT !.confirmed = Plus(@, m.value)]
             given == [taken EXCEPT ![new] = more]
  <2>1. CASE key \notin DOMAIN f \/ FromColumn(f[key].confirmed) < m.value \/ new \notin DOMAIN f
    BY <1>1, <2>1 DEF Consensus, Fail, Database
  <2>2. CASE key \in DOMAIN f /\ ~ (FromColumn(f[key].confirmed) < m.value) /\ new \in DOMAIN f
    <3>1. m.value \in Value
      BY <1>1 DEF Valued
    <3>2. less \in [confirmed : Column, proposed : Column]
      BY <1>0, <2>2, <3>1, WidthFacts
    <3>3. Balances(taken) /\ DOMAIN taken = DOMAIN f
      <4> HIDE DEF less
      <4> QED BY <1>0, <2>2, <3>2, RowChanged
    <3>4. more \in [confirmed : Column, proposed : Column]
      <4> HIDE DEF taken
      <4>1. taken[new] \in [confirmed : Column, proposed : Column]
        BY <2>2, <3>3 DEF Balances
      <4> QED BY <3>1, <4>1, WidthFacts
    <3>5. Balances(given)
      <4> HIDE DEF taken, more
      <4> QED BY <2>2, <3>3, <3>4, RowChanged
    <3> DEFINE With_(table) == [record |-> d.record, votes |-> d.votes, balance |-> table,
                                rows |-> d.rows, error |-> d.error]
    <3>6. Consensus(d, b, m)
            = [[d EXCEPT !.balance[key].confirmed = Less(@, m.value)]
                 EXCEPT !.balance[new].confirmed = Plus(@, m.value)]
      BY <1>1, <2>2 DEF Consensus
    <3>7. [d EXCEPT !.balance[key].confirmed = Less(@, m.value)] = With_(taken)
      BY DEF Database
    <3>8. [With_(taken) EXCEPT !.balance[new].confirmed = Plus(@, m.value)] = With_(given)
      <4> HIDE DEF taken
      <4> QED OBVIOUS
    <3>9. Consensus(d, b, m) = With_(given)
      BY <3>6, <3>7, <3>8
    <3> HIDE DEF given
    <3> QED BY <3>5, <3>9 DEF Database
  <2> QED BY <2>1, <2>2
<1>2. CASE m.kind = "issue"
  <2> DEFINE new == <<m.wallet, b.id>>
             row == [f[new] EXCEPT !.confirmed = ToColumn(m.value)]
             given == [f EXCEPT ![new] = row]
  <2>1. CASE new \notin DOMAIN f \/ f[new] # [confirmed |-> 0, proposed |-> ToColumn(m.value)]
    BY <1>2, <2>1 DEF Consensus, Fail, Database
  <2>2. CASE new \in DOMAIN f /\ f[new] = [confirmed |-> 0, proposed |-> ToColumn(m.value)]
    <3>1. row \in [confirmed : Column, proposed : Column]
      <4>1. ToColumn(m.value) \in Column
        BY <1>2, WidthFacts DEF Valued
      <4>2. row = [confirmed |-> ToColumn(m.value), proposed |-> ToColumn(m.value)]
        BY <2>2
      <4> QED BY <4>1, <4>2
    <3>2. Balances(given)
      <4> HIDE DEF row
      <4> QED BY <1>0, <2>2, <3>1, RowChanged
    <3>3. Consensus(d, b, m) = [d EXCEPT !.balance = given]
      BY <1>2, <2>2 DEF Consensus, Database
    <3> HIDE DEF given
    <3> QED BY <3>2, <3>3 DEF Database
  <2> QED BY <2>1, <2>2
<1>3. CASE m.kind \notin {"payment", "issue"}
  BY <1>3 DEF Consensus
<1> QED BY <1>1, <1>2, <1>3

-----------------------------------------------------------------------------
(***************************************************************************)
(* The log itself and the votes are left alone by the messages of a block, *)
(* but for the votes of a node that joins.                                 *)
(***************************************************************************)
LEMMA AfterItself ==
  ASSUME NEW d, Database(d)
  PROVE  After(d, d)
BY DEF After, VotesGrow

LEMMA AfterOn ==
  ASSUME NEW d, NEW e, NEW f, After(d, e), After(e, f)
  PROVE  After(d, f)
BY DEF After, VotesGrow

LEMMA VoteInserted ==
  ASSUME NEW d, Database(d), NEW b, NEW owner, NEW approved \in BOOLEAN,
         NEW new_member \in BOOLEAN
  PROVE  LET e == InsertVote(d, b, owner, approved, new_member) IN
         /\ Database(e) /\ e.record = d.record
         /\ Votes(d.votes) => Votes(e.votes)
         /\ VotesGrow(d.votes, e.votes)
         /\ ApprovedAlready(d.votes, e.votes, approved, <<b, owner>>)
         /\ Failed(e) \/ (approved => Approved(e.votes, <<b, owner>>))
<1> DEFINE key == <<b, owner>>
           vote == [approved |-> approved, new_member |-> new_member]
           f == Extended(d.votes, key, vote)
           e == InsertVote(d, b, owner, approved, new_member)
<1>1. CASE key \in DOMAIN d.votes
  BY <1>1 DEF InsertVote, Fail, Failed, Database, VotesGrow, ApprovedAlready
<1>2. CASE key \notin DOMAIN d.votes
  <2>1. e.votes = f /\ e.record = d.record /\ Database(e)
    BY <1>2 DEF InsertVote, Database
  <2>2. vote \in Vote /\ vote.approved = approved
    BY DEF Vote
  <2> HIDE DEF vote, key
  <2>3. /\ DOMAIN f = DOMAIN d.votes \cup {key} /\ f[key] = vote
        /\ \A k \in DOMAIN d.votes : f[k] = d.votes[k]
        /\ f = [k \in DOMAIN f |-> f[k]]
    BY <1>2 DEF Extended
  <2>4. Votes(d.votes) => \A k \in DOMAIN f : f[k] \in Vote
    BY <2>2, <2>3 DEF Votes
  <2> HIDE DEF f, e
  <2>5. /\ VotesGrow(d.votes, f) /\ ApprovedAlready(d.votes, f, approved, key)
        /\ approved => Approved(f, key)
    BY <2>2, <2>3 DEF VotesGrow, Approved, ApprovedAlready
  <2>6. Votes(d.votes) => Votes(f)
    BY <2>3, <2>4 DEF Votes
  <2> QED BY <2>1, <2>5, <2>6 DEF e, key
<1> QED BY <1>1, <1>2

LEMMA ApplyLeaves ==
  ASSUME NEW d, Database(d), NEW b, NEW m, Valued(m), ~ Refuses(d, m)
  PROVE  After(d, Apply(d, b, m))
<1>0. Database(Apply(d, b, m))
  BY ApplyKeeps
<1>1. CASE m.kind = "node"
  <2> DEFINE e == [d EXCEPT !.rows = @ \cup RowsOf(b, m)]
  <2>1. Apply(d, b, m) = InsertVote(e, b.id, m.node, FALSE, TRUE)
    BY <1>1 DEF Apply
  <2>2. Database(e) /\ e.votes = d.votes /\ e.record = d.record
    BY DEF Database
  <2> HIDE DEF e
  <2>3. After(e, InsertVote(e, b.id, m.node, FALSE, TRUE))
    BY <2>2, VoteInserted DEF After, ApprovedAlready
  <2> QED BY <1>0, <2>1, <2>2, <2>3 DEF After
<1>2. CASE m.kind # "node"
  <2>1. /\ Apply(d, b, m).record = d.record /\ Apply(d, b, m).votes = d.votes
    BY <1>2 DEF Apply, InsertBalance, Insert, Put, Fail, Database
  <2> QED BY <1>0, <2>1 DEF After, VotesGrow
<1> QED BY <1>1, <1>2

LEMMA UndoLeaves ==
  ASSUME NEW d, Database(d), NEW b, NEW m, Valued(m)
  PROVE  After(d, Undo(d, b, m))
<1>1. /\ Undo(d, b, m).record = d.record /\ Undo(d, b, m).votes = d.votes
  BY DEF Undo, Drop, Fail, Database
<1> QED BY <1>1, UndoKeeps DEF After, VotesGrow

LEMMA ConsensusLeaves ==
  ASSUME NEW d, Database(d), NEW b, NEW m, Valued(m)
  PROVE  After(d, Consensus(d, b, m))
<1>1. /\ Consensus(d, b, m).record = d.record /\ Consensus(d, b, m).votes = d.votes
  BY DEF Consensus, Fail, Database
<1> QED BY <1>1, ConsensusKeeps DEF After, VotesGrow

LEMMA UndoAllKeeps ==
  ASSUME NEW d, Database(d), NEW b, NEW messages, Len(messages) \in Nat,
         \A j \in 1..Len(messages) : Valued(messages[j])
  PROVE  After(d, UndoAll(d, b, messages))
<1>1. PICK u : UndoWay(u, d, b, messages)
  BY UndoUnfolds
<1> DEFINE Wrong == {k \in 0..Len(messages) : ~ After(d, u[k])}
<1>2. Wrong = {}
  <2> SUFFICES ASSUME Wrong # {} PROVE FALSE
    OBVIOUS
  <2>1. PICK m \in Wrong : \A j \in Wrong : m <= j
    <3>1. Wrong \subseteq Nat
      OBVIOUS
    <3> QED BY <3>1, Least
  <2>2. m \in 1..Len(messages) /\ ~ After(d, u[m])
    BY <2>1, <1>1, AfterItself DEF UndoWay
  <2>3. m - 1 \in 0..Len(messages) /\ ~ (m <= m - 1)
    BY <2>2
  <2>4. After(d, u[m - 1]) /\ Database(u[m - 1])
    BY <2>1, <2>3 DEF After
  <2>5. u[m] = UndoStep(u[m - 1], b, messages[m]) /\ Valued(messages[m])
    BY <1>1, <2>2 DEF UndoWay
  <2> QED BY <2>2, <2>4, <2>5, UndoLeaves, AfterOn DEF UndoStep
<1> QED BY <1>1, <1>2 DEF UndoWay

LEMMA BlockFacts ==
  ASSUME NEW b, Valid(b)
  PROVE  /\ Len(b.messages) \in Nat /\ DOMAIN b.messages = 1..Len(b.messages)
         /\ b.messages \in Seq(ToSet(b.messages))
         /\ \A i \in 1..Len(b.messages) : b.messages[i] \in ToSet(b.messages) /\ Valued(b.messages[i])
<1>1. /\ Len(b.messages) \in Nat /\ DOMAIN b.messages = 1..Len(b.messages)
      /\ b.messages \in Seq(ToSet(b.messages))
  BY LenProperties DEF Valid
<1> QED BY <1>1 DEF Valid, ToSet

LEMMA ProcessKeeps ==
  ASSUME NEW d, Database(d), NEW b, Valid(b)
  PROVE  After(d, process_records(d, b).db)
<1> DEFINE n == Len(b.messages)
           M == b.messages
<1>1. n \in Nat /\ \A i \in 1..n : M[i] \in ToSet(M) /\ Valued(M[i])
  BY BlockFacts
<1>2. PICK r :
        /\ r[0] = [db |-> d, completed |-> TRUE, undo |-> <<>>]
        /\ \A k \in 1..n : r[k] = ProcessStep(r[k - 1], b, M[k])
        /\ process_records(d, b) = r[n]
  BY <1>1, ProcessUnfolds
<1>3. \A m \in ToSet(M) : Valued(m)
  BY DEF Valid
<1> HIDE DEF n, M
<1> DEFINE Good(k) ==
             /\ r[k] = [db |-> r[k].db, completed |-> r[k].completed, undo |-> r[k].undo]
             /\ After(d, r[k].db) /\ r[k].undo \in Seq(ToSet(M))
           Wrong == {k \in 0..n : ~ Good(k)}
<1>4. Wrong = {}
  <2> SUFFICES ASSUME Wrong # {} PROVE FALSE
    OBVIOUS
  <2>1. PICK m \in Wrong : \A j \in Wrong : m <= j
    <3>1. Wrong \subseteq Nat
      BY <1>1
    <3> QED BY <3>1, Least
  <2>2. m \in 0..n /\ ~ Good(m)
    BY <2>1
  <2>3. Good(0)
    BY <1>2, EmptySeq, AfterItself
  <2>4. m # 0
    BY <2>2, <2>3
  <2>5. m \in 1..n /\ m - 1 \in 0..n /\ m - 1 \notin Wrong
    <3>1. m \in 1..n /\ m - 1 \in 0..n /\ ~ (m <= m - 1)
      BY <2>2, <2>4, <1>1
    <3> HIDE DEF Wrong
    <3> QED BY <3>1, <2>1
  <2> DEFINE q == r[m - 1]
             message == M[m]
  <2>6. Good(m - 1)
    BY <2>5
  <2>0. Database(q.db)
    BY <2>6 DEF After
  <2>7. r[m] = ProcessStep(q, b, message) /\ Valued(message) /\ message \in ToSet(M)
    BY <1>1, <1>2, <2>5
  <2>8. CASE r[m] = q
    BY <2>2, <2>6, <2>8
  <2>9. CASE r[m] = [q EXCEPT !.completed = FALSE, !.db = UndoAll(@, b, q.undo)]
    <3>1. Len(q.undo) \in Nat /\ \A j \in 1..Len(q.undo) : Valued(q.undo[j])
      BY <2>6, <1>3, LenProperties, ElementOfSeq
    <3>2. After(d, UndoAll(q.db, b, q.undo))
      BY <2>0, <2>6, <3>1, UndoAllKeeps, AfterOn
    <3>3. r[m] = [db |-> UndoAll(q.db, b, q.undo), completed |-> FALSE, undo |-> q.undo]
      BY <2>6, <2>9
    <3> QED BY <2>2, <2>6, <3>2, <3>3
  <2>10. CASE /\ r[m] = [db |-> Apply(q.db, b, message), completed |-> TRUE, undo |-> <<message>> \o q.undo]
              /\ ~ Refuses(q.db, message)
    <3>1. After(d, r[m].db)
      BY <2>0, <2>6, <2>7, <2>10, ApplyLeaves, AfterOn
    <3>2. r[m].undo \in Seq(ToSet(M))
      <4> DEFINE one == <<message>>
                 undo == q.undo
      <4>1. one \in Seq(ToSet(M)) /\ undo \in Seq(ToSet(M))
        BY <2>6, <2>7
      <4>2. r[m].undo = one \o undo
        BY <2>10
      <4> HIDE DEF one, undo
      <4> QED BY <4>1, <4>2, ConcatProperties
    <3> QED BY <2>2, <2>10, <3>1, <3>2
  <2> QED BY <2>7, <2>8, <2>9, <2>10 DEF ProcessStep
<1>5. Good(n)
  <2>1. n \in 0..n
    BY <1>1
  <2> HIDE DEF Good
  <2> QED BY <2>1, <1>4
<1> QED BY <1>2, <1>5

LEMMA ConsensusAllKeeps ==
  ASSUME NEW d, Database(d), NEW b, Valid(b)
  PROVE  After(d, consensus_records(d, b))
<1> DEFINE n == Len(b.messages)
           M == b.messages
<1>1. n \in Nat /\ \A i \in 1..n : Valued(M[i])
  BY BlockFacts
<1>2. PICK u :
        /\ u[0] = d
        /\ \A k \in 1..n : u[k] = ConsensusStep(u[k - 1], b, M[k])
        /\ consensus_records(d, b) = u[n]
  BY <1>1, ConsensusUnfolds
<1> HIDE DEF n, M
<1> DEFINE Wrong == {k \in 0..n : ~ After(d, u[k])}
<1>3. Wrong = {}
  <2> SUFFICES ASSUME Wrong # {} PROVE FALSE
    OBVIOUS
  <2>1. PICK m \in Wrong : \A j \in Wrong : m <= j
    <3>1. Wrong \subseteq Nat
      BY <1>1
    <3> QED BY <3>1, Least
  <2>2. m \in 1..n /\ ~ After(d, u[m])
    BY <2>1, <1>1, <1>2, AfterItself
  <2>3. m - 1 \in 0..n /\ ~ (m <= m - 1)
    BY <2>2, <1>1
  <2>4. After(d, u[m - 1]) /\ Database(u[m - 1])
    BY <2>1, <2>3 DEF After
  <2>5. u[m] = ConsensusStep(u[m - 1], b, M[m]) /\ Valued(M[m])
    BY <1>1, <1>2, <2>2
  <2> QED BY <2>2, <2>4, <2>5, ConsensusLeaves, AfterOn DEF ConsensusStep
<1> QED BY <1>1, <1>2, <1>3

LEMMA RecordsLeave ==
  ASSUME NEW d, Database(d), NEW b, Valid(b)
  PROVE  /\ After(d, process_records(d, b).db)
         /\ After(d, undo_records(d, b))
         /\ After(d, consensus_records(d, b))
<1> DEFINE undo == Reverse(b.messages)
           n == Len(b.messages)
<1>1. n \in Nat /\ \A i \in 1..n : Valued(b.messages[i])
  BY BlockFacts
<1>2. Len(undo) = n /\ \A j \in 1..n : undo[j] = b.messages[n - j + 1] /\ n - j + 1 \in 1..n
  BY <1>1 DEF Reverse
<1>3. undo_records(d, b) = UndoAll(d, b, undo)
  BY DEF undo_records, UndoAll
<1> HIDE DEF undo
<1>4. After(d, undo_records(d, b))
  BY <1>1, <1>2, <1>3, UndoAllKeeps
<1> QED BY <1>4, ProcessKeeps, ConsensusAllKeeps

\* No balance is lost, and none holds more than before, in d and then in e.
NoneGains(d, e) ==
  \A key \in DOMAIN d.balance :
    /\ key \in DOMAIN e.balance
    /\ FromColumn(e.balance[key].proposed) <= FromColumn(d.balance[key].proposed)

NoneNegative(d) == \A key \in DOMAIN d.balance : d.balance[key].proposed >= 0

\* The value of m fits into a column.
Narrow(m) == m.kind \in {"payment", "issue"} => m.value < Half

LEMMA NarrowColumns ==
  ASSUME NEW c \in Column, c >= 0, NEW v \in Value
  PROVE  FromColumn(c) >= v => Less(c, v) >= 0
<1> SUFFICES ASSUME FromColumn(c) >= v PROVE Less(c, v) >= 0
  OBVIOUS
<1>1. Less(c, v) \in Column /\ FromColumn(Less(c, v)) = FromColumn(c) - v
  BY WidthFacts
<1> QED BY <1>1, WidthFacts DEF FromColumn, Column, Value

LEMMA InsertTakesNothing ==
  ASSUME NEW d, Database(d), NEW w, NEW c, NEW value \in Value,
         NEW e, e = InsertBalance(d, w, c, value), ~ Failed(e)
  PROVE  /\ \A key \in DOMAIN d.balance :
              key \in DOMAIN e.balance /\ e.balance[key] = d.balance[key]
         /\ NoneNegative(d) /\ value < Half => NoneNegative(e)
<1> DEFINE key == <<w, c>>
           row == [confirmed |-> 0, proposed |-> ToColumn(value)]
<1>1. key \notin DOMAIN d.balance /\ e.balance = Extended(d.balance, key, row)
  BY BalanceIsNew
<1>2. /\ DOMAIN e.balance = DOMAIN d.balance \cup {key} /\ e.balance[key] = row
      /\ \A k \in DOMAIN d.balance \ {key} : e.balance[k] = d.balance[k]
  <2> HIDE DEF key, row
  <2>1. /\ DOMAIN Extended(d.balance, key, row) = DOMAIN d.balance \cup {key}
        /\ Extended(d.balance, key, row)[key] = row
        /\ \A k \in DOMAIN d.balance \ {key} : Extended(d.balance, key, row)[k] = d.balance[k]
    BY DEF Extended
  <2> QED BY <1>1, <2>1
<1>3. value < Half => row.proposed >= 0
  BY DEF ToColumn, Value
<1> QED BY <1>1, <1>2, <1>3 DEF NoneNegative

LEMMA ApplyTakes ==
  ASSUME NEW d, Database(d), NEW b, NEW m, Valued(m), ~ Refuses(d, m),
         NEW e, e = Apply(d, b, m), ~ Failed(e)
  PROVE  NoneGains(d, e) /\ (NoneNegative(d) /\ Narrow(m) => NoneNegative(e))
<1>0. \A key \in DOMAIN d.balance : FromColumn(d.balance[key].proposed) \in Value
  BY WidthFacts DEF Database, Balances
<1>1. CASE m.kind = "payment"
  <2> DEFINE key == Source(m)
             c == d.balance[key].proposed
             row == [d.balance[key] EXCEPT !.proposed = Less(@, m.value)]
             s == [d EXCEPT !.balance = [@ EXCEPT ![key] = row]]
  <2>1. key \in DOMAIN d.balance /\ FromColumn(c) >= m.value /\ m.value \in Value
    BY <1>1 DEF Refuses, Payable, Valued
  <2>2. c \in Column /\ d.balance[key] \in [confirmed : Column, proposed : Column]
    BY <2>1 DEF Database, Balances
  <2>3. row \in [confirmed : Column, proposed : Column] /\ row.proposed = Less(c, m.value)
    BY <2>1, <2>2, WidthFacts
  <2>4. Balances([d.balance EXCEPT ![key] = row])
    BY <2>1, <2>3, RowChanged DEF Database
  <2>5. /\ Database(s) /\ DOMAIN s.balance = DOMAIN d.balance /\ s.balance[key] = row
        /\ \A k \in DOMAIN d.balance \ {key} : s.balance[k] = d.balance[k]
    BY <2>1, <2>4 DEF Database, Balances
  <2>6. Apply(d, b, m) = InsertBalance(s, m.target, b.id, m.value)
    BY <1>1 DEF Apply, Database
  <2>7. FromColumn(row.proposed) = FromColumn(c) - m.value /\ FromColumn(c) \in Value
    BY <2>1, <2>2, <2>3, WidthFacts
  <2>8. c >= 0 => row.proposed >= 0
    BY <2>1, <2>2, <2>3, NarrowColumns
  <2>9. FromColumn(row.proposed) <= FromColumn(c)
    BY <2>1, <2>7 DEF Value
  <2> HIDE DEF s, row
  <2>10. /\ \A k \in DOMAIN s.balance : k \in DOMAIN e.balance /\ e.balance[k] = s.balance[k]
         /\ NoneNegative(s) /\ m.value < Half => NoneNegative(e)
    BY <2>1, <2>5, <2>6, InsertTakesNothing
  <2>11. NoneNegative(d) => NoneNegative(s)
    BY <2>1, <2>5, <2>8 DEF NoneNegative
  <2>12. NoneGains(d, e)
    <3> SUFFICES ASSUME NEW k \in DOMAIN d.balance
                 PROVE  /\ k \in DOMAIN e.balance
                        /\ FromColumn(e.balance[k].proposed) <= FromColumn(d.balance[k].proposed)
      BY DEF NoneGains
    <3>1. CASE k = key
      BY <2>5, <2>9, <2>10, <3>1
    <3>2. CASE k # key
      BY <1>0, <2>5, <2>10, <3>2 DEF Value
    <3> QED BY <3>1, <3>2
  <2> QED BY <1>1, <2>10, <2>11, <2>12 DEF Narrow
<1>2. CASE m.kind = "issue"
  <2>1. Apply(d, b, m) = InsertBalance(d, m.wallet, b.id, m.value) /\ m.value \in Value
    BY <1>2 DEF Apply, Valued
  <2>2. /\ \A k \in DOMAIN d.balance : k \in DOMAIN e.balance /\ e.balance[k] = d.balance[k]
        /\ NoneNegative(d) /\ m.value < Half => NoneNegative(e)
    BY <2>1, InsertTakesNothing
  <2> QED BY <1>0, <1>2, <2>2 DEF NoneGains, Narrow, Value
<1>3. CASE m.kind \notin {"payment", "issue"}
  <2>1. e.balance = d.balance
    BY <1>3 DEF Apply, InsertVote, Insert, Fail, Database
  <2> QED BY <1>0, <2>1 DEF NoneGains, NoneNegative, Value
<1> QED BY <1>1, <1>2, <1>3

\* apply_record of payment_transaction, in two widths: whatever 64-bit values are
\* issued and paid, whether a block is applied or refused half way, no balance is
\* lost or ends with more than it held, so no payment takes more than there is; and
\* if the values fit into the signed columns, no column becomes negative.
THEOREM PaymentsNeverOverdraw ==
  ASSUME NEW d, Database(d), ~ Failed(d), NEW b, Valid(b), ~ Failed(process_records(d, b).db)
  PROVE  /\ NoneGains(d, process_records(d, b).db)
         /\ NoneNegative(d) /\ (\A m \in ToSet(b.messages) : Narrow(m))
              => NoneNegative(process_records(d, b).db)
<1> DEFINE n == Len(b.messages)
           M == b.messages
           e == process_records(d, b).db
<1>0. \A f, key : Database(f) /\ key \in DOMAIN f.balance => FromColumn(f.balance[key].proposed) \in Int
  BY WidthFacts DEF Database, Balances, Value
<1>1. CASE ~ process_records(d, b).completed
  <2>1. e.balance = d.balance
    BY <1>1, ProcessSteps DEF Same
  <2> HIDE DEF e
  <2> QED BY <1>0, <2>1 DEF NoneGains, NoneNegative, e
<1>2. CASE process_records(d, b).completed
  <2>1. PICK s :
          /\ s[0] = d /\ s[n] = e
          /\ \A i \in 0..n : Database(s[i]) /\ ~ Failed(s[i])
          /\ \A i \in 1..n : Valued(M[i]) /\ ~ Refuses(s[i - 1], M[i]) /\ s[i] = Apply(s[i - 1], b, M[i])
    BY <1>2, ProcessSteps
  <2>2. n \in Nat /\ \A i \in 1..n : M[i] \in ToSet(M)
    BY BlockFacts
  <2> HIDE DEF n, M, e
  <2> DEFINE Good(k) ==
               /\ NoneGains(d, s[k])
               /\ NoneNegative(d) /\ (\A m \in ToSet(M) : Narrow(m)) => NoneNegative(s[k])
             Wrong == {k \in 0..n : ~ Good(k)}
  <2>3. Wrong = {}
    <3> SUFFICES ASSUME Wrong # {} PROVE FALSE
      OBVIOUS
    <3>1. PICK m \in Wrong : \A j \in Wrong : m <= j
      <4>1. Wrong \subseteq Nat
        BY <2>2
      <4> QED BY <4>1, Least
    <3>2. m \in 0..n /\ ~ Good(m)
      BY <3>1
    <3>3. Good(0)
      BY <1>0, <2>1 DEF NoneGains
    <3>4. m # 0
      BY <3>2, <3>3
    <3>5. m \in 1..n /\ m - 1 \in 0..n /\ m - 1 \notin Wrong
      <4>1. m \in 1..n /\ m - 1 \in 0..n /\ ~ (m <= m - 1)
        BY <3>2, <3>4, <2>2
      <4> HIDE DEF Wrong
      <4> QED BY <4>1, <3>1
    <3>6. Good(m - 1)
      BY <3>5
    <3>7. /\ Database(s[m - 1]) /\ Database(s[m]) /\ ~ Failed(s[m])
          /\ Valued(M[m]) /\ ~ Refuses(s[m - 1], M[m]) /\ s[m] = Apply(s[m - 1], b, M[m])
      BY <2>1, <3>2, <3>5
    <3>8. NoneGains(s[m - 1], s[m]) /\ (NoneNegative(s[m - 1]) /\ Narrow(M[m]) => NoneNegative(s[m]))
      BY <3>7, ApplyTakes
    <3>9. NoneGains(d, s[m])
      BY <1>0, <3>6, <3>7, <3>8 DEF NoneGains
    <3> QED BY <2>2, <3>2, <3>5, <3>6, <3>8, <3>9
  <2>4. Good(n)
    <3>1. n \in 0..n
      BY <2>2
    <3> HIDE DEF Good
    <3> QED BY <3>1, <2>3
  <2> QED BY <2>1, <2>4 DEF M, e
<1> QED BY <1>1, <1>2

-----------------------------------------------------------------------------
(***************************************************************************)
(* The log of a node.                                                      *)
(***************************************************************************)
\* A row of transaction_log_record.
Row(r) ==
  /\ r = [writer |-> r.writer, messages |-> r.messages, time |-> r.time,
          ancestors |-> r.ancestors, order_no |-> r.order_no, state |-> r.state,
          consensus |-> r.consensus]
  /\ Valid(r) /\ r.consensus \in BOOLEAN

\* In a log with the rows of d and the votes f, an approval of c by o is due: c is
\* a block of o, or has a follower that o approves.
Due(d, f, c, o) ==
  /\ c \in Stored(d)
  /\ d.record[c].writer = o \/ \E g \in Followers(d, c) : Approved(f, <<g, o>>)

Earned(d, f) == \A key : Approved(f, key) => Due(d, f, key[1], key[2])

\* What is asked of the database of a node.
LogDatabase(d) ==
  /\ Database(d)
  /\ d.record = [c \in Stored(d) |-> d.record[c]]
  /\ Stored(d) \subseteq Nat /\ IsFiniteSet(Stored(d))
  /\ \A c \in Stored(d) : Row(d.record[c])
  /\ Votes(d.votes) /\ Earned(d, d.votes)

\* What a save may make of a row.
RowKept(r, s) ==
  /\ s.writer = r.writer /\ s.messages = r.messages /\ s.time = r.time
  /\ s.ancestors = r.ancestors /\ s.order_no = r.order_no
  /\ r.consensus => s.consensus

RowsKept(d, e) == \A c \in Stored(d) : c \in Stored(e) /\ RowKept(d.record[c], e.record[c])

\* What every step of a save keeps.
Leads(d, e) ==
  /\ LogDatabase(e)
  /\ Stored(e) = Stored(d) /\ RowsKept(d, e) /\ VotesGrow(d.votes, e.votes)

\* Due approvals stay due when rows are kept and votes are not withdrawn.
LEMMA DueStays ==
  ASSUME NEW d, NEW e, RowsKept(d, e), NEW f, NEW g, VotesGrow(f, g), NEW c, NEW o, Due(d, f, c, o)
  PROVE  Due(e, g, c, o)
BY DEF Due, RowsKept, RowKept, VotesGrow, Followers, Ancestors

LEMMA EarnedStays ==
  ASSUME NEW d, NEW e, RowsKept(d, e), NEW f, NEW g, VotesGrow(f, g), Earned(d, f),
         \A k : Approved(g, k) => Approved(f, k)
  PROVE  Earned(e, g)
BY DueStays DEF Earned

LEMMA LeadsNowhere ==
  ASSUME NEW d, LogDatabase(d)
  PROVE  Leads(d, d)
BY DEF Leads, RowsKept, RowKept, VotesGrow

LEMMA DueOn ==
  ASSUME NEW d, NEW e, Leads(d, e), NEW c, NEW o, Due(d, d.votes, c, o)
  PROVE  Due(e, e.votes, c, o)
BY DueStays DEF Leads

LEMMA LeadsOn ==
  ASSUME NEW d, NEW e, NEW f, Leads(d, e), Leads(e, f)
  PROVE  Leads(d, f)
BY DEF Leads, RowsKept, RowKept, VotesGrow

LEMMA FailLeads ==
  ASSUME NEW d, LogDatabase(d), NEW what
  PROVE  Leads(d, Fail(d, what))
<1> DEFINE e == Fail(d, what)
<1>1. e = [record |-> d.record, votes |-> d.votes, balance |-> d.balance, rows |-> d.rows,
           error |-> what]
  BY DEF LogDatabase, Database, Fail
<1> HIDE DEF e
<1>2. RowsKept(d, e) /\ VotesGrow(d.votes, e.votes) /\ Stored(e) = Stored(d)
  BY <1>1 DEF RowsKept, RowKept, VotesGrow, Stored
<1>3. Earned(e, e.votes)
  BY <1>1, <1>2, EarnedStays DEF LogDatabase
<1> QED BY <1>1, <1>2, <1>3 DEF LogDatabase, Database, Leads, e

LEMMA MinIn ==
  ASSUME NEW S, S \subseteq Nat, S # {}
  PROVE  Min(S) \in S
<1>1. \E x \in S : \A y \in S : x <= y
  BY Least
<1> QED BY <1>1 DEF Min

LEMMA StoredCount ==
  ASSUME NEW d, LogDatabase(d)
  PROVE  /\ Cardinality(Stored(d)) \in Nat
         /\ \A C \in SUBSET Stored(d) : Cardinality(C) \in Nat
BY FS_CardinalityType, FS_Subset DEF LogDatabase

-----------------------------------------------------------------------------
(***************************************************************************)
(* The pieces of process_block and of the walk for consensus.              *)
(***************************************************************************)

\* A database whose rows are changed only where a save may change them.
LEMMA RecordChanged ==
  ASSUME NEW d, LogDatabase(d), NEW record, record = [c \in Stored(d) |-> record[c]],
         \A c \in Stored(d) : Row(record[c]) /\ RowKept(d.record[c], record[c])
  PROVE  Leads(d, [d EXCEPT !.record = record])
<1> DEFINE e == [d EXCEPT !.record = record]
<1>1. /\ e = [record |-> record, votes |-> d.votes, balance |-> d.balance, rows |-> d.rows,
              error |-> d.error]
  BY DEF LogDatabase, Database
<1>2. Stored(e) = Stored(d) /\ DOMAIN record = Stored(d)
  BY <1>1 DEF Stored
<1> HIDE DEF e
<1>3. RowsKept(d, e) /\ VotesGrow(d.votes, e.votes)
  BY <1>1, <1>2 DEF RowsKept, VotesGrow
<1>4. Earned(e, e.votes)
  BY <1>1, <1>3, EarnedStays DEF LogDatabase
<1> QED BY <1>1, <1>2, <1>3, <1>4 DEF LogDatabase, Database, Leads, e

LEMMA RowStateSet ==
  ASSUME NEW r, Row(r), NEW state
  PROVE  Row([r EXCEPT !.state = state]) /\ RowKept(r, [r EXCEPT !.state = state])
BY DEF Row, RowKept, Valid

LEMMA RowConsensusSet ==
  ASSUME NEW r, Row(r)
  PROVE  Row([r EXCEPT !.consensus = TRUE]) /\ RowKept(r, [r EXCEPT !.consensus = TRUE])
<1>1. ASSUME NEW yes PROVE LET s == [r EXCEPT !.consensus = yes] IN
        /\ s = [writer |-> r.writer, messages |-> r.messages, time |-> r.time,
                ancestors |-> r.ancestors, order_no |-> r.order_no, state |-> r.state,
                consensus |-> yes]
        /\ s.consensus = yes
  BY DEF Row
<1> DEFINE s == [r EXCEPT !.consensus = TRUE]
<1>2. /\ s = [writer |-> r.writer, messages |-> r.messages, time |-> r.time,
              ancestors |-> r.ancestors, order_no |-> r.order_no, state |-> r.state,
              consensus |-> TRUE]
      /\ s.consensus
  BY <1>1
<1> HIDE DEF s
<1>3. Row(s) /\ RowKept(r, s)
  BY <1>2 DEF Row, RowKept, Valid
<1> QED BY <1>3 DEF s

LEMMA SetStateLeads ==
  ASSUME NEW d, LogDatabase(d), NEW C, NEW state
  PROVE  Leads(d, SetState(d, C, state))
<1> DEFINE record == [c \in Stored(d) |-> IF c \in C THEN [d.record[c] EXCEPT !.state = state]
                                          ELSE d.record[c]]
<1>1. SetState(d, C, state) = [d EXCEPT !.record = record]
  BY DEF SetState, Stored, LogDatabase, Database
<1>2. \A c \in Stored(d) : Row(d.record[c]) /\ RowKept(d.record[c], d.record[c])
  BY DEF LogDatabase, RowKept
<1>3. \A c \in Stored(d) : Row(record[c]) /\ RowKept(d.record[c], record[c])
  <2> TAKE c \in Stored(d)
  <2>1. CASE c \in C
    <3>1. record[c] = [d.record[c] EXCEPT !.state = state]
      BY <2>1
    <3> QED BY <1>2, <3>1, RowStateSet
  <2>2. CASE c \notin C
    BY <1>2, <2>2
  <2> QED BY <2>1, <2>2
<1>4. record = [c \in Stored(d) |-> record[c]]
  OBVIOUS
<1> HIDE DEF record
<1> QED BY <1>1, <1>3, <1>4, RecordChanged

\* The messages of a stored block.
LEMMA BlockIsValid ==
  ASSUME NEW d, LogDatabase(d), NEW c \in Stored(d)
  PROVE  Valid(Block(d, c))
BY DEF LogDatabase, Row, Valid, Block

LEMMA AfterLeads ==
  ASSUME NEW d, LogDatabase(d), NEW e, After(d, e)
  PROVE  Leads(d, e)
<1>1. RowsKept(d, e) /\ Stored(e) = Stored(d)
  BY DEF After, RowsKept, RowKept, Stored
<1>2. Earned(e, e.votes)
  BY <1>1, EarnedStays DEF LogDatabase, After
<1> QED BY <1>1, <1>2 DEF LogDatabase, After, Leads, Stored

LEMMA RecordsLead ==
  ASSUME NEW d, LogDatabase(d), NEW c \in Stored(d)
  PROVE  /\ Leads(d, process_records(d, Block(d, c)).db)
         /\ Leads(d, undo_records(d, Block(d, c)))
         /\ Leads(d, consensus_records(d, Block(d, c)))
<1>1. Database(d) /\ Valid(Block(d, c))
  BY BlockIsValid DEF LogDatabase
<1> QED BY <1>1, RecordsLeave, AfterLeads

LEMMA VotesChanged ==
  ASSUME NEW d, LogDatabase(d), NEW votes, Votes(votes), VotesGrow(d.votes, votes),
         Earned(d, votes), NEW e, Database(e), e.record = d.record, e.votes = votes
  PROVE  Leads(d, e)
<1>1. RowsKept(d, e) /\ Stored(e) = Stored(d)
  BY DEF RowsKept, RowKept, Stored
<1>2. Earned(e, votes)
  BY <1>1, EarnedStays DEF VotesGrow
<1> QED BY <1>1, <1>2 DEF LogDatabase, Leads, Stored

\* One more approval, if it is due, is earned.
LEMMA EarnedMore ==
  ASSUME NEW d, LogDatabase(d), NEW votes, VotesGrow(d.votes, votes), NEW given,
         NEW c, NEW o, ApprovedAlready(d.votes, votes, given, <<c, o>>),
         given => Due(d, d.votes, c, o)
  PROVE  Earned(d, votes)
<1>1. RowsKept(d, d)
  BY LeadsNowhere DEF Leads
<1> SUFFICES ASSUME NEW key, Approved(votes, key)
             PROVE  Due(d, votes, key[1], key[2])
  BY DEF Earned
<1>2. CASE Approved(d.votes, key)
  BY <1>1, <1>2, DueStays DEF LogDatabase, Earned
<1>3. CASE given /\ key = <<c, o>>
  BY <1>1, <1>3, DueStays
<1> QED BY <1>2, <1>3 DEF ApprovedAlready

LEMMA InheritLeads ==
  ASSUME NEW d, LogDatabase(d), NEW c
  PROVE  Leads(d, InheritVotes(d, c))
<1> DEFINE new == UNION {Voters(d, a) : a \in Ancestors(d, c)} \ Voters(d, c)
           vote == [approved |-> FALSE, new_member |-> FALSE]
           given == [key \in {c} \X new |-> vote]
           votes == Joined(d.votes, given)
<1>1. InheritVotes(d, c) = [d EXCEPT !.votes = votes]
  BY DEF InheritVotes, LogDatabase, Database
<1>2. vote \in Vote
  BY DEF Vote
<1> HIDE DEF vote, new
<1>3. /\ votes = [key \in DOMAIN votes |-> votes[key]]
      /\ \A key \in DOMAIN d.votes : key \in DOMAIN votes /\ votes[key] = d.votes[key]
      /\ \A key \in DOMAIN votes : key \in DOMAIN d.votes \/ votes[key] = vote
  BY DEF Joined
<1> HIDE DEF votes
<1>4. Votes(votes) /\ VotesGrow(d.votes, votes)
  BY <1>2, <1>3 DEF LogDatabase, Votes, VotesGrow, Approved
<1>5. \A k : Approved(votes, k) => Approved(d.votes, k)
  BY <1>3 DEF Approved, vote
<1>6. Earned(d, votes)
  BY <1>4, <1>5, EarnedStays, LeadsNowhere DEF LogDatabase, Leads
<1> DEFINE e == InheritVotes(d, c)
<1>7. Database(e) /\ e.record = d.record /\ e.votes = votes
  BY <1>1 DEF LogDatabase, Database
<1> HIDE DEF e
<1>8. Leads(d, e)
  BY <1>4, <1>6, <1>7, VotesChanged
<1> QED BY <1>8 DEF e

LEMMA ProcessBlockLeads ==
  ASSUME NEW d, LogDatabase(d), NEW c \in Stored(d)
  PROVE  Leads(d, process_block(d, c).db)
<1> DEFINE e == InheritVotes(d, c)
           tried == IF Spoiled(d, c) THEN [db |-> e, completed |-> FALSE]
                    ELSE process_records(e, Block(d, c))
<1>1. Leads(d, e) /\ LogDatabase(e) /\ c \in Stored(e)
  BY InheritLeads DEF Leads
<1>2. Block(e, c) = Block(d, c)
  BY DEF InheritVotes, Block, LogDatabase, Database
<1>3. Leads(d, tried.db) /\ LogDatabase(tried.db)
  <2>1. Leads(e, process_records(e, Block(d, c)).db)
    BY <1>1, <1>2, RecordsLead
  <2>2. Leads(d, process_records(e, Block(d, c)).db)
    BY <1>1, <2>1, LeadsOn
  <2> HIDE DEF e
  <2> QED BY <1>1, <2>2 DEF Leads
<1> HIDE DEF tried
<1>4. Leads(d, Settle(d, c, tried).db)
  <2>1. Leads(tried.db, SetState(tried.db, {c}, "leaf"))
    BY <1>3, SetStateLeads
  <2>2. Leads(SetState(tried.db, {c}, "leaf"),
              SetState(SetState(tried.db, {c}, "leaf"), Superseded(d, c), "processed"))
    BY <2>1, SetStateLeads DEF Leads
  <2>3. Leads(tried.db, SetState(tried.db, {c}, "invalid"))
    BY <1>3, SetStateLeads
  <2> QED BY <1>3, <2>1, <2>2, <2>3, LeadsOn DEF Settle
<1>5. CASE Waits(d, c)
  BY <1>5, LeadsNowhere DEF process_block
<1>6. CASE ~ Waits(d, c)
  BY <1>4, <1>6 DEF process_block, tried
<1> QED BY <1>5, <1>6

LEMMA ApproveLeads ==
  ASSUME NEW d, LogDatabase(d), NEW b, NEW c, NEW consensus,
         Due(d, d.votes, c, d.record[b].writer)
  PROVE  LET e == Approve(d, b, c, consensus)
         IN  /\ Leads(d, e)
             /\ Failed(e) \/ Approved(e.votes, <<c, d.record[b].writer>>)
<1> DEFINE owner == d.record[b].writer
           key == <<c, owner>>
           votes == [d.votes EXCEPT ![key].approved = TRUE]
           e == Approve(d, b, c, consensus)
<1>1. CASE key \in DOMAIN d.votes
  <2>1. e = [d EXCEPT !.votes = votes]
    BY <1>1 DEF Approve, LogDatabase, Database
  <2>6. Database(e) /\ e.record = d.record /\ e.votes = votes
    BY <2>1 DEF LogDatabase, Database
  <2>2. d.votes[key] \in Vote
    BY <1>1 DEF LogDatabase, Votes
  <2> HIDE DEF key, e
  <2>3. [d.votes[key] EXCEPT !.approved = TRUE] \in Vote /\ [d.votes[key] EXCEPT !.approved = TRUE].approved
    BY <2>2 DEF Vote
  <2>4. /\ Votes(votes) /\ VotesGrow(d.votes, votes)
        /\ ApprovedAlready(d.votes, votes, TRUE, key) /\ Approved(votes, key)
    BY <1>1, <2>3 DEF Votes, VotesGrow, LogDatabase, Approved, ApprovedAlready
  <2> HIDE DEF votes
  <2>5. Earned(d, votes)
    BY <2>4, EarnedMore DEF key
  <2> QED BY <2>4, <2>5, <2>6, VotesChanged DEF key, e
<1>2. CASE key \notin DOMAIN d.votes /\ consensus
  <2>1. e = InsertVote(d, c, owner, TRUE, TRUE)
    BY <1>2 DEF Approve
  <2> HIDE DEF e
  <2>2. /\ Database(e) /\ e.record = d.record /\ Votes(e.votes) /\ VotesGrow(d.votes, e.votes)
        /\ ApprovedAlready(d.votes, e.votes, TRUE, key)
        /\ Failed(e) \/ Approved(e.votes, key)
    BY <2>1, VoteInserted DEF LogDatabase
  <2>3. Earned(d, e.votes)
    BY <2>2, EarnedMore
  <2> QED BY <2>2, <2>3, VotesChanged DEF e
<1>3. CASE key \notin DOMAIN d.votes /\ ~ consensus
  <2>1. Approve(d, b, c, consensus) = Fail(d, "Invalid data")
    BY <1>3 DEF Approve
  <2>2. Failed(Fail(d, "Invalid data"))
    BY DEF Failed, Fail, LogDatabase, Database
  <2> QED BY <2>1, <2>2, FailLeads
<1> QED BY <1>1, <1>2, <1>3

-----------------------------------------------------------------------------
(***************************************************************************)
(* Sequences as worklists.                                                 *)
(***************************************************************************)
Listed(s) == s \in Seq(ToSet(s))

LEMMA ListedFacts ==
  ASSUME NEW s, Listed(s)
  PROVE  /\ Len(s) \in Nat /\ DOMAIN s = 1..Len(s)
         /\ \A i \in 1..Len(s) : s[i] \in ToSet(s)
<1>1. Len(s) \in Nat /\ DOMAIN s = 1..Len(s)
  BY LenProperties DEF Listed
<1> QED BY <1>1 DEF ToSet

LEMMA ListPrepended ==
  ASSUME NEW s, Listed(s), NEW x
  PROVE  Listed(<<x>> \o s) /\ ToSet(<<x>> \o s) = {x} \cup ToSet(s)
<1> DEFINE T == {x} \cup ToSet(s)
           one == <<x>>
           t == one \o s
<1>1. one \in Seq(T) /\ Len(one) = 1 /\ one[1] = x
  OBVIOUS
<1>2. s \in Seq(T) /\ Len(s) \in Nat /\ DOMAIN s = 1..Len(s)
  BY LenProperties, SeqMonotonic DEF Listed
<1> HIDE DEF one
<1> HIDE DEF T
<1>3. /\ t \in Seq(T) /\ Len(t) = Len(one) + Len(s)
      /\ \A i \in 1..(Len(one) + Len(s)) : t[i] = IF i <= Len(one) THEN one[i] ELSE s[i - Len(one)]
  BY <1>1, <1>2, ConcatProperties
<1>4. DOMAIN t = 1..(1 + Len(s))
  BY <1>1, <1>3, LenProperties
<1>9. Len(t) = 1 + Len(s) /\ \A i \in 1..(1 + Len(s)) : t[i] = IF i <= 1 THEN one[i] ELSE s[i - 1]
  BY <1>1, <1>3
<1> HIDE DEF t
<1>5. ToSet(t) \subseteq T
  BY <1>1, <1>3, <1>4, ElementOfSeq DEF ToSet
<1>6. x \in ToSet(t)
  <2>1. 1 \in 1..(1 + Len(s)) /\ t[1] = x
    BY <1>1, <1>2, <1>3
  <2> QED BY <1>4, <2>1 DEF ToSet
<1>7. ToSet(s) \subseteq ToSet(t)
  <2>1. \A i \in 1..Len(s) : i + 1 \in 1..(1 + Len(s)) /\ t[i + 1] = s[i]
    <3> TAKE i \in 1..Len(s)
    <3>1. i + 1 \in 1..(1 + Len(s)) /\ ~ (i + 1 <= 1) /\ (i + 1) - 1 = i
      BY <1>2
    <3> QED BY <1>9, <3>1
  <2> QED BY <1>2, <1>4, <2>1 DEF ToSet
<1>8. ToSet(t) = T
  BY <1>5, <1>6, <1>7 DEF T
<1> QED BY <1>3, <1>8 DEF Listed, T, t, one

LEMMA ListTail ==
  ASSUME NEW s, Listed(s), s # <<>>
  PROVE  /\ Head(s) \in ToSet(s)
         /\ Listed(Tail(s)) /\ ToSet(Tail(s)) \subseteq ToSet(s)
<1>1. /\ Head(s) \in ToSet(s) /\ Tail(s) \in Seq(ToSet(s)) /\ Len(Tail(s)) = Len(s) - 1
      /\ Len(s) \in Nat
  BY HeadTailProperties, LenProperties DEF Listed
<1> DEFINE t == Tail(s)
<1>2. Len(t) \in Nat /\ DOMAIN t = 1..Len(t) /\ t \in [1..Len(t) -> ToSet(s)]
  BY <1>1, LenProperties
<1> HIDE DEF t
<1>3. ToSet(t) \subseteq ToSet(s) /\ t \in [1..Len(t) -> ToSet(t)]
  BY <1>2 DEF ToSet
<1>4. t \in Seq(ToSet(t))
  BY <1>2, <1>3, SeqDef
<1> QED BY <1>1, <1>3, <1>4 DEF Listed, t

LEMMA EmptyListed == Listed(<<>>) /\ ToSet(<<>>) = {}
BY EmptySeq DEF Listed, ToSet

-----------------------------------------------------------------------------
(***************************************************************************)
(* The walk of update_consensus.                                           *)
(***************************************************************************)

\* Candidates are stored blocks.
Candidates(ps, d) == Listed(ps) /\ \A p \in ToSet(ps) : p.id \in Stored(d)

WalkGood(w) ==
  /\ w = [db |-> w.db, by |-> w.by, done |-> w.done, candidates |-> w.candidates,
          queue |-> w.queue]
  /\ LogDatabase(w.db)
  /\ w.by \in Stored(w.db)
  /\ \A c \in DOMAIN w.queue : Due(w.db, w.db.votes, c, w.db.record[w.by].writer)
  /\ Candidates(w.candidates, w.db)

Onward(w, v) == Leads(w.db, v.db)

Walk == INSTANCE IterationProofs WITH Step <- ApproveNext, Good <- WalkGood, Keeps <- Onward

LEMMA JoinedDomain ==
  ASSUME NEW f, NEW g
  PROVE  DOMAIN Joined(f, g) = DOMAIN f \cup DOMAIN g
BY DEF Joined

LEMMA RestrictedDomain ==
  ASSUME NEW f, NEW S
  PROVE  DOMAIN Restrict(f, S) = S
BY DEF Restrict

LEMMA WalkDatabase ==
  ASSUME NEW w, WalkGood(w), NEW d, Leads(w.db, d)
  PROVE  WalkGood([w EXCEPT !.db = d]) /\ Onward(w, [w EXCEPT !.db = d])
<1>1. [w EXCEPT !.db = d] = [db |-> d, by |-> w.by, done |-> w.done, candidates |-> w.candidates,
                             queue |-> w.queue]
  BY DEF WalkGood
<1>2. w.by \in Stored(d) /\ d.record[w.by].writer = w.db.record[w.by].writer
  BY DEF WalkGood, Leads, RowsKept, RowKept
<1>3. \A c \in DOMAIN w.queue : Due(d, d.votes, c, d.record[w.by].writer)
  BY <1>2, DueOn DEF WalkGood
<1>4. LogDatabase(d) /\ Candidates(w.candidates, d)
  BY DEF WalkGood, Candidates, Leads
<1> QED BY <1>1, <1>2, <1>3, <1>4 DEF WalkGood, Onward

LEMMA ExtendGood ==
  ASSUME NEW w, WalkGood(w), NEW c, NEW new, new \subseteq Ancestors(w.db, c),
         new # {} => /\ c \in Stored(w.db)
                     /\ Approved(w.db.votes, <<c, w.db.record[w.by].writer>>)
  PROVE  WalkGood(Extend(w, c, new)) /\ Onward(w, Extend(w, c, new))
<1>1. CASE ~ new \subseteq Stored(w.db)
  <2> DEFINE e == Fail(w.db, "Invalid data")
  <2>1. Leads(w.db, e)
    BY FailLeads DEF WalkGood
  <2>2. Extend(w, c, new) = [w EXCEPT !.db = e]
    BY <1>1 DEF Extend, WalkGood
  <2> HIDE DEF e
  <2>3. WalkGood([w EXCEPT !.db = e]) /\ Onward(w, [w EXCEPT !.db = e])
    BY <2>1, WalkDatabase
  <2> QED BY <2>2, <2>3
<1>2. CASE new \subseteq Stored(w.db)
  <2> DEFINE queue == Joined([a \in new |-> Known(w.db, a)], Restrict(w.queue, DOMAIN w.queue \ {c}))
  <2>1. Extend(w, c, new)
          = [db |-> w.db, by |-> w.by, done |-> w.done \cup {c}, candidates |-> w.candidates,
             queue |-> queue]
    BY <1>2 DEF Extend, WalkGood
  <2>2. DOMAIN queue \subseteq new \cup DOMAIN w.queue
    <3> DEFINE f == [a \in new |-> Known(w.db, a)]
               g == Restrict(w.queue, DOMAIN w.queue \ {c})
    <3>1. DOMAIN f = new /\ DOMAIN g = DOMAIN w.queue \ {c}
      BY RestrictedDomain
    <3> HIDE DEF f, g
    <3>2. DOMAIN Joined(f, g) = DOMAIN f \cup DOMAIN g
      BY JoinedDomain
    <3> QED BY <3>1, <3>2 DEF f, g
  <2> HIDE DEF queue
  <2>4. \A a \in new : Due(w.db, w.db.votes, a, w.db.record[w.by].writer)
    BY <1>2 DEF Due, Followers
  <2>5. \A a \in DOMAIN queue : Due(w.db, w.db.votes, a, w.db.record[w.by].writer)
    BY <2>2, <2>4 DEF WalkGood
  <2>3. Leads(w.db, w.db)
    BY LeadsNowhere DEF WalkGood
  <2> QED BY <2>1, <2>5, <2>3 DEF WalkGood, Onward
<1> QED BY <1>1, <1>2

LEMMA ProposeGood ==
  ASSUME NEW w, WalkGood(w), NEW c \in Stored(w.db)
  PROVE  /\ WalkGood(Propose(w, c)) /\ Onward(w, Propose(w, c))
         /\ Propose(w, c).db = w.db /\ Propose(w, c).by = w.by
<1>0. Leads(w.db, w.db)
  BY LeadsNowhere DEF WalkGood
<1>1. CASE Propose(w, c) = w
  BY <1>0, <1>1 DEF Onward
<1>2. CASE Propose(w, c) # w
  <2> DEFINE p == [id |-> c, state |-> w.queue[c].state]
             ps == <<p>> \o w.candidates
  <2>1. Propose(w, c) = [db |-> w.db, by |-> w.by, done |-> w.done, candidates |-> ps,
                         queue |-> w.queue]
    BY <1>2 DEF Propose, WalkGood
  <2>2. Listed(ps) /\ ToSet(ps) = {p} \cup ToSet(w.candidates)
    BY ListPrepended DEF WalkGood, Candidates
  <2> HIDE DEF ps
  <2>3. Candidates(ps, w.db)
    BY <2>2 DEF WalkGood, Candidates
  <2> QED BY <1>0, <2>1, <2>3 DEF WalkGood, Onward
<1> QED BY <1>1, <1>2

LEMMA VisitGood ==
  ASSUME NEW w, WalkGood(w), NEW c \in Stored(w.db),
         Failed(w.db) \/ Approved(w.db.votes, <<c, w.db.record[w.by].writer>>)
  PROVE  WalkGood(Visit(w, c)) /\ Onward(w, Visit(w, c))
<1>1. CASE Failed(w.db)
  BY <1>1, LeadsNowhere DEF Visit, WalkGood, Onward
<1>2. CASE ~ Failed(w.db)
  <2> DEFINE v == Propose(w, c)
  <2>1. WalkGood(v) /\ Onward(w, v) /\ v.db = w.db /\ v.by = w.by
    BY ProposeGood
  <2>4. Onwards(w, c) \subseteq Ancestors(w.db, c)
    BY DEF Onwards
  <2> HIDE DEF v
  <2>2. WalkGood(Extend(v, c, Onwards(w, c))) /\ Onward(v, Extend(v, c, Onwards(w, c)))
    BY <1>2, <2>1, <2>4, ExtendGood
  <2>3. Visit(w, c) = Extend(v, c, Onwards(w, c))
    BY <1>2 DEF Visit, v
  <2> QED BY <2>1, <2>2, <2>3, LeadsOn DEF Onward
<1> QED BY <1>1, <1>2

LEMMA ApproveNextGood ==
  ASSUME NEW w, WalkGood(w)
  PROVE  WalkGood(ApproveNext(w)) /\ Onward(w, ApproveNext(w))
<1>1. CASE Failed(w.db) \/ DOMAIN w.queue = {}
  BY <1>1, LeadsNowhere DEF ApproveNext, WalkGood, Onward
<1>2. CASE ~ (Failed(w.db) \/ DOMAIN w.queue = {})
  <2> DEFINE c == Min(DOMAIN w.queue)
             d == Approve(w.db, w.by, c, w.queue[c].consensus)
             v == [w EXCEPT !.db = d]
  <2>4. DOMAIN w.queue \subseteq Nat /\ DOMAIN w.queue \subseteq Stored(w.db)
    BY DEF WalkGood, LogDatabase, Due
  <2>1. c \in Stored(w.db) /\ Due(w.db, w.db.votes, c, w.db.record[w.by].writer)
    BY <1>2, <2>4, MinIn DEF WalkGood
  <2> HIDE DEF c
  <2>2. CASE HasApproved(w.db, w.by, c)
    <3>1. ApproveNext(w) = Extend(w, c, {})
      BY <1>2, <2>2 DEF ApproveNext, c
    <3>2. WalkGood(Extend(w, c, {})) /\ Onward(w, Extend(w, c, {}))
      BY ExtendGood
    <3> QED BY <3>1, <3>2
  <2>3. CASE ~ HasApproved(w.db, w.by, c)
    <3>1. ApproveNext(w) = Visit(v, c)
      BY <1>2, <2>3 DEF ApproveNext, c, WalkGood
    <3>2. /\ Leads(w.db, d)
          /\ Failed(d) \/ Approved(d.votes, <<c, w.db.record[w.by].writer>>)
      BY <2>1, ApproveLeads DEF WalkGood
    <3> HIDE DEF d
    <3>3. WalkGood(v) /\ Onward(w, v) /\ v.db = d /\ v.by = w.by
      BY <3>2, WalkDatabase DEF WalkGood
    <3>6. d.record[w.by].writer = w.db.record[w.by].writer
      BY <3>2 DEF WalkGood, Leads, RowsKept, RowKept
    <3>4. c \in Stored(v.db) /\ (Failed(v.db) \/ Approved(v.db.votes, <<c, v.db.record[v.by].writer>>))
      BY <2>1, <3>2, <3>3, <3>6 DEF Leads
    <3> HIDE DEF v
    <3>5. WalkGood(Visit(v, c)) /\ Onward(v, Visit(v, c))
      BY <3>3, <3>4, VisitGood
    <3> QED BY <3>1, <3>3, <3>5, LeadsOn DEF Onward
  <2> QED BY <2>2, <2>3
<1> QED BY <1>1, <1>2

LEMMA ApproveAllGood ==
  ASSUME NEW w, WalkGood(w)
  PROVE  WalkGood(ApproveAll(w)) /\ Onward(w, ApproveAll(w))
<1> DEFINE n == Cardinality(Stored(w.db))
<1>1. n \in Nat
  BY StoredCount DEF WalkGood
<1>2. Onward(w, w)
  BY LeadsNowhere DEF WalkGood, Onward
<1>3. \A v : WalkGood(v) /\ Onward(w, v) => WalkGood(ApproveNext(v)) /\ Onward(w, ApproveNext(v))
  BY ApproveNextGood, LeadsOn DEF Onward
<1>4. ApproveAll(w) = Walk!Repeat(n, w)
  BY DEF ApproveAll, Repeat, Walk!Repeat
<1> HIDE DEF n
<1> QED BY <1>1, <1>2, <1>3, <1>4, Walk!StepsKeep

-----------------------------------------------------------------------------
(***************************************************************************)
(* rollback_all and invalid_block.                                         *)
(***************************************************************************)
RollGood(r) ==
  /\ r = [db |-> r.db, done |-> r.done, min_order |-> r.min_order, queue |-> r.queue]
  /\ LogDatabase(r.db) /\ r.queue \subseteq Stored(r.db)

Roll == INSTANCE IterationProofs WITH Step <- RollbackNext, Good <- RollGood, Keeps <- Onward

LEMMA UndoneGood ==
  ASSUME NEW r, RollGood(r), NEW c, NEW new
  PROVE  RollGood(Undone(r, c, new)) /\ Onward(r, Undone(r, c, new))
<1>0. Leads(r.db, r.db)
  BY LeadsNowhere DEF RollGood
<1>1. CASE Failed(r.db)
  BY <1>0, <1>1 DEF Undone, Onward
<1>2. CASE ~ Failed(r.db) /\ ~ new \subseteq With(r.db, "processed")
  <2> DEFINE e == Fail(r.db, "Invalid data")
  <2>1. Leads(r.db, e)
    BY FailLeads DEF RollGood
  <2>2. Undone(r, c, new) = [db |-> e, done |-> r.done, min_order |-> r.min_order,
                             queue |-> r.queue]
    BY <1>2 DEF Undone, RollGood
  <2> HIDE DEF e
  <2> QED BY <2>1, <2>2 DEF RollGood, Onward, Leads
<1>3. CASE ~ Failed(r.db) /\ new \subseteq With(r.db, "processed")
  <2> DEFINE kept == {a \in new : Kept(r.db, a, r.min_order)}
             d == SetState(r.db, {c}, "validated")
             e == SetState(d, kept, "leaf")
             queue == (r.queue \ {c}) \cup (new \ kept)
             done == r.done \cup {c} \cup kept
  <2>1. Undone(r, c, new) = [db |-> e, done |-> done, min_order |-> r.min_order, queue |-> queue]
    BY <1>3 DEF Undone, RollGood
  <2>2. Leads(r.db, d) /\ LogDatabase(d)
    BY SetStateLeads DEF RollGood, Leads
  <2> HIDE DEF d
  <2>3. Leads(d, e)
    BY <2>2, SetStateLeads
  <2>4. Leads(r.db, e)
    BY <2>2, <2>3, LeadsOn
  <2>5. queue \subseteq Stored(r.db)
    BY <1>3 DEF RollGood, With
  <2> HIDE DEF e, queue, done
  <2> QED BY <2>1, <2>4, <2>5 DEF RollGood, Onward, Leads
<1> QED BY <1>1, <1>2, <1>3

LEMMA RollbackNextGood ==
  ASSUME NEW r, RollGood(r)
  PROVE  RollGood(RollbackNext(r)) /\ Onward(r, RollbackNext(r))
<1>1. CASE Failed(r.db) \/ r.queue = {}
  BY <1>1, LeadsNowhere DEF RollbackNext, RollGood, Onward
<1>2. CASE ~ (Failed(r.db) \/ r.queue = {})
  <2> DEFINE c == Min(r.queue)
             d == undo_records(r.db, Block(r.db, c))
             v == [r EXCEPT !.db = d]
             new == Ancestors(r.db, c) \ (r.done \cup r.queue)
  <2>1. c \in Stored(r.db)
    BY <1>2, MinIn DEF RollGood, LogDatabase
  <2>2. RollbackNext(r) = Undone(v, c, new)
    BY <1>2 DEF RollbackNext, RollGood
  <2> HIDE DEF c
  <2>3. Leads(r.db, d)
    BY <2>1, RecordsLead DEF RollGood
  <2> HIDE DEF d
  <2>4. RollGood(v) /\ v.db = d
    BY <2>3 DEF RollGood, Leads
  <2> HIDE DEF v, new
  <2>5. RollGood(Undone(v, c, new)) /\ Onward(v, Undone(v, c, new))
    BY <2>4, UndoneGood
  <2> QED BY <2>2, <2>3, <2>4, <2>5, LeadsOn DEF Onward
<1> QED BY <1>1, <1>2

LEMMA RollbackLeads ==
  ASSUME NEW d, LogDatabase(d), NEW min_order
  PROVE  Leads(d, rollback_all(d, min_order))
<1> DEFINE n == Cardinality(Stored(d))
           queue == {c \in With(d, "leaf") :
                       d.record[c].order_no >= min_order /\ ~ d.record[c].consensus}
           r == [db |-> d, done |-> {}, min_order |-> min_order, queue |-> queue]
<1>1. n \in Nat
  BY StoredCount
<1>2. queue \subseteq Stored(d)
  BY DEF With
<1>3. rollback_all(d, min_order) = Roll!Repeat(n, r).db
  BY DEF rollback_all, Repeat, Roll!Repeat
<1> HIDE DEF n, queue
<1>4. RollGood(r) /\ Onward(r, r) /\ r.db = d
  BY <1>2, LeadsNowhere DEF RollGood, Onward
<1> HIDE DEF r
<1>5. \A v : RollGood(v) /\ Onward(r, v) => RollGood(RollbackNext(v)) /\ Onward(r, RollbackNext(v))
  BY RollbackNextGood, LeadsOn DEF Onward
<1>6. Onward(r, Roll!Repeat(n, r))
  BY <1>1, <1>4, <1>5, Roll!StepsKeep
<1> QED BY <1>3, <1>4, <1>6 DEF Onward

LEMMA InvalidLeads ==
  ASSUME NEW d, LogDatabase(d), NEW c, NEW state
  PROVE  Leads(d, invalid_block(d, c, state))
BY SetStateLeads, FailLeads DEF invalid_block

InvalidGood(w) == LogDatabase(w.db)

Invalid == INSTANCE IterationProofs
             WITH Step <- InvalidateNext, Good <- InvalidGood, Keeps <- Onward

LEMMA InvalidateLeads ==
  ASSUME NEW d, LogDatabase(d), NEW C, C \subseteq Stored(d)
  PROVE  Leads(d, InvalidateAll(d, C))
<1> DEFINE n == Cardinality(C)
           w == [db |-> d, left |-> C]
<1>1. n \in Nat
  BY StoredCount
<1>2. InvalidateAll(d, C) = Invalid!Repeat(n, w).db
  BY DEF InvalidateAll, Repeat, Invalid!Repeat
<1> HIDE DEF n
<1>3. InvalidGood(w) /\ Onward(w, w) /\ w.db = d
  BY LeadsNowhere DEF InvalidGood, Onward
<1> HIDE DEF w
<1>4. \A v : InvalidGood(v) /\ Onward(w, v)
               => InvalidGood(InvalidateNext(v)) /\ Onward(w, InvalidateNext(v))
  <2> TAKE v
  <2> HAVE InvalidGood(v) /\ Onward(w, v)
  <2>1. CASE InvalidateNext(v) = v
    BY <2>1
  <2>2. CASE InvalidateNext(v).db = invalid_block(v.db, Min(v.left), "invalid")
    <3>1. Leads(v.db, InvalidateNext(v).db)
      BY <2>2, InvalidLeads DEF InvalidGood
    <3> QED BY <3>1, LeadsOn DEF InvalidGood, Onward, Leads
  <2> QED BY <2>1, <2>2 DEF InvalidateNext
<1>5. Onward(w, Invalid!Repeat(n, w))
  BY <1>1, <1>3, <1>4, Invalid!StepsKeep
<1> QED BY <1>2, <1>3, <1>5 DEF Onward

-----------------------------------------------------------------------------
(***************************************************************************)
(* The candidates: confirmed, and reinstated.                              *)
(***************************************************************************)
LEMMA ConfirmLeads ==
  ASSUME NEW d, LogDatabase(d), NEW p, p.id \in Stored(d), NEW reopen
  PROVE  Leads(d, Confirm(d, p, reopen))
<1> DEFINE c == p.id
           row == [d.record[c] EXCEPT !.consensus = TRUE]
           record == [d.record EXCEPT ![c] = row]
           e == [d EXCEPT !.record = record]
<1>1. Row(d.record[c])
  BY DEF LogDatabase
<1>2. Row(row) /\ RowKept(d.record[c], row)
  BY <1>1, RowConsensusSet
<1>3. \A a \in Stored(d) : Row(d.record[a]) /\ RowKept(d.record[a], d.record[a])
  BY DEF LogDatabase, RowKept
<1> HIDE DEF row
<1>4. record = [a \in Stored(d) |-> record[a]]
  BY DEF Stored, LogDatabase
<1>5. \A a \in Stored(d) : record[a] = IF a = c THEN row ELSE d.record[a]
  BY DEF Stored, LogDatabase
<1> HIDE DEF record
<1>6. Leads(d, e)
  <2>1. \A a \in Stored(d) : Row(record[a]) /\ RowKept(d.record[a], record[a])
    BY <1>2, <1>3, <1>5
  <2> QED BY <1>4, <2>1, RecordChanged
<1>7. e = [d EXCEPT !.record[p.id].consensus = TRUE]
  BY DEF LogDatabase, Database, record, row
<1> HIDE DEF e
<1>8. LogDatabase(e) /\ c \in Stored(e)
  BY <1>6 DEF Leads
<1>9. Leads(e, consensus_records(e, Block(e, c)))
  BY <1>8, RecordsLead
<1>10. Leads(e, Fail(e, "Invalid program"))
  BY <1>8, FailLeads
<1> QED BY <1>6, <1>7, <1>9, <1>10, LeadsOn DEF Confirm

LEMMA ReinstateLeads ==
  ASSUME NEW d, LogDatabase(d), NEW p, p.id \in Stored(d)
  PROVE  Leads(d, Reinstate(d, p))
<1> DEFINE c == p.id
           opened == invalid_block(d, c, "validated")
           tried == Reopened(opened, c)
<1>1. CASE p.state # "invalid"
  BY <1>1, LeadsNowhere DEF Reinstate
<1>2. CASE p.state = "invalid"
  <2>1. Leads(d, opened) /\ LogDatabase(opened) /\ c \in Stored(opened)
    BY InvalidLeads DEF Leads
  <2> HIDE DEF opened
  <2>2. Leads(opened, process_block(opened, c).db)
    BY <2>1, ProcessBlockLeads
  <2>3. Leads(opened, tried.db)
    BY <2>1, <2>2, LeadsNowhere DEF Reopened
  <2>4. Leads(d, tried.db)
    BY <2>1, <2>3, LeadsOn
  <2> HIDE DEF tried
  <2>5. LogDatabase(tried.db) /\ c \in Stored(tried.db)
    BY <2>4 DEF Leads
  <2>6. /\ Leads(tried.db, consensus_records(tried.db, Block(tried.db, c)))
        /\ Leads(tried.db, Fail(tried.db, "Invalid program"))
        /\ Leads(tried.db, tried.db)
    BY <2>5, RecordsLead, FailLeads, LeadsNowhere
  <2>7. Leads(tried.db, ConfirmLeaf(tried, c))
    BY <2>6 DEF ConfirmLeaf
  <2>8. Reinstate(d, p) = ConfirmLeaf(tried, c)
    BY <1>2 DEF Reinstate, tried, opened
  <2> QED BY <2>4, <2>7, <2>8, LeadsOn
<1> QED BY <1>1, <1>2

ListGood(w) ==
  /\ w = [db |-> w.db, left |-> w.left, reopen |-> w.reopen]
  /\ LogDatabase(w.db) /\ Candidates(w.left, w.db)

Confirming == INSTANCE IterationProofs
                WITH Step <- ConfirmNext, Good <- ListGood, Keeps <- Onward
Reinstating == INSTANCE IterationProofs
                 WITH Step <- ReinstateNext, Good <- ListGood, Keeps <- Onward

\* The head of the list has led from w.db to d.
LEMMA ListOn ==
  ASSUME NEW w, ListGood(w), w.left # <<>>, NEW d, Leads(w.db, d),
         NEW v, v = [w EXCEPT !.db = d, !.left = Tail(@)]
  PROVE  ListGood(v) /\ Onward(w, v)
<1>1. v = [db |-> d, left |-> Tail(w.left), reopen |-> w.reopen]
  BY DEF ListGood
<1>2. Listed(Tail(w.left)) /\ ToSet(Tail(w.left)) \subseteq ToSet(w.left)
  BY ListTail DEF ListGood, Candidates
<1> QED BY <1>1, <1>2 DEF ListGood, Candidates, Onward, Leads

LEMMA HeadStored ==
  ASSUME NEW w, ListGood(w), w.left # <<>>
  PROVE  Head(w.left).id \in Stored(w.db)
BY ListTail DEF ListGood, Candidates

LEMMA ConfirmNextGood ==
  ASSUME NEW w, ListGood(w)
  PROVE  ListGood(ConfirmNext(w)) /\ Onward(w, ConfirmNext(w))
<1>1. CASE Failed(w.db) \/ w.left = <<>>
  BY <1>1, LeadsNowhere DEF ConfirmNext, ListGood, Onward
<1>2. CASE ~ (Failed(w.db) \/ w.left = <<>>)
  <2> DEFINE d == Confirm(w.db, Head(w.left), w.reopen)
  <2>1. Leads(w.db, d)
    BY <1>2, HeadStored, ConfirmLeads DEF ListGood
  <2>2. ConfirmNext(w) = [w EXCEPT !.db = d, !.left = Tail(@)]
    BY <1>2 DEF ConfirmNext, ListGood
  <2> HIDE DEF d
  <2> QED BY <1>2, <2>1, <2>2, ListOn
<1> QED BY <1>1, <1>2

LEMMA ReinstateNextGood ==
  ASSUME NEW w, ListGood(w)
  PROVE  ListGood(ReinstateNext(w)) /\ Onward(w, ReinstateNext(w))
<1>1. CASE Failed(w.db) \/ w.left = <<>>
  BY <1>1, LeadsNowhere DEF ReinstateNext, ListGood, Onward
<1>2. CASE ~ (Failed(w.db) \/ w.left = <<>>)
  <2> DEFINE d == Reinstate(w.db, Head(w.left))
  <2>1. Leads(w.db, d)
    BY <1>2, HeadStored, ReinstateLeads DEF ListGood
  <2>2. ReinstateNext(w) = [w EXCEPT !.db = d, !.left = Tail(@)]
    BY <1>2 DEF ReinstateNext, ListGood
  <2> HIDE DEF d
  <2> QED BY <1>2, <2>1, <2>2, ListOn
<1> QED BY <1>1, <1>2

LEMMA CandidatesLead ==
  ASSUME NEW d, LogDatabase(d), NEW ps, Candidates(ps, d)
  PROVE  /\ Leads(d, ForCandidates(d, ps, ConfirmNext))
         /\ Leads(d, ForCandidates(d, ps, ReinstateNext))
<1> DEFINE n == Len(ps)
           w == [db |-> d, left |-> ps, reopen |-> Reopens(ps)]
<1>1. n \in Nat
  BY ListedFacts DEF Candidates
<1>2. /\ ForCandidates(d, ps, ConfirmNext) = Confirming!Repeat(n, w).db
      /\ ForCandidates(d, ps, ReinstateNext) = Reinstating!Repeat(n, w).db
  BY DEF ForCandidates, Repeat, Confirming!Repeat, Reinstating!Repeat
<1> HIDE DEF n
<1>3. ListGood(w) /\ Onward(w, w) /\ w.db = d
  BY LeadsNowhere DEF ListGood, Onward
<1> HIDE DEF w
<1>4. \A v : ListGood(v) /\ Onward(w, v) => ListGood(ConfirmNext(v)) /\ Onward(w, ConfirmNext(v))
  BY ConfirmNextGood, LeadsOn DEF Onward
<1>5. \A v : ListGood(v) /\ Onward(w, v)
               => ListGood(ReinstateNext(v)) /\ Onward(w, ReinstateNext(v))
  BY ReinstateNextGood, LeadsOn DEF Onward
<1>6. Onward(w, Confirming!Repeat(n, w))
  BY <1>1, <1>3, <1>4, Confirming!StepsKeep
<1>7. Onward(w, Reinstating!Repeat(n, w))
  BY <1>1, <1>3, <1>5, Reinstating!StepsKeep
<1> QED BY <1>2, <1>3, <1>6, <1>7 DEF Onward

-----------------------------------------------------------------------------
(***************************************************************************)
(* update_consensus.                                                       *)
(***************************************************************************)
LEMMA ReplayIsStored ==
  ASSUME NEW d
  PROVE  ToReplay(d) \subseteq Stored(d)
BY DEF ToReplay, Followers

LEMMA ReorganiseLeads ==
  ASSUME NEW d, LogDatabase(d), NEW ps, Candidates(ps, d)
  PROVE  /\ Leads(d, Reorganise(d, ps).db)
         /\ Reorganise(d, ps).replay \subseteq Stored(d)
<1> DEFINE min_order == Min({d.record[p.id].order_no : p \in ToSet(ps)})
           back == rollback_all(d, min_order)
           e == Reorganised(d, ps)
<1>1. Leads(d, back) /\ LogDatabase(back) /\ Candidates(ps, back)
  BY RollbackLeads DEF Leads, Candidates
<1>2. e = ForCandidates(back, ps, ReinstateNext)
  BY DEF Reorganised
<1> HIDE DEF back
<1>3. Leads(d, e)
  BY <1>1, <1>2, CandidatesLead, LeadsOn
<1>4. ToReplay(e) \subseteq Stored(d)
  BY <1>3, ReplayIsStored DEF Leads
<1> HIDE DEF e
<1>5. \/ Reorganise(d, ps) = [db |-> d, result |-> TRUE, replay |-> {}]
      \/ Reorganise(d, ps) = [db |-> e, result |-> FALSE, replay |-> ToReplay(e)]
  BY DEF Reorganise, e
<1> QED BY <1>3, <1>4, <1>5, LeadsNowhere

LEMMA ConfirmAllLeads ==
  ASSUME NEW w, WalkGood(w)
  PROVE  /\ Leads(w.db, ConfirmAll(w).db)
         /\ ConfirmAll(w).replay \subseteq Stored(w.db)
<1> DEFINE d == ForCandidates(w.db, w.candidates, ConfirmNext)
<1>1. Leads(w.db, d)
  BY CandidatesLead DEF WalkGood
<1> HIDE DEF d
<1>2. LogDatabase(d) /\ Candidates(w.candidates, d) /\ Stored(d) = Stored(w.db)
  BY <1>1 DEF Leads, WalkGood, Candidates
<1>3. Leads(w.db, Reorganise(d, w.candidates).db)
      /\ Reorganise(d, w.candidates).replay \subseteq Stored(w.db)
  BY <1>1, <1>2, ReorganiseLeads, LeadsOn
<1>4. \/ ConfirmAll(w) = [db |-> w.db, result |-> TRUE, replay |-> {}]
      \/ ConfirmAll(w) = Reorganise(d, w.candidates)
  BY DEF ConfirmAll, d
<1>5. Leads(w.db, w.db)
  BY LeadsNowhere DEF WalkGood
<1> QED BY <1>3, <1>4, <1>5

LEMMA UpdateLeads ==
  ASSUME NEW d, LogDatabase(d), NEW c \in Stored(d), NEW state, NEW consensus
  PROVE  /\ Leads(d, update_consensus(d, c, state, consensus).db)
         /\ update_consensus(d, c, state, consensus).replay \subseteq Stored(d)
<1> DEFINE queue == [a \in {c} |-> [state |-> state, consensus |-> consensus]]
           w == [db |-> d, by |-> c, done |-> {}, candidates |-> <<>>, queue |-> queue]
           v == ApproveAll(w)
<1>1. DOMAIN queue = {c} /\ Due(d, d.votes, c, d.record[c].writer)
  BY DEF Due
<1>2. update_consensus(d, c, state, consensus) = ConfirmAll(v)
  BY DEF update_consensus
<1> HIDE DEF queue
<1>3. WalkGood(w) /\ w.db = d
  BY <1>1, EmptyListed DEF WalkGood, Candidates
<1> HIDE DEF w
<1>4. WalkGood(v) /\ Leads(d, v.db)
  BY <1>3, ApproveAllGood DEF Onward
<1> HIDE DEF v
<1>5. Leads(v.db, ConfirmAll(v).db) /\ ConfirmAll(v).replay \subseteq Stored(v.db)
  BY <1>4, ConfirmAllLeads
<1>6. Stored(v.db) = Stored(d)
  BY <1>4 DEF Leads
<1> QED BY <1>2, <1>4, <1>5, <1>6, LeadsOn

-----------------------------------------------------------------------------
(***************************************************************************)
(* process_block_with_followers.                                           *)
(***************************************************************************)
WorkGood(w) ==
  /\ w = [db |-> w.db, queue |-> w.queue, done |-> w.done, replays |-> w.replays]
  /\ LogDatabase(w.db)
  /\ DOMAIN w.queue \subseteq Stored(w.db)
  /\ Listed(w.replays) /\ \A R \in ToSet(w.replays) : R \subseteq Stored(w.db)

Working == INSTANCE IterationProofs WITH Step <- ProcessNext, Good <- WorkGood, Keeps <- Onward

\* A worklist on a database that a step led to.
LEMMA WorkOn ==
  ASSUME NEW w, WorkGood(w), NEW d, Leads(w.db, d),
         NEW queue, DOMAIN queue \subseteq Stored(w.db), NEW done,
         NEW replays, Listed(replays), \A R \in ToSet(replays) : R \subseteq Stored(w.db),
         NEW v, v = [db |-> d, queue |-> queue, done |-> done, replays |-> replays]
  PROVE  WorkGood(v) /\ Onward(w, v)
BY DEF WorkGood, Onward, Leads

LEMMA ProceedGood ==
  ASSUME NEW w, WorkGood(w), NEW update, Leads(w.db, update.db),
         update.replay \subseteq Stored(w.db), NEW c, NEW state
  PROVE  WorkGood(Proceed(w, update, c, state)) /\ Onward(w, Proceed(w, update, c, state))
<1> DEFINE d == update.db
           new == Followers(d, c) \ (w.done \cup DOMAIN w.queue)
           v == Proceed(w, update, c, state)
<1>0. DOMAIN w.queue \subseteq Stored(w.db) /\ Listed(w.replays)
      /\ \A R \in ToSet(w.replays) : R \subseteq Stored(w.db)
  BY DEF WorkGood
<1>1. CASE Failed(d)
  <2>1. v = [db |-> d, queue |-> w.queue, done |-> w.done, replays |-> w.replays]
    BY <1>1 DEF Proceed, WorkGood
  <2> QED BY <1>0, <2>1, WorkOn
<1>2. CASE ~ Failed(d) /\ ~ update.result
  <2> DEFINE queue == [f \in {} |-> FALSE]
             replays == <<update.replay>> \o w.replays
  <2>1. v = [db |-> d, queue |-> queue, done |-> w.done, replays |-> replays]
    BY <1>2 DEF Proceed, WorkGood
  <2>2. DOMAIN queue \subseteq Stored(w.db)
    OBVIOUS
  <2>3. Listed(replays) /\ ToSet(replays) = {update.replay} \cup ToSet(w.replays)
    BY <1>0, ListPrepended
  <2> HIDE DEF queue, replays, v
  <2> QED BY <1>0, <2>1, <2>2, <2>3, WorkOn DEF v
<1>3. CASE ~ Failed(d) /\ update.result /\ state = "leaf"
  <2> DEFINE more == [f \in new |-> d.record[f].consensus]
             queue == Joined(more, w.queue)
  <2>1. v = [db |-> d, queue |-> queue, done |-> w.done, replays |-> w.replays]
    BY <1>3 DEF Proceed, WorkGood
  <2>2. DOMAIN more \subseteq Stored(w.db)
    BY DEF Leads, Followers
  <2> HIDE DEF more
  <2>3. DOMAIN queue \subseteq Stored(w.db)
    BY <1>0, <2>2, JoinedDomain
  <2> HIDE DEF queue, v
  <2> QED BY <1>0, <2>1, <2>3, WorkOn DEF v
<1>4. CASE ~ Failed(d) /\ update.result /\ state # "leaf"
  <2>1. v = [db |-> InvalidateAll(d, new), queue |-> w.queue, done |-> w.done,
             replays |-> w.replays]
    BY <1>4 DEF Proceed, WorkGood
  <2>2. LogDatabase(d) /\ new \subseteq Stored(d)
    BY DEF Leads, Followers
  <2> HIDE DEF new, d, v
  <2>3. Leads(w.db, InvalidateAll(d, new))
    BY <2>2, InvalidateLeads, LeadsOn DEF d
  <2> QED BY <1>0, <2>1, <2>3, WorkOn DEF v
<1> QED BY <1>1, <1>2, <1>3, <1>4

LEMMA AfterBlockGood ==
  ASSUME NEW w, WorkGood(w), NEW block, Leads(w.db, block.db), NEW c \in Stored(w.db),
         NEW consensus
  PROVE  /\ WorkGood(AfterBlock(w, block, c, consensus))
         /\ Onward(w, AfterBlock(w, block, c, consensus))
<1> DEFINE d == block.db
           update == update_consensus(d, c, block.state, consensus)
<1>1. CASE Failed(d) \/ block.state = "validated"
  <2>1. AfterBlock(w, block, c, consensus)
          = [db |-> d, queue |-> w.queue, done |-> w.done, replays |-> w.replays]
    BY <1>1 DEF AfterBlock, WorkGood
  <2>2. DOMAIN w.queue \subseteq Stored(w.db) /\ Listed(w.replays)
        /\ \A R \in ToSet(w.replays) : R \subseteq Stored(w.db)
    BY DEF WorkGood
  <2> QED BY <2>1, <2>2, WorkOn
<1>2. CASE ~ (Failed(d) \/ block.state = "validated")
  <2>1. LogDatabase(d) /\ c \in Stored(d) /\ Stored(d) = Stored(w.db)
    BY DEF Leads
  <2>2. Leads(d, update.db) /\ update.replay \subseteq Stored(w.db)
    BY <2>1, UpdateLeads
  <2>3. Leads(w.db, update.db)
    BY <2>2, LeadsOn
  <2>4. AfterBlock(w, block, c, consensus) = Proceed(w, update, c, block.state)
    BY <1>2 DEF AfterBlock
  <2> HIDE DEF update
  <2> QED BY <2>2, <2>3, <2>4, ProceedGood
<1> QED BY <1>1, <1>2

LEMMA ProcessNextGood ==
  ASSUME NEW w, WorkGood(w)
  PROVE  WorkGood(ProcessNext(w)) /\ Onward(w, ProcessNext(w))
<1>0. /\ LogDatabase(w.db) /\ Leads(w.db, w.db) /\ DOMAIN w.queue \subseteq Stored(w.db)
      /\ Listed(w.replays) /\ \A R \in ToSet(w.replays) : R \subseteq Stored(w.db)
  BY LeadsNowhere DEF WorkGood
<1>1. CASE Ended(w)
  BY <1>0, <1>1 DEF ProcessNext, Onward
<1>2. CASE ~ Ended(w) /\ DOMAIN w.queue # {}
  <2> DEFINE c == Min(DOMAIN w.queue)
             queue == Restrict(w.queue, DOMAIN w.queue \ {c})
             done == w.done \cup {c}
             v == [w EXCEPT !.queue = Restrict(@, DOMAIN @ \ {c}), !.done = @ \cup {c}]
             block == process_block(w.db, c)
             consensus == w.queue[c]
  <2>1. c \in Stored(w.db)
    BY <1>0, <1>2, MinIn DEF LogDatabase
  <2>2. ProcessNext(w) = AfterBlock(v, block, c, consensus)
    BY <1>2 DEF ProcessNext, ProcessBlock
  <2> HIDE DEF c, consensus
  <2>3. /\ w = [db |-> w.db, queue |-> w.queue, done |-> w.done, replays |-> w.replays]
        /\ v = [w EXCEPT !.queue = queue, !.done = done]
    BY DEF WorkGood
  <2>4. DOMAIN queue \subseteq Stored(w.db)
    BY <1>0, RestrictedDomain
  <2> HIDE DEF queue, v, done
  <2>5. WorkGood(v) /\ v.db = w.db
    <3>1. v = [db |-> w.db, queue |-> queue, done |-> done, replays |-> w.replays]
      BY <2>3
    <3> QED BY <1>0, <2>4, <3>1, WorkOn
  <2>6. Leads(v.db, block.db)
    BY <1>0, <2>1, <2>5, ProcessBlockLeads
  <2> HIDE DEF block
  <2> QED BY <2>1, <2>2, <2>5, <2>6, AfterBlockGood DEF Onward
<1>3. CASE ~ Ended(w) /\ DOMAIN w.queue = {} /\ Head(w.replays) # {}
  <2> DEFINE f == Min(Head(w.replays))
             left == Head(w.replays) \ {f}
             replays == <<left>> \o Tail(w.replays)
             queue == [a \in {f} \cap With(w.db, "validated") |-> w.db.record[a].consensus]
  <2>1. w.replays # <<>>
    BY <1>3 DEF Ended
  <2>2. /\ Head(w.replays) \in ToSet(w.replays)
        /\ Listed(Tail(w.replays)) /\ ToSet(Tail(w.replays)) \subseteq ToSet(w.replays)
    BY <1>0, <2>1, ListTail
  <2>3. ProcessNext(w) = [db |-> w.db, queue |-> queue, done |-> {}, replays |-> replays]
    BY <1>3 DEF ProcessNext, ReplayBlock, WorkGood
  <2>4. DOMAIN queue \subseteq Stored(w.db)
    BY DEF With
  <2>5. left \subseteq Stored(w.db)
    BY <1>0, <2>2
  <2> HIDE DEF queue, left
  <2>6. Listed(replays) /\ ToSet(replays) = {left} \cup ToSet(Tail(w.replays))
    BY <2>2, ListPrepended
  <2> HIDE DEF replays
  <2>7. \A R \in ToSet(replays) : R \subseteq Stored(w.db)
    BY <1>0, <2>2, <2>5, <2>6
  <2> QED BY <1>0, <2>3, <2>4, <2>6, <2>7, WorkOn
<1>4. CASE ~ Ended(w) /\ DOMAIN w.queue = {} /\ Head(w.replays) = {}
  <2>1. w.replays # <<>>
    BY <1>4 DEF Ended
  <2>2. Listed(Tail(w.replays)) /\ ToSet(Tail(w.replays)) \subseteq ToSet(w.replays)
    BY <1>0, <2>1, ListTail
  <2> DEFINE replays == Tail(w.replays)
  <2>3. ProcessNext(w) = [db |-> w.db, queue |-> w.queue, done |-> w.done, replays |-> replays]
    BY <1>4 DEF ProcessNext, WorkGood
  <2> HIDE DEF replays
  <2> QED BY <1>0, <2>2, <2>3, WorkOn DEF replays
<1> QED BY <1>1, <1>2, <1>3, <1>4

LEMMA ProcessWithFollowersLeads ==
  ASSUME NEW d, LogDatabase(d), NEW c \in Stored(d)
  PROVE  Leads(d, process_block_with_followers(d, c))
<1> DEFINE queue == [a \in {c} |-> FALSE]
           w == [db |-> d, queue |-> queue, done |-> {}, replays |-> <<>>]
           v == Working!Repeat(MaxRounds, w)
<1>1. DOMAIN queue \subseteq Stored(d)
  OBVIOUS
<1>2. \/ process_block_with_followers(d, c) = v.db
      \/ process_block_with_followers(d, c) = Fail(v.db, "MaxRounds")
  BY DEF process_block_with_followers, Repeat, Working!Repeat
<1> HIDE DEF queue
<1>3. WorkGood(w) /\ Onward(w, w) /\ w.db = d
  BY <1>1, EmptyListed, LeadsNowhere DEF WorkGood, Onward
<1> HIDE DEF w
<1>4. \A u : WorkGood(u) /\ Onward(w, u) => WorkGood(ProcessNext(u)) /\ Onward(w, ProcessNext(u))
  BY ProcessNextGood, LeadsOn DEF Onward
<1>5. WorkGood(v) /\ Onward(w, v)
  BY <1>3, <1>4, LogAssumption, Working!StepsKeep
<1> HIDE DEF v
<1>6. Leads(d, v.db) /\ Leads(v.db, Fail(v.db, "MaxRounds"))
  BY <1>3, <1>5, FailLeads DEF WorkGood, Onward
<1> QED BY <1>2, <1>6, LeadsOn

-----------------------------------------------------------------------------
(***************************************************************************)
(* save and build.                                                         *)
(***************************************************************************)

\* A block as it is written or travels.
Written(block) ==
  /\ block = [writer |-> block.writer, messages |-> block.messages, time |-> block.time,
              ancestors |-> block.ancestors, order_no |-> block.order_no]
  /\ Valid(block)

\* Row r is what a node holds of the block.
Holds(r, block) ==
  /\ r.writer = block.writer /\ r.messages = block.messages /\ r.time = block.time
  /\ r.ancestors = block.ancestors /\ r.order_no = block.order_no

\* What a save makes of a database.
Grows(d, e) ==
  LogDatabase(e) /\ RowsKept(d, e) /\ VotesGrow(d.votes, e.votes)

LEMMA SaveGrows ==
  ASSUME NEW d, LogDatabase(d), NEW c \in Nat, c \notin Stored(d), NEW block, Written(block),
         NEW allow_root
  PROVE  LET e == save(d, c, block, allow_root) IN
         /\ Grows(d, e)
         /\ \/ Failed(e) /\ Stored(e) = Stored(d)
            \/ Stored(e) = Stored(d) \cup {c} /\ Holds(e.record[c], block)
<1> DEFINE row == [writer |-> block.writer, messages |-> block.messages, time |-> block.time,
                   ancestors |-> block.ancestors, order_no |-> block.order_no,
                   state |-> "validated", consensus |-> FALSE]
           record == Extended(d.record, c, row)
           inserted == [d EXCEPT !.record = record]
           e == save(d, c, block, allow_root)
           f == process_block_with_followers(inserted, c)
<1>1. Row(row) /\ Holds(row, block)
  BY DEF Row, Written, Valid, Holds
<1>2. e = IF block.ancestors = {} /\ ~ allow_root THEN Fail(d, "Root block is not allowed") ELSE f
  BY DEF save, LogDatabase, Database
<1> HIDE DEF row
<1>3. inserted = [record |-> record, votes |-> d.votes, balance |-> d.balance, rows |-> d.rows,
                  error |-> d.error]
  BY DEF LogDatabase, Database
<1>4. /\ DOMAIN record = Stored(d) \cup {c} /\ record[c] = row
      /\ \A a \in Stored(d) : record[a] = d.record[a]
      /\ record = [a \in Stored(d) \cup {c} |-> record[a]]
  BY DEF Extended, Stored
<1> HIDE DEF record, inserted, f, e
<1>5. Stored(inserted) = Stored(d) \cup {c} /\ RowsKept(d, inserted)
  BY <1>3, <1>4 DEF Stored, RowsKept, RowKept
<1>6. LogDatabase(inserted)
  <2>1. Earned(inserted, d.votes)
    <3>1. VotesGrow(d.votes, d.votes)
      BY DEF VotesGrow
    <3> QED BY <1>5, <3>1, EarnedStays DEF LogDatabase
  <2>2. IsFiniteSet(Stored(inserted)) /\ Stored(inserted) \subseteq Nat
    BY <1>5, FS_AddElement DEF LogDatabase
  <2>3. \A a \in Stored(inserted) : Row(inserted.record[a])
    BY <1>1, <1>3, <1>4, <1>5 DEF LogDatabase
  <2>4. inserted.record = [a \in Stored(inserted) |-> inserted.record[a]]
    BY <1>3, <1>4, <1>5
  <2>5. Database(inserted) /\ inserted.votes = d.votes /\ Votes(d.votes)
    BY <1>3 DEF LogDatabase, Database
  <2> QED BY <2>1, <2>2, <2>3, <2>4, <2>5 DEF LogDatabase
<1>7. Leads(inserted, f)
  BY <1>5, <1>6, ProcessWithFollowersLeads DEF f
<1>8. Grows(d, f)
  BY <1>3, <1>5, <1>7 DEF Grows, Leads, RowsKept, RowKept, VotesGrow
<1>9. Stored(f) = Stored(d) \cup {c} /\ Holds(f.record[c], block)
  BY <1>1, <1>3, <1>4, <1>5, <1>7 DEF Leads, RowsKept, RowKept, Holds
<1>10. ASSUME NEW g, g = Fail(d, "Root block is not allowed")
       PROVE  Grows(d, g) /\ Failed(g) /\ Stored(g) = Stored(d)
  <2>1. Leads(d, g)
    BY <1>10, FailLeads
  <2>2. Failed(g)
    BY <1>10 DEF Fail, Failed, LogDatabase, Database
  <2> QED BY <2>1, <2>2 DEF Leads, Grows
<1> QED BY <1>2, <1>8, <1>9, <1>10 DEF e

\* A finite set has a member with the highest number.
LEMMA Highest ==
  ASSUME NEW S, IsFiniteSet(S), S # {}, NEW f, \A a \in S : f[a] \in Nat
  PROVE  \E x \in S : \A y \in S : f[y] <= f[x]
<1> DEFINE Tops(T) == {x \in T : \A y \in T : f[y] <= f[x]}
           Topless == {T \in SUBSET S : T # {} /\ Tops(T) = {}}
           Sizes == {Cardinality(T) : T \in Topless}
<1>1. Topless = {}
  <2> SUFFICES ASSUME Topless # {} PROVE FALSE
    OBVIOUS
  <2>1. \A T \in SUBSET S : IsFiniteSet(T) /\ Cardinality(T) \in Nat
    BY FS_Subset, FS_CardinalityType
  <2>2. PICK T \in Topless : \A U \in Topless : Cardinality(T) <= Cardinality(U)
    <3>1. Sizes \subseteq Nat /\ Sizes # {}
      BY <2>1
    <3>2. PICK k \in Sizes : \A j \in Sizes : k <= j
      BY <3>1, Least
    <3> QED BY <3>2
  <2>3. PICK x \in T : TRUE
    BY <2>2
  <2> DEFINE U == T \ {x}
  <2>4. Cardinality(U) = Cardinality(T) - 1 /\ Cardinality(T) \in Nat
    BY <2>1, <2>2, <2>3, FS_RemoveElement
  <2>5. U \notin Topless
    <3>1. ~ (Cardinality(T) <= Cardinality(U))
      BY <2>4
    <3> HIDE DEF Topless, U
    <3> QED BY <2>2, <3>1
  <2>6. CASE U = {}
    <3>1. x \in Tops(T)
      BY <2>2, <2>3, <2>6
    <3> QED BY <2>2, <3>1
  <2>7. CASE U # {}
    <3>1. PICK z \in U : \A y \in U : f[y] <= f[z]
      BY <2>2, <2>5, <2>7
    <3>2. x \in Tops(T) \/ z \in Tops(T)
      <4>1. f[x] \in Nat /\ f[z] \in Nat /\ \A y \in T : f[y] \in Nat /\ (y = x \/ f[y] <= f[z])
        BY <2>2, <2>3, <3>1
      <4> QED BY <2>2, <2>3, <3>1, <4>1
    <3> QED BY <2>2, <3>2
  <2> QED BY <2>6, <2>7
<1> QED BY <1>1

\* The numbers of a log: a block is numbered above its ancestors.
Numbered(d) == \A c \in Stored(d) : d.record[c].order_no \in Nat

LEMMA BuildIsWritten ==
  ASSUME NEW d, LogDatabase(d), Numbered(d), NEW writer, NEW time, NEW messages, Unsigned(messages)
  PROVE  LET block == build(d, writer, time, messages) IN
         /\ Written(block)
         /\ block.ancestors = With(d, "leaf")
         /\ block.order_no \in Nat
         /\ \A a \in block.ancestors : d.record[a].order_no < block.order_no
<1> DEFINE leafs == With(d, "leaf")
           block == build(d, writer, time, messages)
           numbers == {0} \cup {d.record[a].order_no : a \in leafs}
           f == [a \in leafs |-> d.record[a].order_no]
<1>1. block = [writer |-> writer, messages |-> messages, time |-> time, ancestors |-> leafs,
               order_no |-> 1 + Max(numbers)]
  BY DEF build
<1>2. IsFiniteSet(leafs) /\ \A a \in leafs : f[a] \in Nat /\ f[a] = d.record[a].order_no
  BY FS_Subset DEF LogDatabase, With, Numbered
<1>3. \E x \in numbers : \A y \in numbers : x >= y
  <2>1. CASE leafs = {}
    BY <2>1
  <2>2. CASE leafs # {}
    <3>1. PICK x \in leafs : \A y \in leafs : f[y] <= f[x]
      BY <1>2, <2>2, Highest
    <3> QED BY <1>2, <3>1
  <2> QED BY <2>1, <2>2
<1>4. Max(numbers) \in numbers /\ \A y \in numbers : Max(numbers) >= y
  BY <1>3 DEF Max
<1>5. numbers \subseteq Nat
  BY <1>2
<1>6. \A a \in leafs : d.record[a].order_no \in numbers
  OBVIOUS
<1> HIDE DEF leafs, numbers
<1>7. Valid([messages |-> messages])
  <2>1. \A m \in ToSet(messages) : Valued(m)
    BY WidthAssumption DEF Unsigned, Valued, Value
  <2> QED BY <2>1 DEF Unsigned, Valid
<1> HIDE DEF block
<1>8. Written(block)
  BY <1>1, <1>7 DEF Written, Valid
<1>9. /\ block.ancestors = leafs /\ block.order_no \in Nat
      /\ \A a \in leafs : d.record[a].order_no < block.order_no
  <2> DEFINE top == Max(numbers)
  <2>1. top \in Nat /\ \A a \in leafs : d.record[a].order_no \in Nat /\ top >= d.record[a].order_no
    BY <1>4, <1>5, <1>6
  <2>2. block.ancestors = leafs /\ block.order_no = 1 + top
    BY <1>1
  <2> HIDE DEF top
  <2> QED BY <2>1, <2>2
<1> QED BY <1>8, <1>9 DEF block, leafs

-----------------------------------------------------------------------------
(***************************************************************************)
(* The first blocks.                                                       *)
(***************************************************************************)
Whole(d) ==
  /\ Numbered(d)
  /\ \A c \in Stored(d) : \A a \in Ancestors(d, c) :
       a \in Stored(d) /\ d.record[a].order_no < d.record[c].order_no

GenesisGood(w) ==
  /\ w = [db |-> w.db, count |-> w.count]
  /\ w.count \in 0..Len(Genesis)
  /\ LogDatabase(w.db) /\ Whole(w.db) /\ Stored(w.db) \subseteq 1..w.count

Anyhow(w, v) == TRUE

Beginning == INSTANCE IterationProofs WITH Step <- SaveNext, Good <- GenesisGood, Keeps <- Anyhow

LEMMA SaveWhole ==
  ASSUME NEW d, LogDatabase(d), Whole(d), NEW c \in Nat, c \notin Stored(d),
         NEW writer, NEW time, NEW messages, Unsigned(messages), NEW allow_root
  PROVE  LET e == save(d, c, build(d, writer, time, messages), allow_root)
         IN  LogDatabase(e) /\ Whole(e) /\ Stored(e) \subseteq Stored(d) \cup {c}
<1> DEFINE block == build(d, writer, time, messages)
           e == save(d, c, block, allow_root)
<1>1. /\ Written(block) /\ block.ancestors = With(d, "leaf") /\ block.order_no \in Nat
      /\ \A a \in block.ancestors : d.record[a].order_no < block.order_no
  BY BuildIsWritten DEF Whole
<1> HIDE DEF block
<1>2. /\ Grows(d, e)
      /\ \/ Stored(e) = Stored(d)
         \/ Stored(e) = Stored(d) \cup {c} /\ Holds(e.record[c], block)
  BY <1>1, SaveGrows
<1> HIDE DEF e
<1>3. \A a \in Stored(d) : /\ e.record[a].order_no = d.record[a].order_no
                           /\ e.record[a].ancestors = d.record[a].ancestors
  BY <1>2 DEF Grows, RowsKept, RowKept
<1>4. Whole(e)
  <2>1. ASSUME NEW a \in Stored(d)
        PROVE  /\ e.record[a].order_no \in Nat
               /\ \A b \in Ancestors(e, a) :
                    b \in Stored(e) /\ e.record[b].order_no < e.record[a].order_no
    BY <1>2, <1>3, <2>1 DEF Whole, Numbered, Ancestors
  <2>2. ASSUME Holds(e.record[c], block), Stored(e) = Stored(d) \cup {c}
        PROVE  /\ e.record[c].order_no \in Nat
               /\ \A b \in Ancestors(e, c) :
                    b \in Stored(e) /\ e.record[b].order_no < e.record[c].order_no
    BY <1>1, <1>3, <2>2 DEF Holds, Ancestors, With
  <2> QED BY <1>2, <2>1, <2>2 DEF Whole, Numbered
<1>5. LogDatabase(e) /\ Stored(e) \subseteq Stored(d) \cup {c}
  BY <1>2 DEF Grows
<1> QED BY <1>4, <1>5 DEF e, block

LEMMA SaveNextGood ==
  ASSUME NEW w, GenesisGood(w)
  PROVE  GenesisGood(SaveNext(w))
<1>1. CASE w.count = Len(Genesis)
  BY <1>1 DEF SaveNext
<1>2. CASE w.count # Len(Genesis)
  <2> DEFINE k == w.count + 1
             d == save(w.db, k, build(w.db, Genesis[k].writer, Min(Clock), Genesis[k].messages),
                       k = 1)
  <2>1. Len(Genesis) \in Nat /\ DOMAIN Genesis = 1..Len(Genesis)
    BY NetworkAssumption, LenProperties
  <2>2. k \in 1..Len(Genesis) /\ k \notin 1..w.count /\ k \in Nat
    BY <1>2, <2>1 DEF GenesisGood
  <2>3. Unsigned(Genesis[k].messages)
    BY <2>1, <2>2, NetworkAssumption DEF ToSet
  <2>4. SaveNext(w) = [db |-> d, count |-> k]
    BY <1>2 DEF SaveNext
  <2>5. 1..w.count \cup {k} \subseteq 1..k
    BY <2>1, <2>2 DEF GenesisGood
  <2> HIDE DEF k
  <2>6. LogDatabase(d) /\ Whole(d) /\ Stored(d) \subseteq Stored(w.db) \cup {k}
    <3> DEFINE writer == Genesis[k].writer
               time == Min(Clock)
               messages == Genesis[k].messages
               root == k = 1
    <3>1. LogDatabase(w.db) /\ Whole(w.db) /\ k \in Nat /\ k \notin Stored(w.db) /\ Unsigned(messages)
      BY <2>2, <2>3 DEF GenesisGood
    <3> HIDE DEF messages, writer, time, root
    <3>2. LET e == save(w.db, k, build(w.db, writer, time, messages), root)
          IN  LogDatabase(e) /\ Whole(e) /\ Stored(e) \subseteq Stored(w.db) \cup {k}
      BY <3>1, SaveWhole
    <3> QED BY <3>2 DEF messages, writer, time, root
  <2> HIDE DEF d
  <2>7. k \in 0..Len(Genesis)
    BY <2>1, <2>2
  <2>8. Stored(d) \subseteq 1..k
    BY <2>5, <2>6 DEF GenesisGood
  <2> QED BY <2>4, <2>6, <2>7, <2>8 DEF GenesisGood
<1> QED BY <1>1, <1>2

LEMMA EmptyIsWhole ==
  LogDatabase(EmptyDatabase) /\ Whole(EmptyDatabase) /\ Stored(EmptyDatabase) = {}
<1> DEFINE d == EmptyDatabase
<1>1. /\ d = [record |-> d.record, votes |-> d.votes, balance |-> d.balance, rows |-> d.rows,
              error |-> d.error]
      /\ DOMAIN d.record = {} /\ DOMAIN d.votes = {} /\ DOMAIN d.balance = {}
      /\ d.record = [c \in {} |-> d.record[c]]
      /\ d.votes = [c \in {} |-> d.votes[c]]
      /\ d.balance = [c \in {} |-> d.balance[c]]
  BY DEF EmptyDatabase
<1> HIDE DEF d
<1>2. Stored(d) = {} /\ IsFiniteSet({})
  BY <1>1, FS_EmptySet DEF Stored
<1>3. Database(d) /\ Votes(d.votes) /\ Earned(d, d.votes)
  BY <1>1 DEF Database, Balances, Votes, Earned, Approved
<1> QED BY <1>1, <1>2, <1>3 DEF LogDatabase, Whole, Numbered, d

LEMMA GenesisIsWhole ==
  /\ LogDatabase(GenesisDatabase) /\ Whole(GenesisDatabase)
  /\ Stored(GenesisDatabase) \subseteq 1..Len(Genesis)
<1> DEFINE n == Len(Genesis)
           w == [db |-> EmptyDatabase, count |-> 0]
           v == Beginning!Repeat(n, w)
<1>1. n \in Nat
  BY NetworkAssumption, LenProperties
<1>2. GenesisDatabase = v.db
  BY DEF GenesisDatabase, Repeat, Beginning!Repeat
<1>3. GenesisGood(w) /\ Anyhow(w, w)
  BY <1>1, EmptyIsWhole DEF GenesisGood, Anyhow
<1> HIDE DEF w
<1>4. \A u : GenesisGood(u) /\ Anyhow(w, u) => GenesisGood(SaveNext(u)) /\ Anyhow(w, SaveNext(u))
  BY SaveNextGood DEF Anyhow
<1> HIDE DEF n
<1>5. GenesisGood(v)
  BY <1>1, <1>3, <1>4, Beginning!StepsKeep
<1> HIDE DEF v
<1>6. 1..v.count \subseteq 1..n
  BY <1>1, <1>5 DEF GenesisGood, n
<1> QED BY <1>2, <1>5, <1>6 DEF GenesisGood, n

-----------------------------------------------------------------------------
(***************************************************************************)
(* The network.                                                            *)
(***************************************************************************)

\* A block, by its id, is the same at every node that has it.
BlocksAreOne ==
  \A n, m \in Node : \A c \in Stored(db[n]) \cap Stored(db[m]) :
    Holds(db[n].record[c], db[m].record[c])

\* The ancestors of a block are somewhere in the network, with lower numbers: no
\* block waits for one that nobody has, or for itself.
NumbersDescend ==
  \A n \in Node : \A c \in Stored(db[n]) :
    /\ db[n].record[c].order_no \in Nat
    /\ \A a \in Ancestors(db[n], c) :
         /\ \E m \in Node : a \in Stored(db[m])
         /\ \A m \in Node :
              a \in Stored(db[m]) => db[m].record[a].order_no < db[n].record[c].order_no

LogInv ==
  /\ db = [n \in Node |-> db[n]]
  /\ \A n \in Node : LogDatabase(db[n])
  /\ BlocksAreOne
  /\ NumbersDescend

\* What no step ever takes back.
LogKept ==
  \A n \in Node : RowsKept(db[n], db'[n]) /\ VotesGrow(db[n].votes, db'[n].votes)

LEMMA InitInv == Init => LogInv
<1> SUFFICES ASSUME Init PROVE LogInv
  OBVIOUS
<1>1. /\ db = [n \in Node |-> db[n]]
      /\ \A n \in Node : db[n] = GenesisDatabase \/ db[n] = EmptyDatabase
  BY DEF Init
<1>2. \A n \in Node : LogDatabase(db[n]) /\ Whole(db[n])
  BY <1>1, GenesisIsWhole, EmptyIsWhole
<1>3. \A n \in Node : \A c \in Stored(db[n]) : db[n] = GenesisDatabase
  BY <1>1, EmptyIsWhole
<1>4. BlocksAreOne
  BY <1>3 DEF BlocksAreOne, Holds
<1>5. NumbersDescend
  BY <1>2, <1>3 DEF NumbersDescend, Whole, Numbered
<1> QED BY <1>1, <1>2, <1>4, <1>5 DEF LogInv

\* A step that leaves the log and the votes of all nodes alone.
LEMMA LogLeftAlone ==
  ASSUME LogInv, db' = [n \in Node |-> db'[n]],
         \A n \in Node : /\ Database(db'[n])
                         /\ db'[n].record = db[n].record /\ db'[n].votes = db[n].votes
  PROVE  LogInv' /\ LogKept
<1>1. \A n \in Node : Leads(db[n], db'[n]) /\ Stored(db'[n]) = Stored(db[n])
  <2> TAKE n \in Node
  <2>1. After(db[n], db'[n])
    BY DEF After, VotesGrow
  <2> QED BY <2>1, AfterLeads DEF LogInv, Leads
<1>2. \A n \in Node : db'[n].record = db[n].record
  OBVIOUS
<1>3. BlocksAreOne'
  BY <1>1, <1>2 DEF LogInv, BlocksAreOne
<1>4. NumbersDescend'
  BY <1>1, <1>2 DEF LogInv, NumbersDescend, Ancestors
<1> QED BY <1>1, <1>3, <1>4 DEF LogInv, Leads, LogKept

\* Node n has got a block that fits in with what the others have.
LEMMA BlockAdded ==
  ASSUME LogInv, NEW n \in Node, NEW c, c \notin Stored(db[n]), NEW block,
         block.order_no \in Nat,
         \A m \in Node : c \in Stored(db[m]) => Holds(db[m].record[c], block),
         \A a \in block.ancestors :
           /\ \E m \in Node : a \in Stored(db[m])
           /\ \A m \in Node : a \in Stored(db[m]) => db[m].record[a].order_no < block.order_no,
         \A m \in Node : \A x \in Stored(db[m]) :
           c \in Ancestors(db[m], x) => block.order_no < db[m].record[x].order_no,
         NEW e, Grows(db[n], e), Stored(e) = Stored(db[n]) \cup {c}, Holds(e.record[c], block),
         db' = [db EXCEPT ![n] = e]
  PROVE  LogInv' /\ LogKept
<1>1. /\ db' = [m \in Node |-> db'[m]] /\ db'[n] = e
      /\ \A m \in Node \ {n} : db'[m] = db[m]
  BY DEF LogInv
<1>2. \A m \in Node : Grows(db[m], db'[m])
  BY <1>1, LeadsNowhere DEF LogInv, Grows, Leads
<1>3. \A m \in Node : \A x \in Stored(db'[m]) :
        \/ x \in Stored(db[m]) /\ Holds(db'[m].record[x], db[m].record[x])
        \/ m = n /\ x = c /\ Holds(db'[m].record[x], block)
  <2> TAKE m \in Node
  <2> TAKE x \in Stored(db'[m])
  <2>1. CASE x \in Stored(db[m])
    BY <1>2, <2>1 DEF Grows, RowsKept, RowKept, Holds
  <2>2. CASE x \notin Stored(db[m])
    BY <1>1, <2>2
  <2> QED BY <2>1, <2>2
<1>4. \A m \in Node : Stored(db[m]) \subseteq Stored(db'[m])
  BY <1>2 DEF Grows, RowsKept
<1>5. BlocksAreOne'
  <2> SUFFICES ASSUME NEW m \in Node, NEW p \in Node,
                      NEW x \in Stored(db'[m]) \cap Stored(db'[p])
               PROVE  Holds(db'[m].record[x], db'[p].record[x])
    BY DEF BlocksAreOne
  <2>1. CASE x \in Stored(db[m]) /\ x \in Stored(db[p])
    <3>1. Holds(db[m].record[x], db[p].record[x])
      BY <2>1 DEF LogInv, BlocksAreOne
    <3>2. /\ Holds(db'[m].record[x], db[m].record[x])
          /\ Holds(db'[p].record[x], db[p].record[x])
      BY <1>3, <2>1
    <3> QED BY <3>1, <3>2 DEF Holds
  <2>2. CASE x = c
    <3>1. Holds(db'[m].record[x], block) /\ Holds(db'[p].record[x], block)
      BY <1>3, <2>2 DEF Holds
    <3> QED BY <3>1 DEF Holds
  <2> QED BY <1>3, <2>1, <2>2
<1>6. NumbersDescend'
  <2> SUFFICES ASSUME NEW m \in Node, NEW x \in Stored(db'[m])
               PROVE  /\ db'[m].record[x].order_no \in Nat
                      /\ \A a \in Ancestors(db'[m], x) :
                           /\ \E p \in Node : a \in Stored(db'[p])
                           /\ \A p \in Node : a \in Stored(db'[p])
                                => db'[p].record[a].order_no < db'[m].record[x].order_no
    BY DEF NumbersDescend, Ancestors
  <2>1. CASE x \in Stored(db[m]) /\ Holds(db'[m].record[x], db[m].record[x])
    <3>1. /\ db'[m].record[x].order_no = db[m].record[x].order_no
          /\ db[m].record[x].order_no \in Nat
          /\ Ancestors(db'[m], x) = Ancestors(db[m], x)
      BY <2>1 DEF LogInv, NumbersDescend, Holds, Ancestors
    <3>2. ASSUME NEW a \in Ancestors(db[m], x), NEW p \in Node, a \in Stored(db'[p])
          PROVE  db'[p].record[a].order_no < db[m].record[x].order_no
      <4>1. CASE a \in Stored(db[p]) /\ Holds(db'[p].record[a], db[p].record[a])
        BY <2>1, <4>1 DEF LogInv, NumbersDescend, Holds
      <4>2. CASE a = c /\ Holds(db'[p].record[a], block)
        BY <2>1, <3>2, <4>2 DEF Holds
      <4> QED BY <1>3, <3>2, <4>1, <4>2
    <3>3. \A a \in Ancestors(db[m], x) : \E p \in Node : a \in Stored(db'[p])
      BY <1>4, <2>1 DEF LogInv, NumbersDescend
    <3> QED BY <3>1, <3>2, <3>3
  <2>2. CASE x = c /\ Holds(db'[m].record[x], block)
    <3>1. /\ db'[m].record[x].order_no = block.order_no
          /\ Ancestors(db'[m], x) = block.ancestors
      BY <2>2 DEF Holds, Ancestors
    <3>2. ASSUME NEW a \in block.ancestors, NEW p \in Node, a \in Stored(db'[p])
          PROVE  db'[p].record[a].order_no < block.order_no
      <4>1. CASE a \in Stored(db[p]) /\ Holds(db'[p].record[a], db[p].record[a])
        BY <4>1 DEF Holds
      <4>2. CASE a = c
        <5>1. PICK q \in Node : a \in Stored(db[q])
          BY <3>2
        <5>2. db[q].record[a].order_no < block.order_no
          BY <3>2, <5>1
        <5>3. Holds(db[q].record[a], block)
          BY <4>2, <5>1
        <5> QED BY <5>2, <5>3 DEF Holds
      <4> QED BY <1>3, <3>2, <4>1, <4>2
    <3>3. \A a \in block.ancestors : \E p \in Node : a \in Stored(db'[p])
      BY <1>4
    <3> QED BY <3>1, <3>2, <3>3
  <2> QED BY <1>3, <2>1, <2>2
<1> QED BY <1>1, <1>2, <1>5, <1>6 DEF LogInv, Grows, LogKept

LEMMA Announced ==
  ASSUME NEW messages, Unsigned(messages), NEW n
  PROVE  Unsigned(Append(messages, [kind |-> "node", node |-> n]))
<1> DEFINE m == [kind |-> "node", node |-> n]
           all == Append(messages, m)
           S == ToSet(messages) \cup {m}
<1>1. Len(messages) \in Nat /\ DOMAIN messages = 1..Len(messages) /\ messages \in Seq(S)
  <2>1. messages \in Seq(ToSet(messages))
    BY DEF Unsigned
  <2> QED BY <2>1, LenProperties, SeqMonotonic
<1>2. m.kind \notin {"payment", "issue"}
  OBVIOUS
<1> HIDE DEF m
<1>3. /\ all \in Seq(S) /\ Len(all) = Len(messages) + 1
      /\ \A i \in 1..Len(messages) : all[i] = messages[i]
      /\ all[Len(messages) + 1] = m
  BY <1>1, AppendProperties
<1> HIDE DEF all, S
<1>4. ToSet(all) \subseteq S /\ all \in Seq(ToSet(all))
  <2>1. DOMAIN all = 1..Len(all) /\ all \in [1..Len(all) -> S] /\ Len(all) \in Nat
    BY <1>3, LenProperties
  <2>2. ToSet(all) \subseteq S /\ all \in [1..Len(all) -> ToSet(all)]
    BY <2>1 DEF ToSet
  <2> QED BY <2>1, <2>2, SeqDef
<1>5. \A x \in ToSet(all) :
        x.kind \in {"payment", "issue"} => x.value \in Nat /\ x.value < 2 * Half
  BY <1>2, <1>4 DEF S, Unsigned
<1> QED BY <1>4, <1>5 DEF Unsigned, all, m

\* The end of a save: the block is there, or nothing happened.
LEMMA FinishKeeps ==
  ASSUME LogInv, NEW n \in Node, NEW c, c \in Nat, c \notin Stored(db[n]), NEW block, Written(block),
         block.order_no \in Nat,
         \A m \in Node : c \in Stored(db[m]) => Holds(db[m].record[c], block),
         \A a \in block.ancestors :
           /\ \E m \in Node : a \in Stored(db[m])
           /\ \A m \in Node : a \in Stored(db[m]) => db[m].record[a].order_no < block.order_no,
         \A m \in Node : \A x \in Stored(db[m]) :
           c \in Ancestors(db[m], x) => block.order_no < db[m].record[x].order_no,
         NEW allow_root, Finish(n, save(db[n], c, block, allow_root))
  PROVE  LogInv' /\ LogKept
<1> DEFINE e == save(db[n], c, block, allow_root)
<1>1. /\ Grows(db[n], e)
      /\ \/ Failed(e)
         \/ Stored(e) = Stored(db[n]) \cup {c} /\ Holds(e.record[c], block)
  BY SaveGrows DEF LogInv
<1> HIDE DEF e
<1>2. Finish(n, e)
  BY DEF e
<1>3. CASE Failed(e)
  <2>1. db' = db
    BY <1>2, <1>3 DEF Finish
  <2> QED BY <2>1, LogLeftAlone DEF LogInv, LogDatabase
<1>4. CASE ~ Failed(e)
  <2>1. db' = [db EXCEPT ![n] = e]
    BY <1>2, <1>4 DEF Finish
  <2> QED BY <1>1, <1>4, <2>1, BlockAdded
<1> QED BY <1>3, <1>4

LEMMA WriteKeeps ==
  ASSUME LogInv, NEW n \in Node, NEW messages \in Payload[n], Write(n, messages)
  PROVE  LogInv' /\ LogKept
<1> DEFINE announced == IF is_new_node[n] /\ ~ KnownNode(db[n], n)
                        THEN Append(messages, [kind |-> "node", node |-> n]) ELSE messages
<1>1. Unsigned(announced)
  BY Announced, NetworkAssumption
<1>2. PICK c \in Id \ UNION {Stored(db[m]) : m \in Node}, time \in Clock :
        Finish(n, save(db[n], c, build(db[n], n, time, announced), FALSE))
  BY DEF Write
<1> HIDE DEF announced
<1> DEFINE block == build(db[n], n, time, announced)
<1>3. LogDatabase(db[n]) /\ Numbered(db[n])
  BY DEF LogInv, NumbersDescend, Numbered
<1>4. /\ Written(block) /\ block.ancestors = With(db[n], "leaf") /\ block.order_no \in Nat
      /\ \A a \in block.ancestors : db[n].record[a].order_no < block.order_no
  BY <1>1, <1>3, BuildIsWritten
<1> HIDE DEF block
<1>5. Finish(n, save(db[n], c, block, FALSE))
  BY <1>2 DEF block
<1>6. c \in Nat /\ \A m \in Node : c \notin Stored(db[m])
  BY NetworkAssumption
<1>7. \A a \in block.ancestors :
        /\ \E m \in Node : a \in Stored(db[m])
        /\ \A m \in Node : a \in Stored(db[m]) => db[m].record[a].order_no < block.order_no
  <2> TAKE a \in block.ancestors
  <2>1. a \in Stored(db[n])
    BY <1>4 DEF With
  <2>2. \A m \in Node : a \in Stored(db[m]) => db[m].record[a].order_no = db[n].record[a].order_no
    BY <2>1 DEF LogInv, BlocksAreOne, Holds
  <2> QED BY <1>4, <2>1, <2>2
<1>8. \A m \in Node : \A x \in Stored(db[m]) : c \notin Ancestors(db[m], x)
  BY <1>6 DEF LogInv, NumbersDescend
<1> QED BY <1>4, <1>5, <1>6, <1>7, <1>8, FinishKeeps

LEMMA ReceiveKeeps ==
  ASSUME LogInv, NEW n \in Node, NEW m \in Node, NEW c, Receive(n, m, c)
  PROVE  LogInv' /\ LogKept
<1> DEFINE block == Content(db[m], c)
           row == db[m].record[c]
<1>1. c \in Stored(db[m]) /\ c \notin Stored(db[n])
  BY DEF Receive
<1>2. Finish(n, save(db[n], c, block, Applied(db[n]) = {}))
  BY DEF Receive
<1>3. c \in Nat /\ Row(row)
  BY <1>1 DEF LogInv, LogDatabase
<1>4. Written(block) /\ Holds(row, block)
  BY <1>3 DEF Content, Written, Holds, Row, Valid
<1> HIDE DEF block
<1>5. block.order_no \in Nat
  BY <1>1, <1>4 DEF LogInv, NumbersDescend, Holds
<1>6. \A p \in Node : c \in Stored(db[p]) => Holds(db[p].record[c], block)
  BY <1>1, <1>4 DEF LogInv, BlocksAreOne, Holds
<1>7. \A a \in block.ancestors :
        /\ \E p \in Node : a \in Stored(db[p])
        /\ \A p \in Node : a \in Stored(db[p]) => db[p].record[a].order_no < block.order_no
  BY <1>1, <1>4 DEF LogInv, NumbersDescend, Holds, Ancestors
<1>8. \A p \in Node : \A x \in Stored(db[p]) :
        c \in Ancestors(db[p], x) => block.order_no < db[p].record[x].order_no
  BY <1>1, <1>4 DEF LogInv, NumbersDescend, Holds
<1> QED BY <1>1, <1>2, <1>3, <1>4, <1>5, <1>6, <1>7, <1>8, FinishKeeps

LEMMA NothingKeeps ==
  ASSUME LogInv, UNCHANGED db
  PROVE  LogInv' /\ LogKept
BY LogLeftAlone DEF LogInv, LogDatabase

LEMMA NextKeeps ==
  ASSUME LogInv, [Next]_vars
  PROVE  LogInv' /\ LogKept
<1>1. CASE UNCHANGED vars
  BY <1>1, NothingKeeps DEF vars
<1>2. ASSUME NEW n \in Node, NEW messages \in Payload[n], Write(n, messages)
      PROVE  LogInv' /\ LogKept
  BY <1>2, WriteKeeps
<1>3. ASSUME NEW n \in Node, NEW m \in Node, NEW c \in Id, Receive(n, m, c)
      PROVE  LogInv' /\ LogKept
  BY <1>3, ReceiveKeeps
<1> QED BY <1>1, <1>2, <1>3 DEF Next

LEMMA SessionKeeps ==
  ASSUME LogInv, NEW n \in Node, NEW m \in Node, on_new_session(n, m)
  PROVE  LogInv' /\ LogKept
<1> DEFINE rows == db[n].rows \cup {<<"node", m>>}
           e == [db[n] EXCEPT !.rows = rows]
<1>1. db' = [db EXCEPT ![n] = e]
  BY DEF on_new_session, LogInv
<1>2. Database(e) /\ e.record = db[n].record /\ e.votes = db[n].votes
  <2> DEFINE d == db[n]
  <2>1. Database(d)
    BY DEF LogInv, LogDatabase
  <2> HIDE DEF d, rows
  <2>2. LET f == [d EXCEPT !.rows = rows]
        IN  Database(f) /\ f.record = d.record /\ f.votes = d.votes
    BY <2>1 DEF Database
  <2> QED BY <2>2 DEF d
<1> HIDE DEF e
<1>3. /\ db' = [p \in Node |-> db'[p]]
      /\ \A p \in Node : /\ Database(db'[p])
                         /\ db'[p].record = db[p].record /\ db'[p].votes = db[p].votes
  BY <1>1, <1>2 DEF LogInv, LogDatabase
<1> QED BY <1>3, LogLeftAlone

LEMMA SyncNextKeeps ==
  ASSUME LogInv, [SyncNext]_syncVars
  PROVE  LogInv' /\ LogKept
<1>1. CASE UNCHANGED syncVars
  BY <1>1, NothingKeeps DEF syncVars, vars
<1>2. ASSUME NEW n \in Node, Tick(n) PROVE LogInv' /\ LogKept
  BY <1>2, NothingKeeps DEF Tick, vars
<1>3. ASSUME NEW n \in Node, NEW messages \in Payload[n], Use(n, messages)
      PROVE  LogInv' /\ LogKept
  BY <1>3, WriteKeeps DEF Use
<1>4. ASSUME NEW n \in Node, Restart(n) PROVE LogInv' /\ LogKept
  BY <1>4, NothingKeeps DEF Restart
<1>5. ASSUME NEW n \in Node, NEW m \in Node, on_new_session(n, m) PROVE LogInv' /\ LogKept
  BY <1>5, SessionKeeps
<1>6. ASSUME NEW n \in Node, NEW m \in Node, OnState(n, m) \/ OnRequest(n, m) \/ Break(n, m)
      PROVE  LogInv' /\ LogKept
  BY <1>6, NothingKeeps DEF OnState, OnRequest, Break, vars
<1>7. ASSUME NEW n \in Node, NEW m \in Node, OnRecord(n, m) PROVE LogInv' /\ LogKept
  <2>1. (\E c : Receive(n, m, c)) \/ UNCHANGED db
    BY <1>7 DEF OnRecord, vars
  <2> QED BY <2>1, ReceiveKeeps, NothingKeeps
<1> QED BY <1>1, <1>2, <1>3, <1>4, <1>5, <1>6, <1>7 DEF SyncNext

\* Of the properties of TransactionNetwork.
LEMMA InvEarned == LogInv => ApprovalsAreEarned
<1> SUFFICES ASSUME LogInv, NEW n \in Node, NEW key \in DOMAIN db[n].votes,
                    db[n].votes[key].approved
             PROVE  /\ key[1] \in Stored(db[n])
                    /\ \/ db[n].record[key[1]].writer = key[2]
                       \/ \E f \in Followers(db[n], key[1]) : Approves(db[n], key[2], f)
  BY DEF ApprovalsAreEarned
<1> QED BY DEF LogInv, LogDatabase, Earned, Due, Approved, Approves

-----------------------------------------------------------------------------
(***************************************************************************)
(* The theorems: of nodes that get each other's blocks in any order, and   *)
(* of those that synchronise over sessions.                                *)
(***************************************************************************)

\* save, process_block, update_consensus, rollback_all: the database of every node
\* stays a log whose rows, votes and balances are what the tables declare.
THEOREM LogInvariant == Spec => []LogInv
<1>1. LogInv /\ [Next]_vars => LogInv'
  BY NextKeeps
<1> QED BY InitInv, <1>1, PTL DEF Spec

\* However transaction_log_sync delivers the blocks, with broken sessions and
\* restarts, the same holds.
THEOREM SyncLogInvariant == SyncSpec => []LogInv
<1>1. SyncInit => LogInv
  BY InitInv DEF SyncInit
<1>2. LogInv /\ [SyncNext]_syncVars => LogInv'
  BY SyncNextKeeps
<1> QED BY <1>1, <1>2, PTL DEF SyncSpec



\* The walk of update_consensus: every approval goes back to a block of the approver,
\* whatever was inherited, rolled back and replayed since.
THEOREM ApprovalsEarned ==
  (Spec => []ApprovalsAreEarned) /\ (SyncSpec => []ApprovalsAreEarned)
BY LogInvariant, SyncLogInvariant, InvEarned, PTL

\* build and apply_message(transaction_log_record): a block is the same wherever it
\* is, and its ancestors are somewhere, with lower numbers.
THEOREM LogIsOneGraph ==
  /\ Spec => [](BlocksAreOne /\ NumbersDescend)
  /\ SyncSpec => [](BlocksAreOne /\ NumbersDescend)
<1>1. LogInv => BlocksAreOne /\ NumbersDescend
  BY DEF LogInv
<1> QED BY <1>1, LogInvariant, SyncLogInvariant, PTL

\* save: no step of any node, a roll-back included, loses a block, changes its
\* content, or withdraws a vote, an approval or the consensus on a block.
THEOREM NothingTakenBack ==
  (Spec => [][LogKept]_vars) /\ (SyncSpec => [][LogKept]_syncVars)
<1>1. LogInv /\ [Next]_vars => LogKept
  BY NextKeeps
<1>2. LogInv /\ [SyncNext]_syncVars => LogKept
  BY SyncNextKeeps
<1>3. Spec => [][LogKept]_vars
  BY <1>1, LogInvariant, PTL DEF Spec
<1>4. SyncSpec => [][LogKept]_syncVars
  BY <1>2, SyncLogInvariant, PTL DEF SyncSpec
<1> QED BY <1>3, <1>4
=============================================================================
