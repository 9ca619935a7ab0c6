------------------------- MODULE TransactionNetwork -------------------------
(***************************************************************************)
(* Nodes that write blocks of their own and save each other's: the         *)
(* transaction log of the network.  A block that some node has can reach   *)
(* any other node, in any order (vds_log_sync/impl/sync_process.cpp asks   *)
(* for leafs and for missing ancestors, and answers are delayed).          *)
(***************************************************************************)
EXTENDS TransactionLog

CONSTANTS
  Node,
  Founder,     \* the nodes that have saved the first blocks; others start empty
  Id,          \* block ids: hashes, in an order that nobody chooses
  Payload,     \* [Node -> message sequences a node may put into a block]
  Clock,       \* what the clock of a node may show
  MaxWrites,   \* bound: [Node -> Nat], blocks a node writes
  Genesis      \* the first blocks, on a chain: a sequence of [writer, messages]

\* The values of payments and issues are of type uint64_t.
Unsigned(messages) ==
  /\ messages \in Seq(ToSet(messages))
  /\ \A m \in ToSet(messages) :
       m.kind \in {"payment", "issue"} => m.value \in Nat /\ m.value < 2 * Half

ASSUME NetworkAssumption ==
  /\ Id \subseteq Nat /\ Clock \subseteq Nat
  /\ 1..Len(Genesis) \subseteq Id
  /\ MaxWrites \in [Node -> Nat]
  /\ Founder \subseteq Node
  /\ \A n \in Node : \A messages \in Payload[n] : Unsigned(messages)
  /\ Genesis \in Seq(ToSet(Genesis)) /\ \A block \in ToSet(Genesis) : Unsigned(block.messages)

VARIABLES
  db,           \* the database of each node
  is_new_node,  \* is_new_node_ of each node, for the next block it writes
  writes,       \* history: how many blocks each node wrote
  errors        \* history: what saves failed with

vars == <<db, is_new_node, writes, errors>>

\* The database of a node that has saved the first blocks.
SaveNext(w) ==
  IF w.count = Len(Genesis) THEN w
  ELSE LET k == w.count + 1
           block == build(w.db, Genesis[k].writer, Min(Clock), Genesis[k].messages)
       IN [db |-> save(w.db, k, block, k = 1), count |-> k]

GenesisDatabase ==
  Repeat(Len(Genesis), [db |-> EmptyDatabase, count |-> 0], SaveNext).db

Init ==
  /\ db = [n \in Node |-> IF n \in Founder THEN GenesisDatabase ELSE EmptyDatabase]
  /\ is_new_node = [n \in Node |-> TRUE]
  /\ writes = [n \in Node |-> 0]
  /\ errors = {}

\* The end of the SQL transaction in which n saves.
Finish(n, saved) ==
  IF Failed(saved) THEN errors' = errors \cup {saved.error} /\ UNCHANGED db
  ELSE db' = [db EXCEPT ![n] = saved] /\ UNCHANGED errors

KnownNode(d, n) == <<"node", n>> \in d.rows

\* client::save.  The first block of a node announces the node.
Write(n, messages) ==
  LET announced == IF is_new_node[n] /\ ~ KnownNode(db[n], n)
                   THEN Append(messages, [kind |-> "node", node |-> n]) ELSE messages
  IN \E c \in Id \ UNION {Stored(db[m]) : m \in Node}, time \in Clock :
       /\ writes[n] < MaxWrites[n]
       /\ writes' = [writes EXCEPT ![n] = @ + 1]
       /\ is_new_node' = [is_new_node EXCEPT ![n] = FALSE]
       /\ Finish(n, save(db[n], c, build(db[n], n, time, announced), FALSE))

\* The writer's key is known, or comes with the block.
CanVerify(d, block) ==
  \/ KnownNode(d, block.writer)
  \/ \E m \in ToSet(block.messages) : m.kind = "node" /\ m.node = block.writer

\* A block as it travels: without what a node makes of it.
Content(d, c) ==
  [writer |-> d.record[c].writer, messages |-> d.record[c].messages, time |-> d.record[c].time,
   ancestors |-> d.record[c].ancestors, order_no |-> d.record[c].order_no]

\* transaction_log_record: n gets block c, which m has.
Receive(n, m, c) ==
  /\ c \in Stored(db[m]) \ Stored(db[n])
  /\ CanVerify(db[n], Content(db[m], c))
  /\ Finish(n, save(db[n], c, Content(db[m], c), Applied(db[n]) = {}))
  /\ UNCHANGED <<is_new_node, writes>>

Next ==
  \E n \in Node :
    \/ \E messages \in Payload[n] : Write(n, messages)
    \/ \E m \in Node, c \in Id : Receive(n, m, c)

Spec == Init /\ [][Next]_vars

-----------------------------------------------------------------------------
(***************************************************************************)
(* Properties.                                                             *)
(***************************************************************************)

Total(S, Value(_)) == FoldSet(LAMBDA x, sum : sum + Value(x), 0, S)

\* The messages of the blocks C, by block and position.
Messages(d, C) == UNION {{<<c, i>> : i \in DOMAIN d.record[c].messages} : c \in C}
At(d, k) == d.record[k[1]].messages[k[2]]

Credited(d, C, key) ==
  Total({k \in Messages(d, C) : /\ k[1] = key[2]
                                /\ \/ At(d, k).kind = "issue" /\ At(d, k).wallet = key[1]
                                   \/ At(d, k).kind = "payment" /\ At(d, k).target = key[1]},
        LAMBDA k : At(d, k).value)
Spent(d, C, key) ==
  Total({k \in Messages(d, C) : At(d, k).kind = "payment" /\ Source(At(d, k)) = key},
        LAMBDA k : At(d, k).value)

\* The proposed balances are what the applied blocks, and no others, make of
\* them, however often blocks were undone and replayed.
ProposedIsReplay ==
  \A n \in Node :
    LET d == db[n] IN
    \A key \in DOMAIN d.balance :
      /\ key[2] \in Applied(d)
      /\ d.balance[key].proposed
           = Less(ToColumn(Credited(d, Applied(d), key)), Spent(d, Applied(d), key))

\* The confirmed balances are what the blocks in consensus make of them.
ConfirmedIsReplay ==
  \A n \in Node :
    LET d == db[n] IN
    \A key \in DOMAIN d.balance :
      d.balance[key].confirmed
        = Less(ToColumn(Credited(d, Confirmed(d), key)), Spent(d, Confirmed(d), key))

\* The payments that a node applied, or holds for confirmed, never spend more than
\* their source was given, in whatever order it got, undid and replayed the blocks,
\* and whatever the sign of the column.
NeverOverdrawn ==
  \A n \in Node :
    LET d == db[n] IN
    \A key \in DOMAIN d.balance, C \in {Applied(d), Confirmed(d)} :
      Spent(d, C, key) <= Credited(d, {key[2]}, key)

\* The other tables hold what the applied blocks, and no others, wrote, but for
\* users and nodes, which other blocks may name again.
Lasting(row) == row[1] \notin {"user", "node"}

RowsAreReplay ==
  \A n \in Node :
    LET d == db[n]
        written == UNION {UNION {RowsOf(Block(d, c), m) : m \in ToSet(d.record[c].messages)} :
                          c \in Applied(d)}
    IN {row \in d.rows : Lasting(row)} = {row \in written : Lasting(row)}

\* A block in consensus is applied, and so are its ancestors; they are in
\* consensus before it.  Among members only: the voters of a block written while
\* its writer joined are fewer than those of the next, which can be confirmed first.
ConsensusIsClosed ==
  \A n \in Node : \A c \in Confirmed(db[n]) :
    c \in Applied(db[n]) /\ Ancestors(db[n], c) \subseteq Confirmed(db[n])

\* The leafs, on which new blocks are built, are a frontier of the applied blocks.
LeafsAreFrontier ==
  \A n \in Node :
    /\ \A c \in With(db[n], "leaf") : Followers(db[n], c) \cap Applied(db[n]) = {}
    /\ \A c \in With(db[n], "processed") : Followers(db[n], c) \cap Applied(db[n]) # {}
    /\ \A c \in Applied(db[n]) : Ancestors(db[n], c) \subseteq Applied(db[n])

\* What the nodes hold for confirmed never spends the same balance twice.
Agreement ==
  \A n, m \in Node :
    \A key \in DOMAIN db[n].balance \cap DOMAIN db[m].balance :
      LET only == Confirmed(db[m]) \ Confirmed(db[n]) IN
      Spent(db[n], Confirmed(db[n]), key) + Spent(db[m], only, key)
        <= Credited(db[n], {key[2]}, key)

\* Every block that a node builds or gets can be saved.
EveryBlockIsSaved == errors = {}

\* An approval of a block goes back to a block of the approver: that very block, or
\* a follower of it that has an approval of his too.
Approves(d, o, c) == <<c, o>> \in DOMAIN d.votes /\ d.votes[<<c, o>>].approved

ApprovalsAreEarned ==
  \A n \in Node : \A key \in DOMAIN db[n].votes :
    db[n].votes[key].approved =>
      /\ key[1] \in Stored(db[n])
      /\ \/ db[n].record[key[1]].writer = key[2]
         \/ \E f \in Followers(db[n], key[1]) : Approves(db[n], key[2], f)

\* Nodes that have the same blocks have confirmed the same ones.
SameBlocksSameConsensus ==
  \A n, m \in Node : Stored(db[n]) = Stored(db[m]) => Confirmed(db[n]) = Confirmed(db[m])

\* consensus_record takes a payment whose source is not confirmed for corruption;
\* a log of valid payments never makes it do so.
DatabaseIsNotCorrupted == "Database state is corrupted" \notin errors
=============================================================================
