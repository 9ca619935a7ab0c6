------------------------- MODULE TransactionRecords -------------------------
(***************************************************************************)
(* What the messages of a block do to a node's database                    *)
(* (libs_server/vds_log_sync/impl/transaction_log.cpp): apply_record,      *)
(* consensus_record and undo_record of every kind of message, and          *)
(* process_records, consensus_records and undo_records of a block.         *)
(*                                                                         *)
(* A database is a record with, next to the log that TransactionLog adds,  *)
(*   votes    transaction_log_vote_request: <<block, owner>> to its flags  *)
(*   balance  datacoin_balance: <<wallet, source block>> to both balances, *)
(*            as the columns hold them                                     *)
(*   rows     the other tables, as a set of rows                           *)
(*   error    what went wrong; the SQL transaction is then rolled back     *)
(* One issuer and currency, and signatures that verify.                    *)
(***************************************************************************)
EXTENDS Integers, SequencesExt

CONSTANT Half  \* 2^63: the columns of the balances are int64_t, the values uint64_t

ASSUME WidthAssumption == Half \in Nat \ {0}

\* A uint64_t is stored in a column; a column is compared or added up with a uint64_t.
ToColumn(u) == IF u < Half THEN u ELSE u - 2 * Half
FromColumn(c) == IF c < 0 THEN c + 2 * Half ELSE c

\* What is stored of a column plus, or less, a value.
Plus(c, value) ==
  LET sum == FromColumn(c) + value IN ToColumn(IF sum < 2 * Half THEN sum ELSE sum - 2 * Half)
Less(c, value) ==
  LET rest == FromColumn(c) - value IN ToColumn(IF rest < 0 THEN rest + 2 * Half ELSE rest)

Fail(d, what) == [d EXCEPT !.error = what]
Failed(d) == d.error # ""

\* INSERT into a table with a primary key.
Insert(d, new) ==
  IF new \cap d.rows # {} THEN Fail(d, "UNIQUE constraint failed")
  ELSE [d EXCEPT !.rows = @ \cup new]

\* A table with a row for a key.
Extended(f, key, row) == [k \in DOMAIN f \cup {key} |-> IF k = key THEN row ELSE f[k]]

Put(d, key, row) == [d EXCEPT !.balance = Extended(@, key, row)]
Drop(d, key) == [d EXCEPT !.balance = Restrict(@, DOMAIN @ \ {key})]

\* INSERT of the balance that block b gives to wallet w.
InsertBalance(d, w, b, value) ==
  IF <<w, b>> \in DOMAIN d.balance THEN Fail(d, "UNIQUE constraint failed")
  ELSE Put(d, <<w, b>>, [confirmed |-> 0, proposed |-> ToColumn(value)])

InsertVote(d, b, owner, approved, new_member) ==
  IF <<b, owner>> \in DOMAIN d.votes THEN Fail(d, "UNIQUE constraint failed")
  ELSE [d EXCEPT !.votes =
          Extended(@, <<b, owner>>, [approved |-> approved, new_member |-> new_member])]

-----------------------------------------------------------------------------
(***************************************************************************)
(* The rows a message inserts, apart from votes and balances.  b is a      *)
(* block with its id and its writer.                                       *)
(***************************************************************************)
Source(m) == <<m.wallet, m.source>>

RowsOf(b, m) ==
  CASE m.kind = "channel" -> {<<"channel", b.id, m.text>>}
    [] m.kind = "user"    -> {<<"user", m.user>>}
    [] m.kind = "node"    -> {<<"node", m.node>>}
    [] m.kind = "wallet"  -> {<<"wallet", m.wallet>>}
    [] m.kind = "store"   -> {<<"chunk", r>> : r \in m.replicas}
                               \cup {<<"replica", r, b.writer>> : r \in m.replicas}
    [] m.kind = "host"    -> {<<"replica", m.replica, b.writer>>}
    [] OTHER              -> {}

\* Mutant: what the source holds is not looked at.
PayableIfKnown(d, m) == <<"wallet", m.wallet>> \in d.rows /\ Source(m) \in DOMAIN d.balance

\* payment_transaction is refused unless the wallet is known and the source holds
\* enough: a negative column counts as the value that was stored in it.
Payable(d, m) ==
  /\ <<"wallet", m.wallet>> \in d.rows
  /\ Source(m) \in DOMAIN d.balance
  /\ FromColumn(d.balance[Source(m)].proposed) >= m.value

Refuses(d, m) ==
  \/ m.kind = "payment" /\ ~ Payable(d, m)
  \/ m.kind = "issue" /\ <<"user", m.user>> \notin d.rows

\* apply_record of a message that is not refused.
Apply(d, b, m) ==
  CASE m.kind = "payment" ->
         InsertBalance([d EXCEPT !.balance[Source(m)].proposed = Less(@, m.value)],
                       m.target, b.id, m.value)
    [] m.kind = "issue" -> InsertBalance(d, m.wallet, b.id, m.value)
    [] m.kind = "node" ->
         InsertVote([d EXCEPT !.rows = @ \cup RowsOf(b, m)], b.id, m.node, FALSE, TRUE)
    [] m.kind = "channel" -> [d EXCEPT !.rows = @ \cup RowsOf(b, m)]
    [] OTHER -> Insert(d, RowsOf(b, m))

\* Mutant: the source keeps what an undone payment took from it.
UndoKeepsSource(d, b, m) ==
  CASE m.kind = "payment" -> Drop(d, <<m.target, b.id>>)
    [] m.kind = "issue" -> Drop(d, <<m.wallet, b.id>>)
    [] m.kind = "user" -> d
    [] OTHER -> [d EXCEPT !.rows = @ \ RowsOf(b, m)]

\* Mutant: the target keeps what an undone payment gave it.
UndoKeepsTarget(d, b, m) ==
  CASE m.kind = "payment" ->
         IF Source(m) \in DOMAIN d.balance
         THEN [d EXCEPT !.balance[Source(m)].proposed = Plus(@, m.value)]
         ELSE Fail(d, "NOT NULL constraint failed")
    [] m.kind = "issue" -> Drop(d, <<m.wallet, b.id>>)
    [] m.kind = "user" -> d
    [] OTHER -> [d EXCEPT !.rows = @ \ RowsOf(b, m)]

\* undo_record.  A user stays; a node loses its node_info but not its vote; a
\* source that is gone is inserted without the mandatory confirmed_balance.
Undo(d, b, m) ==
  CASE m.kind = "payment" ->
         IF Source(m) \in DOMAIN d.balance
         THEN Drop([d EXCEPT !.balance[Source(m)].proposed = Plus(@, m.value)], <<m.target, b.id>>)
         ELSE Fail(d, "NOT NULL constraint failed")
    [] m.kind = "issue" -> Drop(d, <<m.wallet, b.id>>)
    [] m.kind = "user" -> d
    [] OTHER -> [d EXCEPT !.rows = @ \ RowsOf(b, m)]

\* Mutant: only the receiver's confirmed balance changes.
ConsensusTakesNothing(d, b, m) ==
  IF m.kind \in {"payment", "issue"}
  THEN [d EXCEPT !.balance[<<IF m.kind = "payment" THEN m.target ELSE m.wallet, b.id>>].confirmed
                    = Plus(@, m.value)]
  ELSE d

\* consensus_record
Consensus(d, b, m) ==
  CASE m.kind = "payment" ->
         IF \/ Source(m) \notin DOMAIN d.balance
            \/ FromColumn(d.balance[Source(m)].confirmed) < m.value
            \/ <<m.target, b.id>> \notin DOMAIN d.balance
         THEN Fail(d, "Database state is corrupted")
         ELSE [[d EXCEPT !.balance[Source(m)].confirmed = Less(@, m.value)]
                 EXCEPT !.balance[<<m.target, b.id>>].confirmed = Plus(@, m.value)]
    [] m.kind = "issue" ->
         IF \/ <<m.wallet, b.id>> \notin DOMAIN d.balance
            \/ d.balance[<<m.wallet, b.id>>] # [confirmed |-> 0, proposed |-> ToColumn(m.value)]
         THEN Fail(d, "Database state is corrupted")
         ELSE [d EXCEPT !.balance[<<m.wallet, b.id>>].confirmed = ToColumn(m.value)]
    [] OTHER -> d

-----------------------------------------------------------------------------
(***************************************************************************)
(* The messages of a block, in order.                                      *)
(***************************************************************************)

\* Op(d, b, m) for the messages in turn, up to the first error.
ForEach(d, b, messages, Op(_, _, _)) ==
  LET Step(e, m) == IF Failed(e) THEN e ELSE Op(e, b, m)
      after[k \in 0..Len(messages)] == IF k = 0 THEN d ELSE Step(after[k - 1], messages[k])
  IN after[Len(messages)]

undo_records(d, b) == ForEach(d, b, Reverse(b.messages), Undo)
consensus_records(d, b) == ForEach(d, b, b.messages, Consensus)

\* Mutant: what was applied before a refused message stays.
process_records_keep(d, b) ==
  LET Step(r, m) == IF Failed(r.db) \/ ~ r.completed THEN r
                    ELSE IF Refuses(r.db, m) THEN [r EXCEPT !.completed = FALSE]
                    ELSE [db |-> Apply(r.db, b, m), completed |-> TRUE]
      after[k \in 0..Len(b.messages)] ==
        IF k = 0 THEN [db |-> d, completed |-> TRUE] ELSE Step(after[k - 1], b.messages[k])
  IN after[Len(b.messages)]

\* All messages are applied, or those before the refused one are undone.
process_records(d, b) ==
  LET Step(r, m) ==
        IF Failed(r.db) \/ ~ r.completed THEN r
        ELSE IF Refuses(r.db, m)
        THEN [r EXCEPT !.completed = FALSE, !.db = ForEach(@, b, r.undo, Undo)]
        ELSE [db |-> Apply(r.db, b, m), completed |-> TRUE, undo |-> <<m>> \o r.undo]
      after[k \in 0..Len(b.messages)] ==
        IF k = 0 THEN [db |-> d, completed |-> TRUE, undo |-> <<>>]
        ELSE Step(after[k - 1], b.messages[k])
  IN after[Len(b.messages)]
=============================================================================
