------------------------ MODULE MCTransactionNetwork ------------------------
(* Small instances of TransactionNetwork. *)
EXTENDS TransactionNetwork

\* Values of two bits: what is issued, and what is paid of it, are negative numbers
\* in a column of that width (Half = 2), and what is left is not.
Issue == [kind |-> "issue", user |-> "u", wallet |-> "w", value |-> 3]
Pay(source) == [kind |-> "payment", wallet |-> "w", source |-> source, target |-> "w", value |-> 2]
Text == [kind |-> "channel", text |-> "t"]
Joins(n) == [kind |-> "node", node |-> n]
Root == <<Joins(1), [kind |-> "user", user |-> "u"], [kind |-> "wallet", wallet |-> "w"], Issue>>

Three == {1, 2, 3}
Genesis3 == <<[writer |-> 1, messages |-> Root],
              [writer |-> 2, messages |-> <<Joins(2)>>],
              [writer |-> 1, messages |-> <<Text>>],
              [writer |-> 3, messages |-> <<Joins(3)>>],
              [writer |-> 1, messages |-> <<Text>>],
              [writer |-> 2, messages |-> <<Text>>],
              [writer |-> 3, messages |-> <<Text>>]>>

\* A payment, all of the same balance, after the storage it pays for; or any block.
Stores(n) == IF n = 1 THEN [kind |-> "store", replicas |-> {"a", "b"}]
             ELSE [kind |-> "host", replica |-> "c"]
PayOrVote == [n \in Node |-> {<<Stores(n), Pay(1)>>, <<Text>>}]
Id10 == 1..10
OneTime == {1}
OneEach == [n \in Node |-> 1]

\* Four members, and a balance that is paid but not confirmed yet.  Member 1
\* spends it while member 2 writes twice.
Four == 1..4
Genesis4 == Genesis3 \o <<[writer |-> 4, messages |-> <<Joins(4)>>],
                          [writer |-> 1, messages |-> <<Text>>],
                          [writer |-> 2, messages |-> <<Text>>],
                          [writer |-> 3, messages |-> <<Text>>],
                          [writer |-> 1, messages |-> <<Pay(1)>>]>>
PayPaid == [n \in Node |-> {IF n = 1 THEN <<Pay(12)>> ELSE <<Text>>}]
Id16 == 1..16
TwiceByTwo == [n \in Node |-> CASE n = 2 -> 2 [] n = 4 -> 0 [] OTHER -> 1]
=============================================================================
