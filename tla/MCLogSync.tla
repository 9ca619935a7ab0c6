----------------------------- MODULE MCLogSync -----------------------------
(* Small instances of LogSync. *)
EXTENDS LogSync

Text == [kind |-> "channel", text |-> "t"]
Joins(n) == [kind |-> "node", node |-> n]
Issue == [kind |-> "issue", user |-> "u", wallet |-> "w", value |-> 1]
Pay == [kind |-> "payment", wallet |-> "w", source |-> 1, target |-> "w", value |-> 1]
Root == <<Joins(1), [kind |-> "user", user |-> "u"], [kind |-> "wallet", wallet |-> "w"], Issue>>

\* Two members with the first blocks, and a node that joins them through the second.
Three == {1, 2, 3}
Two == {1, 2}
Line == {<<1, 2>>, <<2, 1>>, <<2, 3>>, <<3, 2>>}
Chain == <<[writer |-> 1, messages |-> Root],
           [writer |-> 2, messages |-> <<Joins(2)>>],
           [writer |-> 1, messages |-> <<Text>>]>>
PayOrJoin == [n \in Node |-> IF n = 3 THEN {<<Text>>} ELSE {<<Pay>>}]
Id5 == 1..5
OneTime == {1}
MemberAndJoiner == [n \in Node |-> IF n = 2 THEN 0 ELSE 1]
=============================================================================
