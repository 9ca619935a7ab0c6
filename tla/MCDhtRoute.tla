----------------------------- MODULE MCDhtRoute -----------------------------
(* Small instances of DhtRoute. *)
EXTENDS DhtRoute

\* Three nodes on a line, and an id that nobody has.
A == <<0, 0>>
B == <<0, 1>>
C == <<1, 0>>
Three == {A, B, C}
Nobody == {<<1, 1>>}
Line == {{A, B}, {B, C}}
Sessions == [link \in Line |-> IF A \in link THEN 2 ELSE 1]
=============================================================================
