---------------------------- MODULE ErasureCoding ----------------------------
(***************************************************************************)
(* The replicas of an object (kernel/vds_data: gf.h, chunk.h): each is a   *)
(* combination of the object's cells over a finite field, and any          *)
(* MIN_HORCRUX of them give the object back.                               *)
(*                                                                         *)
(* An element of the field is the set of the exponents of its polynomial.  *)
(* The code has 16 bits and cells of two bytes; the parameters are free.   *)
(***************************************************************************)
EXTENDS Naturals, SequencesExt

CONSTANTS
  Bits,             \* the degree of the field
  Polynomial,       \* what x^Bits is, as a set of exponents
  CellBytes,        \* bytes of a cell
  MIN_HORCRUX,      \* replicas that are enough
  GENERATE_HORCRUX  \* replicas of an object

ASSUME FieldAssumption ==
  /\ {Bits, CellBytes, MIN_HORCRUX, GENERATE_HORCRUX} \subseteq Nat \ {0}
  /\ Polynomial \subseteq 0..(Bits - 1)
  /\ Bits % CellBytes = 0
  /\ MIN_HORCRUX <= GENERATE_HORCRUX /\ GENERATE_HORCRUX <= 2^Bits

-----------------------------------------------------------------------------
(* The field. *)

Zero == {}
One == {0}
Two == {1}

add(a, b) == (a \ b) \cup (b \ a)

\* All of a sequence, or of a function, added up.
Sum(s) == {e \in 0..(Bits - 1) : Cardinality({i \in DOMAIN s : e \in s[i]}) % 2 = 1}

\* gf::operator*: add a, shifted left and reduced, for each bit of b.
TimesTwo(a) ==
  LET shifted == {e + 1 : e \in a} \ {Bits}
  IN IF Bits - 1 \in a THEN add(shifted, Polynomial) ELSE shifted
Times(a, b) ==
  LET shifted[i \in 0..(Bits - 1)] == IF i = 0 THEN a ELSE TimesTwo(shifted[i - 1])
  IN Sum([i \in b |-> shifted[i]])

\* gf_math: the tables of powers of two, and the logarithms.
Order == 2^Bits - 1
log2value[log \in 0..(Order - 1)] == IF log = 0 THEN One ELSE Times(log2value[log - 1], Two)
value2log == [v \in (SUBSET (0..(Bits - 1))) \ {Zero} |-> CHOOSE log \in 0..(Order - 1) : log2value[log] = v]

mul(a, b) ==
  IF a = Zero \/ b = Zero THEN Zero ELSE log2value[(value2log[a] + value2log[b]) % Order]
div(a, b) ==
  IF a = Zero \/ b = Zero THEN Zero ELSE log2value[(value2log[a] + Order - value2log[b]) % Order]

-----------------------------------------------------------------------------
(* A replica. *)

\* A number as a cell.
Cell(n) == {e \in 0..(Bits - 1) : (n \div 2^e) % 2 = 1}

\* The sequence itself; TLC then has its elements and not what defines them.
Tuple(s) == SubSeq(s, 1, Len(s))

\* generate_multipliers: the powers of n.
multipliers(n) ==
  FoldLeft(LAMBDA s, i : Append(s, mul(s[i], Cell(n))), <<One>>, [i \in 1..(MIN_HORCRUX - 1) |-> i])

\* The cell from byte i on; what is behind the end is zero.
ByteBits == Bits \div CellBytes
CellAt(data, i) ==
  UNION {{e + ByteBits * (CellBytes - 1 - k) : e \in data[i + k + 1]} :
         k \in {j \in 0..(CellBytes - 1) : i + j < Len(data)}}

Group == CellBytes * MIN_HORCRUX

\* chunk_generator::write
write(n, data) ==
  LET powers == multipliers(n)
      GroupSum(g) ==
        Sum([j \in 1..MIN_HORCRUX |-> mul(powers[j], CellAt(data, (g - 1) * Group + (j - 1) * CellBytes))])
  IN [cells |-> Tuple([g \in 1..((Len(data) + Group - 1) \div Group) |-> GroupSum(g)]),
      padding |-> Len(data) % Group]

-----------------------------------------------------------------------------
(* The object again. *)

\* chunk_restore: Gauss, without a search for the pivot.  A row is the one of the
\* multipliers followed by the one of the inverse.
Row == 1..MIN_HORCRUX
Column == 1..(2 * MIN_HORCRUX)



Prepared(ns) ==
  Tuple([r \in Row |-> multipliers(ns[r]) \o [c \in Row |-> IF r = c THEN One ELSE Zero]])

\* m1 times the row x less m2 times the row y.
Combine(m1, x, m2, y) == Tuple([c \in Column |-> add(mul(m1, x[c]), mul(m2, y[c]))])

Down(M, i) ==
  Tuple([r \in Row |-> IF r > i THEN Combine(M[i][i], M[r], M[r][i], M[i]) ELSE M[r]])
Scaled(M) ==
  Tuple([r \in Row |-> Tuple([c \in Column |-> div(M[r][c], M[r][r])])])
Up(M, i) ==
  Tuple([r \in Row |-> IF r < i THEN Combine(One, M[r], M[r][i], M[i]) ELSE M[r]])

chunk_restore(ns) ==
  LET rows == [i \in Row |-> i]
      M == FoldLeft(Up, Scaled(FoldLeft(Down, Prepared(ns), rows)), Reverse(rows))
  IN Tuple([r \in Row |-> SubSeq(M[r], MIN_HORCRUX + 1, 2 * MIN_HORCRUX)])

\* Byte k of a cell.
Byte(cell, k) == {e \in 0..(ByteBits - 1) : e + ByteBits * (CellBytes - 1 - k) \in cell}

\* restore, from the contents of the replicas that m was made for.
restore(m, chunks) ==
  LET size == Len(chunks[1].cells) * Group
      expected == IF chunks[1].padding = 0 THEN size ELSE size - Group + chunks[1].padding
      Value(g, i) == Sum([j \in Row |-> mul(m[i][j], chunks[j].cells[g])])
  IN [b \in 1..expected |->
       Byte(Value((b - 1) \div Group + 1, ((b - 1) % Group) \div CellBytes + 1), (b - 1) % CellBytes)]
=============================================================================
