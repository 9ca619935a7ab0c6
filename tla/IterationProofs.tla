-------------------------- MODULE IterationProofs --------------------------
(***************************************************************************)
(* What holds of a step that is repeated, for any step: what every step    *)
(* keeps, all of them together keep.                                       *)
(***************************************************************************)
EXTENDS Integers, WellFoundedInduction, TLAPS

CONSTANTS
  Step(_),     \* the step
  Good(_),     \* what is asked of the states
  Keeps(_, _)  \* what may become of a state

Repeat(n, start) ==
  LET after[k \in 0..n] == IF k = 0 THEN start ELSE Step(after[k - 1]) IN after[n]

LEMMA Least ==
  ASSUME NEW K, K \subseteq Nat, K # {}
  PROVE  \E k \in K : \A j \in K : k <= j
<1>1. PICK k \in K : \A j \in K : ~ (<<j, k>> \in OpToRel(<, Nat))
  BY NatLessThanWellFounded, WFMin
<1>2. \A j \in K : ~ (j < k)
  BY <1>1 DEF OpToRel
<1> QED BY <1>2

\* The recursive function has values: there is no least number of steps for which
\* it had none.
LEMMA RepeatUnfolds ==
  ASSUME NEW n \in Nat, NEW start
  PROVE  \E after :
           /\ after[0] = start
           /\ \A k \in 1..n : after[k] = Step(after[k - 1])
           /\ Repeat(n, start) = after[n]
<1> DEFINE Next(u, k) == IF k = 0 THEN start ELSE Step(u[k - 1])
           Without == {m \in Nat : ~ \E u : u = [k \in 0..m |-> Next(u, k)]}
<1>1. Without = {}
  <2> SUFFICES ASSUME Without # {} PROVE FALSE
    OBVIOUS
  <2>1. PICK m \in Without : \A j \in Without : m <= j
    BY Least
  <2>2. CASE m = 0
    <3> DEFINE u == [k \in 0..0 |-> start]
    <3>1. u = [k \in 0..m |-> Next(u, k)]
      BY <2>2
    <3> QED BY <3>1, <2>1
  <2>3. CASE m # 0
    <3>1. m - 1 \in Nat /\ m - 1 \notin Without
      <4>1. m - 1 \in Nat /\ ~ (m <= m - 1)
        BY <2>1, <2>3
      <4> HIDE DEF Without
      <4> QED BY <4>1, <2>1
    <3>2. PICK u : u = [k \in 0..(m - 1) |-> Next(u, k)]
      BY <3>1
    <3> DEFINE v == [k \in 0..m |-> IF k = m THEN Next(u, m) ELSE u[k]]
    <3>3. \A k \in 0..m : v[k] = Next(v, k)
      <4> TAKE k \in 0..m
      <4>1. k # 0 => k - 1 \in 0..(m - 1) /\ v[k - 1] = u[k - 1]
        BY <2>1
      <4>2. k # m => k \in 0..(m - 1)
        BY <2>1
      <4>3. k # m => u[k] = Next(u, k)
        <5> HIDE DEF Next
        <5> QED BY <4>2, <3>2
      <4> QED BY <4>1, <4>2, <4>3, <2>1
    <3>4. v = [k \in 0..m |-> Next(v, k)]
      BY <3>3
    <3> QED BY <3>4, <2>1
  <2> QED BY <2>2, <2>3
<1>2. \E u : u = [k \in 0..n |-> Next(u, k)]
  BY <1>1
<1> DEFINE after == CHOOSE u : u = [k \in 0..n |-> Next(u, k)]
<1>3. after = [k \in 0..n |-> Next(after, k)]
  BY <1>2
<1>4. Repeat(n, start) = after[n]
  BY DEF Repeat
<1>5. after[0] = start /\ \A k \in 1..n : after[k] = Step(after[k - 1])
  <2>1. 0 \in 0..n /\ \A k \in 1..n : k \in 0..n /\ k # 0
    OBVIOUS
  <2> HIDE DEF after
  <2> QED BY <2>1, <1>3
<1> HIDE DEF after
<1> QED BY <1>4, <1>5

LEMMA StepsKeep ==
  ASSUME NEW n \in Nat, NEW start, Good(start),
         Keeps(start, start),
         \A s : Good(s) /\ Keeps(start, s) => Good(Step(s)) /\ Keeps(start, Step(s))
  PROVE  Good(Repeat(n, start)) /\ Keeps(start, Repeat(n, start))
<1>1. PICK after :
        /\ after[0] = start
        /\ \A k \in 1..n : after[k] = Step(after[k - 1])
        /\ Repeat(n, start) = after[n]
  BY RepeatUnfolds
<1> DEFINE Wrong == {k \in 0..n : ~ (Good(after[k]) /\ Keeps(start, after[k]))}
<1>2. Wrong = {}
  <2> SUFFICES ASSUME Wrong # {} PROVE FALSE
    OBVIOUS
  <2>1. PICK m \in Wrong : \A j \in Wrong : m <= j
    <3>1. Wrong \subseteq Nat
      OBVIOUS
    <3> QED BY <3>1, Least
  <2>2. m \in 0..n /\ ~ (Good(after[m]) /\ Keeps(start, after[m]))
    BY <2>1
  <2>3. m # 0
    BY <2>2, <1>1
  <2>4. m \in 1..n /\ m - 1 \in 0..n /\ ~ (m <= m - 1)
    BY <2>2, <2>3
  <2>5. m - 1 \notin Wrong
    <3> HIDE DEF Wrong
    <3> QED BY <2>4, <2>1
  <2>6. Good(after[m - 1]) /\ Keeps(start, after[m - 1])
    BY <2>4, <2>5
  <2>7. after[m] = Step(after[m - 1])
    BY <1>1, <2>4
  <2> QED BY <2>2, <2>6, <2>7
<1>3. n \in 0..n
  OBVIOUS
<1> QED BY <1>1, <1>2, <1>3
=============================================================================
