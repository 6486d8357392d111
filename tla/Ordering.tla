------------------------------- MODULE Ordering -------------------------------
(***************************************************************************)
(* A finite set in the order of a relation, as Python's sorted and its     *)
(* comprehensions give it.  An element's place is the number of elements   *)
(* up to it.  And a value of given rank among a function's, as sorted and  *)
(* indexed.                                                                *)
(***************************************************************************)
EXTENDS Integers, FiniteSets

UpTo(x, S, R) == {y \in S : <<y, x>> \in R}

Ordered(S, R) ==
  [i \in 1 .. Cardinality(S) |-> CHOOSE x \in S : Cardinality(UpTo(x, S, R)) = i]

\* Numbers, the least first.
Ascending(S) == Ordered(S, {p \in S \X S : p[1] <= p[2]})

\* The i-th of the values of f, from the least on, each as often as f takes it.
Ranked(f, i) ==
  CHOOSE v \in {f[x] : x \in DOMAIN f} :
    /\ Cardinality({x \in DOMAIN f : f[x] < v}) < i
    /\ i <= Cardinality({x \in DOMAIN f : f[x] <= v})
===============================================================================
