------------------------------ MODULE Selection ------------------------------
(***************************************************************************)
(* Walks over a part of a container in the container's order.              *)
(***************************************************************************)
EXTENDS Integers, Sequences, FiniteSets

\* The numbers in S, the least first.
InOrder(S) ==
  CHOOSE s \in [1 .. Cardinality(S) -> S] : \A i, j \in DOMAIN s : i < j => s[i] < s[j]

\* The elements of s at the places in S, in the order of s.
Select(s, S) == [k \in 1 .. Cardinality(S) |-> s[InOrder(S)[k]]]
==============================================================================
