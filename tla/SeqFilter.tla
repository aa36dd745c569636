------------------------------ MODULE SeqFilter ------------------------------
(***************************************************************************)
(* The elements of a sequence that belong to a set, in their order.  It is *)
(* SelectSeq with a set in the place of the test and without its           *)
(* recursion, so that proofs can reason about it (SeqFilter_proofs).       *)
(***************************************************************************)
EXTENDS Integers, Sequences, FiniteSets

\* Where they are in s, and how many of these places are not behind i.
Places(s, S) == {i \in DOMAIN s : s[i] \in S}
Rank(I, i) == Cardinality({j \in I : j <= i})
NthOf(I, k) == CHOOSE i \in I : Rank(I, i) = k

Only(s, S) ==
  LET I == Places(s, S) IN [k \in 1..Cardinality(I) |-> s[NthOf(I, k)]]
=============================================================================
