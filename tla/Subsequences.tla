---------------------------- MODULE Subsequences ----------------------------
(***************************************************************************)
(* The elements of a sequence at some of its indexes, in their order, and  *)
(* the last elements of a sequence.  Kept(s, {i \in DOMAIN s : Test(s[i])})*)
(* is SelectSeq(s, Test), defined by the rank of each kept index instead   *)
(* of by recursion, so that proofs can expand it.                          *)
(***************************************************************************)
EXTENDS Integers, Sequences, FiniteSets

\* How many of the indexes in K are below j
Rank(K, j) == Cardinality({m \in K : m < j})

Kept(s, K) == [i \in 1 .. Cardinality(K) |-> s[CHOOSE j \in K : Rank(K, j) = i - 1]]

LastOf(s, n) == IF Len(s) =< n THEN s ELSE SubSeq(s, Len(s) - n + 1, Len(s))
=============================================================================
