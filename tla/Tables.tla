-------------------------------- MODULE Tables --------------------------------
(***************************************************************************)
(* Tables as sequences of rows in the order of created_at. Where(q, K) is  *)
(* what is left of the rows q when all but those at the positions K are    *)
(* deleted or completed: SelectSeq, written without recursion so that the  *)
(* lemmas of TableProofs can be proved about it.                           *)
(***************************************************************************)
EXTENDS Naturals, FiniteSets

\* How many of the positions K are not after k.
Rank(K, k) == Cardinality({m \in K : m <= k})

Where(q, K) == [i \in 1..Cardinality(K) |-> q[CHOOSE k \in K : Rank(K, k) = i]]
===============================================================================
