----------------------------- MODULE SortedSets -----------------------------
(***************************************************************************)
(* What sort(1) and list.sort return of distinct numbers: the i-th is the  *)
(* one that i of them do not exceed. (SetToSortSeq of SequencesExt, in a   *)
(* form without a search for a permutation.)                               *)
(***************************************************************************)
EXTENDS Integers, FiniteSets

Ascending(S) ==
  [i \in 1..Cardinality(S) |-> CHOOSE n \in S : Cardinality({m \in S : m <= n}) = i]
=============================================================================
