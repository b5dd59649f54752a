----------------------------- MODULE SortedSets -----------------------------
(***************************************************************************)
(* A finite set of integers as an ascending sequence, without the          *)
(* enumeration of functions behind SequencesExt's SetToSeq.                *)
(***************************************************************************)
EXTENDS Integers, Sequences, FiniteSets, FiniteSetsExt

(* The i-th element has i - 1 smaller ones.                                *)
Ascending(S) ==
    [i \in 1..Cardinality(S) |-> CHOOSE n \in S : Cardinality({m \in S : m < n}) = i - 1]
=============================================================================
