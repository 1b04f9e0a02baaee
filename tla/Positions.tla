------------------------------ MODULE Positions ------------------------------
(***************************************************************************)
(* What iterators make of sequences.  A filter leaves the elements at some *)
(* positions, in their order; the position of the kth of them is the one   *)
(* that has k of them up to it.  A flat_map joins sequences in their order. *)
(***************************************************************************)
EXTENDS Naturals, Sequences, FiniteSets, Folds

Rank(S, i) == Cardinality({j \in S : j <= i})
AtPositions(seq, S) == [k \in 1..Cardinality(S) |-> seq[CHOOSE i \in S : Rank(S, i) = k]]

First(S) == CHOOSE i \in S : \A j \in S : i <= j
Joined(seqs) ==
  MapThenFoldSet(LAMBDA seq, rest : seq \o rest, <<>>, LAMBDA i : seqs[i], First, DOMAIN seqs)
==============================================================================
