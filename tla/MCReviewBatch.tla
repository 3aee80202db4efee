--------------------------- MODULE MCReviewBatch ---------------------------
(***************************************************************************)
(* Small instances of ReviewBatch for TLC.  Purposes, coverage requirements *)
(* and pools are functions, which a configuration cannot write down, so the *)
(* configurations choose among the definitions below.                       *)
(***************************************************************************)
EXTENDS ReviewBatch, TLC

CONSTANTS r1, r2, r3, poolA, poolB

OnePool == [b \in Batches |-> poolA]
TwoPools == [b \in Batches |-> IF b = 1 THEN poolA ELSE poolB]

Interpretable == [b \in Batches |-> "interpretable"]
Pilot == [b \in Batches |-> "pilot"]
Mixed == [b \in Batches |-> IF b = 1 THEN "interpretable" ELSE "pilot"]

PairRequired == [b \in Batches |-> 2]
MixedRequired == [b \in Batches |-> IF b = 1 THEN 2 ELSE 1]

AggregateOnly == [ids |-> FALSE, annotations |-> FALSE, evidence |-> FALSE]
Everything == [ids |-> TRUE, annotations |-> TRUE, evidence |-> TRUE]

NoPolicies == {}
JustEverything == {Everything}
TwoPolicies == {AggregateOnly, Everything}

ReviewerSymmetry == Permutations(Reviewers)
=============================================================================
