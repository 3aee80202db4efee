------------------------- MODULE MCCorpusEvaluation -------------------------
(* Instances of CorpusEvaluation: two cases with two runs each, and two     *)
(* answers to the first of them.                                            *)
EXTENDS CorpusEvaluation

TwoAnswers ==
  [k \in {1, 2} \X {1, 2} |-> IF k = <<1, 1>> THEN {"x", "y"} ELSE {"x"}]

(* A scoring whose only positive weights are of categories that no rubric of *)
(* the second case has.                                                     *)
SecondUnweighted == {<<"s1", 2>>}
=============================================================================
