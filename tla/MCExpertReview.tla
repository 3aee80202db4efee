--------------------------- MODULE MCExpertReview ---------------------------
(* An instance of ExpertReview: two fixtures of one domain, of which the    *)
(* first may be missing and the second rewritten without a new version, and *)
(* three people, of whom one changes place and role.                        *)
EXTENDS ExpertReview

CONSTANTS p1, p2, p3

OnePanel == {<<p1, p2>>}
TwoPanels == {<<p1, p2>>, <<p3, p1>>}
OneDomain == [f \in Fixtures |-> "d"]

OnlySecond(text) == [version |-> "v", text |-> [f \in {2} |-> text]]
TwoSuites == {OnlySecond("x"), OnlySecond("y")}
ThreeSuites == TwoSuites \cup {[version |-> "v", text |-> [f \in Fixtures |-> "x"]]}

Clearly(view) == [view |-> view, clear |-> TRUE]
FewAnswers ==
  <<{Clearly("left"), Clearly("right"), Clearly("INSUFFICIENT_EVIDENCE")},
    {Clearly("left"), [view |-> "left", clear |-> FALSE]}>>
LeftOrRight == [f \in Fixtures |-> {Clearly("left"), Clearly("right")}]

(* These counts, otherwise the same for all commands, and nothing killed.    *)
Counts(few, most) ==
  [t \in Things |-> IF t \in DOMAIN few THEN few[t] ELSE IF t \in Kills THEN 0 ELSE most]

(* One thing of each kind that nothing depends on, three submissions of      *)
(* reviewers and two of all the others; nine in all, two more than a full    *)
(* review has.  One command other than an export may be killed.              *)
Reviewing ==
  Counts([edit |-> 1, ruling |-> 1, output |-> 1, review |-> 3, killed |-> 1, any |-> 9], 2)

(* Three exports, of the old text, a killed one and one of the new text, the *)
(* two submissions, their import and one candidate.                          *)
Exporting ==
  [Counts([export |-> 3, review |-> 2, adjudication |-> 0, ruling |-> 0, any |-> 8], 1)
     EXCEPT !["killed export"] = 1]

JustExporting == {Exporting}
ReviewingOrExporting == {Reviewing, Exporting}
=============================================================================
