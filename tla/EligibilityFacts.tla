-------------------------- MODULE EligibilityFacts --------------------------
(***************************************************************************)
(* What qualification and the review batches may rely on of the reviewer   *)
(* authority: nobody has authority from the start, a transaction changes    *)
(* the authority of one reviewer at most, and a reviewer whose account was  *)
(* closed never has authority again.                                       *)
(***************************************************************************)
CONSTANT Reviewers   \* opaque reviewer ids

VARIABLES eligible,  \* reviewers with an active account and current consent
          closed     \* reviewers whose account is withdrawn or disabled

facts == <<eligible, closed>>

TypeOK == eligible \subseteq Reviewers /\ closed \subseteq Reviewers

Init == eligible = {} /\ closed = {}

Gain(r) ==
  /\ r \notin closed
  /\ eligible' = eligible \cup {r}
  /\ closed' = closed

(* By revoking the consent or with the account, which may have been closed  *)
(* without any authority to lose.                                          *)
Lose(r) ==
  /\ eligible' = eligible \ {r}
  /\ closed' \in {closed, closed \cup {r}}

Next == \E r \in Reviewers : Gain(r) \/ Lose(r)

Spec == Init /\ [][Next]_facts
=============================================================================
