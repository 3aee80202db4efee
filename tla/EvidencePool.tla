---------------------------- MODULE EvidencePool ----------------------------
(***************************************************************************)
(* What the review batches promise, with a single copy of the evidence.     *)
(*                                                                         *)
(* Reviewers join an open batch, withdraw while they have submitted         *)
(* nothing, and submit at most once.  Closing fixes roster and evidence for *)
(* good; an interpretable batch closes only with enough independent         *)
(* reviewers.  Freezing needs some evidence, and whatever is published is   *)
(* a projection of the evidence that was fixed at the close.                *)
(*                                                                         *)
(* There are no stored snapshots here: ReviewBatch keeps the same evidence  *)
(* in live rows, a close record, a frozen pool and disclosed artifacts, and *)
(* implements this module.                                                  *)
(***************************************************************************)
EXTENDS ReviewProtocol

CONSTANTS Batches, PurposeOf, RequiredOf, Policies

VARIABLES phase, roster, evidence, published

vars == <<phase, roster, evidence, published>>

Pool(b) ==
  [coverage |-> BuildCoverage(RequiredOf[b], roster[b], evidence[b]),
   submissions |-> evidence[b]]

Init ==
  /\ phase = [b \in Batches |-> "sealed"]
  /\ roster = [b \in Batches |-> [r \in Reviewers |-> "none"]]
  /\ evidence = [b \in Batches |-> [r \in Reviewers |-> NoSubmission]]
  /\ published = [b \in Batches |-> {}]

Open(b) ==
  /\ phase[b] = "sealed"
  /\ phase' = [phase EXCEPT ![b] = "open"]
  /\ UNCHANGED <<roster, evidence, published>>

Join(b, r) ==
  /\ phase[b] = "open"
  /\ roster[b][r] = "none"
  /\ roster' = [roster EXCEPT ![b][r] = "assigned"]
  /\ UNCHANGED <<phase, evidence, published>>

Withdraw(b, r) ==
  /\ phase[b] = "open"
  /\ roster[b][r] = "assigned"
  /\ evidence[b][r] = NoSubmission
  /\ roster' = [roster EXCEPT ![b][r] = "withdrawn"]
  /\ UNCHANGED <<phase, evidence, published>>

Collect(b, r, answers) ==
  /\ phase[b] = "open"
  /\ roster[b][r] = "assigned"
  /\ evidence[b][r] = NoSubmission
  /\ evidence' = [evidence EXCEPT ![b][r] = answers]
  /\ UNCHANGED <<phase, roster, published>>

Close(b) ==
  /\ phase[b] = "open"
  /\ CloseAllowed(PurposeOf[b], RequiredOf[b], roster[b], evidence[b])
  /\ phase' = [phase EXCEPT ![b] = "closed"]
  /\ UNCHANGED <<roster, evidence, published>>

Freeze(b) ==
  /\ phase[b] = "closed"
  /\ AcceptedReviewers(evidence[b]) # {}
  /\ phase' = [phase EXCEPT ![b] = "frozen"]
  /\ UNCHANGED <<roster, evidence, published>>

Publish(b, policy) ==
  /\ phase[b] = "frozen"
  /\ published' = [published EXCEPT ![b] =
                     @ \cup {PublicArtifact(Pool(b), policy)}]
  /\ UNCHANGED <<phase, roster, evidence>>

Next ==
  \E b \in Batches :
    \/ Open(b)
    \/ \E r \in Reviewers :
         \/ Join(b, r)
         \/ Withdraw(b, r)
         \/ \E answers \in Annotations : Collect(b, r, answers)
    \/ Close(b)
    \/ Freeze(b)
    \/ \E policy \in Policies : Publish(b, policy)

Spec == Init /\ [][Next]_vars
=============================================================================
