--------------------------- MODULE ReviewProtocol ---------------------------
(***************************************************************************)
(* The pure review protocol of src/src/community-review: what closing a    *)
(* batch records, what freezing it keeps, the agreement evidence computed  *)
(* from the frozen pool and the artifact a disclosure publishes.  Nothing  *)
(* here has state; ReviewBatch applies these operators to its rows.        *)
(*                                                                         *)
(* Fingerprints are left out: a fingerprint is a function of the value it  *)
(* commits to, so two records with equal fields have equal fingerprints    *)
(* and comparing the fields is comparing the fingerprints.                 *)
(***************************************************************************)
EXTENDS Integers, FiniteSets

CONSTANTS Reviewers,     \* opaque reviewer ids
          Atoms,         \* the atomic requirements of the visible task set
          Statuses,      \* the statuses an annotation may carry
          NoSubmission   \* marks a reviewer without an accepted submission

Purposes == {"interpretable", "pilot", "non-reference", "incomplete"}
Marks == {"none", "assigned", "withdrawn"}

(* A complete submission answers every visible atom exactly once.          *)
Annotations == [Atoms -> Statuses]

ASSUME ReviewerAssumption == IsFiniteSet(Reviewers)
ASSUME AtomAssumption == IsFiniteSet(Atoms)
ASSUME SubmissionAssumption == NoSubmission \notin Annotations

SubmissionSets == [Reviewers -> Annotations \cup {NoSubmission}]

AcceptedReviewers(subs) == {r \in Reviewers : subs[r] # NoSubmission}
AssignedReviewers(marks) == {r \in Reviewers : marks[r] # "none"}
WithdrawnReviewers(marks) == {r \in Reviewers : marks[r] = "withdrawn"}

-----------------------------------------------------------------------------
(* Closing: the coverage partition and the record of the accepted set.     *)

(* Faulty variant: a withdrawn reviewer is also reported missing.           *)
CoverageCountingWithdrawnAsMissing(required, marks, subs) ==
  [assigned  |-> AssignedReviewers(marks),
   accepted  |-> AcceptedReviewers(subs),
   withdrawn |-> WithdrawnReviewers(marks),
   missing   |-> AssignedReviewers(marks) \ AcceptedReviewers(subs),
   complete  |-> Cardinality(AcceptedReviewers(subs)) >= required]

BuildCoverage(required, marks, subs) ==
  [assigned  |-> AssignedReviewers(marks),
   accepted  |-> AcceptedReviewers(subs),
   withdrawn |-> WithdrawnReviewers(marks),
   missing   |-> AssignedReviewers(marks)
                   \ (AcceptedReviewers(subs) \cup WithdrawnReviewers(marks)),
   complete  |-> Cardinality(AcceptedReviewers(subs)) >= required]

(* What the parser of a stored coverage insists on: the assigned reviewers  *)
(* split into accepted, missing and withdrawn ones.                         *)
ValidCoverage(c) ==
  /\ c.assigned = c.accepted \cup c.missing \cup c.withdrawn
  /\ c.accepted \cap (c.missing \cup c.withdrawn) = {}
  /\ c.missing \cap c.withdrawn = {}

(* Faulty variant: incomplete coverage is not refused.                      *)
CloseAllowedUnderCovered(purpose, required, marks, subs) ==
  /\ AcceptedReviewers(subs) # {}
  /\ ValidCoverage(BuildCoverage(required, marks, subs))

(* A close is refused without an accepted submission (the close record's    *)
(* accepted lists may not be empty), when the coverage is not valid, and    *)
(* for an interpretable batch when it is incomplete.                        *)
CloseAllowed(purpose, required, marks, subs) ==
  /\ AcceptedReviewers(subs) # {}
  /\ ValidCoverage(BuildCoverage(required, marks, subs))
  /\ purpose = "interpretable" => BuildCoverage(required, marks, subs).complete

CloseRecord(required, marks, subs) ==
  [coverage |-> BuildCoverage(required, marks, subs), submissions |-> subs]

Coverages == [assigned : SUBSET Reviewers, accepted : SUBSET Reviewers,
              withdrawn : SUBSET Reviewers, missing : SUBSET Reviewers,
              complete : BOOLEAN]
CloseRecords == [coverage : Coverages, submissions : SubmissionSets]

-----------------------------------------------------------------------------
(* Freezing: an empty accepted set cannot be frozen.                       *)

FreezeAllowed(close) == AcceptedReviewers(close.submissions) # {}

(* Faulty variant: the pool forgets the coverage of the close record.       *)
FreezePoolWithoutCoverage(close) == [submissions |-> close.submissions]

FreezePool(close) ==
  [coverage |-> close.coverage, submissions |-> close.submissions]

-----------------------------------------------------------------------------
(* Agreement evidence: descriptive pairwise consistency, never a majority. *)

ReviewerPairs(pool) ==
  {pair \in SUBSET AcceptedReviewers(pool.submissions) : Cardinality(pair) = 2}

Disagreements(pool) ==
  {d \in [reviewers : ReviewerPairs(pool), atom : Atoms] :
     Cardinality({pool.submissions[r][d.atom] : r \in d.reviewers}) = 2}

Distribution(pool, atom) ==
  [s \in Statuses |->
     Cardinality({r \in AcceptedReviewers(pool.submissions) :
                    pool.submissions[r][atom] = s})]

AgreementEvidence(pool) ==
  [pairs          |-> ReviewerPairs(pool),
   comparable     |-> Cardinality(ReviewerPairs(pool)) * Cardinality(Atoms),
   agreementCount |-> Cardinality({x \in [reviewers : ReviewerPairs(pool), atom : Atoms] :
                        Cardinality({pool.submissions[r][x.atom] : r \in x.reviewers}) = 1}),
   disagreements  |-> Disagreements(pool),
   distribution   |-> [a \in Atoms |-> Distribution(pool, a)],
   uncovered      |-> Cardinality(pool.coverage.missing)
                        + Cardinality(pool.coverage.withdrawn)]

-----------------------------------------------------------------------------
(* Disclosure: which parts of a frozen pool a policy lets out.             *)

DisclosurePolicies == [ids : BOOLEAN, annotations : BOOLEAN, evidence : BOOLEAN]

PrivatePolicy == [ids |-> FALSE, annotations |-> FALSE, evidence |-> FALSE]

(* The artifact's validator refuses evidence without ids and annotations.  *)
PublishablePolicies ==
  {p \in DisclosurePolicies : p.evidence => p.ids /\ p.annotations}

Anonymous == "anonymous"

(* The submission fingerprint, always published, is the commitment to the    *)
(* reviewer and the answers; it keeps equal anonymous submissions apart.    *)
PublicSubmission(pool, policy, r) ==
  [reviewer    |-> IF policy.ids THEN r ELSE Anonymous,
   fingerprint |-> <<r, pool.submissions[r]>>,
   annotations |-> pool.submissions[r],
   evidence    |-> policy.evidence]

PublicDisagreement(pool, policy, d) ==
  [atom     |-> d.atom,
   statuses |-> [r \in d.reviewers |-> pool.submissions[r][d.atom]],
   evidence |-> policy.evidence]

PublicArtifact(pool, policy) ==
  LET accepted == AcceptedReviewers(pool.submissions) IN
  [reviewers     |-> IF policy.ids THEN accepted ELSE {},
   submissions   |-> IF policy.annotations
                       THEN {PublicSubmission(pool, policy, r) : r \in accepted}
                       ELSE {},
   disagreements |-> IF policy.ids
                       THEN {PublicDisagreement(pool, policy, d) : d \in Disagreements(pool)}
                       ELSE {},
   comparable    |-> AgreementEvidence(pool).comparable,
   distribution  |-> AgreementEvidence(pool).distribution,
   uncovered     |-> AgreementEvidence(pool).uncovered]
=============================================================================
