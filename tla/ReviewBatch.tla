----------------------------- MODULE ReviewBatch -----------------------------
(***************************************************************************)
(* The life of the review batches kept by the community review service:    *)
(* SEALED -> OPEN -> CLOSED -> FROZEN, the blind assignments and accepted   *)
(* submissions of an OPEN batch, the snapshot a close keeps, the pool a     *)
(* freeze makes of it, and the agreement evidence and disclosures built     *)
(* from the pool.                                                          *)
(*                                                                         *)
(* Every operation of the service runs as one transaction of the           *)
(* persistence adapter, so it is one action here; a request that throws     *)
(* rolls back and is a step that changes nothing.  How the PostgreSQL       *)
(* adapter makes its transactions atomic is the subject of                 *)
(* AuthorityTransactions.                                                  *)
(*                                                                         *)
(* Accounts, consent and qualification belong to other components.  What    *)
(* this one reads of them is who may act now (eligible), who holds an       *)
(* authoritative receipt of a pool (receipts) and the state of each pool.   *)
(***************************************************************************)
EXTENDS ReviewProtocol, Sequences

CONSTANTS Batches,       \* batch ids, ordered as the ids compare
          Pools,         \* qualification pools
          Times,         \* the createdAt stamps a batch may carry
          Policies,      \* disclosure policies an operator may ask for
          Dates,         \* disclosure dates an operator may give
          PurposeOf,     \* the purpose in each batch's manifest
          RequiredOf,    \* its requiredIndependentReviewerCount
          PoolOf,        \* the pool of its qualificationEligibility
          NoHint,        \* an assignment request that names no batch
          NoRow          \* marks a record that is not stored

PoolStates == {"SEALED", "ACTIVE", "RETIRED"}
BatchStates == {"ABSENT", "SEALED", "OPEN", "CLOSED", "FROZEN"}
Modes == {"PRIVATE", "PUBLIC"}
NoDate == "undated"

ASSUME BatchAssumption ==
  /\ Batches \subseteq Nat
  /\ Times \subseteq Nat
  /\ Times # {}
  /\ Policies \subseteq DisclosurePolicies
  /\ PurposeOf \in [Batches -> Purposes]
  /\ RequiredOf \in [Batches -> Nat \ {0}]
  /\ \A b \in Batches : PurposeOf[b] = "interpretable" => RequiredOf[b] >= 2
  /\ PoolOf \in [Batches -> Pools]
  /\ NoHint \notin Batches
  /\ NoDate \notin Dates
  /\ NoRow \notin CloseRecords

VARIABLES batchState,    \* lifecycle state of each batch row
          createdAt,     \* its creation stamp
          marks,         \* assignment state of each reviewer in each batch
          submissions,   \* accepted submission of each reviewer in each batch
          closeRecord,   \* the stored close record and accepted snapshot
          frozenPool,    \* the stored frozen pool
          agreement,     \* the stored agreement evidence
          disclosures,   \* disclosure decisions by version
          requested,     \* the decision last confirmed to the operator
          eligible,      \* reviewers with an ACTIVE account and current consent
          receipts,      \* <<reviewer, pool>> of authoritative receipts
          poolState      \* lifecycle state of each qualification pool

rowVars == <<batchState, createdAt, marks, submissions>>
evidenceVars == <<closeRecord, frozenPool, agreement, disclosures, requested>>
authorityVars == <<eligible, receipts, poolState>>
vars == <<rowVars, evidenceVars, authorityVars>>

Init ==
  /\ batchState = [b \in Batches |-> "ABSENT"]
  /\ createdAt = [b \in Batches |-> CHOOSE t \in Times : TRUE]
  /\ marks = [b \in Batches |-> [r \in Reviewers |-> "none"]]
  /\ submissions = [b \in Batches |-> [r \in Reviewers |-> NoSubmission]]
  /\ closeRecord = [b \in Batches |-> NoRow]
  /\ frozenPool = [b \in Batches |-> NoRow]
  /\ agreement = [b \in Batches |-> NoRow]
  /\ disclosures = [b \in Batches |-> <<>>]
  /\ requested = [b \in Batches |-> NoRow]
  /\ eligible = {}
  /\ receipts = {}
  /\ poolState = [p \in Pools |-> "SEALED"]

-----------------------------------------------------------------------------
(* Batch creation and opening.                                             *)

(* The stamp is read before the transaction starts, on whichever process    *)
(* serves the request, so creation stamps need not follow commit order.     *)
CreateBatch(b, t) ==
  /\ batchState[b] = "ABSENT"
  /\ batchState' = [batchState EXCEPT ![b] = "SEALED"]
  /\ createdAt' = [createdAt EXCEPT ![b] = t]
  /\ UNCHANGED <<marks, submissions, evidenceVars, authorityVars>>

OpenBatch(b) ==
  /\ batchState[b] = "SEALED"
  /\ batchState' = [batchState EXCEPT ![b] = "OPEN"]
  /\ UNCHANGED <<createdAt, marks, submissions, evidenceVars, authorityVars>>

-----------------------------------------------------------------------------
(* Assignments.                                                            *)

(* The listing order of the repository: creation stamp, then batch id.      *)
ListedBefore(b, c) ==
  \/ createdAt[b] < createdAt[c]
  \/ createdAt[b] = createdAt[c] /\ b <= c

ReceiptMatchesBatch(r, b) ==
  /\ <<r, PoolOf[b]>> \in receipts
  /\ poolState[PoolOf[b]] = "ACTIVE"

(* Faulty variant: any receipt counts, the pool's state is not looked at.   *)
EligibleBatchesIgnoringRetirement(r, hint) ==
  {b \in Batches : /\ batchState[b] = "OPEN"
                   /\ hint \in {b, NoHint}
                   /\ <<r, PoolOf[b]>> \in receipts}

EligibleBatches(r, hint) ==
  {b \in Batches : /\ batchState[b] = "OPEN"
                   /\ hint \in {b, NoHint}
                   /\ ReceiptMatchesBatch(r, b)}

ChosenBatch(r, hint, b) ==
  /\ b \in EligibleBatches(r, hint)
  /\ \A c \in EligibleBatches(r, hint) : ListedBefore(b, c)

(* Faulty variant: a withdrawn assignment is silently replaced.             *)
AssignmentReplacingWithdrawn(r, hint) ==
  /\ r \in eligible
  /\ \E b \in Batches :
       /\ ChosenBatch(r, hint, b)
       /\ marks[b][r] # "assigned"
       /\ marks' = [marks EXCEPT ![b][r] = "assigned"]
  /\ UNCHANGED <<batchState, createdAt, submissions, evidenceVars, authorityVars>>

(* A reviewer who already has an assignment in the chosen batch gets the    *)
(* stored one back (or assignment_withdrawn): no row changes, and no other  *)
(* batch is tried.                                                         *)
GetOrCreateOwnEligibleAssignment(r, hint) ==
  /\ r \in eligible
  /\ \E b \in Batches :
       /\ ChosenBatch(r, hint, b)
       /\ marks[b][r] = "none"
       /\ marks' = [marks EXCEPT ![b][r] = "assigned"]
  /\ UNCHANGED <<batchState, createdAt, submissions, evidenceVars, authorityVars>>

WithdrawAssignment(r, b) ==
  /\ batchState[b] = "OPEN"
  /\ r \in eligible
  /\ marks[b][r] = "assigned"
  /\ submissions[b][r] = NoSubmission
  /\ marks' = [marks EXCEPT ![b][r] = "withdrawn"]
  /\ UNCHANGED <<batchState, createdAt, submissions, evidenceVars, authorityVars>>

-----------------------------------------------------------------------------
(* Faulty variant: a submission that lost the race with the close is kept.  *)
LateSubmission(r, b, answers) ==
  /\ batchState[b] # "SEALED"
  /\ r \in eligible
  /\ marks[b][r] = "assigned"
  /\ <<r, PoolOf[b]>> \in receipts
  /\ submissions[b][r] = NoSubmission
  /\ submissions' = [submissions EXCEPT ![b][r] = answers]
  /\ UNCHANGED <<batchState, createdAt, marks, evidenceVars, authorityVars>>

(* Submission.  The receipt must still be authoritative; the pool may have  *)
(* been retired since the assignment.  A retry of the accepted payload      *)
(* returns it and any other payload is refused: neither changes a row.      *)
SubmitReview(r, b, answers) ==
  /\ batchState[b] = "OPEN"
  /\ r \in eligible
  /\ marks[b][r] = "assigned"
  /\ <<r, PoolOf[b]>> \in receipts
  /\ submissions[b][r] = NoSubmission
  /\ submissions' = [submissions EXCEPT ![b][r] = answers]
  /\ UNCHANGED <<batchState, createdAt, marks, evidenceVars, authorityVars>>

-----------------------------------------------------------------------------
(* Close and freeze.                                                       *)

CloseChecksPass(b) ==
  /\ \A r \in AcceptedReviewers(submissions[b]) : marks[b][r] = "assigned"
  /\ CloseAllowed(PurposeOf[b], RequiredOf[b], marks[b], submissions[b])

CloseBatch(b) ==
  /\ batchState[b] = "OPEN"
  /\ CloseChecksPass(b)
  /\ closeRecord' = [closeRecord EXCEPT ![b] =
                       CloseRecord(RequiredOf[b], marks[b], submissions[b])]
  /\ batchState' = [batchState EXCEPT ![b] = "CLOSED"]
  /\ UNCHANGED <<createdAt, marks, submissions, frozenPool, agreement,
                 disclosures, requested, authorityVars>>

(* The freeze does not trust the stored snapshot: it compares its coverage  *)
(* and accepted set with the live assignment and submission rows again.     *)
SnapshotMatchesLiveRows(b) ==
  /\ closeRecord[b] # NoRow
  /\ \A r \in AcceptedReviewers(submissions[b]) : marks[b][r] = "assigned"
  /\ closeRecord[b] = CloseRecord(RequiredOf[b], marks[b], submissions[b])

FreezeBatch(b) ==
  /\ batchState[b] = "CLOSED"
  /\ SnapshotMatchesLiveRows(b)
  /\ FreezeAllowed(closeRecord[b])
  /\ frozenPool' = [frozenPool EXCEPT ![b] = FreezePool(closeRecord[b])]
  /\ batchState' = [batchState EXCEPT ![b] = "FROZEN"]
  /\ UNCHANGED <<createdAt, marks, submissions, closeRecord, agreement,
                 disclosures, requested, authorityVars>>

-----------------------------------------------------------------------------
(* Evidence and disclosure.                                                *)

EnsureAgreementEvidence(b) ==
  agreement' = [agreement EXCEPT ![b] =
                  IF @ = NoRow THEN AgreementEvidence(frozenPool[b]) ELSE @]

BuildAgreementEvidence(b) ==
  /\ batchState[b] = "FROZEN"
  /\ EnsureAgreementEvidence(b)
  /\ UNCHANGED <<rowVars, closeRecord, frozenPool, disclosures, requested,
                 authorityVars>>

(* The requests resolveDisclosureRequest and the artifact validator accept. *)
DisclosureRequests ==
  {q \in [mode : Modes, policy : Policies \cup {PrivatePolicy}, date : Dates \cup {NoDate}] :
     IF q.mode = "PRIVATE"
       THEN q.policy = PrivatePolicy /\ q.date = NoDate
       ELSE q.policy \in Policies \cap PublishablePolicies /\ q.date # NoDate}

Disclosure(b, request) ==
  [request  |-> request,
   artifact |-> IF request.mode = "PUBLIC"
                  THEN PublicArtifact(frozenPool[b], request.policy)
                  ELSE NoRow]

(* Faulty variant: only the newest version is compared with the request.    *)
RecordedLast(b, request) ==
  /\ disclosures[b] # <<>>
  /\ disclosures[b][Len(disclosures[b])].request = request

Recorded(b, request) ==
  \E i \in DOMAIN disclosures[b] : disclosures[b][i].request = request

(* A decision recorded before is returned as it is; a new one is appended   *)
(* as the next version.                                                    *)
CreateDisclosure(b, request) ==
  /\ batchState[b] = "FROZEN"
  /\ EnsureAgreementEvidence(b)
  /\ disclosures' = [disclosures EXCEPT ![b] =
                       IF Recorded(b, request) THEN @
                       ELSE Append(@, Disclosure(b, request))]
  /\ requested' = [requested EXCEPT ![b] = request]
  /\ UNCHANGED <<rowVars, closeRecord, frozenPool, authorityVars>>

PublicVersions(b) ==
  {i \in DOMAIN disclosures[b] : disclosures[b][i].request.mode = "PUBLIC"}

(* What buildPublicEvidenceArtifact returns when no disclosure is named:    *)
(* the newest PUBLIC version.                                              *)
ServedVersion(b) ==
  CHOOSE i \in PublicVersions(b) : \A j \in PublicVersions(b) : j <= i

-----------------------------------------------------------------------------
(* What the other components may do to the authority read here.  The        *)
(* reviewer authority changes one reviewer's eligibility, as                *)
(* EligibilityFacts promises and ReviewerAuthority is shown to keep; here   *)
(* no account is closed for good, so that a reviewer may always come back.  *)
(* The qualification authority issues receipts and moves its pools on, as   *)
(* QualificationFacts promises and Qualification is shown to keep.          *)

Eligibility == INSTANCE EligibilityFacts WITH closed <- {}

EligibilityStep ==
  /\ Eligibility!Next
  /\ UNCHANGED <<rowVars, evidenceVars, receipts, poolState>>

Qualifications == INSTANCE QualificationFacts

QualificationStep ==
  /\ Qualifications!Next
  /\ UNCHANGED <<rowVars, evidenceVars, eligible>>

-----------------------------------------------------------------------------
ReviewerStep ==
  \E r \in Reviewers :
    \/ \E hint \in Batches \cup {NoHint} : GetOrCreateOwnEligibleAssignment(r, hint)
    \/ \E b \in Batches :
         \/ WithdrawAssignment(r, b)
         \/ \E answers \in Annotations : SubmitReview(r, b, answers)

OperatorStep ==
  \E b \in Batches :
    \/ \E t \in Times : CreateBatch(b, t)
    \/ OpenBatch(b)
    \/ CloseBatch(b)
    \/ FreezeBatch(b)
    \/ BuildAgreementEvidence(b)
    \/ \E request \in DisclosureRequests : CreateDisclosure(b, request)

AuthorityStep ==
  \/ EligibilityStep
  \/ QualificationStep

Next == ReviewerStep \/ OperatorStep \/ AuthorityStep

Spec == Init /\ [][Next]_vars

-----------------------------------------------------------------------------
(* Properties.                                                             *)

Disclosed(b) == {disclosures[b][i].request : i \in DOMAIN disclosures[b]}

(* Every variable keeps the shape of the rows it stands for.               *)
TypeOK ==
  /\ batchState \in [Batches -> BatchStates]
  /\ createdAt \in [Batches -> Times]
  /\ marks \in [Batches -> [Reviewers -> Marks]]
  /\ submissions \in [Batches -> SubmissionSets]
  /\ closeRecord \in [Batches -> CloseRecords \cup {NoRow}]
  /\ frozenPool \in [Batches -> CloseRecords \cup {NoRow}]
  /\ DOMAIN agreement = Batches
  /\ DOMAIN disclosures = Batches
  /\ \A b \in Batches : Disclosed(b) \subseteq DisclosureRequests
  /\ requested \in [Batches -> DisclosureRequests \cup {NoRow}]
  /\ eligible \subseteq Reviewers
  /\ receipts \subseteq Reviewers \X Pools
  /\ poolState \in [Pools -> PoolStates]

(* Accepted evidence always belongs to a live assignment: whatever order    *)
(* withdrawals and submissions of one reviewer arrive in, never both.       *)
AcceptedIsAssigned ==
  \A b \in Batches, r \in Reviewers :
    submissions[b][r] # NoSubmission => marks[b][r] = "assigned"

(* Nothing that happens after a close - late submissions, withdrawals,      *)
(* assignments, account changes - makes the live rows drift from the        *)
(* snapshot, so the re-verification of freezeBatch never strands a CLOSED   *)
(* batch and the snapshot is exactly the accepted set.                      *)
CloseSnapshotIsExact ==
  \A b \in Batches :
    batchState[b] \in {"CLOSED", "FROZEN"} =>
      SnapshotMatchesLiveRows(b) /\ FreezeAllowed(closeRecord[b])

(* A batch that has not reached CLOSED keeps no close record, and one that  *)
(* has not reached FROZEN no pool, evidence or disclosure: a failed close   *)
(* or freeze leaves nothing behind.                                         *)
NoEvidenceBeforeItsState ==
  \A b \in Batches :
    /\ batchState[b] \in {"ABSENT", "SEALED", "OPEN"} => closeRecord[b] = NoRow
    /\ batchState[b] # "FROZEN" =>
         /\ frozenPool[b] = NoRow
         /\ agreement[b] = NoRow
         /\ disclosures[b] = <<>>

(* Whatever was withdrawn, assigned or left missing before, an OPEN batch   *)
(* that has its required accepted submissions passes every check closeBatch *)
(* makes: the coverage it builds is one the close record's parser accepts.  *)
CoveredBatchCanClose ==
  \A b \in Batches :
    /\ batchState[b] = "OPEN"
    /\ Cardinality(AcceptedReviewers(submissions[b])) >= RequiredOf[b]
    => CloseChecksPass(b)

(* An interpretable pool rests on at least the required number of distinct  *)
(* reviewers, two or more, each holding an authoritative receipt.           *)
InterpretablePoolIsIndependent ==
  \A b \in Batches :
    batchState[b] = "FROZEN" =>
      LET accepted == AcceptedReviewers(frozenPool[b].submissions) IN
      /\ PurposeOf[b] = "interpretable" =>
           Cardinality(accepted) >= RequiredOf[b] /\ Cardinality(accepted) >= 2
      /\ \A r \in accepted : <<r, PoolOf[b]>> \in receipts

(* Agreement evidence and every published artifact, whenever they were      *)
(* made, are what the live accepted rows would give today.                  *)
PublishedEvidenceIsLiveEvidence ==
  \A b \in Batches :
    LET live == FreezePool(CloseRecord(RequiredOf[b], marks[b], submissions[b])) IN
    /\ agreement[b] # NoRow => agreement[b] = AgreementEvidence(live)
    /\ \A i \in DOMAIN disclosures[b] :
         disclosures[b][i].request.mode = "PUBLIC" =>
           disclosures[b][i].artifact =
             PublicArtifact(live, disclosures[b][i].request.policy)

EvidenceKept(b) ==
  /\ \A r \in Reviewers :
       /\ submissions[b][r] # NoSubmission => submissions'[b][r] = submissions[b][r]
       /\ marks[b][r] = "withdrawn" => marks'[b][r] = "withdrawn"
  /\ closeRecord[b] # NoRow => closeRecord'[b] = closeRecord[b]
  /\ frozenPool[b] # NoRow => frozenPool'[b] = frozenPool[b]
  /\ \A i \in DOMAIN disclosures[b] :
       i \in DOMAIN disclosures'[b] /\ disclosures'[b][i] = disclosures[b][i]

(* Accepted evidence is never replaced or removed, a withdrawn assignment   *)
(* is never revived, a stored close record or pool never rewritten, and     *)
(* disclosure history is only appended to.                                  *)
EvidenceIsAppendOnly == [][\A b \in Batches : EvidenceKept(b)]_vars

AuthorityHeld(b, r) ==
  /\ submissions'[b][r] # submissions[b][r] =>
       r \in eligible /\ batchState[b] = "OPEN" /\ marks[b][r] = "assigned"
  /\ marks'[b][r] # marks[b][r] =>
       /\ r \in eligible /\ batchState[b] = "OPEN"
       /\ marks'[b][r] = "assigned" => ReceiptMatchesBatch(r, b)

(* New evidence comes only from a reviewer who may act at that moment and   *)
(* was assigned before, while the batch is OPEN; new assignments only from  *)
(* a pool that is still ACTIVE.                                             *)
AuthorityGatesNewActions ==
  [][\A b \in Batches, r \in Reviewers : AuthorityHeld(b, r)]_vars

(* A disclosure decision is one version for ever, however often it is asked *)
(* for again after a lost answer, in turn with other decisions or by two    *)
(* operators, and a decision that was confirmed is among the versions: the  *)
(* identities are unique (docs/community-review-service.md:724).            *)
DecisionsAreRecordedOnce ==
  \A b \in Batches :
    /\ \A i, j \in DOMAIN disclosures[b] :
         disclosures[b][i].request = disclosures[b][j].request => i = j
    /\ requested[b] # NoRow => Recorded(b, requested[b])

(* A policy that omits atomic annotations lets none of them out: the        *)
(* artifact names no reviewer's status on an atom.                          *)
AnnotationsOmittedWhenNotPublished ==
  \A b \in Batches : \A i \in DOMAIN disclosures[b] :
    LET d == disclosures[b][i] IN
    d.request.mode = "PUBLIC" /\ ~d.request.policy.annotations =>
      d.artifact.submissions = {} /\ d.artifact.disagreements = {}

(* Changing the disclosure policy or date appends a version, so the PUBLIC  *)
(* decision last confirmed to the operator is the one that is served.       *)
LastDecisionIsServed ==
  \A b \in Batches :
    requested[b] # NoRow /\ requested[b].mode = "PUBLIC" =>
      disclosures[b][ServedVersion(b)].request = requested[b]

-----------------------------------------------------------------------------
(* The single-copy specification, with the stored copies as the evidence.   *)

RosterOf(coverage) ==
  [r \in Reviewers |-> IF r \in coverage.withdrawn THEN "withdrawn"
                       ELSE IF r \in coverage.assigned THEN "assigned"
                       ELSE "none"]

Phases ==
  [ABSENT |-> "sealed", SEALED |-> "sealed", OPEN |-> "open",
   CLOSED |-> "closed", FROZEN |-> "frozen"]

EvidencePhase == [b \in Batches |-> Phases[batchState[b]]]

EvidenceRoster ==
  [b \in Batches |->
     CASE batchState[b] = "CLOSED" -> RosterOf(closeRecord[b].coverage)
       [] batchState[b] = "FROZEN" -> RosterOf(frozenPool[b].coverage)
       [] OTHER -> marks[b]]

EvidenceSubmissions ==
  [b \in Batches |->
     CASE batchState[b] = "CLOSED" -> closeRecord[b].submissions
       [] batchState[b] = "FROZEN" -> frozenPool[b].submissions
       [] OTHER -> submissions[b]]

EvidencePublished ==
  [b \in Batches |-> {disclosures[b][i].artifact : i \in PublicVersions(b)}]

Evidence == INSTANCE EvidencePool WITH
  phase <- EvidencePhase, roster <- EvidenceRoster,
  evidence <- EvidenceSubmissions, published <- EvidencePublished

(* Every step of the batches is a step of the single-copy specification:    *)
(* closing, freezing and disclosing never lose, add or alter evidence.      *)
EvidencePoolSpec == Evidence!Spec
=============================================================================
