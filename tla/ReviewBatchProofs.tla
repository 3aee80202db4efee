------------------------- MODULE ReviewBatchProofs -------------------------
(***************************************************************************)
(* Theorems about ReviewBatch for every set of reviewers, batches, pools,   *)
(* statuses and policies.  The inductive invariant relates the four copies  *)
(* of the evidence: live rows, close record, frozen pool and disclosures.   *)
(***************************************************************************)
EXTENDS ReviewBatch, FiniteSetTheorems, FunctionTheorems, TLAPS

(* What the rows of a disclosure history hold.                              *)
DisclosureRows ==
  [request  : DisclosureRequests,
   artifact : {PublicArtifact(pool, policy) :
                 pool \in CloseRecords, policy \in DisclosurePolicies} \cup {NoRow}]

DisclosuresTyped == disclosures \in [Batches -> Seq(DisclosureRows)]

(* The frozen pool holds what the close record holds, and the close was     *)
(* allowed by the rows it recorded.                                         *)
PoolIsSnapshot ==
  \A b \in Batches :
    /\ batchState[b] = "FROZEN" => frozenPool[b] = FreezePool(closeRecord[b])
    /\ batchState[b] \in {"CLOSED", "FROZEN"} =>
         CloseAllowed(PurposeOf[b], RequiredOf[b], marks[b], submissions[b])

(* A submission was accepted from a reviewer with a receipt.                *)
AcceptedHasReceipt ==
  \A b \in Batches, r \in Reviewers :
    submissions[b][r] # NoSubmission => <<r, PoolOf[b]>> \in receipts

IInv ==
  /\ TypeOK
  /\ DisclosuresTyped
  /\ AcceptedIsAssigned
  /\ AcceptedHasReceipt
  /\ NoEvidenceBeforeItsState
  /\ CloseSnapshotIsExact
  /\ PoolIsSnapshot
  /\ PublishedEvidenceIsLiveEvidence

-----------------------------------------------------------------------------
(* The close record of well-typed rows is a close record.                   *)
LEMMA CloseRecordType ==
  ASSUME NEW m \in [Reviewers -> Marks], NEW s \in SubmissionSets, NEW n \in Nat
  PROVE  CloseRecord(n, m, s) \in CloseRecords
  <1>1. BuildCoverage(n, m, s) \in Coverages
    BY DEF BuildCoverage, Coverages, AssignedReviewers, AcceptedReviewers,
           WithdrawnReviewers
  <1> QED
    BY <1>1 DEF CloseRecord, CloseRecords

(* What a close record and the pool made of it hold.                        *)
LEMMA CloseRecordFields ==
  ASSUME NEW m, NEW s, NEW n
  PROVE  /\ CloseRecord(n, m, s).coverage = BuildCoverage(n, m, s)
         /\ CloseRecord(n, m, s).submissions = s
         /\ FreezePool(CloseRecord(n, m, s)).submissions = s
  <1>1. /\ CloseRecord(n, m, s).coverage = BuildCoverage(n, m, s)
        /\ CloseRecord(n, m, s).submissions = s
    BY DEF CloseRecord
  <1>2. FreezePool(CloseRecord(n, m, s)).submissions = CloseRecord(n, m, s).submissions
    BY DEF FreezePool
  <1> QED
    BY <1>1, <1>2

(* Freezing a close record changes nothing in it.                           *)
LEMMA FreezePoolIsIdentity ==
  ASSUME NEW c \in CloseRecords
  PROVE  FreezePool(c) = c
  BY DEF FreezePool, CloseRecords

(* A history of disclosure rows discloses only admissible requests.         *)
LEMMA DisclosedRequests ==
  ASSUME NEW history \in Seq(DisclosureRows)
  PROVE  {history[i].request : i \in DOMAIN history} \subseteq DisclosureRequests
  <1>1. \A i \in DOMAIN history : history[i] \in DisclosureRows
    OBVIOUS
  <1> QED
    BY <1>1 DEF DisclosureRows

LEMMA InitIInv == Init => IInv
  <1> SUFFICES ASSUME Init PROVE IInv
    OBVIOUS
  <1> USE BatchAssumption, SubmissionAssumption DEF Init
  <1>1. TypeOK
    BY DEF TypeOK, BatchStates, PoolStates, Marks, SubmissionSets, Disclosed
  <1>2. DisclosuresTyped
    BY DEF DisclosuresTyped
  <1>3. AcceptedIsAssigned /\ AcceptedHasReceipt
    BY DEF AcceptedIsAssigned, AcceptedHasReceipt
  <1>4. NoEvidenceBeforeItsState
    BY DEF NoEvidenceBeforeItsState
  <1>5. CloseSnapshotIsExact /\ PoolIsSnapshot
    BY DEF CloseSnapshotIsExact, PoolIsSnapshot
  <1>6. PublishedEvidenceIsLiveEvidence
    BY DEF PublishedEvidenceIsLiveEvidence
  <1> QED
    BY <1>1, <1>2, <1>3, <1>4, <1>5, <1>6 DEF IInv

-----------------------------------------------------------------------------
(* The steps, one lemma for each group of actions.                          *)

(* Steps that touch neither the rows of a batch nor its evidence.           *)
LEMMA AuthorityStepIInv == IInv /\ AuthorityStep => IInv'
  <1> SUFFICES ASSUME IInv, AuthorityStep PROVE IInv'
    OBVIOUS
  <1> USE BatchAssumption DEF IInv
  <1>1. /\ UNCHANGED <<rowVars, evidenceVars>>
        /\ eligible' \subseteq Reviewers
        /\ receipts' \subseteq Reviewers \X Pools
        /\ receipts \subseteq receipts'
        /\ poolState' \in [Pools -> PoolStates]
    BY DEF AuthorityStep, EligibilityStep, Eligibility!Next, Eligibility!Gain, Eligibility!Lose,
           QualificationStep, Qualifications!Next,
           Qualifications!IssueReceipt, Qualifications!ActivatePool,
           Qualifications!RetirePool, TypeOK, PoolStates
  <1>2. TypeOK' /\ DisclosuresTyped'
    BY <1>1 DEF TypeOK, DisclosuresTyped, Disclosed, rowVars, evidenceVars
  <1>3. AcceptedIsAssigned' /\ AcceptedHasReceipt'
    BY <1>1 DEF AcceptedIsAssigned, AcceptedHasReceipt, rowVars
  <1>4. NoEvidenceBeforeItsState' /\ PoolIsSnapshot'
    BY <1>1 DEF NoEvidenceBeforeItsState, PoolIsSnapshot, rowVars, evidenceVars
  <1>5. CloseSnapshotIsExact' /\ PublishedEvidenceIsLiveEvidence'
    BY <1>1 DEF CloseSnapshotIsExact, SnapshotMatchesLiveRows,
                PublishedEvidenceIsLiveEvidence, rowVars, evidenceVars
  <1> QED
    BY <1>2, <1>3, <1>4, <1>5

(* Steps that change only the assignment or submission rows of one OPEN     *)
(* batch, keeping accepted evidence on assigned reviewers with a receipt.   *)
LEMMA OpenRowsStepIInv ==
  ASSUME IInv, NEW b \in Batches, batchState[b] = "OPEN",
         NEW m \in [Reviewers -> Marks], NEW s \in SubmissionSets,
         marks' = [marks EXCEPT ![b] = m],
         submissions' = [submissions EXCEPT ![b] = s],
         \A r \in Reviewers : s[r] # NoSubmission =>
            m[r] = "assigned" /\ <<r, PoolOf[b]>> \in receipts,
         UNCHANGED <<batchState, createdAt, evidenceVars, authorityVars>>
  PROVE  IInv'
  <1> USE BatchAssumption DEF IInv
  <1>1. TypeOK' /\ DisclosuresTyped'
    BY DEF TypeOK, DisclosuresTyped, Disclosed, evidenceVars, authorityVars
  <1>2. AcceptedIsAssigned' /\ AcceptedHasReceipt'
    BY DEF AcceptedIsAssigned, AcceptedHasReceipt, TypeOK, authorityVars
  <1>3. \A c \in Batches : c # b => marks'[c] = marks[c] /\ submissions'[c] = submissions[c]
    BY DEF TypeOK
  <1>4. NoEvidenceBeforeItsState'
    BY DEF NoEvidenceBeforeItsState, evidenceVars
  <1>5. CloseSnapshotIsExact' /\ PoolIsSnapshot'
    BY <1>3 DEF CloseSnapshotIsExact, PoolIsSnapshot, SnapshotMatchesLiveRows,
                evidenceVars
  <1>6. PublishedEvidenceIsLiveEvidence'
    <2> SUFFICES ASSUME NEW c \in Batches
                 PROVE PublishedEvidenceIsLiveEvidence!(c)'
      BY DEF PublishedEvidenceIsLiveEvidence
    <2>1. CASE c = b
      BY <2>1 DEF NoEvidenceBeforeItsState, evidenceVars
    <2>2. CASE c # b
      BY <2>2, <1>3 DEF PublishedEvidenceIsLiveEvidence, evidenceVars
    <2> QED
      BY <2>1, <2>2
  <1> QED
    BY <1>1, <1>2, <1>4, <1>5, <1>6

LEMMA ReviewerStepIInv == IInv /\ ReviewerStep => IInv'
  <1> SUFFICES ASSUME IInv, ReviewerStep PROVE IInv'
    OBVIOUS
  <1> USE DEF IInv
  <1>1. PICK r \in Reviewers :
          \/ \E hint \in Batches \cup {NoHint} : GetOrCreateOwnEligibleAssignment(r, hint)
          \/ \E b \in Batches :
               \/ WithdrawAssignment(r, b)
               \/ \E answers \in Annotations : SubmitReview(r, b, answers)
    BY DEF ReviewerStep
  <1>2. ASSUME NEW hint \in Batches \cup {NoHint}, GetOrCreateOwnEligibleAssignment(r, hint)
        PROVE IInv'
    <2>1. PICK b \in Batches : /\ ChosenBatch(r, hint, b)
                               /\ marks[b][r] = "none"
                               /\ marks' = [marks EXCEPT ![b][r] = "assigned"]
      BY <1>2 DEF GetOrCreateOwnEligibleAssignment
    <2> DEFINE m == [marks[b] EXCEPT ![r] = "assigned"]
    <2>2. m \in [Reviewers -> Marks] /\ submissions[b] \in SubmissionSets
      BY DEF TypeOK, Marks
    <2>3. batchState[b] = "OPEN"
      BY <2>1 DEF ChosenBatch, EligibleBatches
    <2>4. \A x \in Reviewers : submissions[b][x] # NoSubmission =>
            m[x] = "assigned" /\ <<x, PoolOf[b]>> \in receipts
      BY <2>1 DEF AcceptedIsAssigned, AcceptedHasReceipt, TypeOK
    <2>5. marks' = [marks EXCEPT ![b] = m] /\ submissions' = [submissions EXCEPT ![b] = submissions[b]]
      BY <1>2, <2>1 DEF TypeOK, GetOrCreateOwnEligibleAssignment
    <2>6. UNCHANGED <<batchState, createdAt, evidenceVars, authorityVars>>
      BY <1>2 DEF GetOrCreateOwnEligibleAssignment
    <2> HIDE DEF m, IInv
    <2> QED
      BY <2>2, <2>3, <2>4, <2>5, <2>6, OpenRowsStepIInv
  <1>3. ASSUME NEW b \in Batches, WithdrawAssignment(r, b) PROVE IInv'
    <2> DEFINE m == [marks[b] EXCEPT ![r] = "withdrawn"]
    <2>1. m \in [Reviewers -> Marks] /\ submissions[b] \in SubmissionSets
      BY DEF TypeOK, Marks
    <2>2. \A x \in Reviewers : submissions[b][x] # NoSubmission =>
            m[x] = "assigned" /\ <<x, PoolOf[b]>> \in receipts
      BY <1>3 DEF AcceptedIsAssigned, AcceptedHasReceipt, TypeOK, WithdrawAssignment
    <2>3. marks' = [marks EXCEPT ![b] = m] /\ submissions' = [submissions EXCEPT ![b] = submissions[b]]
      BY <1>3 DEF TypeOK, WithdrawAssignment
    <2>4. batchState[b] = "OPEN" /\ UNCHANGED <<batchState, createdAt, evidenceVars, authorityVars>>
      BY <1>3 DEF WithdrawAssignment
    <2> HIDE DEF m, IInv
    <2> QED
      BY <2>1, <2>2, <2>3, <2>4, OpenRowsStepIInv
  <1>4. ASSUME NEW b \in Batches, NEW answers \in Annotations, SubmitReview(r, b, answers)
        PROVE IInv'
    <2> DEFINE s == [submissions[b] EXCEPT ![r] = answers]
    <2>1. s \in SubmissionSets /\ marks[b] \in [Reviewers -> Marks]
      BY DEF TypeOK, SubmissionSets
    <2>2. \A x \in Reviewers : s[x] # NoSubmission =>
            marks[b][x] = "assigned" /\ <<x, PoolOf[b]>> \in receipts
      BY <1>4 DEF AcceptedIsAssigned, AcceptedHasReceipt, TypeOK, SubmitReview,
                  SubmissionSets
    <2>3. marks' = [marks EXCEPT ![b] = marks[b]] /\ submissions' = [submissions EXCEPT ![b] = s]
      BY <1>4 DEF TypeOK, SubmitReview
    <2>4. batchState[b] = "OPEN" /\ UNCHANGED <<batchState, createdAt, evidenceVars, authorityVars>>
      BY <1>4 DEF SubmitReview
    <2> HIDE DEF s, IInv
    <2> QED
      BY <2>1, <2>2, <2>3, <2>4, OpenRowsStepIInv
  <1> QED
    BY <1>1, <1>2, <1>3, <1>4

-----------------------------------------------------------------------------
(* Operator steps.                                                          *)

LEMMA CreateOrOpenIInv ==
  ASSUME IInv, NEW b \in Batches,
         \/ \E t \in Times : CreateBatch(b, t)
         \/ OpenBatch(b)
  PROVE  IInv'
  <1> USE DEF IInv
  <1>1. /\ UNCHANGED <<marks, submissions, evidenceVars, authorityVars>>
        /\ createdAt' \in [Batches -> Times]
        /\ batchState' \in [Batches -> BatchStates]
        /\ batchState[b] \in {"ABSENT", "SEALED"} /\ batchState'[b] \in {"SEALED", "OPEN"}
        /\ \A c \in Batches : c # b => batchState'[c] = batchState[c]
    BY DEF CreateBatch, OpenBatch, TypeOK, BatchStates
  <1>2. TypeOK' /\ DisclosuresTyped'
    BY <1>1 DEF TypeOK, DisclosuresTyped, Disclosed, evidenceVars, authorityVars
  <1>3. AcceptedIsAssigned' /\ AcceptedHasReceipt'
    BY <1>1 DEF AcceptedIsAssigned, AcceptedHasReceipt, authorityVars
  <1>4. NoEvidenceBeforeItsState'
    BY <1>1 DEF NoEvidenceBeforeItsState, evidenceVars
  <1>5. CloseSnapshotIsExact' /\ PoolIsSnapshot'
    BY <1>1 DEF CloseSnapshotIsExact, PoolIsSnapshot, SnapshotMatchesLiveRows, evidenceVars
  <1>6. PublishedEvidenceIsLiveEvidence'
    BY <1>1 DEF PublishedEvidenceIsLiveEvidence, evidenceVars
  <1> QED
    BY <1>2, <1>3, <1>4, <1>5, <1>6

LEMMA CloseBatchIInv ==
  ASSUME IInv, NEW b \in Batches, CloseBatch(b)
  PROVE  IInv'
  <1> USE DEF IInv
  <1> DEFINE record == CloseRecord(RequiredOf[b], marks[b], submissions[b])
  <1>1. record \in CloseRecords
    BY BatchAssumption, CloseRecordType DEF TypeOK
  <1>2. /\ UNCHANGED <<createdAt, marks, submissions, frozenPool, agreement,
                       disclosures, requested, authorityVars>>
        /\ closeRecord' = [closeRecord EXCEPT ![b] = record]
        /\ batchState[b] = "OPEN" /\ batchState' = [batchState EXCEPT ![b] = "CLOSED"]
    BY DEF CloseBatch
  <1>3. TypeOK' /\ DisclosuresTyped'
    <2> HIDE DEF record
    <2> QED
      BY <1>1, <1>2 DEF TypeOK, DisclosuresTyped, Disclosed, authorityVars, BatchStates
  <1>4. AcceptedIsAssigned' /\ AcceptedHasReceipt'
    BY <1>2 DEF AcceptedIsAssigned, AcceptedHasReceipt, authorityVars
  <1>5. /\ closeRecord'[b] = record /\ batchState'[b] = "CLOSED"
        /\ \A c \in Batches : c # b => closeRecord'[c] = closeRecord[c] /\ batchState'[c] = batchState[c]
    BY <1>2 DEF TypeOK
  <1>6. NoEvidenceBeforeItsState'
    BY <1>2, <1>5 DEF NoEvidenceBeforeItsState
  <1>7. CloseSnapshotIsExact'
    <2> SUFFICES ASSUME NEW c \in Batches, batchState'[c] \in {"CLOSED", "FROZEN"}
                 PROVE  SnapshotMatchesLiveRows(c)' /\ FreezeAllowed(closeRecord'[c])
      BY DEF CloseSnapshotIsExact
    <2>1. CASE c = b
      <3>1. SnapshotMatchesLiveRows(b)'
        BY <1>1, <1>2, <1>5, BatchAssumption DEF SnapshotMatchesLiveRows, CloseBatch,
           CloseChecksPass
      <3>2. record.submissions = submissions[b]
        BY CloseRecordFields
      <3>3. FreezeAllowed(record)
        BY <3>2 DEF FreezeAllowed, CloseBatch, CloseChecksPass, CloseAllowed
      <3> QED
        BY <1>5, <2>1, <3>1, <3>3
    <2>2. CASE c # b
      BY <1>2, <1>5, <2>2 DEF SnapshotMatchesLiveRows, CloseSnapshotIsExact
    <2> QED
      BY <2>1, <2>2
  <1>8. PoolIsSnapshot'
    BY <1>2, <1>5 DEF PoolIsSnapshot, CloseBatch, CloseChecksPass
  <1>9. PublishedEvidenceIsLiveEvidence'
    BY <1>2 DEF PublishedEvidenceIsLiveEvidence
  <1> QED
    BY <1>3, <1>4, <1>6, <1>7, <1>8, <1>9

LEMMA FreezeBatchIInv ==
  ASSUME IInv, NEW b \in Batches, FreezeBatch(b)
  PROVE  IInv'
  <1> USE DEF IInv
  <1>1. /\ UNCHANGED <<createdAt, marks, submissions, closeRecord, agreement,
                       disclosures, requested, authorityVars>>
        /\ frozenPool' = [frozenPool EXCEPT ![b] = FreezePool(closeRecord[b])]
        /\ batchState[b] = "CLOSED" /\ batchState' = [batchState EXCEPT ![b] = "FROZEN"]
    BY DEF FreezeBatch
  <1>2. closeRecord[b] \in CloseRecords /\ FreezePool(closeRecord[b]) \in CloseRecords
    BY <1>1, FreezePoolIsIdentity DEF CloseSnapshotIsExact, SnapshotMatchesLiveRows, TypeOK
  <1>3. TypeOK' /\ DisclosuresTyped'
    BY <1>1, <1>2 DEF TypeOK, DisclosuresTyped, Disclosed, authorityVars, BatchStates
  <1>4. AcceptedIsAssigned' /\ AcceptedHasReceipt'
    BY <1>1 DEF AcceptedIsAssigned, AcceptedHasReceipt, authorityVars
  <1>5. /\ frozenPool'[b] = FreezePool(closeRecord[b]) /\ batchState'[b] = "FROZEN"
        /\ \A c \in Batches : c # b => frozenPool'[c] = frozenPool[c] /\ batchState'[c] = batchState[c]
    BY <1>1 DEF TypeOK
  <1>6. NoEvidenceBeforeItsState'
    BY <1>1, <1>5 DEF NoEvidenceBeforeItsState
  <1>7. CloseSnapshotIsExact' /\ PoolIsSnapshot'
    BY <1>1, <1>5 DEF CloseSnapshotIsExact, SnapshotMatchesLiveRows, PoolIsSnapshot
  <1>8. PublishedEvidenceIsLiveEvidence'
    BY <1>1 DEF PublishedEvidenceIsLiveEvidence
  <1> QED
    BY <1>3, <1>4, <1>6, <1>7, <1>8

(* In a FROZEN batch the stored pool is the pool of the live rows.          *)
LEMMA FrozenPoolIsLive ==
  ASSUME IInv, NEW b \in Batches, batchState[b] = "FROZEN"
  PROVE  /\ frozenPool[b] \in CloseRecords
         /\ frozenPool[b] = FreezePool(CloseRecord(RequiredOf[b], marks[b], submissions[b]))
  <1>1. frozenPool[b] = FreezePool(closeRecord[b])
    BY DEF IInv, PoolIsSnapshot
  <1>2. closeRecord[b] \in CloseRecords
        /\ closeRecord[b] = CloseRecord(RequiredOf[b], marks[b], submissions[b])
    BY DEF IInv, CloseSnapshotIsExact, SnapshotMatchesLiveRows, TypeOK
  <1> QED
    BY <1>1, <1>2, FreezePoolIsIdentity

LEMMA EvidenceStepIInv ==
  ASSUME IInv, NEW b \in Batches,
         \/ BuildAgreementEvidence(b)
         \/ \E request \in DisclosureRequests : CreateDisclosure(b, request)
  PROVE  IInv'
  <1> DEFINE live(c) == FreezePool(CloseRecord(RequiredOf[c], marks[c], submissions[c]))
  <1>1. /\ UNCHANGED <<rowVars, closeRecord, frozenPool, authorityVars>>
        /\ EnsureAgreementEvidence(b)
        /\ batchState[b] = "FROZEN"
    BY DEF BuildAgreementEvidence, CreateDisclosure
  <1>2. frozenPool[b] \in CloseRecords /\ frozenPool[b] = live(b)
    BY <1>1, FrozenPoolIsLive
  <1>3. \A c \in Batches : agreement'[c] # NoRow => agreement'[c] = AgreementEvidence(live(c))
    <2> HIDE DEF live
    <2> SUFFICES ASSUME NEW c \in Batches, agreement'[c] # NoRow
                 PROVE  agreement'[c] = AgreementEvidence(live(c))
      OBVIOUS
    <2>1. agreement[c] # NoRow => agreement[c] = AgreementEvidence(live(c))
      BY DEF IInv, PublishedEvidenceIsLiveEvidence, live
    <2>2. DOMAIN agreement = Batches
      BY DEF IInv, TypeOK
    <2> QED
      BY <1>1, <1>2, <2>1, <2>2 DEF EnsureAgreementEvidence
  <1>4. /\ DisclosuresTyped'
        /\ \A c \in Batches : Disclosed(c)' \subseteq DisclosureRequests
        /\ requested' \in [Batches -> DisclosureRequests \cup {NoRow}]
        /\ \A c \in Batches : c # b => disclosures'[c] = disclosures[c]
        /\ \A i \in DOMAIN disclosures'[b] :
             disclosures'[b][i].request.mode = "PUBLIC" =>
               disclosures'[b][i].artifact =
                 PublicArtifact(live(b), disclosures'[b][i].request.policy)
    <2> HIDE DEF live
    <2>1. /\ disclosures[b] \in Seq(DisclosureRows)
          /\ \A i \in DOMAIN disclosures[b] :
               disclosures[b][i].request.mode = "PUBLIC" =>
                 disclosures[b][i].artifact =
                   PublicArtifact(live(b), disclosures[b][i].request.policy)
      BY DEF IInv, DisclosuresTyped, PublishedEvidenceIsLiveEvidence, live
    <2>2. CASE BuildAgreementEvidence(b)
      BY <2>1, <2>2 DEF IInv, TypeOK, DisclosuresTyped, Disclosed, BuildAgreementEvidence
    <2>3. ASSUME NEW request \in DisclosureRequests, CreateDisclosure(b, request)
          PROVE  <1>4!:
      <3> DEFINE row == Disclosure(b, request)
      <3>1. row \in DisclosureRows /\ row.request = request
            /\ (request.mode = "PUBLIC" => row.artifact = PublicArtifact(live(b), request.policy))
        BY <1>2, BatchAssumption DEF Disclosure, DisclosureRows, DisclosureRequests,
           PublishablePolicies
      <3> HIDE DEF row
      <3>2. disclosures' = [disclosures EXCEPT ![b] =
                              IF Recorded(b, request) THEN @ ELSE Append(@, row)]
            /\ requested' = [requested EXCEPT ![b] = request]
        BY <2>3 DEF CreateDisclosure, row
      <3>3. disclosures \in [Batches -> Seq(DisclosureRows)]
        BY DEF IInv, DisclosuresTyped
      <3>4. disclosures'[b] \in Seq(DisclosureRows)
            /\ (disclosures'[b] = disclosures[b] \/ disclosures'[b] = Append(disclosures[b], row))
        BY <3>1, <3>2, <3>3
      <3>5. DisclosuresTyped' /\ \A c \in Batches : c # b => disclosures'[c] = disclosures[c]
        BY <3>2, <3>3, <3>4 DEF DisclosuresTyped
      <3>6. \A c \in Batches : Disclosed(c)' \subseteq DisclosureRequests
        BY <3>5, DisclosedRequests DEF DisclosuresTyped, Disclosed
      <3>7. requested' \in [Batches -> DisclosureRequests \cup {NoRow}]
        BY <3>2 DEF IInv, TypeOK
      <3>8. \A i \in DOMAIN disclosures'[b] :
             disclosures'[b][i].request.mode = "PUBLIC" =>
               disclosures'[b][i].artifact =
                 PublicArtifact(live(b), disclosures'[b][i].request.policy)
        BY <2>1, <3>1, <3>4
      <3> QED
        BY <3>5, <3>6, <3>7, <3>8
    <2> QED
      BY <2>2, <2>3
  <1>5. TypeOK'
    BY <1>1, <1>4 DEF IInv, TypeOK, DisclosuresTyped, rowVars, authorityVars,
                      EnsureAgreementEvidence
  <1>6. AcceptedIsAssigned' /\ AcceptedHasReceipt'
    BY <1>1 DEF IInv, AcceptedIsAssigned, AcceptedHasReceipt, rowVars, authorityVars
  <1>7. NoEvidenceBeforeItsState'
    BY <1>1, <1>4 DEF IInv, TypeOK, NoEvidenceBeforeItsState, rowVars, EnsureAgreementEvidence
  <1>8. CloseSnapshotIsExact' /\ PoolIsSnapshot'
    BY <1>1 DEF IInv, CloseSnapshotIsExact, SnapshotMatchesLiveRows, PoolIsSnapshot, rowVars
  <1>9. PublishedEvidenceIsLiveEvidence'
    BY <1>1, <1>3, <1>4 DEF IInv, PublishedEvidenceIsLiveEvidence, rowVars
  <1> QED
    BY <1>4, <1>5, <1>6, <1>7, <1>8, <1>9 DEF IInv

LEMMA NextIInv == IInv /\ [Next]_vars => IInv'
  <1> SUFFICES ASSUME IInv, [Next]_vars PROVE IInv'
    OBVIOUS
  <1>1. CASE ReviewerStep
    BY <1>1, ReviewerStepIInv
  <1>2. CASE OperatorStep
    BY <1>2, CreateOrOpenIInv, CloseBatchIInv, FreezeBatchIInv, EvidenceStepIInv
       DEF OperatorStep
  <1>3. CASE AuthorityStep
    BY <1>3, AuthorityStepIInv
  <1>4. CASE UNCHANGED vars
    BY <1>4 DEF vars, rowVars, evidenceVars, authorityVars, IInv, TypeOK, Disclosed,
       DisclosuresTyped, AcceptedIsAssigned, AcceptedHasReceipt, NoEvidenceBeforeItsState,
       CloseSnapshotIsExact, SnapshotMatchesLiveRows, PoolIsSnapshot,
       PublishedEvidenceIsLiveEvidence
  <1> QED
    BY <1>1, <1>2, <1>3, <1>4 DEF Next

-----------------------------------------------------------------------------
(* The invariant of every behaviour.                                        *)
THEOREM SpecIInv == Spec => []IInv
  BY InitIInv, NextIInv, PTL DEF Spec

(* Every variable keeps the shape of its rows (TypeOK).                     *)
THEOREM TypeSafety == Spec => []TypeOK
  <1>1. IInv => TypeOK
    BY DEF IInv
  <1> QED
    BY <1>1, SpecIInv, PTL

(* A submission and a withdrawal of one assignment never both take effect:  *)
(* submitReview and withdrawAssignment, in any interleaving.                *)
THEOREM EvidenceBelongsToAssigned == Spec => []AcceptedIsAssigned
  <1>1. IInv => AcceptedIsAssigned
    BY DEF IInv
  <1> QED
    BY <1>1, SpecIInv, PTL

(* closeBatch's stored snapshot equals the live rows for ever after, so the *)
(* comparison freezeBatch makes never fails.                                *)
THEOREM SnapshotNeverDrifts == Spec => []CloseSnapshotIsExact
  <1>1. IInv => CloseSnapshotIsExact
    BY DEF IInv
  <1> QED
    BY <1>1, SpecIInv, PTL

(* Close records, pools, agreement evidence and disclosures appear only     *)
(* with the transition they belong to.                                      *)
THEOREM EvidenceFollowsState == Spec => []NoEvidenceBeforeItsState
  <1>1. IInv => NoEvidenceBeforeItsState
    BY DEF IInv
  <1> QED
    BY <1>1, SpecIInv, PTL

(* Agreement evidence and published artifacts are at all times what the     *)
(* accepted rows give.                                                      *)
THEOREM PublishedIsLive == Spec => []PublishedEvidenceIsLiveEvidence
  <1>1. IInv => PublishedEvidenceIsLiveEvidence
    BY DEF IInv
  <1> QED
    BY <1>1, SpecIInv, PTL

(* A batch with its required submissions can be closed: the coverage that   *)
(* buildCoverage makes always splits the roster.                            *)
THEOREM CoveredCanClose == Spec => []CoveredBatchCanClose
  <1>1. IInv => CoveredBatchCanClose
    <2> SUFFICES ASSUME IInv, NEW b \in Batches,
                        Cardinality(AcceptedReviewers(submissions[b])) >= RequiredOf[b]
                 PROVE  CloseChecksPass(b)
      BY DEF CoveredBatchCanClose
    <2>1. AcceptedReviewers(submissions[b]) # {}
      <3>1. Cardinality({}) = 0 /\ RequiredOf[b] \in Nat \ {0}
        BY FS_EmptySet, BatchAssumption
      <3> QED
        BY <3>1
    <2>2. \A r \in AcceptedReviewers(submissions[b]) : marks[b][r] = "assigned"
      BY DEF IInv, AcceptedIsAssigned, AcceptedReviewers
    <2>3. AcceptedReviewers(submissions[b]) \subseteq AssignedReviewers(marks[b])
          /\ AcceptedReviewers(submissions[b]) \cap WithdrawnReviewers(marks[b]) = {}
          /\ WithdrawnReviewers(marks[b]) \subseteq AssignedReviewers(marks[b])
      BY <2>2 DEF AcceptedReviewers, AssignedReviewers, WithdrawnReviewers
    <2>4. ValidCoverage(BuildCoverage(RequiredOf[b], marks[b], submissions[b]))
          /\ BuildCoverage(RequiredOf[b], marks[b], submissions[b]).complete
      BY <2>3 DEF BuildCoverage, ValidCoverage
    <2> QED
      BY <2>1, <2>2, <2>4 DEF CloseChecksPass, CloseAllowed
  <1> QED
    BY <1>1, SpecIInv, PTL

(* A frozen interpretable pool rests on the required number of reviewers,   *)
(* two or more, and each of them was qualified.                             *)
THEOREM IndependenceHolds == Spec => []InterpretablePoolIsIndependent
  <1>1. IInv => InterpretablePoolIsIndependent
    <2> SUFFICES ASSUME IInv, NEW b \in Batches, batchState[b] = "FROZEN"
                 PROVE  InterpretablePoolIsIndependent!(b)!2
      BY DEF InterpretablePoolIsIndependent
    <2>1. frozenPool[b].submissions = submissions[b]
      BY FrozenPoolIsLive, CloseRecordFields
    <2>2. PurposeOf[b] = "interpretable" =>
            Cardinality(AcceptedReviewers(submissions[b])) >= RequiredOf[b]
      BY DEF IInv, PoolIsSnapshot, CloseAllowed, BuildCoverage
    <2>3. \A r \in AcceptedReviewers(submissions[b]) : <<r, PoolOf[b]>> \in receipts
      BY DEF IInv, AcceptedHasReceipt, AcceptedReviewers
    <2>4. Cardinality(AcceptedReviewers(submissions[b])) \in Nat
      BY ReviewerAssumption, FS_Subset, FS_CardinalityType DEF AcceptedReviewers
    <2>5. PurposeOf[b] = "interpretable" =>
            Cardinality(AcceptedReviewers(submissions[b])) >= 2
      BY <2>2, <2>4, BatchAssumption
    <2> QED
      BY <2>1, <2>2, <2>3, <2>5
  <1> QED
    BY <1>1, SpecIInv, PTL

-----------------------------------------------------------------------------
(* Action properties.                                                       *)

(* What a reviewer's step may write, and on which authority.                *)
LEMMA ReviewerStepRows ==
  ASSUME ReviewerStep
  PROVE  /\ UNCHANGED <<batchState, createdAt, evidenceVars, authorityVars>>
         /\ \E r \in eligible, b \in Batches :
              /\ batchState[b] = "OPEN"
              /\ \/ /\ marks[b][r] = "none" /\ ReceiptMatchesBatch(r, b)
                    /\ marks' = [marks EXCEPT ![b][r] = "assigned"]
                    /\ UNCHANGED submissions
                 \/ /\ marks[b][r] = "assigned" /\ submissions[b][r] = NoSubmission
                    /\ marks' = [marks EXCEPT ![b][r] = "withdrawn"]
                    /\ UNCHANGED submissions
                 \/ /\ marks[b][r] = "assigned" /\ submissions[b][r] = NoSubmission
                    /\ \E answers \in Annotations :
                         submissions' = [submissions EXCEPT ![b][r] = answers]
                    /\ UNCHANGED marks
  BY DEF ReviewerStep, GetOrCreateOwnEligibleAssignment, ChosenBatch, EligibleBatches,
         WithdrawAssignment, SubmitReview

(* The same, seen from one row: what the step does to reviewer x in batch b. *)
LEMMA ReviewerRowChange ==
  ASSUME IInv, ReviewerStep, NEW b \in Batches, NEW x \in Reviewers
  PROVE  /\ submissions'[b][x] # submissions[b][x] =>
              /\ x \in eligible /\ batchState[b] = "OPEN"
              /\ marks[b][x] = "assigned" /\ submissions[b][x] = NoSubmission
         /\ marks'[b][x] # marks[b][x] =>
              /\ x \in eligible /\ batchState[b] = "OPEN"
              /\ marks[b][x] # "withdrawn"
              /\ marks'[b][x] = "assigned" => ReceiptMatchesBatch(x, b)
  <1>1. PICK r \in eligible, c \in Batches :
          /\ batchState[c] = "OPEN"
          /\ \/ /\ marks[c][r] = "none" /\ ReceiptMatchesBatch(r, c)
                /\ marks' = [marks EXCEPT ![c][r] = "assigned"]
                /\ UNCHANGED submissions
             \/ /\ marks[c][r] = "assigned" /\ submissions[c][r] = NoSubmission
                /\ marks' = [marks EXCEPT ![c][r] = "withdrawn"]
                /\ UNCHANGED submissions
             \/ /\ marks[c][r] = "assigned" /\ submissions[c][r] = NoSubmission
                /\ \E answers \in Annotations :
                     submissions' = [submissions EXCEPT ![c][r] = answers]
                /\ UNCHANGED marks
    BY ReviewerStepRows
  <1>2. CASE b = c /\ x = r
    <2>1. /\ marks[b] \in [Reviewers -> Marks] /\ marks \in [Batches -> [Reviewers -> Marks]]
      BY DEF IInv, TypeOK
    <2> HIDE DEF IInv
    <2>2. CASE UNCHANGED submissions
      BY <1>1, <1>2, <2>1, <2>2
    <2>3. CASE UNCHANGED marks
      BY <1>1, <1>2, <2>3
    <2> QED
      BY <1>1, <2>2, <2>3
  <1>3. CASE ~(b = c /\ x = r)
    <2>1. marks \in [Batches -> [Reviewers -> Marks]]
          /\ submissions \in [Batches -> SubmissionSets]
      BY DEF IInv, TypeOK
    <2>2. marks'[b][x] = marks[b][x]
      BY <1>1, <1>3, <2>1
    <2>3. submissions'[b][x] = submissions[b][x]
      BY <1>1, <1>3, <2>1 DEF SubmissionSets
    <2> QED
      BY <2>2, <2>3
  <1> QED
    BY <1>2, <1>3

LEMMA StepKeepsEvidence ==
  ASSUME IInv, [Next]_vars, NEW b \in Batches
  PROVE  EvidenceKept(b)
  <1>1. CASE ReviewerStep
    <2>1. UNCHANGED evidenceVars
      BY <1>1, ReviewerStepRows
    <2>2. ASSUME NEW x \in Reviewers
          PROVE  /\ submissions[b][x] # NoSubmission => submissions'[b][x] = submissions[b][x]
                 /\ marks[b][x] = "withdrawn" => marks'[b][x] = "withdrawn"
      BY <1>1, ReviewerRowChange
    <2> QED
      BY <2>1, <2>2 DEF evidenceVars, EvidenceKept
  <1>2. CASE AuthorityStep
    BY <1>2 DEF AuthorityStep, EligibilityStep, QualificationStep, rowVars, evidenceVars, EvidenceKept
  <1>3. CASE OperatorStep
    <2>1. PICK c \in Batches :
            \/ \E t \in Times : CreateBatch(c, t)
            \/ OpenBatch(c)
            \/ CloseBatch(c)
            \/ FreezeBatch(c)
            \/ BuildAgreementEvidence(c)
            \/ \E request \in DisclosureRequests : CreateDisclosure(c, request)
      BY <1>3 DEF OperatorStep
    <2>2. UNCHANGED <<marks, submissions>>
      BY <2>1 DEF CreateBatch, OpenBatch, CloseBatch, FreezeBatch,
                  BuildAgreementEvidence, CreateDisclosure, rowVars
    <2>3. \/ closeRecord' = closeRecord
          \/ closeRecord' = [closeRecord EXCEPT ![c] = closeRecord'[c]] /\ batchState[c] = "OPEN"
      BY <2>1 DEF CreateBatch, OpenBatch, CloseBatch, FreezeBatch, evidenceVars,
                  BuildAgreementEvidence, CreateDisclosure, IInv, TypeOK
    <2>4. closeRecord[b] # NoRow => closeRecord'[b] = closeRecord[b]
      BY <2>3 DEF IInv, NoEvidenceBeforeItsState, TypeOK
    <2>5. \/ frozenPool' = frozenPool
          \/ frozenPool' = [frozenPool EXCEPT ![c] = frozenPool'[c]] /\ batchState[c] = "CLOSED"
      BY <2>1 DEF CreateBatch, OpenBatch, CloseBatch, FreezeBatch, evidenceVars,
                  BuildAgreementEvidence, CreateDisclosure, IInv, TypeOK
    <2>6. frozenPool[b] # NoRow => frozenPool'[b] = frozenPool[b]
      BY <2>5 DEF IInv, NoEvidenceBeforeItsState, TypeOK
    <2>7. disclosures'[b] = disclosures[b]
          \/ \E row : disclosures'[b] = Append(disclosures[b], row)
      <3>1. disclosures' = disclosures
            \/ \E row : disclosures' = [disclosures EXCEPT ![c] = Append(@, row)]
        BY <2>1 DEF CreateBatch, OpenBatch, CloseBatch, FreezeBatch, evidenceVars,
                    BuildAgreementEvidence, CreateDisclosure, IInv, DisclosuresTyped
      <3> QED
        BY <3>1 DEF IInv, DisclosuresTyped
    <2>8. disclosures[b] \in Seq(DisclosureRows)
      BY DEF IInv, DisclosuresTyped
    <2>9. ASSUME NEW i \in DOMAIN disclosures[b]
          PROVE  i \in DOMAIN disclosures'[b] /\ disclosures'[b][i] = disclosures[b][i]
      <3>1. CASE disclosures'[b] = disclosures[b]
        BY <3>1
      <3>2. ASSUME NEW row, disclosures'[b] = Append(disclosures[b], row)
            PROVE  i \in DOMAIN disclosures'[b] /\ disclosures'[b][i] = disclosures[b][i]
        BY <2>8, <3>2
      <3> QED
        BY <2>7, <3>1, <3>2
    <2> QED
      BY <2>2, <2>4, <2>6, <2>9 DEF EvidenceKept
  <1>4. CASE UNCHANGED vars
    BY <1>4 DEF vars, rowVars, evidenceVars, EvidenceKept
  <1> QED
    BY <1>1, <1>2, <1>3, <1>4 DEF Next

(* No accepted submission, close record, frozen pool or disclosure version  *)
(* ever changes once stored, and no withdrawn assignment is revived.        *)
THEOREM EvidenceOnlyGrows == Spec => EvidenceIsAppendOnly
  <1>1. IInv /\ [Next]_vars => \A b \in Batches : EvidenceKept(b)
    BY StepKeepsEvidence
  <1> QED
    BY <1>1, SpecIInv, PTL DEF Spec, EvidenceIsAppendOnly

(* Assignments and submissions are only ever written for a reviewer who is  *)
(* eligible at that moment, in an OPEN batch; assignments only while the    *)
(* qualification pool is ACTIVE.                                            *)
THEOREM AuthorityIsCurrent == Spec => AuthorityGatesNewActions
  <1>1. ASSUME IInv, Next, NEW b \in Batches, NEW r \in Reviewers
        PROVE  AuthorityHeld(b, r)
    <2>1. CASE ReviewerStep
      BY <1>1, <2>1, ReviewerRowChange DEF AuthorityHeld
    <2>2. CASE AuthorityStep \/ OperatorStep
      <3>1. UNCHANGED <<marks, submissions>>
        BY <2>2 DEF AuthorityStep, EligibilityStep, QualificationStep, OperatorStep, CreateBatch, OpenBatch, CloseBatch, FreezeBatch,
           BuildAgreementEvidence, CreateDisclosure, rowVars
      <3> QED
        BY <3>1 DEF AuthorityHeld
    <2> QED
      BY <1>1, <2>1, <2>2 DEF Next
  <1>2. IInv /\ [Next]_vars =>
          [\A b \in Batches, r \in Reviewers : AuthorityHeld(b, r)]_vars
    BY <1>1
  <1> QED
    BY <1>2, SpecIInv, PTL DEF Spec, AuthorityGatesNewActions

-----------------------------------------------------------------------------
(* Disclosure versions.                                                     *)

(* A PUBLIC decision that was not on record is the one served from then on. *)
FreshDecisionIsServed(b, request) ==
  CreateDisclosure(b, request) /\ ~Recorded(b, request) /\ request.mode = "PUBLIC" =>
    disclosures'[b][ServedVersion(b)'].request = request

FreshDecisionsAreServed ==
  [][\A b \in Batches, request \in DisclosureRequests : FreshDecisionIsServed(b, request)]_vars

(* Only createDisclosure touches the versions.                              *)
LEMMA VersionsAreAppended ==
  ASSUME IInv, [Next]_vars
  PROVE  \/ UNCHANGED <<disclosures, requested>>
         \/ \E b \in Batches, request \in DisclosureRequests : CreateDisclosure(b, request)
  <1>1. CASE ReviewerStep
    BY <1>1, ReviewerStepRows DEF evidenceVars
  <1>2. CASE AuthorityStep \/ UNCHANGED vars
    BY <1>2 DEF AuthorityStep, EligibilityStep, QualificationStep, evidenceVars, vars
  <1>3. CASE OperatorStep
    BY <1>3 DEF OperatorStep, CreateBatch, OpenBatch, CloseBatch, FreezeBatch,
       BuildAgreementEvidence, evidenceVars
  <1> QED
    BY <1>1, <1>2, <1>3 DEF Next

(* What a new decision adds: one version, behind all others.                *)
LEMMA NewVersion ==
  ASSUME IInv, NEW b \in Batches, NEW request \in DisclosureRequests,
         CreateDisclosure(b, request), ~Recorded(b, request)
  PROVE  /\ DOMAIN disclosures[b] = 1..Len(disclosures[b])
         /\ Len(disclosures[b]) \in Nat
         /\ DOMAIN disclosures'[b] = 1..(Len(disclosures[b]) + 1)
         /\ disclosures'[b][Len(disclosures[b]) + 1].request = request
         /\ \A i \in DOMAIN disclosures[b] : disclosures'[b][i] = disclosures[b][i]
  <1> DEFINE history == disclosures[b]
             row == Disclosure(b, request)
  <1>1. disclosures \in [Batches -> Seq(DisclosureRows)] /\ history \in Seq(DisclosureRows)
    BY DEF IInv, DisclosuresTyped
  <1>2. row.request = request
    BY DEF Disclosure
  <1>3. disclosures'[b] = Append(history, row)
    BY <1>1 DEF CreateDisclosure
  <1> HIDE DEF row
  <1> QED
    BY <1>1, <1>2, <1>3

(* However often decisions are retried, repeated or alternated, each is one *)
(* version of its batch.                                                    *)
THEOREM DecisionsAreVersions == Spec => []DecisionsAreRecordedOnce
  <1>1. Init => DecisionsAreRecordedOnce
    BY DEF Init, DecisionsAreRecordedOnce
  <1>2. IInv /\ DecisionsAreRecordedOnce /\ [Next]_vars => DecisionsAreRecordedOnce'
    <2> SUFFICES ASSUME IInv, DecisionsAreRecordedOnce, [Next]_vars
                 PROVE  DecisionsAreRecordedOnce'
      OBVIOUS
    <2>1. CASE UNCHANGED <<disclosures, requested>>
      BY <2>1 DEF DecisionsAreRecordedOnce, Recorded
    <2>2. ASSUME NEW b \in Batches, NEW request \in DisclosureRequests, CreateDisclosure(b, request)
          PROVE  DecisionsAreRecordedOnce'
      <3>1. /\ requested'[b] = request
            /\ \A c \in Batches : c # b =>
                 requested'[c] = requested[c] /\ disclosures'[c] = disclosures[c]
        BY <2>2 DEF CreateDisclosure, IInv, TypeOK
      <3>2. /\ \A i, j \in DOMAIN disclosures'[b] :
                 disclosures'[b][i].request = disclosures'[b][j].request => i = j
            /\ Recorded(b, request)'
        <4>1. CASE Recorded(b, request)
          <5>1. disclosures' = disclosures
            BY <2>2, <4>1 DEF CreateDisclosure, IInv, DisclosuresTyped
          <5> QED
            BY <4>1, <5>1 DEF DecisionsAreRecordedOnce, Recorded
        <4>2. CASE ~Recorded(b, request)
          <5> DEFINE n == Len(disclosures[b]) + 1
          <5>1. /\ n \in Nat /\ n >= 1
                /\ DOMAIN disclosures[b] = 1..(n - 1)
                /\ DOMAIN disclosures'[b] = 1..n
                /\ disclosures'[b][n].request = request
                /\ \A i \in 1..(n - 1) : disclosures'[b][i] = disclosures[b][i]
            BY <2>2, <4>2, NewVersion
          <5> HIDE DEF n
          <5>2. \A i \in 1..(n - 1) : disclosures'[b][i].request # request
            BY <4>2, <5>1 DEF Recorded
          <5>3. n \in DOMAIN disclosures'[b]
            BY <5>1
          <5>4. Recorded(b, request)'
            BY <5>1, <5>3 DEF Recorded
          <5>5. ASSUME NEW i \in 1..n, NEW j \in 1..n,
                       disclosures'[b][i].request = disclosures'[b][j].request
                PROVE  i = j
            <6>1. CASE i \in 1..(n - 1) /\ j \in 1..(n - 1)
              BY <5>1, <5>5, <6>1 DEF DecisionsAreRecordedOnce
            <6>2. CASE i = n
              BY <5>1, <5>2, <5>5, <6>2
            <6>3. CASE j = n
              BY <5>1, <5>2, <5>5, <6>3
            <6> QED
              BY <5>1, <6>1, <6>2, <6>3
          <5> QED
            BY <5>1, <5>4, <5>5
        <4> QED
          BY <4>1, <4>2
      <3>3. \A c \in Batches : c # b => (Recorded(c, requested[c])' <=> Recorded(c, requested[c]))
        BY <3>1 DEF Recorded
      <3> QED
        BY <3>1, <3>2, <3>3 DEF DecisionsAreRecordedOnce
    <2> QED
      BY <2>1, <2>2, VersionsAreAppended
  <1> QED
    BY <1>1, <1>2, SpecIInv, PTL DEF Spec

(* What the operator last decided is served unless the decision was on      *)
(* record already; going back to an earlier decision is the only exception. *)
THEOREM FreshIsServed == Spec => FreshDecisionsAreServed
  <1>1. ASSUME IInv, NEW b \in Batches, NEW request \in DisclosureRequests,
               CreateDisclosure(b, request), ~Recorded(b, request), request.mode = "PUBLIC"
        PROVE  disclosures'[b][ServedVersion(b)'].request = request
    <2> DEFINE n == Len(disclosures[b]) + 1
    <2>1. /\ n \in Nat /\ n >= 1
          /\ DOMAIN disclosures'[b] = 1..n
          /\ disclosures'[b][n].request = request
      BY <1>1, NewVersion
    <2>2. ServedVersion(b)' \in PublicVersions(b)'
          /\ \A j \in PublicVersions(b)' : j <= ServedVersion(b)'
      <3>1. n \in PublicVersions(b)' /\ \A j \in PublicVersions(b)' : j <= n
        BY <1>1, <2>1 DEF PublicVersions
      <3>2. \E i \in PublicVersions(b)' : \A j \in PublicVersions(b)' : j <= i
        BY <3>1
      <3> QED
        BY <3>2 DEF ServedVersion
    <2> HIDE DEF n
    <2>3. n \in PublicVersions(b)' /\ PublicVersions(b)' \subseteq 1..n
      BY <1>1, <2>1 DEF PublicVersions
    <2>4. ServedVersion(b)' = n
      BY <2>1, <2>2, <2>3
    <2> QED
      BY <2>1, <2>4
  <1>2. IInv /\ [Next]_vars =>
          [\A b \in Batches, request \in DisclosureRequests : FreshDecisionIsServed(b, request)]_vars
    BY <1>1 DEF FreshDecisionIsServed
  <1> QED
    BY <1>2, SpecIInv, PTL DEF Spec, FreshDecisionsAreServed

(* No annotation gets out against its policy where no policy publishes the  *)
(* reviewers and omits the annotations.                                     *)
THEOREM AnnotationsStayPrivate ==
  ASSUME \A p \in Policies : p.ids => p.annotations
  PROVE  Spec => []AnnotationsOmittedWhenNotPublished
  <1>1. IInv => AnnotationsOmittedWhenNotPublished
    <2> SUFFICES ASSUME IInv, NEW b \in Batches, NEW i \in DOMAIN disclosures[b],
                        disclosures[b][i].request.mode = "PUBLIC",
                        ~disclosures[b][i].request.policy.annotations
                 PROVE  /\ disclosures[b][i].artifact.submissions = {}
                        /\ disclosures[b][i].artifact.disagreements = {}
      BY DEF AnnotationsOmittedWhenNotPublished
    <2> DEFINE policy == disclosures[b][i].request.policy
               live == FreezePool(CloseRecord(RequiredOf[b], marks[b], submissions[b]))
    <2>1. policy \in Policies
      BY DEF IInv, TypeOK, Disclosed, DisclosureRequests
    <2>2. ~policy.annotations /\ ~policy.ids
      BY <2>1
    <2>3. disclosures[b][i].artifact = PublicArtifact(live, policy)
      BY DEF IInv, PublishedEvidenceIsLiveEvidence
    <2> HIDE DEF policy, live
    <2> QED
      BY <2>2, <2>3 DEF PublicArtifact
  <1> QED
    BY <1>1, SpecIInv, PTL

-----------------------------------------------------------------------------
(* What the published figures count.                                        *)

LEMMA OneToOne ==
  ASSUME NEW S, IsFiniteSet(S), NEW T, NEW F \in [S -> T],
         \A a, b \in S : F[a] = F[b] => a = b,
         \A t \in T : \E s \in S : F[s] = t
  PROVE  IsFiniteSet(T) /\ Cardinality(T) = Cardinality(S)
  <1>1. F \in Bijection(S, T)
    BY Fun_IsBij
  <1> QED
    BY <1>1, FS_Bijection, Fun_ExistsBij

(* Two of a pair answer alike or give two answers.                          *)
LEMMA PairAnswers ==
  ASSUME NEW pool, NEW pair \in ReviewerPairs(pool), NEW atom \in Atoms
  PROVE  \/ Cardinality({pool.submissions[r][atom] : r \in pair}) = 1
         \/ Cardinality({pool.submissions[r][atom] : r \in pair}) = 2
  <1> DEFINE answers == {pool.submissions[r][atom] : r \in pair}
  <1>1. IsFiniteSet(pair) /\ Cardinality(pair) = 2
    BY ReviewerAssumption, FS_Subset DEF ReviewerPairs, AcceptedReviewers
  <1>2. PICK q \in pair : TRUE
    BY <1>1, FS_EmptySet
  <1>3. PICK r : pair \ {q} = {r}
    <2>1. IsFiniteSet(pair \ {q}) /\ Cardinality(pair \ {q}) = 1
      BY <1>1, <1>2, FS_RemoveElement
    <2> QED
      BY <2>1, FS_Singleton
  <1>4. answers = {pool.submissions[q][atom]} \cup {pool.submissions[r][atom]}
    BY <1>2, <1>3
  <1>5. /\ IsFiniteSet({pool.submissions[q][atom]})
        /\ Cardinality({pool.submissions[q][atom]}) = 1
    BY FS_Singleton
  <1>6. Cardinality({pool.submissions[q][atom]} \cup {pool.submissions[r][atom]}) \in {1, 2}
    <2> DEFINE one == {pool.submissions[q][atom]}
               other == pool.submissions[r][atom]
    <2>1. Cardinality(one \cup {other}) = IF other \in one THEN Cardinality(one) ELSE Cardinality(one) + 1
      BY <1>5, FS_AddElement
    <2>2. Cardinality(one) = 1
      BY <1>5
    <2> HIDE DEF one, other
    <2>3. Cardinality(one \cup {other}) \in {1, 2}
      BY <2>1, <2>2
    <2> QED
      BY <2>3 DEF one, other
  <1> QED
    BY <1>4, <1>6

(* Every comparison of two reviewers on an atom is counted once, as an       *)
(* agreement or as a disagreement: what parsePublicAgreement adds up.       *)
LEMMA ComparisonsAddUp ==
  ASSUME NEW pool
  PROVE  AgreementEvidence(pool).agreementCount
           + Cardinality(AgreementEvidence(pool).disagreements)
         = AgreementEvidence(pool).comparable
  <1> DEFINE pairs == ReviewerPairs(pool)
             Cells == [reviewers : pairs, atom : Atoms]
             Answers(x) == Cardinality({pool.submissions[r][x.atom] : r \in x.reviewers})
             Agreed == {x \in Cells : Answers(x) = 1}
             Differ == {x \in Cells : Answers(x) = 2}
  <1>1. IsFiniteSet(pairs)
    <2>1. IsFiniteSet(AcceptedReviewers(pool.submissions))
      BY ReviewerAssumption, FS_Subset DEF AcceptedReviewers
    <2>2. IsFiniteSet(SUBSET AcceptedReviewers(pool.submissions))
      BY <2>1, FS_SUBSET
    <2> QED
      BY <2>2, FS_Subset DEF ReviewerPairs
  <1>2. IsFiniteSet(Cells) /\ Cardinality(Cells) = Cardinality(pairs) * Cardinality(Atoms)
    <2> HIDE DEF pairs
    <2> DEFINE F == [c \in pairs \X Atoms |-> [reviewers |-> c[1], atom |-> c[2]]]
    <2>1. /\ IsFiniteSet(pairs \X Atoms)
          /\ Cardinality(pairs \X Atoms) = Cardinality(pairs) * Cardinality(Atoms)
      BY <1>1, AtomAssumption, FS_Product
    <2>2. F \in [pairs \X Atoms -> Cells]
      OBVIOUS
    <2>3. \A a, b \in pairs \X Atoms : F[a] = F[b] => a = b
      OBVIOUS
    <2>4. \A x \in Cells : \E c \in pairs \X Atoms : F[c] = x
      <3> TAKE x \in Cells
      <3>1. <<x.reviewers, x.atom>> \in pairs \X Atoms
        OBVIOUS
      <3>2. F[<<x.reviewers, x.atom>>] = x
        BY <3>1
      <3> QED
        BY <3>1, <3>2
    <2> HIDE DEF F, Cells
    <2> QED
      BY <2>1, <2>2, <2>3, <2>4, OneToOne
  <1>3. Agreed \cup Differ = Cells /\ Agreed \cap Differ = {}
    <2>1. \A x \in Cells : Answers(x) = 1 \/ Answers(x) = 2
      <3> TAKE x \in Cells
      <3>1. x.reviewers \in pairs /\ x.atom \in Atoms
        OBVIOUS
      <3> QED
        BY <3>1, PairAnswers
    <2> HIDE DEF Answers, Cells
    <2> QED
      BY <2>1
  <1>4. /\ AgreementEvidence(pool).agreementCount = Cardinality(Agreed)
        /\ AgreementEvidence(pool).disagreements = Differ
        /\ AgreementEvidence(pool).comparable = Cardinality(pairs) * Cardinality(Atoms)
    BY DEF AgreementEvidence, Disagreements
  <1> HIDE DEF pairs, Cells, Agreed, Differ
  <1>5. Agreed \in SUBSET Cells /\ Differ \in SUBSET Cells
    BY <1>3
  <1>6. /\ IsFiniteSet(Agreed) /\ IsFiniteSet(Differ)
        /\ Cardinality(Agreed) \in Nat /\ Cardinality(Differ) \in Nat
    BY <1>2, <1>5, FS_Subset, FS_CardinalityType
  <1>7. Cardinality(Cells) = Cardinality(Agreed) + Cardinality(Differ)
    <2>1. Cardinality(Agreed \cup Differ) =
            Cardinality(Agreed) + Cardinality(Differ) - Cardinality(Agreed \cap Differ)
      BY <1>6, FS_Union
    <2>2. Cardinality(Agreed \cap Differ) = 0
      BY <1>3, FS_EmptySet
    <2>3. Cardinality(Cells) = Cardinality(Agreed) + Cardinality(Differ) - 0
      BY <1>3, <2>1, <2>2
    <2> QED
      BY <1>6, <2>3
  <1> QED
    BY <1>2, <1>4, <1>7

(* Publishing without names merges no two submissions.                      *)
LEMMA SubmissionsStayApart ==
  ASSUME NEW pool, NEW policy, policy.annotations
  PROVE  Cardinality(PublicArtifact(pool, policy).submissions)
         = Cardinality(AcceptedReviewers(pool.submissions))
  <1> DEFINE accepted == AcceptedReviewers(pool.submissions)
             published == {PublicSubmission(pool, policy, r) : r \in accepted}
             F == [r \in accepted |-> PublicSubmission(pool, policy, r)]
  <1>1. IsFiniteSet(accepted)
    BY ReviewerAssumption, FS_Subset DEF AcceptedReviewers
  <1>2. F \in [accepted -> published] /\ \A t \in published : \E r \in accepted : F[r] = t
    OBVIOUS
  <1>3. \A q, r \in accepted : F[q] = F[r] => q = r
    <2> SUFFICES ASSUME NEW q \in accepted, NEW r \in accepted,
                        PublicSubmission(pool, policy, q) = PublicSubmission(pool, policy, r)
                 PROVE  q = r
      OBVIOUS
    <2>1. /\ PublicSubmission(pool, policy, q).fingerprint = <<q, pool.submissions[q]>>
          /\ PublicSubmission(pool, policy, r).fingerprint = <<r, pool.submissions[r]>>
      BY DEF PublicSubmission
    <2> QED
      BY <2>1
  <1>4. PublicArtifact(pool, policy).submissions = published
    BY DEF PublicArtifact
  <1> HIDE DEF accepted, published, F
  <1>5. Cardinality(published) = Cardinality(accepted)
    BY <1>1, <1>2, <1>3, OneToOne
  <1> QED
    BY <1>4, <1>5 DEF accepted

(* What the parser of a public artifact insists on, of every version that   *)
(* was ever made: its counts add up and it has one submission for every     *)
(* accepted one, named or not.                                              *)
FiguresAddUp ==
  \A b \in Batches :
    /\ agreement[b] # NoRow =>
         agreement[b].agreementCount + Cardinality(agreement[b].disagreements)
           = agreement[b].comparable
    /\ \A i \in DOMAIN disclosures[b] :
         disclosures[b][i].request.mode = "PUBLIC"
           /\ disclosures[b][i].request.policy.annotations =>
             Cardinality(disclosures[b][i].artifact.submissions)
               = Cardinality(AcceptedReviewers(submissions[b]))

(* Agreement evidence and artifacts pass the counts of their own parsers.   *)
THEOREM EvidenceAddsUp == Spec => []FiguresAddUp
  <1>1. IInv => FiguresAddUp
    <2> SUFFICES ASSUME IInv, NEW b \in Batches PROVE FiguresAddUp!(b)
      BY DEF FiguresAddUp
    <2> DEFINE live == FreezePool(CloseRecord(RequiredOf[b], marks[b], submissions[b]))
    <2>1. live.submissions = submissions[b]
      BY CloseRecordFields
    <2>2. /\ agreement[b] # NoRow => agreement[b] = AgreementEvidence(live)
          /\ \A i \in DOMAIN disclosures[b] : disclosures[b][i].request.mode = "PUBLIC" =>
               disclosures[b][i].artifact = PublicArtifact(live, disclosures[b][i].request.policy)
      BY DEF IInv, PublishedEvidenceIsLiveEvidence
    <2> HIDE DEF live
    <2>3. agreement[b] # NoRow =>
            agreement[b].agreementCount + Cardinality(agreement[b].disagreements)
              = agreement[b].comparable
      BY <2>2, ComparisonsAddUp
    <2>4. \A i \in DOMAIN disclosures[b] :
            disclosures[b][i].request.mode = "PUBLIC"
              /\ disclosures[b][i].request.policy.annotations =>
                Cardinality(disclosures[b][i].artifact.submissions)
                  = Cardinality(AcceptedReviewers(submissions[b]))
      BY <2>1, <2>2, SubmissionsStayApart
    <2> QED
      BY <2>3, <2>4
  <1> QED
    BY <1>1, SpecIInv, PTL

-----------------------------------------------------------------------------
(* ReviewBatch implements EvidencePool: the four stored copies of the        *)
(* evidence behave as one.  The refinement mapping reads roster and evidence *)
(* from the live rows until the close, from the close record until the       *)
(* freeze and from the frozen pool afterwards; IInv makes the three readings *)
(* equal to the live rows.                                                   *)


(* The roster read from a coverage is the roster the coverage was built of. *)
LEMMA RosterOfCoverage ==
  ASSUME NEW m \in [Reviewers -> Marks], NEW s, NEW n
  PROVE  RosterOf(BuildCoverage(n, m, s)) = m
  BY DEF RosterOf, BuildCoverage, WithdrawnReviewers, AssignedReviewers, Marks

(* Wherever the mapping reads them, roster and evidence are the live rows.  *)
LEMMA MappedRows == IInv => EvidenceRoster = marks /\ EvidenceSubmissions = submissions
  <1> SUFFICES ASSUME IInv
               PROVE  EvidenceRoster = marks /\ EvidenceSubmissions = submissions
    OBVIOUS
  <1>1. ASSUME NEW b \in Batches, batchState[b] = "CLOSED"
        PROVE  RosterOf(closeRecord[b].coverage) = marks[b]
               /\ closeRecord[b].submissions = submissions[b]
    <2>1. closeRecord[b] = CloseRecord(RequiredOf[b], marks[b], submissions[b])
      BY <1>1 DEF IInv, CloseSnapshotIsExact, SnapshotMatchesLiveRows
    <2>2. marks[b] \in [Reviewers -> Marks]
      BY DEF IInv, TypeOK
    <2> QED
      BY <2>1, <2>2, CloseRecordFields, RosterOfCoverage
  <1>2. ASSUME NEW b \in Batches, batchState[b] = "FROZEN"
        PROVE  RosterOf(frozenPool[b].coverage) = marks[b]
               /\ frozenPool[b].submissions = submissions[b]
    <2>1. frozenPool[b] = FreezePool(CloseRecord(RequiredOf[b], marks[b], submissions[b]))
      BY <1>2, FrozenPoolIsLive
    <2>2. marks[b] \in [Reviewers -> Marks]
      BY DEF IInv, TypeOK
    <2>3. frozenPool[b].coverage = BuildCoverage(RequiredOf[b], marks[b], submissions[b])
      BY <2>1, CloseRecordFields DEF FreezePool
    <2> QED
      BY <2>1, <2>2, <2>3, CloseRecordFields, RosterOfCoverage
  <1>3. DOMAIN marks = Batches /\ DOMAIN submissions = Batches
        /\ marks = [b \in Batches |-> marks[b]] /\ submissions = [b \in Batches |-> submissions[b]]
    BY DEF IInv, TypeOK
  <1>4. \A b \in Batches : EvidenceRoster[b] = marks[b]
    BY <1>1, <1>2 DEF EvidenceRoster
  <1>5. \A b \in Batches : EvidenceSubmissions[b] = submissions[b]
    BY <1>1, <1>2 DEF EvidenceSubmissions
  <1>6. EvidenceRoster = [b \in Batches |-> EvidenceRoster[b]]
        /\ EvidenceSubmissions = [b \in Batches |-> EvidenceSubmissions[b]]
    BY DEF EvidenceRoster, EvidenceSubmissions
  <1> QED
    BY <1>3, <1>4, <1>5, <1>6

-----------------------------------------------------------------------------
(* The protocol operators of the instance are the ones of this module.      *)
LEMMA SameCardinality == \A S : Evidence!Cardinality(S) = Cardinality(S)
  BY DEF Cardinality, Evidence!Cardinality

LEMMA SameCoverage ==
  \A n, m, s : Evidence!BuildCoverage(n, m, s) = BuildCoverage(n, m, s)
  BY SameCardinality DEF BuildCoverage, Evidence!BuildCoverage, AssignedReviewers,
     Evidence!AssignedReviewers, AcceptedReviewers, Evidence!AcceptedReviewers,
     WithdrawnReviewers, Evidence!WithdrawnReviewers

LEMMA SameCloseAllowed ==
  \A p, n, m, s : Evidence!CloseAllowed(p, n, m, s) <=> CloseAllowed(p, n, m, s)
  BY SameCoverage DEF CloseAllowed, Evidence!CloseAllowed, ValidCoverage,
     Evidence!ValidCoverage, AcceptedReviewers, Evidence!AcceptedReviewers

LEMMA SameArtifact ==
  \A pool, policy : Evidence!PublicArtifact(pool, policy) = PublicArtifact(pool, policy)
  <1> SUFFICES ASSUME NEW pool, NEW policy
               PROVE  Evidence!PublicArtifact(pool, policy) = PublicArtifact(pool, policy)
    OBVIOUS
  <1>1. Evidence!AcceptedReviewers(pool.submissions) = AcceptedReviewers(pool.submissions)
    BY DEF AcceptedReviewers, Evidence!AcceptedReviewers
  <1>2. Evidence!ReviewerPairs(pool) = ReviewerPairs(pool)
    BY <1>1, SameCardinality DEF ReviewerPairs, Evidence!ReviewerPairs
  <1>3. Evidence!Disagreements(pool) = Disagreements(pool)
    BY <1>2, SameCardinality DEF Disagreements, Evidence!Disagreements
  <1>4. \A a : Evidence!Distribution(pool, a) = Distribution(pool, a)
    BY <1>1, SameCardinality DEF Distribution, Evidence!Distribution
  <1>5. Evidence!AgreementEvidence(pool) = AgreementEvidence(pool)
    BY <1>2, <1>3, <1>4, SameCardinality DEF AgreementEvidence, Evidence!AgreementEvidence
  <1>6. \A r : Evidence!PublicSubmission(pool, policy, r) = PublicSubmission(pool, policy, r)
    BY DEF PublicSubmission, Evidence!PublicSubmission, Anonymous, Evidence!Anonymous
  <1>7. \A d : Evidence!PublicDisagreement(pool, policy, d) = PublicDisagreement(pool, policy, d)
    BY DEF PublicDisagreement, Evidence!PublicDisagreement
  <1> QED
    BY <1>1, <1>3, <1>5, <1>6, <1>7 DEF PublicArtifact, Evidence!PublicArtifact

(* Initial states map to initial states.                                    *)
LEMMA InitMaps == Init => Evidence!Init
  <1> SUFFICES ASSUME Init PROVE Evidence!Init
    OBVIOUS
  <1>1. EvidenceRoster = marks /\ EvidenceSubmissions = submissions
    BY InitIInv, MappedRows
  <1>2. EvidencePhase = [b \in Batches |-> "sealed"]
    BY DEF Init, EvidencePhase, Phases
  <1>3. EvidencePublished = [b \in Batches |-> {}]
    BY DEF Init, EvidencePublished, PublicVersions
  <1> QED
    BY <1>1, <1>2, <1>3 DEF Init, Evidence!Init

(* Nothing is published by a step that leaves the disclosures alone, and no *)
(* phase changes unless a batch state does.                                 *)
LEMMA UnchangedPublished == UNCHANGED disclosures => UNCHANGED EvidencePublished
  BY DEF EvidencePublished, PublicVersions

LEMMA UnchangedPhase == UNCHANGED batchState => UNCHANGED EvidencePhase
  BY DEF EvidencePhase

(* A transition of one batch is a transition of its phase.                  *)
LEMMA PhaseTransition ==
  ASSUME IInv, NEW b \in Batches, NEW new \in BatchStates,
         batchState' = [batchState EXCEPT ![b] = new]
  PROVE  EvidencePhase' = [EvidencePhase EXCEPT ![b] = Phases[new]]
  BY DEF EvidencePhase, IInv, TypeOK

(* Reviewers' steps join, withdraw and collect.                             *)
LEMMA ReviewerStepMaps ==
  ASSUME IInv, IInv', EvidenceRoster = marks, EvidenceSubmissions = submissions,
         EvidenceRoster' = marks', EvidenceSubmissions' = submissions', ReviewerStep
  PROVE  Evidence!Next
  <1>1. PICK r \in eligible, b \in Batches :
          /\ batchState[b] = "OPEN"
          /\ \/ /\ marks[b][r] = "none" /\ ReceiptMatchesBatch(r, b)
                /\ marks' = [marks EXCEPT ![b][r] = "assigned"]
                /\ UNCHANGED submissions
             \/ /\ marks[b][r] = "assigned" /\ submissions[b][r] = NoSubmission
                /\ marks' = [marks EXCEPT ![b][r] = "withdrawn"]
                /\ UNCHANGED submissions
             \/ /\ marks[b][r] = "assigned" /\ submissions[b][r] = NoSubmission
                /\ \E answers \in Annotations :
                     submissions' = [submissions EXCEPT ![b][r] = answers]
                /\ UNCHANGED marks
    BY ReviewerStepRows
  <1>2. UNCHANGED <<EvidencePhase, EvidencePublished>>
    BY ReviewerStepRows, UnchangedPhase, UnchangedPublished DEF evidenceVars
  <1>3. EvidencePhase[b] = "open"
    BY <1>1 DEF EvidencePhase, Phases
  <1>4. r \in Reviewers
    BY DEF IInv, TypeOK
  <1>5. CASE marks' = [marks EXCEPT ![b][r] = "assigned"] /\ UNCHANGED submissions /\ marks[b][r] = "none"
    <2>1. Evidence!Join(b, r)
      BY <1>2, <1>3, <1>5 DEF Evidence!Join
    <2> QED
      BY <1>4, <2>1 DEF Evidence!Next
  <1>6. CASE /\ marks' = [marks EXCEPT ![b][r] = "withdrawn"] /\ UNCHANGED submissions
             /\ marks[b][r] = "assigned" /\ submissions[b][r] = NoSubmission
    <2>1. Evidence!Withdraw(b, r)
      BY <1>2, <1>3, <1>6 DEF Evidence!Withdraw
    <2> QED
      BY <1>4, <2>1 DEF Evidence!Next
  <1>7. ASSUME NEW answers \in Annotations,
               submissions' = [submissions EXCEPT ![b][r] = answers], UNCHANGED marks,
               marks[b][r] = "assigned" /\ submissions[b][r] = NoSubmission
        PROVE  Evidence!Next
    <2>1. Evidence!Collect(b, r, answers)
      BY <1>2, <1>3, <1>7 DEF Evidence!Collect
    <2>2. answers \in Evidence!Annotations
      BY DEF Annotations, Evidence!Annotations
    <2> QED
      BY <1>4, <2>1, <2>2 DEF Evidence!Next
  <1> QED
    BY <1>1, <1>5, <1>6, <1>7

(* The transitions of a batch: creating one is invisible.                   *)
LEMMA TransitionMaps ==
  ASSUME IInv, IInv', EvidenceRoster = marks, EvidenceSubmissions = submissions,
         EvidenceRoster' = marks', EvidenceSubmissions' = submissions', NEW b \in Batches,
         \/ \E t \in Times : CreateBatch(b, t)
         \/ OpenBatch(b)
         \/ CloseBatch(b)
         \/ FreezeBatch(b)
  PROVE  Evidence!Next \/ UNCHANGED Evidence!vars
  <1>1. /\ UNCHANGED EvidencePublished
        /\ UNCHANGED <<EvidenceRoster, EvidenceSubmissions>>
    BY UnchangedPublished DEF CreateBatch, OpenBatch, CloseBatch, FreezeBatch, evidenceVars
  <1>2. ASSUME NEW t \in Times, CreateBatch(b, t) PROVE UNCHANGED Evidence!vars
    <2>1. EvidencePhase' = [EvidencePhase EXCEPT ![b] = "sealed"]
      BY <1>2, PhaseTransition DEF CreateBatch, BatchStates, Phases
    <2>2. EvidencePhase = [c \in Batches |-> EvidencePhase[c]] /\ EvidencePhase[b] = "sealed"
      BY <1>2 DEF CreateBatch, EvidencePhase, Phases
    <2> QED
      BY <1>1, <2>1, <2>2 DEF Evidence!vars
  <1>3. CASE OpenBatch(b)
    <2>1. EvidencePhase' = [EvidencePhase EXCEPT ![b] = "open"]
      BY <1>3, PhaseTransition DEF OpenBatch, BatchStates, Phases
    <2>2. EvidencePhase[b] = "sealed"
      BY <1>3 DEF OpenBatch, EvidencePhase, Phases
    <2>3. Evidence!Open(b)
      BY <1>1, <2>1, <2>2 DEF Evidence!Open
    <2> QED
      BY <2>3 DEF Evidence!Next
  <1>4. CASE CloseBatch(b)
    <2>1. EvidencePhase' = [EvidencePhase EXCEPT ![b] = "closed"]
      BY <1>4, PhaseTransition DEF CloseBatch, BatchStates, Phases
    <2>2. EvidencePhase[b] = "open"
      BY <1>4 DEF CloseBatch, EvidencePhase, Phases
    <2>3. CloseAllowed(PurposeOf[b], RequiredOf[b], EvidenceRoster[b], EvidenceSubmissions[b])
      BY <1>4 DEF CloseBatch, CloseChecksPass
    <2>4. Evidence!Close(b)
      BY <1>1, <2>1, <2>2, <2>3, SameCloseAllowed DEF Evidence!Close
    <2> QED
      BY <2>4 DEF Evidence!Next
  <1>5. CASE FreezeBatch(b)
    <2>1. EvidencePhase' = [EvidencePhase EXCEPT ![b] = "frozen"]
      BY <1>5, PhaseTransition DEF FreezeBatch, BatchStates, Phases
    <2>2. EvidencePhase[b] = "closed"
      BY <1>5 DEF FreezeBatch, EvidencePhase, Phases
    <2>3. AcceptedReviewers(EvidenceSubmissions[b]) # {}
      <3>1. closeRecord[b].submissions = submissions[b]
        BY <1>5, CloseRecordFields DEF FreezeBatch, SnapshotMatchesLiveRows
      <3> QED
        BY <1>5, <3>1 DEF FreezeBatch, FreezeAllowed
    <2>4. Evidence!Freeze(b)
      BY <1>1, <2>1, <2>2, <2>3 DEF Evidence!Freeze, AcceptedReviewers,
         Evidence!AcceptedReviewers
    <2> QED
      BY <2>4 DEF Evidence!Next
  <1> QED
    BY <1>2, <1>3, <1>4, <1>5

(* A new PUBLIC decision publishes the artifact of the evidence; a repeated *)
(* or a PRIVATE one publishes nothing.                                      *)
LEMMA DisclosureStepMaps ==
  ASSUME IInv, IInv', EvidenceRoster = marks, EvidenceSubmissions = submissions,
         EvidenceRoster' = marks', EvidenceSubmissions' = submissions', NEW b \in Batches,
         \/ BuildAgreementEvidence(b)
         \/ \E request \in DisclosureRequests : CreateDisclosure(b, request)
  PROVE  Evidence!Next \/ UNCHANGED Evidence!vars
  <1>1. UNCHANGED <<EvidencePhase, EvidenceRoster, EvidenceSubmissions>>
    BY UnchangedPhase DEF BuildAgreementEvidence, CreateDisclosure, rowVars
  <1>2. CASE UNCHANGED disclosures
    BY <1>1, <1>2, UnchangedPublished DEF Evidence!vars
  <1>3. ASSUME NEW request \in DisclosureRequests, CreateDisclosure(b, request),
               ~Recorded(b, request)
        PROVE  Evidence!Next \/ UNCHANGED Evidence!vars
    <2> DEFINE row == Disclosure(b, request)
               history == disclosures[b]
    <2>1. disclosures \in [Batches -> Seq(DisclosureRows)] /\ history \in Seq(DisclosureRows)
      BY DEF IInv, DisclosuresTyped
    <2>2. row.request = request
          /\ (request.mode = "PUBLIC" => row.artifact = PublicArtifact(frozenPool[b], request.policy))
      BY DEF Disclosure
    <2> HIDE DEF row
    <2>3. disclosures' = [disclosures EXCEPT ![b] = Append(history, row)]
      BY <1>3 DEF CreateDisclosure, row
    <2>4. \A c \in Batches : c # b => EvidencePublished'[c] = EvidencePublished[c]
      BY <2>1, <2>3 DEF EvidencePublished, PublicVersions
    <2>5. EvidencePublished'[b] =
            {Append(history, row)[i].artifact :
               i \in {j \in DOMAIN Append(history, row) :
                        Append(history, row)[j].request.mode = "PUBLIC"}}
      BY <2>1, <2>3 DEF EvidencePublished, PublicVersions
    <2>6. EvidencePublished[b] =
            {history[i].artifact : i \in {j \in DOMAIN history : history[j].request.mode = "PUBLIC"}}
      BY DEF EvidencePublished, PublicVersions
    <2>7. /\ DOMAIN Append(history, row) = DOMAIN history \cup {Len(history) + 1}
          /\ Append(history, row)[Len(history) + 1] = row
          /\ \A i \in DOMAIN history : Append(history, row)[i] = history[i]
          /\ Len(history) + 1 \notin DOMAIN history
      BY <2>1
    <2>8. EvidencePublished = [c \in Batches |-> EvidencePublished[c]]
          /\ EvidencePublished' = [c \in Batches |-> EvidencePublished'[c]]
      BY DEF EvidencePublished
    <2>9. CASE request.mode = "PRIVATE"
      <3>1. EvidencePublished'[b] = EvidencePublished[b]
        <4> HIDE DEF history
        <4> QED
          BY <2>2, <2>5, <2>6, <2>7, <2>9
      <3>2. UNCHANGED EvidencePublished
        BY <2>4, <2>8, <3>1
      <3> QED
        BY <1>1, <3>2 DEF Evidence!vars
    <2>10. CASE request.mode = "PUBLIC"
      <3>1. EvidencePublished'[b] = EvidencePublished[b] \cup {row.artifact}
        <4> HIDE DEF history
        <4> QED
          BY <2>2, <2>5, <2>6, <2>7, <2>10
      <3>2. EvidencePublished' = [EvidencePublished EXCEPT ![b] = @ \cup {row.artifact}]
        BY <2>4, <2>8, <3>1
      <3>3. batchState[b] = "FROZEN"
        BY <1>3 DEF CreateDisclosure
      <3>4. row.artifact = Evidence!PublicArtifact(Evidence!Pool(b), request.policy)
        <4>1. frozenPool[b] = FreezePool(CloseRecord(RequiredOf[b], marks[b], submissions[b]))
          BY <3>3, FrozenPoolIsLive
        <4>2. frozenPool[b] = [coverage |-> BuildCoverage(RequiredOf[b], marks[b], submissions[b]),
                               submissions |-> submissions[b]]
          BY <4>1 DEF FreezePool, CloseRecord
        <4>3. Evidence!Pool(b) = frozenPool[b]
          BY <4>2, SameCoverage DEF Evidence!Pool
        <4> QED
          BY <2>2, <2>10, <4>3, SameArtifact
      <3>5. EvidencePhase[b] = "frozen"
        BY <3>3 DEF EvidencePhase, Phases
      <3>6. request.policy \in Policies
        BY <2>10 DEF DisclosureRequests
      <3>7. Evidence!Publish(b, request.policy)
        BY <1>1, <3>2, <3>4, <3>5 DEF Evidence!Publish
      <3> QED
        BY <3>6, <3>7 DEF Evidence!Next
    <2>11. request.mode \in Modes
      BY DEF DisclosureRequests
    <2> QED
      BY <2>9, <2>10, <2>11 DEF Modes
  <1>4. ASSUME NEW request \in DisclosureRequests, CreateDisclosure(b, request),
               Recorded(b, request)
        PROVE  UNCHANGED disclosures
    BY <1>4 DEF CreateDisclosure, IInv, DisclosuresTyped
  <1>5. BuildAgreementEvidence(b) => UNCHANGED disclosures
    BY DEF BuildAgreementEvidence
  <1> QED
    BY <1>2, <1>3, <1>4, <1>5

(* Every step of the batches maps to a step of the evidence or a stutter.   *)
LEMMA StepMaps ==
  ASSUME IInv, IInv', [Next]_vars,
         EvidenceRoster = marks, EvidenceSubmissions = submissions,
         EvidenceRoster' = marks', EvidenceSubmissions' = submissions'
  PROVE  [Evidence!Next]_(Evidence!vars)
  <1>1. CASE ReviewerStep
    BY <1>1, ReviewerStepMaps
  <1>2. CASE OperatorStep
    BY <1>2, TransitionMaps, DisclosureStepMaps DEF OperatorStep
  <1>3. CASE AuthorityStep
    <2>1. UNCHANGED <<rowVars, evidenceVars>>
      BY <1>3 DEF AuthorityStep, EligibilityStep, QualificationStep
    <2> QED
      BY <2>1, UnchangedPhase, UnchangedPublished DEF rowVars, evidenceVars, Evidence!vars
  <1>4. CASE UNCHANGED vars
    BY <1>4, UnchangedPhase, UnchangedPublished DEF vars, rowVars, evidenceVars, Evidence!vars
  <1> QED
    BY <1>1, <1>2, <1>3, <1>4 DEF Next

(* The batches implement the single copy: closing, freezing and disclosing  *)
(* (closeBatch, freezeBatch, createDisclosure) never lose, add or alter     *)
(* evidence, for any number of reviewers, batches, statuses and policies.   *)
THEOREM ImplementsEvidencePool == Spec => EvidencePoolSpec
  <1>1. IInv => EvidenceRoster = marks /\ EvidenceSubmissions = submissions
    BY MappedRows
  <1>2. IInv' => (EvidenceRoster = marks /\ EvidenceSubmissions = submissions)'
    BY <1>1, PTL
  <1>3. IInv /\ IInv' /\ [Next]_vars => [Evidence!Next]_(Evidence!vars)
    BY <1>1, <1>2, StepMaps
  <1> QED
    BY <1>3, SpecIInv, InitMaps, PTL DEF Spec, EvidencePoolSpec, Evidence!Spec
=============================================================================
