------------------------ MODULE QualificationProofs ------------------------
(***************************************************************************)
(* Theorems about Qualification for every set of reviewers, pools, attempts *)
(* and keys, every limit, and whatever happens to the material.            *)
(***************************************************************************)
EXTENDS Qualification, SequenceTheorems, FiniteSetTheorems, TLAPS

(* An attempt belongs to a pool that has been active, or was migrated into  *)
(* a legacy one with its result; a receipt belongs to an attempt.          *)
AttemptsBelongToPools ==
  \A a \in Attempts :
    /\ receipts[a] # NoRow => Exists(a)
    /\ Exists(a) =>
         /\ PoolIn(attempts[a].pool, {"ACTIVE", "RETIRED", "OPEN"})
         /\ pools[attempts[a].pool].state = "OPEN" <=>
              attempts[a].answer = NoRow /\ attempts[a].state # "ISSUED"

IInv ==
  /\ TypeOK
  /\ AttemptsBelongToPools
  /\ EvaluatedByCommittedKey
  /\ ReceiptsAreEarned

LEMMA NoRowIsNoValue ==
  /\ \A row \in PoolRows : row # NoRow
  /\ \A row \in AttemptRows : row # NoRow
  /\ \A key \in Keys : key # NoRow
  /\ \A form \in Forms : form # NoRow
  BY QualificationAssumption, QualificationRowAssumption

LEMMA InitIInv == Init => IInv
  BY NoRowIsNoValue DEF Init, IInv, TypeOK, Materials, AttemptsBelongToPools,
     EvaluatedByCommittedKey, ReceiptsAreEarned, Stored, Exists

(* What is stored is a row.                                                 *)
LEMMA RowTypes ==
  ASSUME TypeOK
  PROVE  /\ \A p \in Pools : Stored(p) =>
              /\ pools[p] \in PoolRows
              /\ pools[p].state \in PoolStates
              /\ pools[p].commitment \in Keys \cup {NoRow}
              /\ pools[p].state \in {"SEALED", "ACTIVE", "RETIRED"} => pools[p].commitment # NoRow
              /\ pools[p].state = "OPEN" => pools[p].commitment = NoRow
         /\ \A a \in Attempts : Exists(a) =>
              /\ attempts[a] \in AttemptRows
              /\ attempts[a].reviewer \in Reviewers
              /\ attempts[a].pool \in Pools
              /\ attempts[a].state \in AttemptStates
              /\ attempts[a].answer \in Keys \cup {NoRow}
              /\ attempts[a].state = "ISSUED" => attempts[a].answer = NoRow
         /\ \A p \in Pools : material[p].key \in Keys \cup {NoRow}
  BY DEF TypeOK, Stored, Exists, PoolRows, AttemptRows, Materials

LEMMA AuditGrows ==
  ASSUME NEW s \in Seq(AuditEvents), NEW e \in AuditEvents, NEW f \in AuditEvents
  PROVE  /\ Append(s, e) \in Seq(AuditEvents)
         /\ s \o <<e, f>> \in Seq(AuditEvents)
         /\ <<e>> \in Seq(AuditEvents)
         /\ <<>> \in Seq(AuditEvents)
  OBVIOUS

-----------------------------------------------------------------------------
(* The steps that change a pool: it enters, or it takes one step onwards.    *)

PoolAdvances(p, row) ==
  /\ Stored(p)
  /\ row.commitment # NoRow
  /\ \/ pools[p].state = "DRAFT" /\ row.state = "SEALED"
     \/ /\ row.commitment = pools[p].commitment
        /\ \/ pools[p].state = "SEALED" /\ row.state = "ACTIVE"
           \/ pools[p].state = "ACTIVE" /\ row.state = "RETIRED"

LEMMA PoolStepChanges ==
  ASSUME IInv, PoolStep
  PROVE  /\ UNCHANGED <<attempts, receipts, attemptAudit, material, eligible>>
         /\ poolAudit' \in [Pools -> Seq(AuditEvents)]
         /\ \E p \in Pools, row \in PoolRows :
              /\ pools' = [pools EXCEPT ![p] = row]
              /\ ~Stored(p) \/ PoolAdvances(p, row)
  <1> USE DEF IInv
  <1>1. PICK p \in Pools :
          \/ \E state \in PoolStates, c \in Keys \cup {NoRow} : RegisterQualificationPool(p, state, c)
          \/ SealQualificationPool(p)
          \/ ActivateQualificationPool(p)
          \/ RetireQualificationPool(p)
    BY DEF PoolStep
  <1>2. poolAudit \in [Pools -> Seq(AuditEvents)] /\ poolAudit[p] \in Seq(AuditEvents)
    BY DEF TypeOK
  <1>3. \A e \in AuditEvents : [poolAudit EXCEPT ![p] = Append(@, e)] \in [Pools -> Seq(AuditEvents)]
    <2> TAKE e \in AuditEvents
    <2>1. Append(poolAudit[p], e) \in Seq(AuditEvents)
      BY <1>2, AuditGrows
    <2> QED
      BY <1>2, <2>1
  <1>4. /\ "pool_registered" \in AuditEvents /\ "pool_sealed" \in AuditEvents
        /\ "pool_activated" \in AuditEvents /\ "pool_retired" \in AuditEvents
    BY DEF AuditEvents
  <1>5. CASE \E state \in PoolStates, c \in Keys \cup {NoRow} : RegisterQualificationPool(p, state, c)
    <2>1. PICK state \in PoolStates, c \in Keys \cup {NoRow} : RegisterQualificationPool(p, state, c)
      BY <1>5
    <2>2. [state |-> state, commitment |-> c] \in PoolRows
      BY <2>1 DEF RegisterQualificationPool, PoolRows
    <2> QED
      BY <1>3, <1>4, <2>1, <2>2 DEF RegisterQualificationPool
  <1>6. CASE SealQualificationPool(p)
    <2>1. material[p].key \in Keys
      BY <1>6, RowTypes DEF SealQualificationPool, Loads
    <2>2. [state |-> "SEALED", commitment |-> material[p].key] \in PoolRows
      BY <2>1, NoRowIsNoValue DEF PoolRows, PoolStates
    <2>3. PoolAdvances(p, [state |-> "SEALED", commitment |-> material[p].key])
      BY <1>6, <2>1, NoRowIsNoValue DEF SealQualificationPool, PoolAdvances, PoolIn
    <2> QED
      BY <1>3, <1>4, <1>6, <2>2, <2>3 DEF SealQualificationPool, Advance
  <1>7. CASE ActivateQualificationPool(p)
    <2>1. [state |-> "ACTIVE", commitment |-> pools[p].commitment] \in PoolRows
      BY <1>7, RowTypes DEF ActivateQualificationPool, PoolIn, PoolRows, PoolStates
    <2>2. PoolAdvances(p, [state |-> "ACTIVE", commitment |-> pools[p].commitment])
      BY <1>7, RowTypes DEF ActivateQualificationPool, PoolAdvances, PoolIn
    <2> QED
      BY <1>3, <1>4, <1>7, <2>1, <2>2 DEF ActivateQualificationPool, Advance
  <1>8. CASE RetireQualificationPool(p)
    <2>1. [state |-> "RETIRED", commitment |-> pools[p].commitment] \in PoolRows
      BY <1>8, RowTypes DEF RetireQualificationPool, PoolIn, PoolRows, PoolStates
    <2>2. PoolAdvances(p, [state |-> "RETIRED", commitment |-> pools[p].commitment])
      BY <1>8, RowTypes DEF RetireQualificationPool, PoolAdvances, PoolIn
    <2> QED
      BY <1>3, <1>4, <1>8, <2>1, <2>2 DEF RetireQualificationPool, Advance
  <1> QED
    BY <1>1, <1>5, <1>6, <1>7, <1>8

LEMMA PoolStepIInv == IInv /\ PoolStep => IInv'
  <1> SUFFICES ASSUME IInv, PoolStep PROVE IInv'
    OBVIOUS
  <1>1. /\ UNCHANGED <<attempts, receipts, attemptAudit, material, eligible>>
        /\ poolAudit' \in [Pools -> Seq(AuditEvents)]
    BY PoolStepChanges
  <1>2. PICK p \in Pools, row \in PoolRows :
          /\ pools' = [pools EXCEPT ![p] = row]
          /\ ~Stored(p) \/ PoolAdvances(p, row)
    BY PoolStepChanges
  <1> USE DEF IInv
  <1>3. pools \in [Pools -> PoolRows \cup {NoRow}]
    BY DEF TypeOK
  <1>4. /\ row \in PoolRows /\ row # NoRow
        /\ \A q \in Pools : pools'[q] = IF q = p THEN row ELSE pools[q]
    BY <1>2, <1>3, NoRowIsNoValue
  <1>5. TypeOK'
    BY <1>1, <1>2, <1>3 DEF TypeOK
  <1>7. \A a \in Attempts : Exists(a) =>
          /\ attempts[a].pool \in Pools
          /\ PoolIn(attempts[a].pool, {"ACTIVE", "RETIRED", "OPEN"})'
          /\ (pools[attempts[a].pool].state = "OPEN")' <=> pools[attempts[a].pool].state = "OPEN"
          /\ pools'[attempts[a].pool].commitment = pools[attempts[a].pool].commitment
    <2> TAKE a \in Attempts
    <2> HAVE Exists(a)
    <2>1. attempts[a].pool \in Pools /\ PoolIn(attempts[a].pool, {"ACTIVE", "RETIRED", "OPEN"})
      BY RowTypes DEF AttemptsBelongToPools
    <2> QED
      BY <1>1, <1>2, <1>4, <2>1 DEF PoolIn, Stored, PoolAdvances
  <1>8. AttemptsBelongToPools'
    BY <1>1, <1>7 DEF AttemptsBelongToPools, Exists
  <1>9. EvaluatedByCommittedKey'
    BY <1>1, <1>7 DEF EvaluatedByCommittedKey, Exists, PoolIn
  <1>10. ReceiptsAreEarned'
    BY <1>1, <1>7 DEF ReceiptsAreEarned, Exists, PoolIn, Fingerprint
  <1> QED
    BY <1>5, <1>8, <1>9, <1>10

-----------------------------------------------------------------------------
(* The steps that change an attempt: it is issued or migrated, or it is     *)
(* evaluated.                                                              *)

AttemptEnters(a, row) ==
  /\ ~Exists(a)
  /\ row.answer = NoRow
  /\ \/ /\ row.state = "ISSUED"
        /\ PoolIn(row.pool, {"ACTIVE"})
        /\ Cardinality(AttemptsOf(row.reviewer, row.pool)) < MaxAttempts
     \/ row.state # "ISSUED" /\ PoolIn(row.pool, {"OPEN"})

AttemptEvaluated(a, row) ==
  /\ Exists(a) /\ attempts[a].state = "ISSUED"
  /\ PoolIn(row.pool, {"ACTIVE", "RETIRED"})
  /\ row.reviewer = attempts[a].reviewer /\ row.pool = attempts[a].pool
  /\ row.answer # NoRow
  /\ row.state = IF row.answer = pools[row.pool].commitment THEN "QUALIFIED" ELSE "NOT_QUALIFIED"

LEMMA AttemptStepChanges ==
  ASSUME IInv, AttemptStep
  PROVE  /\ UNCHANGED <<pools, receipts, poolAudit, material, eligible>>
         /\ attemptAudit' \in [Attempts -> Seq(AuditEvents)]
         /\ \E a \in Attempts, row \in AttemptRows :
              /\ attempts' = [attempts EXCEPT ![a] = row]
              /\ AttemptEnters(a, row) \/ AttemptEvaluated(a, row)
  <1> USE DEF IInv
  <1>1. PICK a \in Attempts :
          \/ \E r \in Reviewers, p \in Pools : CreateQualificationAttempt(a, r, p)
          \/ \E r \in Reviewers, p \in Pools, state \in AttemptStates :
               ImportLegacyAttempt(a, r, p, state)
          \/ \E answer \in Keys : SubmitQualificationAttempt(a, answer)
    BY DEF AttemptStep
  <1>2. attemptAudit \in [Attempts -> Seq(AuditEvents)] /\ attemptAudit[a] \in Seq(AuditEvents)
    BY DEF TypeOK
  <1>3. CASE \E r \in Reviewers, p \in Pools : CreateQualificationAttempt(a, r, p)
    <2>1. PICK r \in Reviewers, p \in Pools : CreateQualificationAttempt(a, r, p)
      BY <1>3
    <2> DEFINE row == [reviewer |-> r, pool |-> p, state |-> "ISSUED", answer |-> NoRow]
    <2>2. row \in AttemptRows
      BY DEF AttemptRows, AttemptStates
    <2>3. AttemptEnters(a, row)
      BY <2>1 DEF CreateQualificationAttempt, AddAttempt, AttemptEnters
    <2>4. "attempt_issued" \in AuditEvents
      BY DEF AuditEvents
    <2>5. <<"attempt_issued">> \in Seq(AuditEvents)
      BY <1>2, <2>4, AuditGrows
    <2> QED
      BY <1>2, <2>1, <2>2, <2>3, <2>5 DEF CreateQualificationAttempt, AddAttempt
  <1>4. CASE \E r \in Reviewers, p \in Pools, state \in AttemptStates :
               ImportLegacyAttempt(a, r, p, state)
    <2>1. PICK r \in Reviewers, p \in Pools, state \in AttemptStates :
            ImportLegacyAttempt(a, r, p, state)
      BY <1>4
    <2> DEFINE row == [reviewer |-> r, pool |-> p, state |-> state, answer |-> NoRow]
    <2>2. row \in AttemptRows
      BY DEF AttemptRows
    <2>3. AttemptEnters(a, row)
      BY <2>1 DEF ImportLegacyAttempt, AddAttempt, AttemptEnters
    <2>4. <<>> \in Seq(AuditEvents)
      OBVIOUS
    <2> QED
      BY <1>2, <2>1, <2>2, <2>3, <2>4 DEF ImportLegacyAttempt, AddAttempt
  <1>5. CASE \E answer \in Keys : SubmitQualificationAttempt(a, answer)
    <2>1. PICK answer \in Keys : SubmitQualificationAttempt(a, answer)
      BY <1>5
    <2> DEFINE p == attempts[a].pool
               passed == answer = material[p].key
               result == IF passed THEN "QUALIFIED" ELSE "NOT_QUALIFIED"
               row == [attempts[a] EXCEPT !.state = result, !.answer = answer]
    <2>2. /\ Exists(a) /\ attempts[a] \in AttemptRows
          /\ p \in Pools /\ attempts[a].state = "ISSUED"
          /\ PoolIn(p, {"ACTIVE", "RETIRED"}) /\ Loads(p, pools[p].commitment)
          /\ Evaluate(a, answer)
      BY <2>1, RowTypes DEF SubmitQualificationAttempt
    <2>3. material[p].key = pools[p].commitment
      BY <2>2, RowTypes DEF PoolIn, Loads
    <2>4. /\ row \in AttemptRows
          /\ row.reviewer = attempts[a].reviewer /\ row.pool = p
          /\ row.state = result /\ row.answer = answer
      BY <2>2 DEF AttemptRows, AttemptStates
    <2>5. AttemptEvaluated(a, row)
      BY <2>2, <2>3, <2>4, NoRowIsNoValue DEF AttemptEvaluated
    <2>6. attempts' = [attempts EXCEPT ![a] = row]
      BY <2>2 DEF Evaluate, TypeOK, AttemptRows, Exists
    <2>7. PICK f \in AuditEvents :
            attemptAudit' = [attemptAudit EXCEPT ![a] = @ \o <<"response_submitted", f>>]
      BY <2>2 DEF Evaluate, AuditEvents
    <2>8. "response_submitted" \in AuditEvents
      BY DEF AuditEvents
    <2>9. attemptAudit[a] \o <<"response_submitted", f>> \in Seq(AuditEvents)
      BY <1>2, <2>8, AuditGrows
    <2>10. attemptAudit' \in [Attempts -> Seq(AuditEvents)]
      BY <1>2, <2>7, <2>9
    <2> QED
      BY <2>2, <2>4, <2>5, <2>6, <2>10 DEF Evaluate
  <1> QED
    BY <1>1, <1>3, <1>4, <1>5

LEMMA AttemptStepIInv == IInv /\ AttemptStep => IInv'
  <1> SUFFICES ASSUME IInv, AttemptStep PROVE IInv'
    OBVIOUS
  <1>1. /\ UNCHANGED <<pools, receipts, poolAudit, material, eligible>>
        /\ attemptAudit' \in [Attempts -> Seq(AuditEvents)]
    BY AttemptStepChanges
  <1>2. PICK a \in Attempts, row \in AttemptRows :
          /\ attempts' = [attempts EXCEPT ![a] = row]
          /\ AttemptEnters(a, row) \/ AttemptEvaluated(a, row)
    BY AttemptStepChanges
  <1> USE DEF IInv
  <1>3. attempts \in [Attempts -> AttemptRows \cup {NoRow}]
    BY DEF TypeOK
  <1>4. /\ row \in AttemptRows /\ row # NoRow
        /\ row.pool \in Pools /\ row.state \in AttemptStates
        /\ \A b \in Attempts : attempts'[b] = IF b = a THEN row ELSE attempts[b]
    BY <1>2, <1>3, NoRowIsNoValue DEF AttemptRows
  <1>5. TypeOK'
    BY <1>1, <1>2, <1>3 DEF TypeOK
  <1>7. receipts[a] = NoRow
    BY <1>2 DEF AttemptEnters, AttemptEvaluated, AttemptsBelongToPools, ReceiptsAreEarned
  <1>8. AttemptsBelongToPools'
    <2> SUFFICES ASSUME NEW b \in Attempts
        PROVE  /\ receipts[b] # NoRow => Exists(b)'
               /\ Exists(b)' =>
                    /\ PoolIn(attempts'[b].pool, {"ACTIVE", "RETIRED", "OPEN"})
                    /\ pools[attempts'[b].pool].state = "OPEN" <=>
                         attempts'[b].answer = NoRow /\ attempts'[b].state # "ISSUED"
      BY <1>1 DEF AttemptsBelongToPools, PoolIn, Stored
    <2>1. CASE b = a
      BY <1>2, <1>4, <1>7, <2>1 DEF AttemptEnters, AttemptEvaluated, PoolIn, Stored
    <2>2. CASE b # a
      BY <1>4, <2>2 DEF AttemptsBelongToPools, Exists
    <2> QED
      BY <2>1, <2>2
  <1>9. EvaluatedByCommittedKey'
    <2> SUFFICES ASSUME NEW b \in Attempts, Exists(b)', attempts'[b].answer # NoRow
        PROVE  /\ Stored(attempts'[b].pool)
               /\ attempts'[b].state # "ISSUED"
               /\ attempts'[b].state = "QUALIFIED" <=>
                    attempts'[b].answer = pools[attempts'[b].pool].commitment
      BY <1>1 DEF EvaluatedByCommittedKey, Stored
    <2>1. CASE b = a
      BY <1>2, <1>4, <2>1 DEF AttemptEnters, AttemptEvaluated, PoolIn
    <2>2. CASE b # a
      BY <1>4, <2>2 DEF EvaluatedByCommittedKey, Exists
    <2> QED
      BY <2>1, <2>2
  <1>10. ReceiptsAreEarned'
    BY <1>1, <1>4, <1>7 DEF ReceiptsAreEarned, Exists, Stored, Fingerprint
  <1> QED
    BY <1>5, <1>8, <1>9, <1>10

-----------------------------------------------------------------------------
(* The steps that store a receipt.                                          *)

LEMMA ReceiptStepChanges ==
  ASSUME IInv, ReceiptStep
  PROVE  /\ UNCHANGED <<pools, attempts, poolAudit, material, eligible>>
         /\ attemptAudit' \in [Attempts -> Seq(AuditEvents)]
         /\ \E a \in Attempts, form \in Forms :
              /\ Exists(a) /\ attempts[a].state = "QUALIFIED"
              /\ Unclaimed(a, form)
              /\ receipts' = [receipts EXCEPT ![a] = form]
  <1>1. PICK a \in Attempts :
          \/ IssueQualificationReceipt(a)
          \/ \E form \in Forms : RegisterAuthoritativeQualificationReceipt(a, form)
    BY DEF ReceiptStep
  <1>2. attemptAudit \in [Attempts -> Seq(AuditEvents)] /\ attemptAudit[a] \in Seq(AuditEvents)
    BY DEF IInv, TypeOK
  <1>3. CASE IssueQualificationReceipt(a)
    <2>1. "receipt_issued" \in AuditEvents
      BY DEF AuditEvents
    <2>2. Append(attemptAudit[a], "receipt_issued") \in Seq(AuditEvents)
      BY <1>2, <2>1, AuditGrows
    <2> QED
      BY <1>2, <1>3, <2>2, QualificationAssumption DEF IssueQualificationReceipt, MayReceive
  <1>4. CASE \E form \in Forms : RegisterAuthoritativeQualificationReceipt(a, form)
    BY <1>2, <1>4 DEF RegisterAuthoritativeQualificationReceipt
  <1> QED
    BY <1>1, <1>3, <1>4

LEMMA ReceiptStepIInv == IInv /\ ReceiptStep => IInv'
  <1> SUFFICES ASSUME IInv, ReceiptStep PROVE IInv'
    OBVIOUS
  <1>1. /\ UNCHANGED <<pools, attempts, poolAudit, material, eligible>>
        /\ attemptAudit' \in [Attempts -> Seq(AuditEvents)]
    BY ReceiptStepChanges
  <1>2. PICK a \in Attempts, form \in Forms :
          /\ Exists(a) /\ attempts[a].state = "QUALIFIED"
          /\ Unclaimed(a, form)
          /\ receipts' = [receipts EXCEPT ![a] = form]
    BY ReceiptStepChanges
  <1> USE DEF IInv
  <1>3. receipts \in [Attempts -> Forms \cup {NoRow}]
    BY DEF TypeOK
  <1>4. \A b \in Attempts : receipts'[b] = IF b = a THEN form ELSE receipts[b]
    BY <1>2, <1>3
  <1>5. TypeOK'
    BY <1>1, <1>2, <1>3 DEF TypeOK
  <1>6. EvaluatedByCommittedKey'
    BY <1>1 DEF EvaluatedByCommittedKey, Stored, Exists
  <1>7. AttemptsBelongToPools'
    BY <1>1, <1>2, <1>4 DEF AttemptsBelongToPools, Exists, PoolIn, Stored
  <1>8. ReceiptsAreEarned'
    <2> SUFFICES ASSUME NEW b \in Attempts, receipts'[b] # NoRow
        PROVE  /\ Exists(b) /\ Stored(attempts[b].pool)
               /\ attempts[b].state = "QUALIFIED"
               /\ pools[attempts[b].pool].state # "OPEN" =>
                    attempts[b].answer = pools[attempts[b].pool].commitment
               /\ \A c \in Attempts :
                    receipts'[c] # NoRow /\ Fingerprint(c, receipts'[c]) = Fingerprint(b, receipts'[b])
                      => c = b
      BY <1>1 DEF ReceiptsAreEarned, Exists, Stored, Fingerprint
    <2>1. Exists(b) /\ attempts[b].state = "QUALIFIED"
      BY <1>2, <1>4 DEF ReceiptsAreEarned
    <2>2. /\ Stored(attempts[b].pool)
          /\ pools[attempts[b].pool].state # "OPEN" =>
               attempts[b].answer = pools[attempts[b].pool].commitment
      BY <2>1, RowTypes DEF AttemptsBelongToPools, EvaluatedByCommittedKey, PoolIn
    <2>3. \A c \in Attempts :
            receipts'[c] # NoRow /\ Fingerprint(c, receipts'[c]) = Fingerprint(b, receipts'[b])
              => c = b
      BY <1>2, <1>4 DEF ReceiptsAreEarned, Unclaimed
    <2> QED
      BY <2>1, <2>2, <2>3
  <1> QED
    BY <1>5, <1>6, <1>7, <1>8

LEMMA OutsideStepIInv == IInv /\ (OutsideStep \/ UNCHANGED vars) => IInv'
  <1> SUFFICES ASSUME IInv, OutsideStep \/ UNCHANGED vars PROVE IInv'
    OBVIOUS
  <1> USE DEF IInv
  <1>1. UNCHANGED storeVars
    BY DEF OutsideStep, ChangeItems, ChangeKey, EligibilityStep, vars, storeVars
  <1>2. eligible' \subseteq Reviewers
    BY DEF OutsideStep, ChangeItems, ChangeKey, EligibilityStep, Eligibility!Next, Eligibility!Gain, Eligibility!Lose,
           vars, TypeOK
  <1>3. material' \in [Pools -> Materials]
    <2>1. material \in [Pools -> Materials]
      BY DEF TypeOK
    <2>2. CASE \E p \in Pools : ChangeItems(p)
      BY <2>1, <2>2 DEF ChangeItems, Materials
    <2>3. CASE \E p \in Pools : \E key \in Keys \cup {NoRow} : ChangeKey(p, key)
      BY <2>1, <2>3 DEF ChangeKey, Materials
    <2> QED
      BY <2>1, <2>2, <2>3 DEF OutsideStep, EligibilityStep, vars
  <1>4. TypeOK'
    BY <1>1, <1>2, <1>3 DEF TypeOK, storeVars
  <1>5. AttemptsBelongToPools' /\ EvaluatedByCommittedKey'
    BY <1>1 DEF AttemptsBelongToPools, EvaluatedByCommittedKey,
       Stored, Exists, PoolIn, storeVars
  <1>6. ReceiptsAreEarned'
    BY <1>1 DEF ReceiptsAreEarned, Stored, Exists, Fingerprint, storeVars
  <1> QED
    BY <1>4, <1>5, <1>6

LEMMA NextIInv == IInv /\ [Next]_vars => IInv'
  BY PoolStepIInv, AttemptStepIInv, ReceiptStepIInv, OutsideStepIInv DEF Next

THEOREM SpecIInv == Spec => []IInv
  BY InitIInv, NextIInv, PTL DEF Spec

-----------------------------------------------------------------------------
(* What follows from the invariant.                                        *)

(* The rows of pools, attempts, receipts and audits stay well-typed.        *)
THEOREM TypeSafety == Spec => []TypeOK
  BY SpecIInv, PTL DEF IInv

(* Changing the files after sealing changes no evaluation: an attempt is    *)
(* judged by the key its pool is committed to (loadQualificationMaterial). *)
THEOREM DriftIsHarmless == Spec => []EvaluatedByCommittedKey
  BY SpecIInv, PTL DEF IInv

(* No receipt without a qualified attempt, no second one with the same      *)
(* fingerprint (issueQualificationReceipt, registerAuthoritative...).       *)
THEOREM ReceiptsFollowEvaluation == Spec => []ReceiptsAreEarned
  BY SpecIInv, PTL DEF IInv

(* A qualified reviewer keeps the way to a receipt of the pool, retired or  *)
(* not, and without being asked for consent again.                         *)
THEOREM QualificationIsNotForfeited == Spec => []QualifiedMayCollect
  <1>1. IInv => QualifiedMayCollect
    <2> SUFFICES ASSUME IInv, NEW a \in Attempts, Exists(a),
                        attempts[a].state = "QUALIFIED",
                        PoolIn(attempts[a].pool, PoolStates \ {"OPEN"}), ~MayReceive(a)
                 PROVE  \E b \in AttemptsOf(attempts[a].reviewer, attempts[a].pool) :
                          receipts[b] # NoRow
      BY DEF QualifiedMayCollect
    <2> USE DEF IInv
    <2>1. attempts[a].answer # NoRow /\ PoolIn(attempts[a].pool, {"ACTIVE", "RETIRED"})
      BY DEF AttemptsBelongToPools, PoolIn
    <2>2. ~Unclaimed(a, ServiceForm)
      BY <2>1 DEF MayReceive
    <2>3. PICK b \in Attempts :
            /\ receipts[b] # NoRow
            /\ b = a \/ Fingerprint(b, receipts[b]) = Fingerprint(a, ServiceForm)
      BY <2>2 DEF Unclaimed
    <2>4. /\ Exists(b)
          /\ attempts[b].reviewer = attempts[a].reviewer
          /\ attempts[b].pool = attempts[a].pool
      BY <2>3 DEF AttemptsBelongToPools, Fingerprint
    <2> QED
      BY <2>3, <2>4 DEF AttemptsOf
  <1> QED
    BY <1>1, SpecIInv, PTL

(* Commitments of sealed pools, the attempts of retired ones, results and   *)
(* receipts are never rewritten.                                           *)
THEOREM DecisionsStand == Spec => DecisionsAreFinal
  <1>1. ASSUME IInv, Next
        PROVE  (\A p \in Pools : PoolKeeps(p)) /\ (\A a \in Attempts : AttemptKeeps(a))
    <2> USE <1>1 DEF IInv
    <2>1. CASE PoolStep
      <3>1. UNCHANGED <<attempts, receipts>>
        BY <2>1, PoolStepChanges
      <3>2. PICK p \in Pools, row \in PoolRows :
              /\ pools' = [pools EXCEPT ![p] = row]
              /\ ~Stored(p) \/ PoolAdvances(p, row)
        BY <2>1, PoolStepChanges
      <3>3. \A q \in Pools : pools'[q] = IF q = p THEN row ELSE pools[q]
        BY <3>2 DEF TypeOK
      <3>4. \A q \in Pools : PoolKeeps(q)
        BY <3>1, <3>2, <3>3 DEF PoolKeeps, PoolAdvances, Exists
      <3> QED
        BY <3>1, <3>4 DEF AttemptKeeps
    <2>2. CASE AttemptStep
      <3>1. UNCHANGED <<pools, receipts>>
        BY <2>2, AttemptStepChanges
      <3>2. PICK a \in Attempts, row \in AttemptRows :
              /\ attempts' = [attempts EXCEPT ![a] = row]
              /\ AttemptEnters(a, row) \/ AttemptEvaluated(a, row)
        BY <2>2, AttemptStepChanges
      <3>3. \A b \in Attempts : attempts'[b] = IF b = a THEN row ELSE attempts[b]
        BY <3>2 DEF TypeOK
      <3>4. \A b \in Attempts : AttemptKeeps(b)
        BY <3>1, <3>2, <3>3 DEF AttemptKeeps, AttemptEnters, AttemptEvaluated
      <3>5. ASSUME NEW p \in Pools, Stored(p), pools[p].state = "RETIRED"
            PROVE  {b \in Attempts : Exists(b) /\ attempts[b].pool = p}' =
                   {b \in Attempts : Exists(b) /\ attempts[b].pool = p}
        <4>1. ASSUME NEW b \in Attempts
              PROVE  (Exists(b) /\ attempts[b].pool = p)' <=> Exists(b) /\ attempts[b].pool = p
          <5>1. CASE b = a
            BY <3>2, <3>3, <3>5, <5>1, NoRowIsNoValue
               DEF AttemptEnters, AttemptEvaluated, Exists, PoolIn
          <5>2. CASE b # a
            BY <3>3, <5>2 DEF Exists
          <5> QED
            BY <5>1, <5>2
        <4> QED
          BY <4>1
      <3> QED
        BY <3>1, <3>4, <3>5 DEF PoolKeeps
    <2>3. CASE ReceiptStep
      <3>1. UNCHANGED <<pools, attempts>>
        BY <2>3, ReceiptStepChanges
      <3>2. PICK a \in Attempts, form \in Forms :
              Unclaimed(a, form) /\ receipts' = [receipts EXCEPT ![a] = form]
        BY <2>3, ReceiptStepChanges
      <3>3. \A b \in Attempts : receipts[b] # NoRow => receipts'[b] = receipts[b]
        BY <3>2 DEF Unclaimed, TypeOK
      <3> QED
        BY <3>1, <3>3 DEF PoolKeeps, AttemptKeeps, Exists
    <2>4. CASE OutsideStep
      <3>1. UNCHANGED storeVars
        BY <2>4 DEF OutsideStep, ChangeItems, ChangeKey, EligibilityStep
      <3> QED
        BY <3>1 DEF storeVars, PoolKeeps, AttemptKeeps, Exists
    <2> QED
      BY <1>1, <2>1, <2>2, <2>3, <2>4 DEF Next
  <1>2. IInv /\ [Next]_vars =>
          [(\A p \in Pools : PoolKeeps(p)) /\ (\A a \in Attempts : AttemptKeeps(a))]_vars
    BY <1>1
  <1> QED
    BY <1>2, SpecIInv, PTL DEF Spec, DecisionsAreFinal

-----------------------------------------------------------------------------
(* The limit on attempts.                                                   *)

LEMMA AttemptsAreFinite ==
  \A r \in Reviewers, p \in Pools :
    /\ IsFiniteSet(AttemptsOf(r, p))
    /\ Cardinality(AttemptsOf(r, p)) \in Nat
  <1> TAKE r \in Reviewers, p \in Pools
  <1>1. AttemptsOf(r, p) \subseteq Attempts
    BY DEF AttemptsOf
  <1>2. IsFiniteSet(AttemptsOf(r, p))
    BY <1>1, QualificationAssumption, FS_Subset
  <1> QED
    BY <1>2, FS_CardinalityType

LEMMA LimitIsKept ==
  ASSUME IInv, AttemptsAreLimited, [Next]_vars
  PROVE  AttemptsAreLimited'
  <1> USE DEF IInv
  <1>1. SUFFICES ASSUME NEW r \in Reviewers, NEW p \in Pools,
                        PoolIn(p, PoolStates \ {"OPEN"})'
                 PROVE  Cardinality(AttemptsOf(r, p)') <= MaxAttempts
    BY DEF AttemptsAreLimited
  <1>2. CASE UNCHANGED storeVars
    BY <1>1, <1>2 DEF AttemptsAreLimited, AttemptsOf, Exists, PoolIn, Stored, storeVars
  <1>3. CASE PoolStep
    <2>1. AttemptsOf(r, p)' = AttemptsOf(r, p)
      BY <1>3, PoolStepChanges DEF AttemptsOf, Exists
    <2>2. PICK q \in Pools, row \in PoolRows :
            /\ pools' = [pools EXCEPT ![q] = row]
            /\ ~Stored(q) \/ PoolAdvances(q, row)
      BY <1>3, PoolStepChanges
    <2>3. pools'[p] = IF p = q THEN row ELSE pools[p]
      BY <2>2 DEF TypeOK
    <2>4. CASE Stored(p)
      <3>1. PoolIn(p, PoolStates \ {"OPEN"})
        BY <1>1, <2>2, <2>3, <2>4, RowTypes DEF PoolIn, Stored, PoolAdvances
      <3> QED
        BY <2>1, <3>1 DEF AttemptsAreLimited
    <2>5. CASE ~Stored(p)
      <3>1. AttemptsOf(r, p) = {}
        BY <2>5 DEF AttemptsOf, AttemptsBelongToPools, PoolIn
      <3> QED
        BY <2>1, <3>1, FS_EmptySet, QualificationAssumption
    <2> QED
      BY <2>4, <2>5
  <1>4. CASE AttemptStep
    <2>1. UNCHANGED pools
      BY <1>4, AttemptStepChanges
    <2>2. PoolIn(p, PoolStates \ {"OPEN"})
      BY <1>1, <2>1 DEF PoolIn, Stored
    <2>3. PICK a \in Attempts, row \in AttemptRows :
            /\ attempts' = [attempts EXCEPT ![a] = row]
            /\ AttemptEnters(a, row) \/ AttemptEvaluated(a, row)
      BY <1>4, AttemptStepChanges
    <2>4. \A b \in Attempts : attempts'[b] = IF b = a THEN row ELSE attempts[b]
      BY <2>3 DEF TypeOK
    <2>5. CASE AttemptEnters(a, row) /\ row.reviewer = r /\ row.pool = p
      <3>1. AttemptsOf(r, p)' = AttemptsOf(r, p) \cup {a} /\ a \notin AttemptsOf(r, p)
        BY <2>4, <2>5, NoRowIsNoValue DEF AttemptsOf, Exists, AttemptEnters
      <3>2. Cardinality(AttemptsOf(r, p)) < MaxAttempts
        BY <2>2, <2>5 DEF AttemptEnters, PoolIn
      <3>3. Cardinality(AttemptsOf(r, p) \cup {a}) = Cardinality(AttemptsOf(r, p)) + 1
        BY <3>1, AttemptsAreFinite, FS_AddElement
      <3> QED
        BY <3>1, <3>2, <3>3, AttemptsAreFinite, QualificationAssumption
    <2>6. CASE ~(AttemptEnters(a, row) /\ row.reviewer = r /\ row.pool = p)
      <3>1. AttemptsOf(r, p)' = AttemptsOf(r, p)
        BY <2>3, <2>4, <2>6, NoRowIsNoValue
           DEF AttemptsOf, Exists, AttemptEnters, AttemptEvaluated
      <3> QED
        BY <2>2, <3>1 DEF AttemptsAreLimited
    <2> QED
      BY <2>5, <2>6
  <1>5. CASE ReceiptStep
    <2>1. UNCHANGED <<pools, attempts>>
      BY <1>5, ReceiptStepChanges
    <2> QED
      BY <1>1, <2>1 DEF AttemptsAreLimited, AttemptsOf, Exists, PoolIn, Stored
  <1>6. CASE OutsideStep
    BY <1>2, <1>6 DEF OutsideStep, ChangeItems, ChangeKey, EligibilityStep
  <1> QED
    BY <1>2, <1>3, <1>4, <1>5, <1>6 DEF Next, vars, storeVars

(* The limit holds however attempts, evaluations and retirements interleave *)
(* (createQualificationAttempt counts every attempt, not only open ones).  *)
THEOREM LimitIsRespected == Spec => []AttemptsAreLimited
  <1>1. Init => AttemptsAreLimited
    BY DEF Init, AttemptsAreLimited, PoolIn, Stored
  <1>2. IInv /\ AttemptsAreLimited /\ [Next]_vars => AttemptsAreLimited'
    BY LimitIsKept
  <1> QED
    BY <1>1, <1>2, SpecIInv, PTL DEF Spec

-----------------------------------------------------------------------------
(* The authority implements QualificationFacts.                             *)

LEMMA SeenTypes == IInv => SeenPools \in [Pools -> {"SEALED", "ACTIVE", "RETIRED"}]
  BY DEF SeenPools, PoolIn

LEMMA SeenAfterPoolStep == IInv /\ PoolStep => [Seen!Next]_(Seen!facts)
  <1> SUFFICES ASSUME IInv, PoolStep PROVE [Seen!Next]_(Seen!facts)
    OBVIOUS
  <1> USE DEF IInv
  <1>1. UNCHANGED <<attempts, receipts>>
    BY PoolStepChanges
  <1>2. PICK p \in Pools, row \in PoolRows :
          /\ pools' = [pools EXCEPT ![p] = row]
          /\ ~Stored(p) \/ PoolAdvances(p, row)
    BY PoolStepChanges
  <1>3. \A q \in Pools : pools'[q] = IF q = p THEN row ELSE pools[q]
    BY <1>2 DEF TypeOK
  <1>4. SeenReceipts' = SeenReceipts
    <2>1. \A b \in Attempts : receipts[b] # NoRow =>
            (pools'[attempts[b].pool].state # "OPEN" <=> pools[attempts[b].pool].state # "OPEN")
      <3> TAKE b \in Attempts
      <3> HAVE receipts[b] # NoRow
      <3>1. attempts[b].pool \in Pools /\ Stored(attempts[b].pool)
        BY RowTypes DEF AttemptsBelongToPools, PoolIn
      <3> QED
        BY <1>2, <1>3, <3>1 DEF PoolAdvances
    <2>2. {b \in Attempts : receipts[b] # NoRow /\ pools'[attempts[b].pool].state # "OPEN"} =
          {b \in Attempts : receipts[b] # NoRow /\ pools[attempts[b].pool].state # "OPEN"}
      BY <2>1
    <2> QED
      BY <1>1, <2>2 DEF SeenReceipts
  <1>5. SeenPools' = [SeenPools EXCEPT ![p] =
                        IF row.state \in {"ACTIVE", "RETIRED"} THEN row.state ELSE "SEALED"]
    BY <1>3, NoRowIsNoValue DEF SeenPools, PoolIn, Stored
  <1>6. SeenPools[p] = IF PoolIn(p, {"ACTIVE", "RETIRED"}) THEN pools[p].state ELSE "SEALED"
    BY DEF SeenPools
  <1>7. CASE row.state = "ACTIVE"
    <2>1. SeenPools[p] = "SEALED"
      BY <1>2, <1>6, <1>7 DEF PoolAdvances, PoolIn
    <2>2. Seen!ActivatePool(p)
      BY <1>4, <1>5, <1>7, <2>1 DEF Seen!ActivatePool
    <2> QED
      BY <2>2 DEF Seen!Next
  <1>8. CASE row.state = "RETIRED"
    <2>1. SeenPools[p] # "RETIRED"
      BY <1>2, <1>6, <1>8 DEF PoolAdvances, PoolIn
    <2>2. Seen!RetirePool(p)
      BY <1>4, <1>5, <1>8, <2>1 DEF Seen!RetirePool
    <2> QED
      BY <2>2 DEF Seen!Next
  <1>9. CASE row.state \notin {"ACTIVE", "RETIRED"}
    <2>1. SeenPools[p] = "SEALED"
      BY <1>2, <1>6, <1>9 DEF PoolAdvances, PoolIn
    <2>2. SeenPools' = SeenPools
      BY <1>5, <1>9, <2>1, SeenTypes
    <2> QED
      BY <1>4, <2>2 DEF Seen!facts
  <1> QED
    BY <1>7, <1>8, <1>9

LEMMA SeenAfterAttemptStep == IInv /\ AttemptStep => UNCHANGED Seen!facts
  <1> SUFFICES ASSUME IInv, AttemptStep PROVE UNCHANGED Seen!facts
    OBVIOUS
  <1> USE DEF IInv
  <1>1. UNCHANGED <<pools, receipts>>
    BY AttemptStepChanges
  <1>2. PICK a \in Attempts, row \in AttemptRows :
          /\ attempts' = [attempts EXCEPT ![a] = row]
          /\ AttemptEnters(a, row) \/ AttemptEvaluated(a, row)
    BY AttemptStepChanges
  <1>3. receipts[a] = NoRow
    BY <1>2 DEF AttemptEnters, AttemptEvaluated, AttemptsBelongToPools, ReceiptsAreEarned
  <1>4. \A b \in Attempts : receipts[b] # NoRow => attempts'[b] = attempts[b]
    BY <1>2, <1>3 DEF TypeOK
  <1>5. SeenReceipts' = SeenReceipts
    BY <1>1, <1>4 DEF SeenReceipts
  <1>6. SeenPools' = SeenPools
    BY <1>1 DEF SeenPools, PoolIn, Stored
  <1> QED
    BY <1>5, <1>6 DEF Seen!facts

LEMMA SeenAfterReceiptStep == IInv /\ ReceiptStep => [Seen!Next]_(Seen!facts)
  <1> SUFFICES ASSUME IInv, ReceiptStep PROVE [Seen!Next]_(Seen!facts)
    OBVIOUS
  <1> USE DEF IInv
  <1>1. UNCHANGED <<pools, attempts>>
    BY ReceiptStepChanges
  <1>2. PICK a \in Attempts, form \in Forms :
          /\ Exists(a)
          /\ Unclaimed(a, form)
          /\ receipts' = [receipts EXCEPT ![a] = form]
    BY ReceiptStepChanges
  <1>3. \A b \in Attempts : receipts'[b] # NoRow <=> b = a \/ receipts[b] # NoRow
    BY <1>2, NoRowIsNoValue DEF TypeOK
  <1>4. SeenPools' = SeenPools
    BY <1>1 DEF SeenPools, PoolIn, Stored
  <1> DEFINE r == attempts[a].reviewer
             p == attempts[a].pool
  <1>5. r \in Reviewers /\ p \in Pools /\ PoolIn(p, {"ACTIVE", "RETIRED", "OPEN"})
    BY <1>2, RowTypes DEF AttemptsBelongToPools
  <1>6. CASE pools[p].state = "OPEN"
    <2>1. {b \in Attempts : receipts'[b] # NoRow /\ pools[attempts[b].pool].state # "OPEN"} =
          {b \in Attempts : receipts[b] # NoRow /\ pools[attempts[b].pool].state # "OPEN"}
      BY <1>3, <1>6
    <2>2. SeenReceipts' = SeenReceipts
      BY <1>1, <2>1 DEF SeenReceipts
    <2> QED
      BY <1>4, <2>2 DEF Seen!facts
  <1>7. CASE pools[p].state # "OPEN"
    <2>1. {b \in Attempts : receipts'[b] # NoRow /\ pools[attempts[b].pool].state # "OPEN"} =
          {b \in Attempts : receipts[b] # NoRow /\ pools[attempts[b].pool].state # "OPEN"} \cup {a}
      BY <1>3, <1>7
    <2>2. SeenReceipts' = SeenReceipts \cup {<<r, p>>}
      BY <1>1, <2>1 DEF SeenReceipts
    <2>3. SeenPools[p] # "SEALED"
      BY <1>5, <1>7 DEF SeenPools, PoolIn
    <2>4. Seen!IssueReceipt(r, p)
      BY <1>4, <2>2, <2>3 DEF Seen!IssueReceipt
    <2> QED
      BY <1>5, <2>4 DEF Seen!Next
  <1> QED
    BY <1>6, <1>7

(* The authority keeps the promise the review batches are modelled on: what *)
(* a batch sees of receipts and pools only ever moves forward.             *)
THEOREM PromiseIsKept == Spec => KeepsItsPromise
  <1>1. Init => Seen!Init
    <2> SUFFICES ASSUME Init PROVE Seen!Init
      OBVIOUS
    <2>1. SeenReceipts = {}
      BY DEF Init, SeenReceipts
    <2>2. SeenPools = [p \in Pools |-> "SEALED"]
      BY DEF Init, SeenPools, PoolIn, Stored
    <2> QED
      BY <2>1, <2>2 DEF Seen!Init
  <1>2. IInv /\ [Next]_vars => [Seen!Next]_(Seen!facts)
    <2>1. CASE OutsideStep \/ UNCHANGED vars
      <3>1. UNCHANGED storeVars
        BY <2>1 DEF OutsideStep, ChangeItems, ChangeKey, EligibilityStep, vars, storeVars
      <3>2. SeenReceipts' = SeenReceipts /\ SeenPools' = SeenPools
        BY <3>1 DEF storeVars, SeenReceipts, SeenPools, PoolIn, Stored
      <3> QED
        BY <3>2 DEF Seen!facts
    <2> QED
      BY <2>1, SeenAfterPoolStep, SeenAfterAttemptStep, SeenAfterReceiptStep DEF Next
  <1> QED
    BY <1>1, <1>2, SpecIInv, PTL DEF Spec, KeepsItsPromise, Seen!Spec

-----------------------------------------------------------------------------
(* The audits.                                                             *)

PoolAuditTold(p) ==
  IF Stored(p)
  THEN /\ poolAudit[p] # <<>> /\ poolAudit[p][1] = "pool_registered"
       /\ Len(poolAudit[p]) <= PoolRank(p)
       /\ \A n \in 2..Len(poolAudit[p]) :
            poolAudit[p][n] = PoolStory[PoolRank(p) - Len(poolAudit[p]) + n]
  ELSE poolAudit[p] = <<>>
AttemptAuditTold(a) == attemptAudit[a] = IF Exists(a) THEN AttemptStory(a) ELSE <<>>

(* One step onwards is one more event of the story.                         *)
LEMMA StoryGoesOn ==
  ASSUME TypeOK, NEW p \in Pools, Stored(p), PoolAuditTold(p),
         Stored(p)', PoolRank(p) \in 1..3, PoolRank(p)' = PoolRank(p) + 1,
         poolAudit' = [poolAudit EXCEPT ![p] = Append(@, PoolStory[PoolRank(p) + 1])]
  PROVE  PoolAuditTold(p)'
  <1> DEFINE s == poolAudit[p]
             rank == PoolRank(p)
             event == PoolStory[rank + 1]
  <1>1. s \in Seq(AuditEvents) /\ Len(s) \in Nat /\ s # <<>> /\ s[1] = "pool_registered" /\ Len(s) <= rank
    BY DEF TypeOK, PoolAuditTold
  <1>2. Len(s) >= 1
    BY <1>1
  <1>3. \A n \in 2..Len(s) : s[n] = PoolStory[rank - Len(s) + n]
    BY DEF PoolAuditTold
  <1>4. poolAudit'[p] = Append(s, event)
    BY DEF TypeOK
  <1> HIDE DEF s, rank, event
  <1>5. /\ Len(Append(s, event)) = Len(s) + 1
        /\ \A n \in 1..Len(s) : Append(s, event)[n] = s[n]
        /\ Append(s, event)[Len(s) + 1] = event
        /\ Append(s, event) # <<>>
    BY <1>1
  <1>6. PoolRank(p)' = rank + 1 /\ rank \in 1..3
    BY DEF rank
  <1>7. \A n \in 2..(Len(s) + 1) : Append(s, event)[n] = PoolStory[(rank + 1) - (Len(s) + 1) + n]
    <2> TAKE n \in 2..(Len(s) + 1)
    <2>1. CASE n = Len(s) + 1
      <3>1. (rank + 1) - (Len(s) + 1) + n = rank + 1
        BY <1>1, <1>6, <2>1
      <3> QED
        BY <1>5, <2>1, <3>1 DEF event
    <2>2. CASE n # Len(s) + 1
      <3>1. n \in 2..Len(s) /\ (rank + 1) - (Len(s) + 1) + n = rank - Len(s) + n
        BY <1>1, <1>6, <2>2
      <3> QED
        BY <1>3, <1>5, <3>1
    <2> QED
      BY <2>1, <2>2
  <1>8. Append(s, event)[1] = "pool_registered" /\ Len(s) + 1 <= rank + 1
    BY <1>1, <1>2, <1>5, <1>6
  <1> QED
    BY <1>4, <1>5, <1>6, <1>7, <1>8 DEF PoolAuditTold

LEMMA PoolAuditStep ==
  ASSUME IInv, PoolStep, NEW q \in Pools, PoolAuditTold(q)
  PROVE  PoolAuditTold(q)'
  <1>0. TypeOK
    BY DEF IInv
  <1>1. PICK p \in Pools :
          \/ \E state \in PoolStates, c \in Keys \cup {NoRow} : RegisterQualificationPool(p, state, c)
          \/ SealQualificationPool(p)
          \/ ActivateQualificationPool(p)
          \/ RetireQualificationPool(p)
    BY DEF PoolStep
  <1>2. Stored(p) => Stored(p)'
    <2>1. PICK b \in Pools, row \in PoolRows : pools' = [pools EXCEPT ![b] = row]
      BY PoolStepChanges
    <2> QED
      BY <1>0, <2>1, NoRowIsNoValue DEF Stored, TypeOK
  <1>3. CASE q # p
    <2>1. pools'[q] = pools[q] /\ poolAudit'[q] = poolAudit[q]
      BY <1>0, <1>1, <1>3 DEF TypeOK, RegisterQualificationPool, SealQualificationPool,
        ActivateQualificationPool, RetireQualificationPool, Advance
    <2> QED
      BY <2>1 DEF PoolAuditTold, Stored, PoolRank
  <1>4. CASE q = p
    <2>1. ASSUME NEW state \in PoolStates, NEW c \in Keys \cup {NoRow}, RegisterQualificationPool(p, state, c)
          PROVE  PoolAuditTold(q)'
      <3>1. ~Stored(p) /\ poolAudit[p] = <<>> /\ pools'[p] = [state |-> state, commitment |-> c]
        BY <1>0, <1>4, <2>1 DEF RegisterQualificationPool, PoolAuditTold, TypeOK
      <3>2. poolAudit'[p] = Append(<<>>, "pool_registered")
        BY <1>0, <2>1, <3>1 DEF RegisterQualificationPool, TypeOK
      <3>3. poolAudit'[p] = <<"pool_registered">>
        BY <3>2
      <3>4. PoolRank(p)' \in 1..4
        BY <3>1 DEF PoolRank, PoolStates
      <3>5. Len(<<"pool_registered">>) = 1 /\ <<"pool_registered">> # <<>> /\ <<"pool_registered">>[1] = "pool_registered"
        OBVIOUS
      <3>6. Stored(p)'
        <4>1. [state |-> state, commitment |-> c] \in PoolRows
          BY <2>1 DEF RegisterQualificationPool, PoolRows
        <4> QED
          BY <3>1, <4>1, NoRowIsNoValue DEF Stored
      <3> QED
        BY <1>4, <3>3, <3>4, <3>5, <3>6 DEF PoolAuditTold
    <2>2. ASSUME NEW state, NEW c, NEW event, Stored(p), Advance(p, state, c, event)
          PROVE  /\ pools'[p] = [state |-> state, commitment |-> c]
                 /\ poolAudit' = [poolAudit EXCEPT ![p] = Append(@, event)]
      BY <1>0, <2>2 DEF Advance, TypeOK
    <2>3. CASE SealQualificationPool(p)
      <3>1. /\ Stored(p) /\ pools[p].state = "DRAFT"
            /\ Advance(p, "SEALED", material[p].key, "pool_sealed")
        BY <2>3 DEF SealQualificationPool, PoolIn
      <3>2. PICK key : key = material[p].key
        OBVIOUS
      <3>3. /\ pools'[p] = [state |-> "SEALED", commitment |-> key]
            /\ poolAudit' = [poolAudit EXCEPT ![p] = Append(@, "pool_sealed")]
        BY <2>2, <3>1, <3>2
      <3>4. /\ PoolRank(p) \in 1..3 /\ PoolRank(p)' = PoolRank(p) + 1
            /\ PoolStory[PoolRank(p) + 1] = "pool_sealed"
        BY <3>1, <3>3 DEF PoolRank, PoolStory
      <3>5. Stored(p)'
        BY <1>2, <3>1
      <3>6. poolAudit' = [poolAudit EXCEPT ![p] = Append(@, PoolStory[PoolRank(p) + 1])]
        BY <3>3, <3>4
      <3>7. PoolAuditTold(p)'
        BY <1>0, <1>4, <3>1, <3>4, <3>5, <3>6, StoryGoesOn
      <3> QED
        BY <1>4, <3>7
    <2>4. CASE ActivateQualificationPool(p)
      <3>1. /\ Stored(p) /\ pools[p].state = "SEALED"
            /\ Advance(p, "ACTIVE", pools[p].commitment, "pool_activated")
        BY <2>4 DEF ActivateQualificationPool, PoolIn
      <3>2. PICK key : key = pools[p].commitment
        OBVIOUS
      <3>3. /\ pools'[p] = [state |-> "ACTIVE", commitment |-> key]
            /\ poolAudit' = [poolAudit EXCEPT ![p] = Append(@, "pool_activated")]
        BY <2>2, <3>1, <3>2
      <3>4. /\ PoolRank(p) \in 1..3 /\ PoolRank(p)' = PoolRank(p) + 1
            /\ PoolStory[PoolRank(p) + 1] = "pool_activated"
        BY <3>1, <3>3 DEF PoolRank, PoolStory
      <3>5. Stored(p)'
        BY <1>2, <3>1
      <3>6. poolAudit' = [poolAudit EXCEPT ![p] = Append(@, PoolStory[PoolRank(p) + 1])]
        BY <3>3, <3>4
      <3>7. PoolAuditTold(p)'
        BY <1>0, <1>4, <3>1, <3>4, <3>5, <3>6, StoryGoesOn
      <3> QED
        BY <1>4, <3>7
    <2>5. CASE RetireQualificationPool(p)
      <3>1. /\ Stored(p) /\ pools[p].state = "ACTIVE"
            /\ Advance(p, "RETIRED", pools[p].commitment, "pool_retired")
        BY <2>5 DEF RetireQualificationPool, PoolIn
      <3>2. PICK key : key = pools[p].commitment
        OBVIOUS
      <3>3. /\ pools'[p] = [state |-> "RETIRED", commitment |-> key]
            /\ poolAudit' = [poolAudit EXCEPT ![p] = Append(@, "pool_retired")]
        BY <2>2, <3>1, <3>2
      <3>4. /\ PoolRank(p) \in 1..3 /\ PoolRank(p)' = PoolRank(p) + 1
            /\ PoolStory[PoolRank(p) + 1] = "pool_retired"
        BY <3>1, <3>3 DEF PoolRank, PoolStory
      <3>5. Stored(p)'
        BY <1>2, <3>1
      <3>6. poolAudit' = [poolAudit EXCEPT ![p] = Append(@, PoolStory[PoolRank(p) + 1])]
        BY <3>3, <3>4
      <3>7. PoolAuditTold(p)'
        BY <1>0, <1>4, <3>1, <3>4, <3>5, <3>6, StoryGoesOn
      <3> QED
        BY <1>4, <3>7
    <2> QED
      BY <1>1, <2>1, <2>3, <2>4, <2>5
  <1> QED
    BY <1>3, <1>4

LEMMA ShortStories ==
  ASSUME NEW e, NEW f, NEW g
  PROVE  (<<e>> \o <<>>) \o <<f, g>> = <<e, f, g>> \o <<>>
  <1>1. <<e>> \o <<>> = <<e>> /\ <<e, f, g>> \o <<>> = <<e, f, g>>
    OBVIOUS
  <1>2. <<e>> \o <<f, g>> = <<e, f, g>>
    <2> DEFINE S == {e, f, g}
    <2>1. <<e>> \in Seq(S) /\ <<f, g>> \in Seq(S) /\ <<e, f, g>> \in Seq(S)
      OBVIOUS
    <2>2. <<e>> \o <<f, g>> \in Seq(S) /\ Len(<<e>> \o <<f, g>>) = 3
      BY <2>1
    <2>3. \A i \in 1..3 : (<<e>> \o <<f, g>>)[i] = <<e, f, g>>[i]
      BY <2>1
    <2>4. Len(<<e, f, g>>) = 3
      OBVIOUS
    <2> HIDE DEF S
    <2> QED
      BY <2>1, <2>2, <2>3, <2>4, SeqEqual
  <1> QED
    BY <1>1, <1>2

LEMMA AttemptAuditStep ==
  ASSUME IInv, AttemptStep, NEW b \in Attempts, AttemptAuditTold(b)
  PROVE  AttemptAuditTold(b)'
  <1>1. TypeOK /\ receipts' = receipts /\ (~Exists(b) \/ attempts[b].state = "ISSUED" => receipts[b] = NoRow)
    BY AttemptStepChanges DEF IInv, AttemptsBelongToPools, ReceiptsAreEarned
  <1>2. PICK a \in Attempts :
          \/ \E r \in Reviewers, p \in Pools : CreateQualificationAttempt(a, r, p)
          \/ \E r \in Reviewers, p \in Pools, state \in AttemptStates :
               ImportLegacyAttempt(a, r, p, state)
          \/ \E answer \in Keys : SubmitQualificationAttempt(a, answer)
    BY DEF AttemptStep
  <1>3. CASE b # a
    <2>1. attempts'[b] = attempts[b] /\ attemptAudit'[b] = attemptAudit[b]
      BY <1>1, <1>2, <1>3 DEF TypeOK, CreateQualificationAttempt, ImportLegacyAttempt, AddAttempt,
        SubmitQualificationAttempt, Evaluate
    <2> QED
      BY <1>1, <2>1 DEF AttemptAuditTold, AttemptStory, Exists
  <1>4. CASE b = a
    <2>1. ASSUME NEW r \in Reviewers, NEW p \in Pools, CreateQualificationAttempt(a, r, p)
          PROVE  AttemptAuditTold(b)'
      <3>1. /\ attempts'[b] = [reviewer |-> r, pool |-> p, state |-> "ISSUED", answer |-> NoRow]
            /\ attemptAudit'[b] = <<"attempt_issued">>
            /\ receipts'[b] = NoRow
        BY <1>1, <1>4, <2>1 DEF CreateQualificationAttempt, AddAttempt, TypeOK
      <3>2. [reviewer |-> r, pool |-> p, state |-> "ISSUED", answer |-> NoRow] \in AttemptRows
        BY DEF AttemptRows, AttemptStates
      <3>3. Exists(b)'
        BY <3>1, <3>2, NoRowIsNoValue DEF Exists
      <3>4. AttemptStory(b)' = <<"attempt_issued">> \o <<>>
        BY <3>1 DEF AttemptStory
      <3> QED
        BY <3>1, <3>3, <3>4 DEF AttemptAuditTold
    <2>2. ASSUME NEW r \in Reviewers, NEW p \in Pools, NEW state \in AttemptStates,
                 ImportLegacyAttempt(a, r, p, state)
          PROVE  AttemptAuditTold(b)'
      <3>1. /\ attempts'[b] = [reviewer |-> r, pool |-> p, state |-> state, answer |-> NoRow]
            /\ state # "ISSUED"
            /\ attemptAudit'[b] = <<>>
            /\ receipts'[b] = NoRow
        BY <1>1, <1>4, <2>2 DEF ImportLegacyAttempt, AddAttempt, TypeOK
      <3>2. [reviewer |-> r, pool |-> p, state |-> state, answer |-> NoRow] \in AttemptRows
        BY <3>1 DEF AttemptRows
      <3>3. Exists(b)'
        BY <3>1, <3>2, NoRowIsNoValue DEF Exists
      <3>4. AttemptStory(b)' = <<>> \o <<>>
        BY <3>1 DEF AttemptStory
      <3> QED
        BY <3>1, <3>3, <3>4 DEF AttemptAuditTold
    <2>3. ASSUME NEW answer \in Keys, SubmitQualificationAttempt(a, answer)
          PROVE  AttemptAuditTold(b)'
      <3>1. Exists(b) /\ attempts[b].state = "ISSUED" /\ attempts[b] \in AttemptRows /\ Evaluate(b, answer)
        BY <1>1, <1>4, <2>3, RowTypes DEF SubmitQualificationAttempt
      <3>2. PICK passed \in BOOLEAN : passed = (answer = material[attempts[b].pool].key)
        OBVIOUS
      <3> DEFINE verdict == IF passed THEN "qualification_passed" ELSE "qualification_failed"
                 result == IF passed THEN "QUALIFIED" ELSE "NOT_QUALIFIED"
                 row == [attempts[b] EXCEPT !.state = result, !.answer = answer]
      <3>3. attempts'[b] = row /\ attemptAudit'[b] = attemptAudit[b] \o <<"response_submitted", verdict>>
        BY <1>1, <3>1, <3>2 DEF Evaluate, TypeOK
      <3>4. row \in AttemptRows /\ row.answer = answer /\ row.state = result /\ answer # NoRow
        BY <3>1, NoRowIsNoValue DEF AttemptRows, AttemptStates
      <3>5. attemptAudit[b] = <<"attempt_issued">> \o <<>>
        BY <1>1, <3>1, NoRowIsNoValue DEF AttemptAuditTold, AttemptStory, AttemptRows
      <3>6. (result = "QUALIFIED") <=> passed
        OBVIOUS
      <3> HIDE DEF row
      <3>7. AttemptStory(b)' = <<"attempt_issued", "response_submitted", verdict>> \o <<>>
        BY <1>1, <3>1, <3>3, <3>4, <3>6 DEF AttemptStory
      <3>8. Exists(b)'
        BY <3>3, <3>4, NoRowIsNoValue DEF Exists
      <3>9. (<<"attempt_issued">> \o <<>>) \o <<"response_submitted", verdict>>
              = <<"attempt_issued", "response_submitted", verdict>> \o <<>>
        BY ShortStories
      <3> QED
        BY <3>3, <3>5, <3>7, <3>8, <3>9 DEF AttemptAuditTold
    <2> QED
      BY <1>2, <2>1, <2>2, <2>3
  <1> QED
    BY <1>3, <1>4

LEMMA ReceiptAuditStep ==
  ASSUME IInv, ReceiptStep, NEW b \in Attempts, AttemptAuditTold(b)
  PROVE  AttemptAuditTold(b)'
  <1>1. TypeOK /\ attempts' = attempts
    BY ReceiptStepChanges DEF IInv
  <1>2. PICK a \in Attempts :
          \/ IssueQualificationReceipt(a)
          \/ \E form \in Forms : RegisterAuthoritativeQualificationReceipt(a, form)
    BY DEF ReceiptStep
  <1>3. CASE b # a
    <2>1. receipts'[b] = receipts[b] /\ attemptAudit'[b] = attemptAudit[b]
      BY <1>1, <1>2, <1>3 DEF TypeOK, IssueQualificationReceipt, RegisterAuthoritativeQualificationReceipt
    <2> QED
      BY <1>1, <2>1 DEF AttemptAuditTold, AttemptStory, Exists
  <1>4. CASE b = a /\ IssueQualificationReceipt(a)
    <2>1. /\ Exists(b) /\ attempts[b].state = "QUALIFIED" /\ attempts[b].answer # NoRow
          /\ receipts[b] = NoRow
          /\ receipts'[b] = ServiceForm
          /\ attemptAudit'[b] = Append(attemptAudit[b], "receipt_issued")
      BY <1>1, <1>4 DEF IssueQualificationReceipt, MayReceive, Unclaimed, TypeOK
    <2>2. ServiceForm # NoRow
      BY QualificationAssumption
    <2>3. attemptAudit[b] = <<"attempt_issued", "response_submitted", "qualification_passed">> \o <<>>
      BY <2>1 DEF AttemptAuditTold, AttemptStory
    <2>4. AttemptStory(b)'
            = <<"attempt_issued", "response_submitted", "qualification_passed">> \o <<"receipt_issued">>
      BY <1>1, <2>1, <2>2 DEF AttemptStory
    <2>5. Append(<<"attempt_issued", "response_submitted", "qualification_passed">> \o <<>>, "receipt_issued")
            = <<"attempt_issued", "response_submitted", "qualification_passed">> \o <<"receipt_issued">>
      OBVIOUS
    <2> QED
      BY <1>1, <2>1, <2>3, <2>4, <2>5 DEF AttemptAuditTold, Exists
  <1>5. CASE b = a /\ \E form \in Forms : RegisterAuthoritativeQualificationReceipt(a, form)
    <2>1. attempts[b].answer = NoRow /\ attemptAudit' = attemptAudit
      BY <1>5 DEF RegisterAuthoritativeQualificationReceipt
    <2> QED
      BY <1>1, <2>1 DEF AttemptAuditTold, AttemptStory, Exists
  <1> QED
    BY <1>2, <1>3, <1>4, <1>5

LEMMA AuditIsKept == IInv /\ AuditTellsTheStory /\ [Next]_vars => AuditTellsTheStory'
  <1> SUFFICES ASSUME IInv, AuditTellsTheStory, [Next]_vars
               PROVE  (\A p \in Pools : PoolAuditTold(p)') /\ (\A a \in Attempts : AttemptAuditTold(a)')
    BY DEF AuditTellsTheStory, PoolAuditTold, AttemptAuditTold
  <1>1. (\A p \in Pools : PoolAuditTold(p)) /\ (\A a \in Attempts : AttemptAuditTold(a))
    BY DEF AuditTellsTheStory, PoolAuditTold, AttemptAuditTold
  <1>2. ASSUME UNCHANGED <<pools, poolAudit>> PROVE \A p \in Pools : PoolAuditTold(p)'
    BY <1>1, <1>2 DEF PoolAuditTold, Stored, PoolRank
  <1>3. ASSUME UNCHANGED <<attempts, receipts, attemptAudit>> PROVE \A a \in Attempts : AttemptAuditTold(a)'
    BY <1>1, <1>3 DEF AttemptAuditTold, AttemptStory, Exists
  <1>4. CASE PoolStep
    BY <1>1, <1>3, <1>4, PoolAuditStep, PoolStepChanges
  <1>5. CASE AttemptStep
    BY <1>1, <1>2, <1>5, AttemptAuditStep, AttemptStepChanges
  <1>6. CASE ReceiptStep
    BY <1>1, <1>2, <1>6, ReceiptAuditStep, ReceiptStepChanges
  <1>7. CASE OutsideStep \/ UNCHANGED vars
    BY <1>2, <1>3, <1>7 DEF OutsideStep, ChangeItems, ChangeKey, EligibilityStep, storeVars, vars
  <1> QED
    BY <1>4, <1>5, <1>6, <1>7 DEF Next

(* Each event of a pool and of an attempt is recorded once and in order.     *)
THEOREM AuditIsComplete == Spec => []AuditTellsTheStory
  <1>1. Init => AuditTellsTheStory
    BY DEF Init, AuditTellsTheStory, Stored, Exists
  <1>2. IInv /\ AuditTellsTheStory /\ [Next]_vars => AuditTellsTheStory'
    BY AuditIsKept
  <1> QED
    BY <1>1, <1>2, SpecIInv, PTL DEF Spec
=============================================================================
