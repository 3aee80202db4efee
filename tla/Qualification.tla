--------------------------- MODULE Qualification ---------------------------
(***************************************************************************)
(* The qualification authority: pools of sealed material, attempts that are *)
(* evaluated against a private answer key, and the receipts that qualified *)
(* attempts earn.  Every action is one transaction of the service;         *)
(* transactions are serial (AuthorityTransactions says why).               *)
(*                                                                         *)
(* The material is not in the database: two files per pool, read anew by   *)
(* every transaction that needs them and changed by their owner at any     *)
(* time.  A step changes one of the files, so reading them one after the   *)
(* other sees what some state between two steps holds.                     *)
(*                                                                         *)
(* The fingerprints of a pool's definition and visible items are fixed by  *)
(* its identity; only the commitment to the answer key is kept.  An answer *)
(* sheet stands for the one key it matches in full.  Requests that name    *)
(* another reviewer's attempt, a wrong nonce or another packet are refused *)
(* and change nothing.                                                     *)
(***************************************************************************)
EXTENDS Integers, Sequences, FiniteSets

CONSTANTS Reviewers,    \* opaque reviewer ids
          Pools,        \* qualification pools, each one version
          Attempts,     \* attempt ids
          Keys,         \* answer keys, and the answer sheets that match them
          Forms,        \* what a legacy issuer may call the instrument
          ServiceForm,  \* what the service calls it in its own receipts
          MaxAttempts,  \* maxQualificationAttemptsPerReviewerPool
          NoRow         \* marks what is not stored

ASSUME QualificationAssumption ==
  /\ IsFiniteSet(Attempts)
  /\ ServiceForm \in Forms
  /\ MaxAttempts \in Nat \ {0}
  /\ NoRow \notin Keys \cup Forms

PoolStates == {"DRAFT", "SEALED", "ACTIVE", "RETIRED", "OPEN"}
AttemptStates == {"ISSUED", "QUALIFIED", "NOT_QUALIFIED"}

(* A pool is committed to a key from the moment it is sealed, a legacy pool *)
(* never is; an attempt under way has no answers yet.                      *)
PoolRows ==
  {row \in [state : PoolStates, commitment : Keys \cup {NoRow}] :
     /\ row.state \in {"SEALED", "ACTIVE", "RETIRED"} => row.commitment # NoRow
     /\ row.state = "OPEN" => row.commitment = NoRow}
AttemptRows ==
  {row \in [reviewer : Reviewers, pool : Pools, state : AttemptStates,
            answer : Keys \cup {NoRow}] :
     row.state = "ISSUED" => row.answer = NoRow}
Materials == [items : BOOLEAN, key : Keys \cup {NoRow}]
AuditEvents ==
  {"pool_registered", "pool_sealed", "pool_activated", "pool_retired", "attempt_issued",
   "response_submitted", "qualification_passed", "qualification_failed", "receipt_issued"}

ASSUME QualificationRowAssumption == NoRow \notin PoolRows \cup AttemptRows

VARIABLES pools,         \* pool rows
          attempts,      \* attempt rows
          receipts,      \* the instrument named by the receipt of an attempt
          poolAudit,     \* events recorded for a pool, in order
          attemptAudit,  \* events recorded for an attempt, in order
          material,      \* external: are the items as defined, and which key is there
          eligible       \* external: the reviewers with current authority

storeVars == <<pools, attempts, receipts, poolAudit, attemptAudit>>
vars == <<pools, attempts, receipts, poolAudit, attemptAudit, material, eligible>>

TypeOK ==
  /\ pools \in [Pools -> PoolRows \cup {NoRow}]
  /\ attempts \in [Attempts -> AttemptRows \cup {NoRow}]
  /\ receipts \in [Attempts -> Forms \cup {NoRow}]
  /\ poolAudit \in [Pools -> Seq(AuditEvents)]
  /\ attemptAudit \in [Attempts -> Seq(AuditEvents)]
  /\ material \in [Pools -> Materials]
  /\ eligible \subseteq Reviewers

Init ==
  /\ pools = [p \in Pools |-> NoRow]
  /\ attempts = [a \in Attempts |-> NoRow]
  /\ receipts = [a \in Attempts |-> NoRow]
  /\ poolAudit = [p \in Pools |-> <<>>]
  /\ attemptAudit = [a \in Attempts |-> <<>>]
  /\ material = [p \in Pools |-> [items |-> FALSE, key |-> NoRow]]
  /\ eligible = {}

Stored(p) == pools[p] # NoRow
Exists(a) == attempts[a] # NoRow
PoolIn(p, states) == Stored(p) /\ pools[p].state \in states
AttemptsOf(r, p) ==
  {a \in Attempts : Exists(a) /\ attempts[a].reviewer = r /\ attempts[a].pool = p}

-----------------------------------------------------------------------------
(* Pools.                                                                  *)

(* Faulty variant: the key that is there now is as good as the sealed one.  *)
LoadsAnyKey(p, commitment) == material[p].items /\ material[p].key # NoRow

(* The items have the fingerprint of the definition, the key covers them    *)
(* and is the one committed to, if there is a commitment.                  *)
Loads(p, commitment) ==
  /\ material[p].items
  /\ material[p].key # NoRow
  /\ commitment \in {NoRow, material[p].key}

(* Trusted setup.  A draft may name a commitment in advance, a pool that is *)
(* registered as sealed or later must, and a legacy pool never does.       *)
RegisterQualificationPool(p, state, commitment) ==
  /\ ~Stored(p)
  /\ state = "OPEN" => commitment = NoRow
  /\ state \in {"SEALED", "ACTIVE", "RETIRED"} => commitment # NoRow /\ Loads(p, commitment)
  /\ pools' = [pools EXCEPT ![p] = [state |-> state, commitment |-> commitment]]
  /\ poolAudit' = [poolAudit EXCEPT ![p] = Append(@, "pool_registered")]
  /\ UNCHANGED <<attempts, receipts, attemptAudit, material, eligible>>

Advance(p, state, commitment, event) ==
  /\ pools' = [pools EXCEPT ![p] = [state |-> state, commitment |-> commitment]]
  /\ poolAudit' = [poolAudit EXCEPT ![p] = Append(@, event)]
  /\ UNCHANGED <<attempts, receipts, attemptAudit, material, eligible>>

SealQualificationPool(p) ==
  /\ PoolIn(p, {"DRAFT"})
  /\ Loads(p, pools[p].commitment)
  /\ Advance(p, "SEALED", material[p].key, "pool_sealed")

(* Faulty variant: a retired pool can be activated again.                   *)
ReactivatePool(p) ==
  /\ PoolIn(p, {"SEALED", "RETIRED"})
  /\ Loads(p, pools[p].commitment)
  /\ Advance(p, "ACTIVE", pools[p].commitment, "pool_activated")

ActivateQualificationPool(p) ==
  /\ PoolIn(p, {"SEALED"})
  /\ Loads(p, pools[p].commitment)
  /\ Advance(p, "ACTIVE", pools[p].commitment, "pool_activated")

(* Faulty variant: a repeated retirement is recorded again.                 *)
RetireAgain(p) ==
  /\ PoolIn(p, {"ACTIVE", "RETIRED"})
  /\ Advance(p, "RETIRED", pools[p].commitment, "pool_retired")

RetireQualificationPool(p) ==
  /\ PoolIn(p, {"ACTIVE"})
  /\ Advance(p, "RETIRED", pools[p].commitment, "pool_retired")

-----------------------------------------------------------------------------
(* Attempts.                                                               *)

AddAttempt(a, row, events) ==
  /\ ~Exists(a)
  /\ attempts' = [attempts EXCEPT ![a] = row]
  /\ attemptAudit' = [attemptAudit EXCEPT ![a] = events]
  /\ UNCHANGED <<pools, receipts, poolAudit, material, eligible>>

CreateQualificationAttempt(a, r, p) ==
  /\ r \in eligible
  /\ PoolIn(p, {"ACTIVE"})
  /\ Cardinality(AttemptsOf(r, p)) < MaxAttempts
  /\ Loads(p, pools[p].commitment)
  /\ AddAttempt(a, [reviewer |-> r, pool |-> p, state |-> "ISSUED", answer |-> NoRow],
                <<"attempt_issued">>)

(* A migrated row of the first service version: a result without answers,   *)
(* only in a legacy pool, recorded nowhere.                                *)
ImportLegacyAttempt(a, r, p, state) ==
  /\ PoolIn(p, {"OPEN"})
  /\ state # "ISSUED"
  /\ AddAttempt(a, [reviewer |-> r, pool |-> p, state |-> state, answer |-> NoRow], <<>>)

Evaluate(a, answer) ==
  LET passed == answer = material[attempts[a].pool].key IN
  /\ attempts' = [attempts EXCEPT
       ![a].state = IF passed THEN "QUALIFIED" ELSE "NOT_QUALIFIED",
       ![a].answer = answer]
  /\ attemptAudit' = [attemptAudit EXCEPT ![a] = @ \o
       <<"response_submitted", IF passed THEN "qualification_passed" ELSE "qualification_failed">>]
  /\ UNCHANGED <<pools, receipts, poolAudit, material, eligible>>

(* Recorded as submitted and evaluated in one transaction; the pool may     *)
(* have retired since the attempt was issued.                              *)
SubmitQualificationAttempt(a, answer) ==
  /\ Exists(a) /\ attempts[a].state = "ISSUED"
  /\ attempts[a].reviewer \in eligible
  /\ PoolIn(attempts[a].pool, {"ACTIVE", "RETIRED"})
  /\ Loads(attempts[a].pool, pools[attempts[a].pool].commitment)
  /\ Evaluate(a, answer)

-----------------------------------------------------------------------------
(* Receipts.                                                               *)

(* The fingerprint of a receipt covers the reviewer, the pool and the       *)
(* instrument, not the attempt.                                            *)
Fingerprint(a, form) == <<attempts[a].reviewer, attempts[a].pool, form>>
Unclaimed(a, form) ==
  /\ receipts[a] = NoRow
  /\ \A b \in Attempts : receipts[b] # NoRow => Fingerprint(b, receipts[b]) # Fingerprint(a, form)

(* Faulty variant: a retired pool issues nothing any more.                  *)
MayReceiveWhileActive(a) ==
  /\ Exists(a) /\ attempts[a].state = "QUALIFIED" /\ attempts[a].answer # NoRow
  /\ PoolIn(attempts[a].pool, {"ACTIVE"})
  /\ Unclaimed(a, ServiceForm)

MayReceive(a) ==
  /\ Exists(a) /\ attempts[a].state = "QUALIFIED" /\ attempts[a].answer # NoRow
  /\ PoolIn(attempts[a].pool, {"ACTIVE", "RETIRED"})
  /\ Unclaimed(a, ServiceForm)

(* Faulty variant: an evaluated attempt is taken for a passed one.          *)
ReceiptOfEvaluated(a) ==
  /\ Exists(a) /\ attempts[a].answer # NoRow
  /\ Unclaimed(a, ServiceForm)
  /\ receipts' = [receipts EXCEPT ![a] = ServiceForm]
  /\ attemptAudit' = [attemptAudit EXCEPT ![a] = Append(@, "receipt_issued")]
  /\ UNCHANGED <<pools, attempts, poolAudit, material, eligible>>

(* The reviewer's consent is not asked again.                               *)
IssueQualificationReceipt(a) ==
  /\ MayReceive(a)
  /\ receipts' = [receipts EXCEPT ![a] = ServiceForm]
  /\ attemptAudit' = [attemptAudit EXCEPT ![a] = Append(@, "receipt_issued")]
  /\ UNCHANGED <<pools, attempts, poolAudit, material, eligible>>

(* The migration boundary: an issuer's receipt of a migrated attempt.       *)
RegisterAuthoritativeQualificationReceipt(a, form) ==
  /\ Exists(a) /\ attempts[a].state = "QUALIFIED" /\ attempts[a].answer = NoRow
  /\ PoolIn(attempts[a].pool, {"OPEN"})
  /\ Unclaimed(a, form)
  /\ receipts' = [receipts EXCEPT ![a] = form]
  /\ UNCHANGED <<pools, attempts, poolAudit, attemptAudit, material, eligible>>

-----------------------------------------------------------------------------
(* What is outside: the owner of the material replaces one file, and a      *)
(* reviewer gains or loses authority, as EligibilityFacts promises for      *)
(* accounts that are never closed for good, and ReviewerAuthority keeps.    *)

ChangeItems(p) ==
  /\ material' = [material EXCEPT ![p].items = ~@]
  /\ UNCHANGED <<storeVars, eligible>>

ChangeKey(p, key) ==
  /\ material' = [material EXCEPT ![p].key = key]
  /\ UNCHANGED <<storeVars, eligible>>

Eligibility == INSTANCE EligibilityFacts WITH closed <- {}

EligibilityStep ==
  /\ Eligibility!Next
  /\ UNCHANGED <<storeVars, material>>

-----------------------------------------------------------------------------
PoolStep ==
  \E p \in Pools :
    \/ \E state \in PoolStates, c \in Keys \cup {NoRow} : RegisterQualificationPool(p, state, c)
    \/ SealQualificationPool(p)
    \/ ActivateQualificationPool(p)
    \/ RetireQualificationPool(p)

AttemptStep ==
  \E a \in Attempts :
    \/ \E r \in Reviewers, p \in Pools :
         \/ CreateQualificationAttempt(a, r, p)
         \/ \E state \in AttemptStates : ImportLegacyAttempt(a, r, p, state)
    \/ \E answer \in Keys : SubmitQualificationAttempt(a, answer)

ReceiptStep ==
  \E a \in Attempts :
    \/ IssueQualificationReceipt(a)
    \/ \E form \in Forms : RegisterAuthoritativeQualificationReceipt(a, form)

OutsideStep ==
  \/ \E p \in Pools : ChangeItems(p) \/ \E key \in Keys \cup {NoRow} : ChangeKey(p, key)
  \/ EligibilityStep

Next == PoolStep \/ AttemptStep \/ ReceiptStep \/ OutsideStep

Spec == Init /\ [][Next]_vars

-----------------------------------------------------------------------------
(* Properties.                                                             *)

(* Whatever became of the files since the pool was sealed, an attempt was   *)
(* evaluated with the key the pool is committed to.                        *)
EvaluatedByCommittedKey ==
  \A a \in Attempts : Exists(a) /\ attempts[a].answer # NoRow =>
    /\ Stored(attempts[a].pool)
    /\ attempts[a].state # "ISSUED"
    /\ attempts[a].state = "QUALIFIED" <=> attempts[a].answer = pools[attempts[a].pool].commitment

(* A reviewer has no more attempts on a pool than allowed, however their    *)
(* creation, evaluation and the retirement of the pool interleave.         *)
AttemptsAreLimited ==
  \A r \in Reviewers, p \in Pools :
    PoolIn(p, PoolStates \ {"OPEN"}) => Cardinality(AttemptsOf(r, p)) <= MaxAttempts

(* A receipt belongs to a qualified attempt, in a pool of the service to    *)
(* one that gave the committed answers, and no two receipts are alike.     *)
ReceiptsAreEarned ==
  \A a \in Attempts : receipts[a] # NoRow =>
    /\ Exists(a) /\ Stored(attempts[a].pool)
    /\ attempts[a].state = "QUALIFIED"
    /\ pools[attempts[a].pool].state # "OPEN" =>
         attempts[a].answer = pools[attempts[a].pool].commitment
    /\ \A b \in Attempts : receipts[b] # NoRow /\ Fingerprint(b, receipts[b]) = Fingerprint(a, receipts[a]) => b = a

(* Whoever qualified has a receipt of the pool or can still have one:       *)
(* retirement of the pool and lost authority do not forfeit it.            *)
QualifiedMayCollect ==
  \A a \in Attempts :
    Exists(a) /\ attempts[a].state = "QUALIFIED" /\ PoolIn(attempts[a].pool, PoolStates \ {"OPEN"}) =>
      \/ MayReceive(a)
      \/ \E b \in AttemptsOf(attempts[a].reviewer, attempts[a].pool) : receipts[b] # NoRow

PoolStory ==
  <<"pool_registered", "pool_sealed", "pool_activated", "pool_retired">>
PoolRank(p) ==
  CASE pools[p].state \in {"DRAFT", "OPEN"} -> 1
    [] pools[p].state = "SEALED"  -> 2
    [] pools[p].state = "ACTIVE"  -> 3
    [] pools[p].state = "RETIRED" -> 4

AttemptStory(a) ==
  (CASE attempts[a].answer # NoRow ->
          <<"attempt_issued", "response_submitted",
            IF attempts[a].state = "QUALIFIED" THEN "qualification_passed"
                                               ELSE "qualification_failed">>
     [] attempts[a].state = "ISSUED" -> <<"attempt_issued">>
     [] OTHER -> <<>>)
  \o (IF receipts[a] # NoRow /\ attempts[a].answer # NoRow THEN <<"receipt_issued">> ELSE <<>>)

(* Each event of a pool and of an attempt is recorded once and in order; a  *)
(* pool may enter with a later state, its audit then says less.            *)
AuditTellsTheStory ==
  /\ \A p \in Pools :
       IF Stored(p)
       THEN /\ poolAudit[p] # <<>> /\ poolAudit[p][1] = "pool_registered"
            /\ Len(poolAudit[p]) <= PoolRank(p)
            /\ \A n \in 2..Len(poolAudit[p]) :
                 poolAudit[p][n] = PoolStory[PoolRank(p) - Len(poolAudit[p]) + n]
       ELSE poolAudit[p] = <<>>
  /\ \A a \in Attempts :
       attemptAudit[a] = IF Exists(a) THEN AttemptStory(a) ELSE <<>>

PoolKeeps(p) ==
  Stored(p) =>
    /\ pools[p].state # "DRAFT" => pools'[p].commitment = pools[p].commitment
    /\ pools[p].state = "RETIRED" =>
         {a \in Attempts : Exists(a) /\ attempts[a].pool = p}' =
         {a \in Attempts : Exists(a) /\ attempts[a].pool = p}

AttemptKeeps(a) ==
  /\ Exists(a) /\ attempts[a].state # "ISSUED" => attempts'[a] = attempts[a]
  /\ receipts[a] # NoRow => receipts'[a] = receipts[a]

(* What is sealed, evaluated or issued is final: a sealed pool keeps its    *)
(* commitment, a retired one gets no new attempt, a result and a receipt   *)
(* never change.                                                           *)
DecisionsAreFinal ==
  [][(\A p \in Pools : PoolKeeps(p)) /\ (\A a \in Attempts : AttemptKeeps(a))]_vars

-----------------------------------------------------------------------------
(* The batches see receipts of pools that can be active.                   *)

SeenReceipts ==
  {<<attempts[a].reviewer, attempts[a].pool>> :
     a \in {b \in Attempts : receipts[b] # NoRow /\ pools[attempts[b].pool].state # "OPEN"}}
SeenPools ==
  [p \in Pools |-> IF PoolIn(p, {"ACTIVE", "RETIRED"}) THEN pools[p].state ELSE "SEALED"]

Seen == INSTANCE QualificationFacts WITH receipts <- SeenReceipts, poolState <- SeenPools

(* The authority keeps the promise the review batches build on.             *)
KeepsItsPromise == Seen!Spec
=============================================================================
