-------------------------- MODULE IntakeOperations --------------------------
(***************************************************************************)
(* The operations of the application intake service on a snapshot of its    *)
(* four tables: applications, contact rows, idempotency keys and audit.     *)
(* Each operator is the callback of one transaction: the set of table       *)
(* contents it may leave behind, empty when the service refuses the         *)
(* request.  ApplicationIntake applies them to the tables themselves,       *)
(* AuthorityTransactions to the snapshot a transaction has loaded.          *)
(*                                                                         *)
(* Withdrawal credentials are left out: a request without the right one is  *)
(* refused before anything is read.  So is the intake switch, which only    *)
(* turns submissions off.                                                  *)
(***************************************************************************)
EXTENDS Integers, Sequences, FiniteSets

CONSTANTS Applications,       \* opaque application ids, ordered
          Keys,               \* idempotency keys of applicants
          Bodies,             \* request bodies, up to their fingerprint
          Instants,           \* what the service clock may read
          PendingRetention,   \* how long an undecided application is kept
          DecisionRetention,  \* how long a decided one is kept
          NoRow               \* marks a row that is not stored

ASSUME IntakeAssumption ==
  /\ Applications \subseteq Nat
  /\ Instants \subseteq Nat
  /\ PendingRetention \in Nat \ {0}
  /\ DecisionRetention \in Nat \ {0}

Lifecycles == {"ACTIVE", "WITHDRAWN", "PURGED"}
ManualDecisions == {"INVITED", "DECLINED"}
Decisions == {"PENDING"} \cup ManualDecisions

ApplicationRows ==
  [lifecycle : Lifecycles, decision : Decisions, expires : Nat]
KeyRows == [request : Bodies, application : Applications]
AuditEvents == {"submitted", "withdrawn", "purged"} \cup ManualDecisions

ASSUME IntakeRowAssumption == NoRow \notin ApplicationRows \cup KeyRows

Tables ==
  [applications : [Applications -> ApplicationRows \cup {NoRow}],
   contacts     : SUBSET Applications,
   idempotency  : [Keys -> KeyRows \cup {NoRow}],
   audit        : [Applications -> Seq(AuditEvents)]]

EmptyTables ==
  [applications |-> [a \in Applications |-> NoRow],
   contacts     |-> {},
   idempotency  |-> [k \in Keys |-> NoRow],
   audit        |-> [a \in Applications |-> <<>>]]

Stored(db, a) == db.applications[a] # NoRow
Active(db, a) == Stored(db, a) /\ db.applications[a].lifecycle = "ACTIVE"
Free(db) == {a \in Applications : ~Stored(db, a)}

-----------------------------------------------------------------------------
(* Submission.                                                             *)

NewApplication(t) ==
  [lifecycle |-> "ACTIVE", decision |-> "PENDING", expires |-> t + PendingRetention]

WithNewApplication(db, key, body, t, a) ==
  [applications |-> [db.applications EXCEPT ![a] = NewApplication(t)],
   contacts     |-> db.contacts \cup {a},
   idempotency  |-> [db.idempotency EXCEPT ![key] = [request |-> body, application |-> a]],
   audit        |-> [db.audit EXCEPT ![a] = Append(@, "submitted")]]

(* Faulty variant: the idempotency table is written and never read.         *)
SubmissionWithoutReplay(db, key, body, t) ==
  {WithNewApplication(db, key, body, t, a) : a \in Free(db)}

(* A retry with the same body replays the stored receipt, another body      *)
(* under the same key is a conflict, a new key takes a fresh random id.     *)
SubmissionResults(db, key, body, t) ==
  IF db.idempotency[key] = NoRow
    THEN {WithNewApplication(db, key, body, t, a) : a \in Free(db)}
  ELSE IF db.idempotency[key].request = body
    THEN {db}
    ELSE {}

-----------------------------------------------------------------------------
(* The operator's decision.                                                *)

WithDecision(db, a, decision, t) ==
  [db EXCEPT !.applications[a].decision = decision,
             !.applications[a].expires = t + DecisionRetention,
             !.audit[a] = Append(@, decision)]

(* Faulty variant: the lifecycle of the application is not looked at.       *)
DecisionOnTombstone(db, a, decision, t) ==
  IF Stored(db, a) /\ db.applications[a].decision = "PENDING"
    THEN {WithDecision(db, a, decision, t)}
    ELSE {}

(* Faulty variant: repeating a decision records it once more.               *)
DecisionRepeated(db, a, decision, t) ==
  IF Active(db, a) /\ db.applications[a].decision \in {"PENDING", decision}
    THEN {WithDecision(db, a, decision, t)}
    ELSE {}

(* Repeating the recorded decision changes nothing; reversing it is a       *)
(* conflict.                                                               *)
DecisionResults(db, a, decision, t) ==
  IF ~Active(db, a) THEN {}
  ELSE IF db.applications[a].decision = "PENDING"
    THEN {WithDecision(db, a, decision, t)}
  ELSE IF db.applications[a].decision = decision
    THEN {db}
    ELSE {}

-----------------------------------------------------------------------------
(* Withdrawal by the applicant and purge after the retention period.       *)

(* Faulty variant: the purge leaves the contact rows behind.                *)
PurgeKeepingContacts(db, cutoff) ==
  LET due == {a \in Applications : Active(db, a) /\ db.applications[a].expires <= cutoff} IN
  {[db EXCEPT
      !.applications = [a \in Applications |->
                          IF a \in due THEN [@[a] EXCEPT !.lifecycle = "PURGED"] ELSE @[a]],
      !.audit = [a \in Applications |->
                   IF a \in due THEN Append(@[a], "purged") ELSE @[a]]]}

(* Every ACTIVE application whose retention has expired, in one transaction.*)
PurgeResults(db, cutoff) ==
  LET due == {a \in Applications : Active(db, a) /\ db.applications[a].expires <= cutoff} IN
  {[db EXCEPT
      !.applications = [a \in Applications |->
                          IF a \in due THEN [@[a] EXCEPT !.lifecycle = "PURGED"] ELSE @[a]],
      !.contacts = @ \ due,
      !.audit = [a \in Applications |->
                   IF a \in due THEN Append(@[a], "purged") ELSE @[a]]]}

(* Withdrawing what is withdrawn or purged already changes nothing.         *)
WithdrawalResults(db, a) ==
  IF ~Stored(db, a) THEN {}
  ELSE IF Active(db, a)
    THEN {[db EXCEPT !.applications[a].lifecycle = "WITHDRAWN",
                     !.contacts = @ \ {a},
                     !.audit[a] = Append(@, "withdrawn")]}
    ELSE {db}
=============================================================================
