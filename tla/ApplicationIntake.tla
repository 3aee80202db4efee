------------------------- MODULE ApplicationIntake -------------------------
(***************************************************************************)
(* The application intake service with one atomic step per request: what    *)
(* the transactions of AuthorityTransactions implement.  Requests may be    *)
(* sent, repeated and retried in any order.                                *)
(***************************************************************************)
EXTENDS IntakeOperations

VARIABLE db   \* the four tables

Init == db = EmptyTables

SubmitApplication(key, body, t) == db' \in SubmissionResults(db, key, body, t)

RecordDecision(a, decision, t) == db' \in DecisionResults(db, a, decision, t)

WithdrawApplication(a) == db' \in WithdrawalResults(db, a)

(* The operator may name the cutoff, so it need not be the current time.    *)
PurgeExpired(cutoff) == db' \in PurgeResults(db, cutoff)

Next ==
  \/ \E t \in Instants :
       \/ \E key \in Keys, body \in Bodies : SubmitApplication(key, body, t)
       \/ \E a \in Applications, decision \in ManualDecisions :
            RecordDecision(a, decision, t)
       \/ PurgeExpired(t)
  \/ \E a \in Applications : WithdrawApplication(a)

Spec == Init /\ [][Next]_db

-----------------------------------------------------------------------------
(* Every table keeps the shape of its rows, and a contact or a receipt      *)
(* always belongs to a stored application.                                 *)
TypeOK ==
  /\ db \in Tables
  /\ \A a \in db.contacts : Stored(db, a)
  /\ \A k \in Keys : db.idempotency[k] # NoRow =>
       Stored(db, db.idempotency[k].application)

(* Contact data exists exactly while an application is ACTIVE: withdrawal   *)
(* and purge redact it at once, and no later request brings it back.        *)
ContactOnlyWhileActive ==
  \A a \in Applications : a \in db.contacts <=> Active(db, a)

(* The application a submission under this key was answered with.           *)
ReceiptFor(k, a) == db.idempotency[k] # NoRow /\ db.idempotency[k].application = a

(* Duplicate submissions collapse: each stored application was made by      *)
(* exactly one idempotency key, however often its request was repeated.     *)
OneApplicationPerKey ==
  \A a \in Applications : Stored(db, a) =>
    \E k \in Keys : \A l \in Keys : ReceiptFor(l, a) <=> l = k

DecisionStory(row) ==
  IF row.decision = "PENDING" THEN <<"submitted">>
  ELSE Append(<<"submitted">>, row.decision)

EventsOf(row) ==
  IF row = NoRow THEN <<>>
  ELSE IF row.lifecycle = "ACTIVE" THEN DecisionStory(row)
  ELSE Append(DecisionStory(row), IF row.lifecycle = "PURGED" THEN "purged" ELSE "withdrawn")

(* The audit of an application tells its story: replays, repeated decisions *)
(* and repeated withdrawals add nothing, and nothing happens unrecorded.    *)
AuditTellsTheStory ==
  \A a \in Applications : db.audit[a] = EventsOf(db.applications[a])

RowIsFinal(a) ==
  /\ Stored(db, a) => Stored(db, a)'
  /\ Stored(db, a) /\ ~Active(db, a) => db'.applications[a] = db.applications[a]
  /\ Stored(db, a) /\ db.applications[a].decision # "PENDING" =>
       /\ db'.applications[a].decision = db.applications[a].decision
       /\ db'.applications[a].expires = db.applications[a].expires

(* Tombstones never change again, a manual decision is never reversed nor   *)
(* its deadline moved, and no application row disappears.                  *)
DecisionsAndTombstonesAreFinal == [][\A a \in Applications : RowIsFinal(a)]_db
=============================================================================
