---------------------- MODULE ApplicationIntakeProofs ----------------------
(***************************************************************************)
(* Theorems about ApplicationIntake for every set of applications, keys and *)
(* bodies and every clock.                                                 *)
(***************************************************************************)
EXTENDS ApplicationIntake, TLAPS

IInv ==
  /\ TypeOK
  /\ ContactOnlyWhileActive
  /\ OneApplicationPerKey
  /\ AuditTellsTheStory

-----------------------------------------------------------------------------
(* Short sequences over a set.                                             *)
LEMMA ShortSequences ==
  ASSUME NEW S, NEW x \in S, NEW s \in Seq(S)
  PROVE  <<x>> \in Seq(S) /\ Append(s, x) \in Seq(S)
  OBVIOUS

(* The story of a row, event by event.                                     *)
LEMMA StoryOfRow ==
  ASSUME NEW row \in ApplicationRows
  PROVE  /\ row # NoRow
         /\ DecisionStory(row) \in Seq(AuditEvents)
         /\ EventsOf(row) \in Seq(AuditEvents)
         /\ row.lifecycle = "ACTIVE" => EventsOf(row) = DecisionStory(row)
  <1>1. row # NoRow
    BY IntakeRowAssumption
  <1>2. DecisionStory(row) \in Seq(AuditEvents)
    <2>1. "submitted" \in AuditEvents /\ (row.decision # "PENDING" => row.decision \in AuditEvents)
      BY DEF ApplicationRows, Decisions, AuditEvents
    <2> QED
      BY <2>1, ShortSequences DEF DecisionStory
  <1>3. EventsOf(row) \in Seq(AuditEvents)
    <2>1. "purged" \in AuditEvents /\ "withdrawn" \in AuditEvents
      BY DEF AuditEvents
    <2> QED
      BY <1>1, <1>2, <2>1, ShortSequences DEF EventsOf
  <1> QED
    BY <1>1, <1>2, <1>3 DEF EventsOf

LEMMA InitIInv == Init => IInv
  BY IntakeRowAssumption DEF Init, IInv, EmptyTables, TypeOK, Tables, ContactOnlyWhileActive, Active, Stored,
         OneApplicationPerKey, AuditTellsTheStory, EventsOf

(* A first submission adds a row, its contact, its receipt and its audit.   *)
LEMMA NewApplicationIInv ==
  ASSUME IInv, NEW key \in Keys, NEW body \in Bodies, NEW t \in Instants,
         NEW a \in Free(db), db.idempotency[key] = NoRow,
         db' = WithNewApplication(db, key, body, t, a)
  PROVE  IInv'
  <1> USE DEF IInv
  <1>1. NewApplication(t) \in ApplicationRows
    BY IntakeAssumption DEF NewApplication, ApplicationRows, Lifecycles, Decisions
  <1>2. /\ NewApplication(t).lifecycle = "ACTIVE"
        /\ EventsOf(NewApplication(t)) = <<"submitted">>
    BY <1>1, StoryOfRow DEF NewApplication, DecisionStory
  <1>3. a \in Applications /\ db.applications[a] = NoRow
    BY DEF Free, Stored
  <1>4. [request |-> body, application |-> a] \in KeyRows
    BY <1>3 DEF KeyRows
  <1>5. /\ db'.applications = [db.applications EXCEPT ![a] = NewApplication(t)]
        /\ db'.contacts = db.contacts \cup {a}
        /\ db'.idempotency = [db.idempotency EXCEPT ![key] = [request |-> body, application |-> a]]
        /\ db'.audit = [db.audit EXCEPT ![a] = Append(@, "submitted")]
    BY DEF WithNewApplication
  <1>6. TypeOK'
    <2>1. Append(db.audit[a], "submitted") \in Seq(AuditEvents)
      BY <1>3, ShortSequences DEF TypeOK, Tables, AuditEvents
    <2>2. db' \in Tables
      BY <1>1, <1>3, <1>4, <2>1 DEF WithNewApplication, TypeOK, Tables
    <2>3. NewApplication(t) # NoRow
      BY <1>1, StoryOfRow
    <2> QED
      BY <1>3, <1>4, <1>5, <2>2, <2>3 DEF TypeOK, Tables, Stored, KeyRows
  <1>7. ContactOnlyWhileActive'
    BY <1>1, <1>2, <1>3, <1>5, StoryOfRow DEF ContactOnlyWhileActive, TypeOK, Tables, Active, Stored
  <1>8. OneApplicationPerKey'
    <2>1. [request |-> body, application |-> a] # NoRow
      BY <1>4, IntakeRowAssumption
    <2>2. \A k \in Keys, c \in Applications :
            ReceiptFor(k, c)' <=> IF k = key THEN c = a ELSE ReceiptFor(k, c)
      BY <1>5, <2>1 DEF ReceiptFor, TypeOK, Tables
    <2>3. \A k \in Keys : ~ReceiptFor(k, a) /\ (\A c \in Applications : ReceiptFor(k, c) => k # key)
      BY <1>3 DEF ReceiptFor, TypeOK, Stored
    <2>4. \A c \in Applications : Stored(db, c)' <=> Stored(db, c) \/ c = a
      BY <1>1, <1>5, StoryOfRow DEF Stored, TypeOK, Tables
    <2> QED
      BY <1>3, <2>2, <2>3, <2>4 DEF OneApplicationPerKey
  <1>9. AuditTellsTheStory'
    <2>1. db.audit[a] = <<>>
      BY <1>3 DEF AuditTellsTheStory, EventsOf
    <2>2. Append(<<>>, "submitted") = <<"submitted">>
      OBVIOUS
    <2> QED
      BY <1>2, <1>3, <1>5, <2>1, <2>2 DEF AuditTellsTheStory, TypeOK, Tables
  <1> QED
    BY <1>6, <1>7, <1>8, <1>9

(* A first decision about an ACTIVE application changes its row and audit.  *)
LEMMA DecisionIInv ==
  ASSUME IInv, NEW a \in Applications, NEW decision \in ManualDecisions, NEW t \in Instants,
         Active(db, a), db.applications[a].decision = "PENDING",
         db' = WithDecision(db, a, decision, t)
  PROVE  IInv'
  <1> USE DEF IInv
  <1> DEFINE row == db.applications[a]
             decided == [row EXCEPT !.decision = decision, !.expires = t + DecisionRetention]
  <1>1. row \in ApplicationRows /\ row.lifecycle = "ACTIVE"
    BY DEF Active, Stored, TypeOK, Tables
  <1>2. decided \in ApplicationRows /\ decided.lifecycle = "ACTIVE" /\ decided.decision = decision
    <2>1. t + DecisionRetention \in Nat
      BY IntakeAssumption
    <2> QED
      BY <1>1, <2>1 DEF ApplicationRows, Decisions
  <1>3. /\ db'.applications = [db.applications EXCEPT ![a] = decided]
        /\ db'.contacts = db.contacts
        /\ db'.idempotency = db.idempotency
        /\ db'.audit = [db.audit EXCEPT ![a] = Append(@, decision)]
    BY <1>1 DEF WithDecision, TypeOK, Tables, ApplicationRows
  <1>4. TypeOK'
    <2>1. Append(db.audit[a], decision) \in Seq(AuditEvents)
      BY ShortSequences DEF TypeOK, Tables, AuditEvents
    <2>2. db' \in Tables
      BY <1>2, <1>3, <2>1 DEF WithDecision, TypeOK, Tables
    <2> QED
      BY <1>2, <1>3, <2>2, StoryOfRow DEF TypeOK, Tables, Stored
  <1>5. ContactOnlyWhileActive' /\ OneApplicationPerKey'
    <2>1. \A c \in Applications : (Stored(db, c)' <=> Stored(db, c)) /\ (Active(db, c)' <=> Active(db, c))
      BY <1>1, <1>2, <1>3, StoryOfRow DEF Stored, Active, TypeOK, Tables
    <2>2. \A k \in Keys, c \in Applications : ReceiptFor(k, c)' <=> ReceiptFor(k, c)
      BY <1>3 DEF ReceiptFor
    <2> QED
      BY <1>3, <2>1, <2>2 DEF ContactOnlyWhileActive, OneApplicationPerKey
  <1>6. AuditTellsTheStory'
    <2>1. db.audit[a] = <<"submitted">>
      BY <1>1, StoryOfRow DEF AuditTellsTheStory, DecisionStory
    <2>2. EventsOf(decided) = Append(<<"submitted">>, decision)
      BY <1>2, StoryOfRow DEF DecisionStory, ManualDecisions
    <2> QED
      BY <1>3, <2>1, <2>2 DEF AuditTellsTheStory, TypeOK, Tables
  <1> QED
    BY <1>4, <1>5, <1>6

(* Tables in which some ACTIVE rows have become tombstones, with their      *)
(* contacts and audit: what withdrawal and purge leave behind.             *)
WithTombstones(due, lifecycle, event) ==
  [applications |-> [a \in Applications |->
                       IF a \in due THEN [db.applications[a] EXCEPT !.lifecycle = lifecycle]
                                    ELSE db.applications[a]],
   contacts     |-> db.contacts \ due,
   idempotency  |-> db.idempotency,
   audit        |-> [a \in Applications |->
                       IF a \in due THEN Append(db.audit[a], event) ELSE db.audit[a]]]

LEMMA TombstonesIInv ==
  ASSUME IInv, NEW due \in SUBSET Applications, \A a \in due : Active(db, a),
         NEW lifecycle, NEW event,
         \/ lifecycle = "WITHDRAWN" /\ event = "withdrawn"
         \/ lifecycle = "PURGED" /\ event = "purged",
         db' = WithTombstones(due, lifecycle, event)
  PROVE  IInv'
  <1> USE DEF IInv
  <1> DEFINE Tomb(a) == [db.applications[a] EXCEPT !.lifecycle = lifecycle]
  <1>1. \A a \in due : /\ db.applications[a] \in ApplicationRows
                       /\ db.applications[a].lifecycle = "ACTIVE"
    BY DEF Active, Stored, TypeOK, Tables
  <1>2. \A a \in due : /\ Tomb(a) \in ApplicationRows
                       /\ Tomb(a).lifecycle = lifecycle
                       /\ Tomb(a).decision = db.applications[a].decision
    BY <1>1 DEF ApplicationRows, Lifecycles
  <1>3. /\ db'.applications = [a \in Applications |->
                                 IF a \in due THEN Tomb(a) ELSE db.applications[a]]
        /\ db'.contacts = db.contacts \ due
        /\ db'.idempotency = db.idempotency
        /\ db'.audit = [a \in Applications |->
                          IF a \in due THEN Append(db.audit[a], event) ELSE db.audit[a]]
    BY DEF WithTombstones
  <1>4. \A a \in Applications : /\ Stored(db, a)' <=> Stored(db, a)
                                /\ Active(db, a)' <=> Active(db, a) /\ a \notin due
    BY <1>1, <1>2, <1>3, StoryOfRow DEF Stored, Active
  <1>5. TypeOK'
    <2>1. \A a \in due : Append(db.audit[a], event) \in Seq(AuditEvents)
      BY ShortSequences DEF TypeOK, Tables, AuditEvents
    <2>2. db'.audit \in [Applications -> Seq(AuditEvents)]
      BY <1>3, <2>1 DEF TypeOK, Tables
    <2>3. db'.applications \in [Applications -> ApplicationRows \cup {NoRow}]
      BY <1>2, <1>3 DEF TypeOK, Tables
    <2>4. db' \in Tables
      BY <1>3, <2>2, <2>3 DEF WithTombstones, TypeOK, Tables
    <2>5. \A a \in db'.contacts : Stored(db, a)'
      BY <1>3, <1>4 DEF TypeOK, Tables
    <2>6. \A k \in Keys : db'.idempotency[k] # NoRow => Stored(db, db.idempotency[k].application)'
      BY <1>3, <1>4 DEF TypeOK, Tables, KeyRows
    <2> QED
      BY <1>3, <2>4, <2>5, <2>6 DEF TypeOK
  <1>6. ContactOnlyWhileActive'
    BY <1>3, <1>4 DEF ContactOnlyWhileActive
  <1>7. OneApplicationPerKey'
    <2>1. \A k \in Keys, a \in Applications : ReceiptFor(k, a)' <=> ReceiptFor(k, a)
      BY <1>3 DEF ReceiptFor
    <2> QED
      BY <1>4, <2>1 DEF OneApplicationPerKey
  <1>8. AuditTellsTheStory'
    <2>1. ASSUME NEW a \in due
          PROVE  EventsOf(Tomb(a)) = Append(EventsOf(db.applications[a]), event)
      <3>1. EventsOf(db.applications[a]) = DecisionStory(db.applications[a])
        BY <1>1, StoryOfRow
      <3>2. DecisionStory(Tomb(a)) = DecisionStory(db.applications[a])
        BY <1>2 DEF DecisionStory
      <3>3. Tomb(a) # NoRow
        BY <1>2, StoryOfRow
      <3> HIDE DEF Tomb
      <3>4. EventsOf(Tomb(a)) = Append(DecisionStory(Tomb(a)), event)
        BY <1>2, <3>3 DEF EventsOf
      <3> QED
        BY <3>1, <3>2, <3>4
    <2> HIDE DEF Tomb
    <2>2. ASSUME NEW a \in Applications
          PROVE  db'.audit[a] = EventsOf(db'.applications[a])
      <3>1. db.audit[a] = EventsOf(db.applications[a])
        BY DEF AuditTellsTheStory
      <3>2. CASE a \in due
        <4>1. db'.audit[a] = Append(db.audit[a], event) /\ db'.applications[a] = Tomb(a)
          BY <1>3, <3>2
        <4> QED
          BY <2>1, <3>1, <3>2, <4>1
      <3>3. CASE a \notin due
        <4>1. db'.audit[a] = db.audit[a] /\ db'.applications[a] = db.applications[a]
          BY <1>3, <3>3
        <4> QED
          BY <3>1, <4>1
      <3> QED
        BY <3>2, <3>3
    <2> QED
      BY <2>2 DEF AuditTellsTheStory
  <1> QED
    BY <1>5, <1>6, <1>7, <1>8

(* A purge leaves exactly the due applications behind as tombstones.        *)
LEMMA PurgeLeavesTombstones ==
  ASSUME IInv, NEW cutoff \in Instants, PurgeExpired(cutoff)
  PROVE  \E due \in SUBSET Applications :
           /\ \A a \in due : Active(db, a)
           /\ db' = WithTombstones(due, "PURGED", "purged")
  <1> DEFINE due == {a \in Applications : Active(db, a) /\ db.applications[a].expires <= cutoff}
  <1>1. db' = [db EXCEPT
                 !.applications = [a \in Applications |->
                                     IF a \in due THEN [@[a] EXCEPT !.lifecycle = "PURGED"] ELSE @[a]],
                 !.contacts = @ \ due,
                 !.audit = [a \in Applications |->
                              IF a \in due THEN Append(@[a], "purged") ELSE @[a]]]
    BY Zenon DEF PurgeExpired, PurgeResults
  <1>2. due \in SUBSET Applications /\ \A a \in due : Active(db, a)
    OBVIOUS
  <1> HIDE DEF due
  <1>3. db' = WithTombstones(due, "PURGED", "purged")
    BY <1>1 DEF WithTombstones, IInv, TypeOK, Tables
  <1> QED
    BY <1>2, <1>3

(* So does a withdrawal that changes anything.                             *)
LEMMA WithdrawalLeavesATombstone ==
  ASSUME IInv, NEW a \in Applications, WithdrawApplication(a), db' # db
  PROVE  Active(db, a) /\ db' = WithTombstones({a}, "WITHDRAWN", "withdrawn")
  <1>1. /\ Active(db, a)
        /\ db' = [db EXCEPT !.applications[a].lifecycle = "WITHDRAWN",
                            !.contacts = @ \ {a},
                            !.audit[a] = Append(@, "withdrawn")]
    BY DEF WithdrawApplication, WithdrawalResults
  <1> QED
    BY <1>1 DEF WithTombstones, IInv, TypeOK, Tables

LEMMA StutterIInv == IInv /\ db' = db => IInv'
  BY DEF IInv, TypeOK, ContactOnlyWhileActive, OneApplicationPerKey, AuditTellsTheStory,
         Stored, Active, ReceiptFor

LEMMA NextIInv == IInv /\ [Next]_db => IInv'
  <1> SUFFICES ASSUME IInv, [Next]_db, db' # db PROVE IInv'
    BY StutterIInv
  <1>1. ASSUME NEW t \in Instants, NEW key \in Keys, NEW body \in Bodies,
               SubmitApplication(key, body, t)
        PROVE  IInv'
    BY <1>1, NewApplicationIInv DEF SubmitApplication, SubmissionResults
  <1>2. ASSUME NEW t \in Instants, NEW a \in Applications, NEW decision \in ManualDecisions,
               RecordDecision(a, decision, t)
        PROVE  IInv'
    BY <1>2, DecisionIInv DEF RecordDecision, DecisionResults
  <1>3. ASSUME NEW cutoff \in Instants, PurgeExpired(cutoff)
        PROVE  IInv'
    BY <1>3, PurgeLeavesTombstones, TombstonesIInv
  <1>4. ASSUME NEW a \in Applications, WithdrawApplication(a)
        PROVE  IInv'
    BY <1>4, WithdrawalLeavesATombstone, TombstonesIInv
  <1> QED
    BY <1>1, <1>2, <1>3, <1>4 DEF Next

(* Every reachable state satisfies the inductive invariant.                *)
THEOREM SpecIInv == Spec => []IInv
  BY InitIInv, NextIInv, PTL DEF Spec

(* The tables keep their shape, and contacts and receipts always belong to  *)
(* stored applications.                                                    *)
THEOREM TypeSafety == Spec => []TypeOK
  BY SpecIInv, PTL DEF IInv

(* Contact data exists exactly while its application is ACTIVE: withdrawal  *)
(* and purge redact it and no retry brings it back.                        *)
THEOREM ContactIsRedacted == Spec => []ContactOnlyWhileActive
  BY SpecIInv, PTL DEF IInv

(* Duplicate submissions collapse: a stored application belongs to exactly  *)
(* one idempotency key.                                                    *)
THEOREM DuplicatesCollapse == Spec => []OneApplicationPerKey
  BY SpecIInv, PTL DEF IInv

(* The audit of an application is the story its row tells, no more or less. *)
THEOREM AuditIsComplete == Spec => []AuditTellsTheStory
  BY SpecIInv, PTL DEF IInv

-----------------------------------------------------------------------------
LEMMA NextIsFinal == IInv /\ [Next]_db => [\A a \in Applications : RowIsFinal(a)]_db
  <1> SUFFICES ASSUME IInv, [Next]_db, db' # db, NEW c \in Applications PROVE RowIsFinal(c)
    OBVIOUS
  <1>0. /\ db.applications \in [Applications -> ApplicationRows \cup {NoRow}]
        /\ Stored(db, c) => db.applications[c] \in ApplicationRows
    BY DEF IInv, TypeOK, Tables, Stored
  <1>1. ASSUME NEW t \in Instants, NEW key \in Keys, NEW body \in Bodies,
               SubmitApplication(key, body, t)
        PROVE  RowIsFinal(c)
    <2>1. PICK a \in Free(db) : db' = WithNewApplication(db, key, body, t, a)
      BY <1>1 DEF SubmitApplication, SubmissionResults
    <2>2. ~Stored(db, a) /\ db'.applications = [db.applications EXCEPT ![a] = NewApplication(t)]
      BY <2>1 DEF Free, WithNewApplication
    <2>3. Stored(db, c) => db'.applications[c] = db.applications[c]
      BY <1>0, <2>2
    <2> QED
      BY <2>3 DEF RowIsFinal, Stored
  <1>2. ASSUME NEW t \in Instants, NEW a \in Applications, NEW decision \in ManualDecisions,
               RecordDecision(a, decision, t)
        PROVE  RowIsFinal(c)
    <2>1. /\ Active(db, a)
          /\ db.applications[a].decision = "PENDING"
          /\ db' = WithDecision(db, a, decision, t)
      BY <1>2 DEF RecordDecision, DecisionResults
    <2>2. /\ c # a => db'.applications[c] = db.applications[c]
          /\ db'.applications[a] \in ApplicationRows
      <3>1. t + DecisionRetention \in Nat
        BY IntakeAssumption
      <3>2. db.applications[a] \in ApplicationRows
        BY <2>1 DEF Active, Stored, IInv, TypeOK, Tables
      <3>3. db'.applications =
              [db.applications EXCEPT ![a] =
                 [db.applications[a] EXCEPT !.decision = decision, !.expires = t + DecisionRetention]]
        BY <2>1, <3>2 DEF WithDecision, IInv, TypeOK, Tables, ApplicationRows
      <3> QED
        BY <1>0, <3>1, <3>2, <3>3 DEF ApplicationRows, Decisions
    <2> QED
      BY <2>1, <2>2, IntakeRowAssumption DEF RowIsFinal, Stored, Active
  <1>3. ASSUME NEW due \in SUBSET Applications, \A a \in due : Active(db, a),
               NEW lifecycle \in Lifecycles, NEW event, db' = WithTombstones(due, lifecycle, event)
        PROVE  RowIsFinal(c)
    <2>1. db'.applications[c] =
            IF c \in due THEN [db.applications[c] EXCEPT !.lifecycle = lifecycle]
                         ELSE db.applications[c]
      BY <1>3 DEF WithTombstones
    <2>2. CASE c \notin due
      BY <2>1, <2>2 DEF RowIsFinal, Stored
    <2>3. CASE c \in due
      <3>1. Active(db, c) /\ db.applications[c] \in ApplicationRows
        BY <1>0, <1>3, <2>3 DEF Active
      <3>2. /\ db'.applications[c] \in ApplicationRows
            /\ db'.applications[c].decision = db.applications[c].decision
            /\ db'.applications[c].expires = db.applications[c].expires
        BY <2>1, <2>3, <3>1 DEF ApplicationRows
      <3> QED
        BY <3>1, <3>2, IntakeRowAssumption DEF RowIsFinal, Stored
    <2> QED
      BY <2>2, <2>3
  <1>4. ASSUME NEW cutoff \in Instants, PurgeExpired(cutoff)
        PROVE  RowIsFinal(c)
    BY <1>3, <1>4, PurgeLeavesTombstones DEF Lifecycles
  <1>5. ASSUME NEW a \in Applications, WithdrawApplication(a)
        PROVE  RowIsFinal(c)
    BY <1>3, <1>5, WithdrawalLeavesATombstone DEF Lifecycles
  <1> QED
    BY <1>1, <1>2, <1>4, <1>5 DEF Next

(* Tombstones never change again, a decision and its deadline are never     *)
(* revised, and no application row disappears.                             *)
THEOREM HistoryIsFinal == Spec => DecisionsAndTombstonesAreFinal
  BY SpecIInv, NextIsFinal, PTL DEF Spec, DecisionsAndTombstonesAreFinal
=============================================================================
