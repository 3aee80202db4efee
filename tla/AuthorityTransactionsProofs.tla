-------------------- MODULE AuthorityTransactionsProofs --------------------
(***************************************************************************)
(* Theorems about AuthorityTransactions, for any number of service and      *)
(* withdrawal transactions, applications, keys and connections: what the    *)
(* two transaction paths commit is what the atomic service would have done, *)
(* and nothing that was confirmed is ever undone.                          *)
(***************************************************************************)
EXTENDS AuthorityTransactions, WellFoundedInduction, TLAPS

Intake == INSTANCE ApplicationIntakeProofs

Serving == {"rows", "load", "loadRest", "writing"}
Holding == {"load", "loadRest", "writing"}

Types ==
  /\ stage \in [Requests -> Stages]
  /\ work = [p \in Requests |-> work[p]]
  /\ before = [p \in Requests |-> before[p]]
  /\ after = [p \in Requests |-> after[p]]
  /\ rowLock = [a \in Applications |-> rowLock[a]]
  /\ contactLock = [a \in Applications |-> contactLock[a]]
  /\ \A p \in Requests :
       IF p \in Connected THEN work[p] \in WorkOf(p) ELSE work[p] = None
  /\ \A p \in Withdrawals : stage[p] \in {"idle", "queued", "begun", "writing"}
  /\ confirmed \subseteq ServiceWork \cup WithdrawalWork

(* Who holds what: the advisory lock is held by the one service transaction  *)
(* past it, a row lock by that one or by a withdrawal about to write the row, *)
(* a contact lock by a service transaction that has all it needs.            *)
LockInv ==
  /\ advisory \in Services \cup {None}
  /\ \A p \in Services : stage[p] \in Serving <=> advisory = p
  /\ \A a \in Applications, p \in Requests : rowLock[a] = p =>
       IF p \in Services THEN stage[p] \in Serving
       ELSE stage[p] = "writing" /\ work[p].application = a
  /\ \A a \in Applications : rowLock[a] \in Requests \cup {None}
  /\ \A a \in Applications :
       contactLock[a] = None \/ (contactLock[a] \in Services /\ stage[contactLock[a]] \in Holding)

(* From the moment a service transaction loads, no row it could read or      *)
(* write can be changed by anybody else: its snapshot is the database.       *)
ServiceInv ==
  \A p \in Services :
    /\ stage[p] \in Holding => \A a \in Applications : Stored(db, a) => rowLock[a] = p
    /\ stage[p] = "loadRest" => before[p].applications = db.applications
    /\ stage[p] = "writing" =>
         /\ before[p] = db
         /\ \E t \in Instants : after[p] \in Results(work[p], db, t)

(* A withdrawal about to write holds its row, which is as it was read.       *)
WithdrawalInv ==
  \A p \in Withdrawals : stage[p] = "writing" =>
    /\ Stored(db, work[p].application)
    /\ rowLock[work[p].application] = p
    /\ before[p] = TargetRow(p)
    /\ after[p] \in WithdrawalResults(TargetRow(p), work[p].application)

ConfirmedInv ==
  \A w \in confirmed :
    /\ Effective(w)
    /\ w.op \in {"withdraw", "decide"} => Stored(db, w.application)

ProtocolInv == Types /\ LockInv /\ ServiceInv /\ WithdrawalInv

IInv == ProtocolInv /\ ConfirmedInv /\ Intake!IInv

-----------------------------------------------------------------------------
(* The abstract service and the module of its theorems are one.             *)
LEMMA IntakeDefinitions ==
  /\ Intake!ApplicationRows = ApplicationRows
  /\ Intake!KeyRows = KeyRows
  /\ Intake!Tables = Tables
  /\ Intake!EmptyTables = EmptyTables
BY DEF Intake!ApplicationRows, ApplicationRows, Intake!KeyRows, KeyRows, Intake!Lifecycles,
  Lifecycles, Intake!Decisions, Decisions, Intake!ManualDecisions, ManualDecisions,
  Intake!Tables, Tables, Intake!AuditEvents, AuditEvents, Intake!EmptyTables, EmptyTables

LEMMA SerialInit == Init => Serial!Init /\ Intake!IInv
<1>1. Intake!Init => Intake!IInv
  BY IntakeAssumption, IntakeRowAssumption, IntakeDefinitions, Intake!InitIInv
<1> QED
  BY <1>1, IntakeDefinitions DEF Init, Serial!Init, Intake!Init, Serial!EmptyTables, EmptyTables

LEMMA SerialSameOperations ==
  /\ \A key \in Keys, body \in Bodies, t \in Instants :
       Serial!SubmissionResults(db, key, body, t) = SubmissionResults(db, key, body, t)
  /\ \A a \in Applications, decision \in ManualDecisions, t \in Instants :
       Serial!DecisionResults(db, a, decision, t) = DecisionResults(db, a, decision, t)
  /\ \A cutoff \in Instants : Serial!PurgeResults(db, cutoff) = PurgeResults(db, cutoff)
  /\ \A a \in Applications : Serial!WithdrawalResults(db, a) = WithdrawalResults(db, a)
  /\ Serial!ManualDecisions = ManualDecisions
<1>1. /\ \A a : Serial!Stored(db, a) = Stored(db, a)
      /\ \A a : Serial!Active(db, a) = Active(db, a)
  BY DEF Serial!Stored, Stored, Serial!Active, Active
<1>2. \A key \in Keys, body \in Bodies, t \in Instants :
        Serial!SubmissionResults(db, key, body, t) = SubmissionResults(db, key, body, t)
  BY <1>1 DEF Serial!SubmissionResults, SubmissionResults, Serial!WithNewApplication, WithNewApplication,
    Serial!NewApplication, NewApplication, Serial!Free, Free
<1>3. \A a \in Applications, decision \in ManualDecisions, t \in Instants :
        Serial!DecisionResults(db, a, decision, t) = DecisionResults(db, a, decision, t)
  BY <1>1 DEF Serial!DecisionResults, DecisionResults, Serial!WithDecision, WithDecision
<1>4. \A cutoff \in Instants : Serial!PurgeResults(db, cutoff) = PurgeResults(db, cutoff)
  BY <1>1 DEF Serial!PurgeResults, PurgeResults
<1>5. \A a \in Applications : Serial!WithdrawalResults(db, a) = WithdrawalResults(db, a)
  BY <1>1 DEF Serial!WithdrawalResults, WithdrawalResults
<1> QED
  BY <1>2, <1>3, <1>4, <1>5 DEF Serial!ManualDecisions, ManualDecisions

LEMMA IntakeSameOperations ==
  /\ \A key \in Keys, body \in Bodies, t \in Instants :
       Intake!SubmissionResults(db, key, body, t) = SubmissionResults(db, key, body, t)
  /\ \A a \in Applications, decision \in ManualDecisions, t \in Instants :
       Intake!DecisionResults(db, a, decision, t) = DecisionResults(db, a, decision, t)
  /\ \A cutoff \in Instants : Intake!PurgeResults(db, cutoff) = PurgeResults(db, cutoff)
  /\ \A a \in Applications : Intake!WithdrawalResults(db, a) = WithdrawalResults(db, a)
  /\ Intake!ManualDecisions = ManualDecisions
<1>1. /\ \A a : Intake!Stored(db, a) = Stored(db, a)
      /\ \A a : Intake!Active(db, a) = Active(db, a)
  BY DEF Intake!Stored, Stored, Intake!Active, Active
<1>2. \A key \in Keys, body \in Bodies, t \in Instants :
        Intake!SubmissionResults(db, key, body, t) = SubmissionResults(db, key, body, t)
  BY <1>1 DEF Intake!SubmissionResults, SubmissionResults, Intake!WithNewApplication, WithNewApplication,
    Intake!NewApplication, NewApplication, Intake!Free, Free
<1>3. \A a \in Applications, decision \in ManualDecisions, t \in Instants :
        Intake!DecisionResults(db, a, decision, t) = DecisionResults(db, a, decision, t)
  BY <1>1 DEF Intake!DecisionResults, DecisionResults, Intake!WithDecision, WithDecision
<1>4. \A cutoff \in Instants : Intake!PurgeResults(db, cutoff) = PurgeResults(db, cutoff)
  BY <1>1 DEF Intake!PurgeResults, PurgeResults
<1>5. \A a \in Applications : Intake!WithdrawalResults(db, a) = WithdrawalResults(db, a)
  BY <1>1 DEF Intake!WithdrawalResults, WithdrawalResults
<1> QED
  BY <1>2, <1>3, <1>4, <1>5 DEF Intake!ManualDecisions, ManualDecisions

(* What a step of the atomic service is, in terms of the operations.        *)
LEMMA SerialNext ==
  /\ Serial!Next <=>
       \/ \E t \in Instants :
            \/ \E key \in Keys, body \in Bodies : db' \in SubmissionResults(db, key, body, t)
            \/ \E a \in Applications, decision \in ManualDecisions :
                 db' \in DecisionResults(db, a, decision, t)
            \/ db' \in PurgeResults(db, t)
       \/ \E a \in Applications : db' \in WithdrawalResults(db, a)
  /\ Serial!Next => Intake!Next
<1>1. \A t \in Instants, key \in Keys, body \in Bodies :
        /\ Serial!SubmitApplication(key, body, t) <=> db' \in SubmissionResults(db, key, body, t)
        /\ Intake!SubmitApplication(key, body, t) <=> db' \in SubmissionResults(db, key, body, t)
  BY SerialSameOperations, IntakeSameOperations DEF Serial!SubmitApplication, Intake!SubmitApplication
<1>2. \A t \in Instants, a \in Applications, decision \in ManualDecisions :
        /\ Serial!RecordDecision(a, decision, t) <=> db' \in DecisionResults(db, a, decision, t)
        /\ Intake!RecordDecision(a, decision, t) <=> db' \in DecisionResults(db, a, decision, t)
  BY SerialSameOperations, IntakeSameOperations DEF Serial!RecordDecision, Intake!RecordDecision
<1>3. \A t \in Instants :
        /\ Serial!PurgeExpired(t) <=> db' \in PurgeResults(db, t)
        /\ Intake!PurgeExpired(t) <=> db' \in PurgeResults(db, t)
  BY SerialSameOperations, IntakeSameOperations DEF Serial!PurgeExpired, Intake!PurgeExpired
<1>4. \A a \in Applications :
        /\ Serial!WithdrawApplication(a) <=> db' \in WithdrawalResults(db, a)
        /\ Intake!WithdrawApplication(a) <=> db' \in WithdrawalResults(db, a)
  BY SerialSameOperations, IntakeSameOperations DEF Serial!WithdrawApplication, Intake!WithdrawApplication
<1>5. Serial!ManualDecisions = ManualDecisions /\ Intake!ManualDecisions = ManualDecisions
  BY SerialSameOperations, IntakeSameOperations
<1>6. Serial!Next <=>
       \/ \E t \in Instants :
            \/ \E key \in Keys, body \in Bodies : Serial!SubmitApplication(key, body, t)
            \/ \E a \in Applications, decision \in ManualDecisions : Serial!RecordDecision(a, decision, t)
            \/ Serial!PurgeExpired(t)
       \/ \E a \in Applications : Serial!WithdrawApplication(a)
  BY <1>5 DEF Serial!Next
<1>7. Intake!Next <=>
       \/ \E t \in Instants :
            \/ \E key \in Keys, body \in Bodies : Intake!SubmitApplication(key, body, t)
            \/ \E a \in Applications, decision \in ManualDecisions : Intake!RecordDecision(a, decision, t)
            \/ Intake!PurgeExpired(t)
       \/ \E a \in Applications : Intake!WithdrawApplication(a)
  BY <1>5 DEF Intake!Next
<1> QED
  BY <1>1, <1>2, <1>3, <1>4, <1>6, <1>7

LEMMA SerialStepKeepsTables ==
  ASSUME Intake!IInv, [Serial!Next]_db
  PROVE  Intake!IInv'
<1>1. Intake!IInv /\ [Intake!Next]_db => Intake!IInv'
  BY IntakeAssumption, IntakeRowAssumption, IntakeDefinitions, Intake!NextIInv
<1> QED
  BY <1>1, SerialNext

LEMMA TablesAreTyped == Intake!IInv => db \in Tables
BY IntakeDefinitions DEF Intake!IInv, Intake!TypeOK

-----------------------------------------------------------------------------
(* What an operation leaves behind has the shape of the tables, adds to an   *)
(* audit at most one event and never replaces a receipt.                    *)
Shaped(result) ==
  result = [applications |-> [a \in Applications |-> result.applications[a]],
            contacts     |-> result.contacts,
            idempotency  |-> [k \in Keys |-> result.idempotency[k]],
            audit        |-> [a \in Applications |-> result.audit[a]]]

OneMoreEvent(result, a) ==
  \/ result.audit[a] = db.audit[a]
  \/ \E e \in AuditEvents : result.audit[a] = Append(db.audit[a], e)

Extended(result) ==
  /\ Shaped(result)
  /\ \A a \in Applications : OneMoreEvent(result, a)
  /\ \A k \in Keys : result.idempotency[k] = db.idempotency[k] \/ db.idempotency[k] = NoRow

LEMMA TablesAreShaped ==
  ASSUME db \in Tables
  PROVE  Extended(db)
BY DEF Tables, Extended, Shaped, OneMoreEvent

LEMMA SubmissionExtends ==
  ASSUME db \in Tables, NEW key \in Keys, NEW body, NEW t, NEW a \in Applications,
         db.idempotency[key] = NoRow
  PROVE  Extended(WithNewApplication(db, key, body, t, a))
<1> DEFINE result == WithNewApplication(db, key, body, t, a)
<1>1. "submitted" \in AuditEvents
  BY DEF AuditEvents
<1>2. /\ result.audit = [db.audit EXCEPT ![a] = Append(@, "submitted")]
      /\ result.idempotency = [db.idempotency EXCEPT ![key] = [request |-> body, application |-> a]]
  BY DEF WithNewApplication
<1>3. \A c \in Applications : OneMoreEvent(result, c)
  BY <1>1, <1>2 DEF OneMoreEvent, Tables
<1>4. Shaped(result)
  BY DEF Tables, Shaped, WithNewApplication
<1>5. \A k \in Keys : result.idempotency[k] = db.idempotency[k] \/ db.idempotency[k] = NoRow
  BY <1>2 DEF Tables
<1> QED
  BY <1>3, <1>4, <1>5 DEF Extended

LEMMA DecisionExtends ==
  ASSUME db \in Tables, NEW a \in Applications, NEW decision \in ManualDecisions, NEW t
  PROVE  Extended(WithDecision(db, a, decision, t))
<1> DEFINE result == WithDecision(db, a, decision, t)
<1>1. decision \in AuditEvents
  BY DEF AuditEvents
<1>2. /\ result.audit = [db.audit EXCEPT ![a] = Append(@, decision)]
      /\ result.idempotency = db.idempotency
      /\ result.contacts = db.contacts
      /\ result.applications = [db.applications EXCEPT ![a].decision = decision,
                                                       ![a].expires = t + DecisionRetention]
  BY DEF WithDecision, Tables
<1>3. \A c \in Applications : OneMoreEvent(result, c)
  BY <1>1, <1>2 DEF OneMoreEvent, Tables
<1>4. result = [applications |-> result.applications, contacts |-> result.contacts,
                idempotency |-> result.idempotency, audit |-> result.audit]
  <2> DEFINE decided == [db EXCEPT !.applications[a].decision = decision]
             dated == [decided EXCEPT !.applications[a].expires = t + DecisionRetention]
  <2>1. decided = [applications |-> decided.applications, contacts |-> decided.contacts,
                   idempotency |-> decided.idempotency, audit |-> decided.audit]
    <3>1. db = [applications |-> db.applications, contacts |-> db.contacts,
                idempotency |-> db.idempotency, audit |-> db.audit]
      BY DEF Tables
    <3> QED
      BY <3>1
  <2>2. dated = [applications |-> dated.applications, contacts |-> dated.contacts,
                 idempotency |-> dated.idempotency, audit |-> dated.audit]
    <3> HIDE DEF decided
    <3> QED
      BY <2>1
  <2>3. result = [dated EXCEPT !.audit[a] = Append(@, decision)]
    BY DEF WithDecision
  <2> HIDE DEF dated
  <2> QED
    BY <2>2, <2>3
<1>5. Shaped(result)
  BY <1>2, <1>4 DEF Tables, Shaped
<1> QED
  BY <1>2, <1>3, <1>5 DEF Extended

LEMMA PurgeExtends ==
  ASSUME db \in Tables, NEW cutoff, NEW result \in PurgeResults(db, cutoff)
  PROVE  Extended(result)
<1> DEFINE due == {a \in Applications : Active(db, a) /\ db.applications[a].expires <= cutoff}
<1>1. "purged" \in AuditEvents
  BY DEF AuditEvents
<1>2. /\ result.audit = [a \in Applications |-> IF a \in due THEN Append(db.audit[a], "purged") ELSE db.audit[a]]
      /\ result.idempotency = db.idempotency
      /\ result.contacts = db.contacts \ due
      /\ result.applications = [a \in Applications |->
           IF a \in due THEN [db.applications[a] EXCEPT !.lifecycle = "PURGED"] ELSE db.applications[a]]
      /\ result = [applications |-> result.applications, contacts |-> result.contacts,
                   idempotency |-> result.idempotency, audit |-> result.audit]
  BY DEF PurgeResults, Tables
<1> HIDE DEF due
<1>3. \A c \in Applications : OneMoreEvent(result, c)
  BY <1>1, <1>2 DEF OneMoreEvent
<1>4. Shaped(result)
  BY <1>2 DEF Tables, Shaped
<1> QED
  BY <1>2, <1>3, <1>4 DEF Extended

LEMMA ResultsExtendTheTables ==
  ASSUME db \in Tables, NEW w \in ServiceWork, NEW t \in Instants, NEW result \in Results(w, db, t)
  PROVE  Extended(result)
<1>1. CASE w.op = "submit"
  <2>1. w.key \in Keys
    BY <1>1 DEF ServiceWork
  <2>2. \/ result = db
        \/ db.idempotency[w.key] = NoRow /\ \E a \in Applications :
             result = WithNewApplication(db, w.key, w.body, t, a)
    BY <1>1 DEF Results, SubmissionResults, Free
  <2> QED
    BY <2>1, <2>2, SubmissionExtends, TablesAreShaped
<1>2. CASE w.op = "decide"
  <2>1. w.application \in Applications /\ w.decision \in ManualDecisions
    BY <1>2 DEF ServiceWork
  <2>2. result = db \/ result = WithDecision(db, w.application, w.decision, t)
    BY <1>2 DEF Results, DecisionResults
  <2> QED
    BY <2>1, <2>2, DecisionExtends, TablesAreShaped
<1>3. CASE w.op = "purge"
  <2>1. result \in PurgeResults(db, w.cutoff)
    BY <1>3 DEF Results
  <2> QED
    BY <2>1, PurgeExtends
<1> QED
  BY <1>1, <1>2, <1>3 DEF ServiceWork

LEMMA AppendedTail ==
  ASSUME NEW S, NEW s \in Seq(S), NEW e \in S
  PROVE  /\ s \o SubSeq(s, Len(s) + 1, Len(s)) = s
         /\ s \o SubSeq(Append(s, e), Len(s) + 1, Len(Append(s, e))) = Append(s, e)
OBVIOUS

(* A transaction whose snapshot is the database writes what its callback     *)
(* left behind, no more and no less.                                        *)
LEMMA WrittenIsAfter ==
  ASSUME db \in Tables, NEW p, before[p] = db, Extended(after[p])
  PROVE  Written(p) = after[p] /\ ~Conflict(p)
<1>1. \A a \in Applications :
        (IF a \in ChangedApplications(p) THEN after[p].applications[a] ELSE db.applications[a])
          = after[p].applications[a]
  BY DEF ChangedApplications
<1>2. (db.contacts \ (before[p].contacts \ after[p].contacts))
         \cup (after[p].contacts \ before[p].contacts) = after[p].contacts
  OBVIOUS
<1>3. \A k \in Keys :
        (IF before[p].idempotency[k] # after[p].idempotency[k]
           THEN after[p].idempotency[k] ELSE db.idempotency[k]) = after[p].idempotency[k]
  OBVIOUS
<1>4. \A a \in Applications :
        db.audit[a] \o SubSeq(after[p].audit[a], Len(before[p].audit[a]) + 1, Len(after[p].audit[a]))
          = after[p].audit[a]
  <2> TAKE a \in Applications
  <2>1. db.audit[a] \in Seq(AuditEvents)
    BY DEF Tables
  <2>2. "submitted" \in AuditEvents
    BY DEF AuditEvents
  <2>3. CASE after[p].audit[a] = db.audit[a]
    BY <2>1, <2>2, <2>3, AppendedTail
  <2>4. CASE \E e \in AuditEvents : after[p].audit[a] = Append(db.audit[a], e)
    BY <2>1, <2>4, AppendedTail
  <2> QED
    BY <2>3, <2>4 DEF Extended, OneMoreEvent
<1>5. Written(p) = [applications |-> [a \in Applications |-> after[p].applications[a]],
                    contacts     |-> after[p].contacts,
                    idempotency  |-> [k \in Keys |-> after[p].idempotency[k]],
                    audit        |-> [a \in Applications |-> after[p].audit[a]]]
  BY <1>1, <1>2, <1>3, <1>4 DEF Written
<1>6. ~Conflict(p)
  BY DEF Conflict, Extended
<1> QED
  BY <1>5, <1>6 DEF Extended, Shaped

-----------------------------------------------------------------------------
(* Every step is taken by one request; the others stay where they are.      *)
LEMMA TransactionConstants ==
  /\ Requests = Services \cup Withdrawals
  /\ Services \cap Withdrawals = {}
  /\ None \notin Requests
  /\ \A p \in Requests : None \notin WorkOf(p)
BY TransactionAssumption, WorkAssumption DEF Requests, WorkOf

(* From the moment it loads, a service transaction is alone: no other        *)
(* service transaction is past the advisory lock, no withdrawal is about to  *)
(* write.                                                                  *)
LEMMA HoldingExcludesOthers ==
  ASSUME ProtocolInv, NEW p \in Services, stage[p] \in Holding
  PROVE  /\ \A q \in Services : stage[q] \in Serving => q = p
         /\ \A q \in Withdrawals : stage[q] # "writing"
<1>1. \A q \in Services : stage[q] \in Serving => q = p
  BY DEF ProtocolInv, LockInv, Holding, Serving
<1>2. ASSUME NEW q \in Withdrawals, stage[q] = "writing" PROVE FALSE
  <2>1. q \in Requests /\ q # p
    BY TransactionConstants
  <2>2. work[q].application \in Applications
    BY <1>2, <2>1, TransactionConstants DEF ProtocolInv, Types, Connected, WorkOf, WithdrawalWork
  <2>3. Stored(db, work[q].application) /\ rowLock[work[q].application] = q
    BY <1>2 DEF ProtocolInv, WithdrawalInv
  <2> QED
    BY <2>1, <2>2, <2>3 DEF ProtocolInv, ServiceInv
<1> QED
  BY <1>1, <1>2

(* A request that ends lets go of everything it held.                       *)
Ends(p) ==
  /\ stage' = [stage EXCEPT ![p] = "idle"]
  /\ Forget(p)
  /\ ReleaseLocks(p)

LEMMA EndingIsTyped ==
  ASSUME Types, NEW p \in Requests, Ends(p), confirmed' \subseteq ServiceWork \cup WithdrawalWork
  PROVE  Types'
<1>1. /\ stage' \in [Requests -> Stages]
      /\ work' = [q \in Requests |-> work'[q]]
      /\ before' = [q \in Requests |-> before'[q]]
      /\ after' = [q \in Requests |-> after'[q]]
  BY DEF Types, Ends, Forget, Stages
<1>2. /\ rowLock' = [a \in Applications |-> rowLock'[a]]
      /\ contactLock' = [a \in Applications |-> contactLock'[a]]
  BY DEF Ends, ReleaseLocks
<1>3. \A q \in Requests :
        IF q \in Connected' THEN work'[q] \in WorkOf(q) ELSE work'[q] = None
  BY DEF Types, Ends, Forget, Connected
<1>4. \A q \in Withdrawals : stage'[q] \in {"idle", "queued", "begun", "writing"}
  BY TransactionConstants DEF Types, Ends
<1> QED
  BY <1>1, <1>2, <1>3, <1>4 DEF Types, WorkOf

LEMMA EndingKeepsLocks ==
  ASSUME Types, LockInv, NEW p \in Requests, Ends(p)
  PROVE  LockInv'
<1> USE TransactionConstants
<1>1. /\ \A q \in Requests : stage'[q] = IF q = p THEN "idle" ELSE stage[q]
      /\ \A q \in Requests : q # p => work'[q] = work[q]
  BY DEF Types, Ends, Forget
<1>2. /\ advisory' = IF advisory = p THEN None ELSE advisory
      /\ \A a \in Applications : rowLock'[a] = IF rowLock[a] = p THEN None ELSE rowLock[a]
      /\ \A a \in Applications : contactLock'[a] = IF contactLock[a] = p THEN None ELSE contactLock[a]
  BY DEF Ends, ReleaseLocks
<1>3. advisory' \in Services \cup {None}
  BY <1>2 DEF LockInv
<1>4. \A q \in Services : stage'[q] \in Serving <=> advisory' = q
  BY <1>1, <1>2 DEF LockInv, Serving
<1>5. \A a \in Applications, q \in Requests : rowLock'[a] = q =>
        IF q \in Services THEN stage'[q] \in Serving
        ELSE stage'[q] = "writing" /\ work'[q].application = a
  BY <1>1, <1>2 DEF LockInv
<1>6. \A a \in Applications : rowLock'[a] \in Requests \cup {None}
  BY <1>2 DEF LockInv
<1>7. \A a \in Applications :
        contactLock'[a] = None \/ (contactLock'[a] \in Services /\ stage'[contactLock'[a]] \in Holding)
  BY <1>1, <1>2 DEF LockInv
<1> QED
  BY <1>3, <1>4, <1>5, <1>6, <1>7 DEF LockInv

LEMMA EndingWithoutWriting ==
  ASSUME ProtocolInv, NEW p \in Requests, Ends(p), db' = db, confirmed' = confirmed
  PROVE  ProtocolInv'
<1> USE TransactionConstants
<1>1. Types' /\ LockInv'
  BY EndingIsTyped, EndingKeepsLocks DEF ProtocolInv, Types
<1>2. /\ \A q \in Requests : stage'[q] = IF q = p THEN "idle" ELSE stage[q]
      /\ \A q \in Requests : q # p =>
           work'[q] = work[q] /\ before'[q] = before[q] /\ after'[q] = after[q]
      /\ \A a \in Applications : rowLock'[a] = IF rowLock[a] = p THEN None ELSE rowLock[a]
  BY DEF ProtocolInv, Types, Ends, Forget, ReleaseLocks
<1>3. ServiceInv'
  BY <1>2 DEF ProtocolInv, ServiceInv, Holding, Stored
<1>4. WithdrawalInv'
  <2> SUFFICES ASSUME NEW q \in Withdrawals, stage'[q] = "writing"
               PROVE  /\ Stored(db, work[q].application)
                      /\ rowLock'[work[q].application] = q
                      /\ before[q] = TargetRow(q)
                      /\ after[q] \in WithdrawalResults(TargetRow(q), work[q].application)
    BY <1>2 DEF WithdrawalInv, TargetRow, Stored
  <2>1. q \in Requests /\ q # p /\ stage[q] = "writing"
    BY <1>2
  <2>2. work[q].application \in Applications
    BY <2>1 DEF ProtocolInv, Types, Connected, WorkOf, WithdrawalWork
  <2> QED
    BY <1>2, <2>1, <2>2 DEF ProtocolInv, WithdrawalInv
<1> QED
  BY <1>1, <1>3, <1>4 DEF ProtocolInv

-----------------------------------------------------------------------------
(* The steps that lead to a snapshot.                                       *)
LEMMA ArriveKeeps ==
  ASSUME ProtocolInv, NEW p \in Requests, Arrive(p)
  PROVE  ProtocolInv'
<1> USE TransactionConstants
<1>1. stage' = [stage EXCEPT ![p] = "queued"] /\ stage[p] = "idle"
      /\ UNCHANGED <<db, work, locks, snapshots, confirmed>>
  BY DEF Arrive
<1>2. Types'
  BY <1>1 DEF ProtocolInv, Types, Connected, Stages, locks, snapshots, WorkOf
<1>3. LockInv'
  BY <1>1 DEF ProtocolInv, Types, LockInv, Serving, Holding, locks
<1>4. ServiceInv'
  BY <1>1 DEF ProtocolInv, Types, ServiceInv, Holding, Stored, locks, snapshots
<1>5. WithdrawalInv'
  BY <1>1 DEF ProtocolInv, Types, WithdrawalInv, Stored, TargetRow, locks, snapshots
<1> QED
  BY <1>2, <1>3, <1>4, <1>5 DEF ProtocolInv

LEMMA ConnectKeeps ==
  ASSUME ProtocolInv, NEW p \in Requests, Connect(p)
  PROVE  ProtocolInv'
<1> USE TransactionConstants
<1>1. PICK w \in WorkOf(p) :
        /\ work' = [work EXCEPT ![p] = w]
        /\ stage' = [stage EXCEPT ![p] = "begun"] /\ stage[p] = "queued"
        /\ UNCHANGED <<db, locks, snapshots, confirmed>>
  BY DEF Connect
<1>2. Types'
  <2>1. /\ stage' \in [Requests -> Stages]
        /\ work' = [q \in Requests |-> work'[q]]
    BY <1>1 DEF ProtocolInv, Types, Stages
  <2>2. \A q \in Requests :
          IF q \in Connected' THEN work'[q] \in WorkOf(q) ELSE work'[q] = None
    BY <1>1 DEF ProtocolInv, Types, Connected
  <2>3. \A q \in Withdrawals : stage'[q] \in {"idle", "queued", "begun", "writing"}
    BY <1>1 DEF ProtocolInv, Types
  <2> QED
    BY <1>1, <2>1, <2>2, <2>3 DEF ProtocolInv, Types, WorkOf, locks, snapshots
<1>3. LockInv'
  BY <1>1 DEF ProtocolInv, Types, LockInv, Serving, Holding, locks
<1>4. ServiceInv'
  BY <1>1 DEF ProtocolInv, Types, ServiceInv, Holding, Stored, locks, snapshots
<1>5. WithdrawalInv'
  BY <1>1 DEF ProtocolInv, Types, WithdrawalInv, Stored, TargetRow, locks, snapshots
<1> QED
  BY <1>2, <1>3, <1>4, <1>5 DEF ProtocolInv

LEMMA LockServiceKeeps ==
  ASSUME ProtocolInv, NEW p \in Services, LockService(p)
  PROVE  ProtocolInv'
<1> USE TransactionConstants
<1>1. /\ stage[p] = "begun" /\ advisory = None /\ advisory' = p
      /\ stage' = [stage EXCEPT ![p] = "rows"]
      /\ UNCHANGED <<db, work, rowLock, contactLock, before, after, confirmed>>
  BY DEF LockService, snapshots
<1>2. Types'
  BY <1>1 DEF ProtocolInv, Types, Connected, Stages, WorkOf
<1>3. LockInv'
  BY <1>1 DEF ProtocolInv, Types, LockInv, Serving, Holding
<1>4. ServiceInv'
  BY <1>1 DEF ProtocolInv, Types, ServiceInv, Holding, Stored
<1>5. WithdrawalInv'
  BY <1>1 DEF ProtocolInv, Types, WithdrawalInv, Stored, TargetRow
<1> QED
  BY <1>2, <1>3, <1>4, <1>5 DEF ProtocolInv

LEMMA LockRowKeeps ==
  ASSUME ProtocolInv, NEW p \in Services, LockRow(p)
  PROVE  ProtocolInv'
<1> USE TransactionConstants
<1>1. PICK a \in Applications :
        /\ stage[p] = "rows" /\ rowLock[a] = None
        /\ rowLock' = [rowLock EXCEPT ![a] = p]
        /\ UNCHANGED <<db, stage, work, advisory, contactLock, before, after, confirmed>>
  BY DEF LockRow, snapshots
<1>2. Types'
  BY <1>1 DEF ProtocolInv, Types, Connected, WorkOf
<1>3. LockInv'
  <2>1. advisory' \in Services \cup {None} /\ \A q \in Services : stage'[q] \in Serving <=> advisory' = q
    BY <1>1 DEF ProtocolInv, Types, LockInv, Serving
  <2>2. \A b \in Applications, q \in Requests : rowLock'[b] = q =>
          IF q \in Services THEN stage'[q] \in Serving
          ELSE stage'[q] = "writing" /\ work'[q].application = b
    <3> SUFFICES ASSUME NEW b \in Applications, NEW q \in Requests, rowLock'[b] = q
                 PROVE  IF q \in Services THEN stage'[q] \in Serving
                        ELSE stage'[q] = "writing" /\ work'[q].application = b
      OBVIOUS
    <3>1. CASE b = a
      BY <1>1, <3>1 DEF ProtocolInv, Types, Serving
    <3>2. CASE b # a
      BY <1>1, <3>2 DEF ProtocolInv, Types, LockInv
    <3> QED
      BY <3>1, <3>2
  <2>3. \A b \in Applications : rowLock'[b] \in Requests \cup {None}
    BY <1>1 DEF ProtocolInv, Types, LockInv
  <2>4. \A b \in Applications :
          contactLock'[b] = None \/ (contactLock'[b] \in Services /\ stage'[contactLock'[b]] \in Holding)
    BY <1>1 DEF ProtocolInv, Types, LockInv, Holding
  <2> QED
    BY <2>1, <2>2, <2>3, <2>4 DEF LockInv
<1>4. ServiceInv'
  BY <1>1 DEF ProtocolInv, Types, ServiceInv, Holding, Stored
<1>5. WithdrawalInv'
  <2> SUFFICES ASSUME NEW q \in Withdrawals, stage[q] = "writing"
               PROVE  rowLock'[work[q].application] = q
    BY <1>1 DEF ProtocolInv, WithdrawalInv, Stored, TargetRow
  <2>1. work[q].application \in Applications
    BY DEF ProtocolInv, Types, Connected, WorkOf, WithdrawalWork
  <2>2. rowLock[work[q].application] = q
    BY DEF ProtocolInv, WithdrawalInv
  <2> QED
    BY <1>1, <2>1, <2>2 DEF ProtocolInv, Types
<1> QED
  BY <1>2, <1>3, <1>4, <1>5 DEF ProtocolInv

LEMMA FirstNatural ==
  ASSUME NEW S \in SUBSET Nat, S # {}
  PROVE  \E n \in S : \A m \in S : n <= m
<1>1. PICK n \in S : \A m \in S : ~(<<m, n>> \in OpToRel(<, Nat))
  <2>1. \E n \in S : \A m \in S : ~(<<m, n>> \in OpToRel(<, Nat))
    BY NatLessThanWellFounded, WFMin
  <2> QED
    BY <2>1
<1>2. \A m \in S : ~(m < n)
  BY <1>1 DEF OpToRel
<1> QED
  BY <1>2

(* Once no row is left to lock, every stored row is locked.                 *)
LEMMA AllRowsAreLocked ==
  ASSUME NEW p, RowsLocked(p), NEW a \in Applications, Stored(db, a)
  PROVE  rowLock[a] = p
<1> DEFINE unlocked == {c \in Applications : Stored(db, c) /\ rowLock[c] # p}
<1> SUFFICES ASSUME unlocked # {} PROVE FALSE
  OBVIOUS
<1>1. unlocked \in SUBSET Nat
  BY IntakeAssumption
<1>2. PICK n \in unlocked : \A m \in unlocked : n <= m
  <2> HIDE DEF unlocked
  <2> QED
    BY <1>1, FirstNatural
<1>3. NextRow(p, n)
  BY <1>2 DEF NextRow
<1> QED
  BY <1>2, <1>3 DEF RowsLocked

LEMMA LockContactsKeeps ==
  ASSUME ProtocolInv, NEW p \in Services, LockContacts(p)
  PROVE  ProtocolInv'
<1> USE TransactionConstants
<1>1. /\ stage[p] = "rows" /\ RowsLocked(p)
      /\ contactLock' = [a \in Applications |-> IF a \in db.contacts THEN p ELSE contactLock[a]]
      /\ stage' = [stage EXCEPT ![p] = "load"]
      /\ UNCHANGED <<db, work, advisory, rowLock, before, after, confirmed>>
  BY DEF LockContacts, snapshots
<1>2. Types'
  BY <1>1 DEF ProtocolInv, Types, Connected, Stages, WorkOf
<1>3. LockInv'
  BY <1>1 DEF ProtocolInv, Types, LockInv, Serving, Holding
<1>4. ServiceInv'
  <2>1. \A a \in Applications : Stored(db, a) => rowLock[a] = p
    BY <1>1, AllRowsAreLocked
  <2> QED
    BY <1>1, <2>1 DEF ProtocolInv, Types, ServiceInv, Holding, Stored
<1>5. WithdrawalInv'
  BY <1>1 DEF ProtocolInv, Types, WithdrawalInv, Stored, TargetRow
<1> QED
  BY <1>2, <1>3, <1>4, <1>5 DEF ProtocolInv

LEMMA LoadApplicationsKeeps ==
  ASSUME ProtocolInv, db \in Tables, NEW p \in Services, LoadApplications(p)
  PROVE  ProtocolInv'
<1> USE TransactionConstants
<1>1. /\ stage[p] = "load"
      /\ before' = [before EXCEPT ![p] = [EmptyTables EXCEPT !.applications = db.applications]]
      /\ stage' = [stage EXCEPT ![p] = "loadRest"]
      /\ UNCHANGED <<db, work, advisory, rowLock, contactLock, after, confirmed>>
  BY DEF LoadApplications, locks
<1>2. Types'
  BY <1>1 DEF ProtocolInv, Types, Connected, Stages, WorkOf
<1>3. LockInv'
  BY <1>1 DEF ProtocolInv, Types, LockInv, Serving, Holding
<1>4. ServiceInv'
  <2>1. before'[p].applications = db.applications
    BY <1>1 DEF ProtocolInv, Types, EmptyTables
  <2> QED
    BY <1>1, <2>1 DEF ProtocolInv, Types, ServiceInv, Holding, Stored
<1>5. WithdrawalInv'
  BY <1>1 DEF ProtocolInv, Types, WithdrawalInv, Stored, TargetRow
<1> QED
  BY <1>2, <1>3, <1>4, <1>5 DEF ProtocolInv

LEMMA LoadRestAndRunKeeps ==
  ASSUME ProtocolInv, db \in Tables, NEW p \in Services, LoadRestAndRun(p)
  PROVE  ProtocolInv'
<1> USE TransactionConstants
<1>1. stage[p] = "loadRest" /\ before[p].applications = db.applications
  BY DEF LoadRestAndRun, ProtocolInv, ServiceInv
<1>2. Loaded(p) = db
  BY <1>1 DEF Loaded, Tables
<1>3. PICK t \in Instants : \E result \in Results(work[p], db, t) :
        /\ before' = [before EXCEPT ![p] = db]
        /\ after' = [after EXCEPT ![p] = result]
        /\ stage' = [stage EXCEPT ![p] = "writing"]
        /\ UNCHANGED <<db, work, advisory, rowLock, contactLock, confirmed>>
  BY <1>2 DEF LoadRestAndRun, locks
<1>4. Types'
  BY <1>1, <1>3 DEF ProtocolInv, Types, Connected, Stages, WorkOf
<1>5. LockInv'
  <2>1. advisory' \in Services \cup {None} /\ \A q \in Services : stage'[q] \in Serving <=> advisory' = q
    BY <1>1, <1>3 DEF ProtocolInv, Types, LockInv, Serving
  <2>2. \A a \in Applications, q \in Requests : rowLock'[a] = q =>
          IF q \in Services THEN stage'[q] \in Serving
          ELSE stage'[q] = "writing" /\ work'[q].application = a
    <3>1. /\ rowLock' = rowLock /\ work' = work
          /\ \A q \in Requests : stage'[q] = IF q = p THEN "writing" ELSE stage[q]
      BY <1>3 DEF ProtocolInv, Types
    <3>2. \A a \in Applications, q \in Requests : rowLock[a] = q =>
            IF q \in Services THEN stage[q] \in Serving
            ELSE stage[q] = "writing" /\ work[q].application = a
      BY DEF ProtocolInv, LockInv
    <3> QED
      BY <3>1, <3>2 DEF Serving
  <2>3. \A a \in Applications : rowLock'[a] \in Requests \cup {None}
    BY <1>1, <1>3 DEF ProtocolInv, Types, LockInv
  <2>4. \A a \in Applications :
          contactLock'[a] = None \/ (contactLock'[a] \in Services /\ stage'[contactLock'[a]] \in Holding)
    BY <1>1, <1>3 DEF ProtocolInv, Types, LockInv, Holding
  <2> QED
    BY <2>1, <2>2, <2>3, <2>4 DEF LockInv
<1>6. ServiceInv'
  <2>1. before'[p] = db /\ after'[p] \in Results(work[p], db, t)
    BY <1>3 DEF ProtocolInv, Types
  <2>2. work' = work /\ db' = db
    BY <1>3
  <2>3. \A q \in Services : q # p =>
          stage'[q] = stage[q] /\ before'[q] = before[q] /\ after'[q] = after[q]
    BY <1>3 DEF ProtocolInv, Types
  <2> SUFFICES ASSUME NEW q \in Services
               PROVE  /\ stage'[q] \in Holding => \A a \in Applications : Stored(db, a) => rowLock[a] = q
                      /\ stage'[q] = "loadRest" => before'[q].applications = db.applications
                      /\ stage'[q] = "writing" =>
                           /\ before'[q] = db
                           /\ \E u \in Instants : after'[q] \in Results(work[q], db, u)
    <3>1. \A a : Stored(db, a)' <=> Stored(db, a)
      BY <2>2 DEF Stored
    <3>2. rowLock' = rowLock
      BY <1>3
    <3> QED
      BY <2>2, <3>1, <3>2 DEF ServiceInv
  <2>4. CASE q = p
    BY <1>1, <1>3, <2>1, <2>4 DEF ProtocolInv, Types, ServiceInv, Holding
  <2>5. CASE q # p
    BY <2>3, <2>5 DEF ProtocolInv, ServiceInv
  <2> QED
    BY <2>4, <2>5
<1>7. WithdrawalInv'
  BY <1>1, <1>3 DEF ProtocolInv, Types, WithdrawalInv, Stored, TargetRow
<1> QED
  BY <1>4, <1>5, <1>6, <1>7 DEF ProtocolInv

-----------------------------------------------------------------------------
(* The withdrawal path.                                                     *)
LEMMA TargetRowIsTheRow ==
  ASSUME NEW p, work[p].application \in Applications
  PROVE  /\ TargetRow(p).applications =
              [a \in Applications |-> IF a = work[p].application THEN db.applications[a] ELSE NoRow]
         /\ TargetRow(p).contacts = {}
         /\ TargetRow(p).idempotency = [k \in Keys |-> NoRow]
         /\ TargetRow(p).audit = [a \in Applications |-> <<>>]
         /\ Stored(TargetRow(p), work[p].application) <=> Stored(db, work[p].application)
         /\ Active(TargetRow(p), work[p].application) <=> Active(db, work[p].application)
BY DEF TargetRow, EmptyTables, Stored, Active

LEMMA LockRowAndRunKeeps ==
  ASSUME ProtocolInv, NEW p \in Withdrawals, LockRowAndRun(p)
  PROVE  ProtocolInv'
<1> USE TransactionConstants
<1> DEFINE target == work[p].application
<1>1. p \in Requests /\ stage[p] = "begun" /\ target \in Applications
  BY DEF LockRowAndRun, ProtocolInv, Types, Connected, WorkOf, WithdrawalWork
<1>2. /\ rowLock[target] = None
      /\ rowLock' = [rowLock EXCEPT ![target] = p]
      /\ before' = [before EXCEPT ![p] = TargetRow(p)]
      /\ \E result \in WithdrawalResults(TargetRow(p), target) : after' = [after EXCEPT ![p] = result]
      /\ stage' = [stage EXCEPT ![p] = "writing"]
      /\ UNCHANGED <<db, work, advisory, contactLock, confirmed>>
  BY DEF LockRowAndRun, RunWithdrawal
<1>3. Stored(db, target)
  BY <1>1, <1>2, TargetRowIsTheRow DEF WithdrawalResults
<1>4. Types'
  BY <1>1, <1>2 DEF ProtocolInv, Types, Connected, Stages, WorkOf
<1>5. LockInv'
  <2>1. /\ work' = work
        /\ \A q \in Requests : stage'[q] = IF q = p THEN "writing" ELSE stage[q]
        /\ \A a \in Applications : rowLock'[a] = IF a = target THEN p ELSE rowLock[a]
        /\ advisory' = advisory /\ contactLock' = contactLock
    BY <1>1, <1>2 DEF ProtocolInv, Types
  <2>2. \A q \in Services : stage'[q] \in Serving <=> advisory' = q
    BY <1>1, <2>1 DEF ProtocolInv, LockInv
  <2>3. \A a \in Applications, q \in Requests : rowLock'[a] = q =>
          IF q \in Services THEN stage'[q] \in Serving
          ELSE stage'[q] = "writing" /\ work'[q].application = a
    BY <1>1, <2>1 DEF ProtocolInv, LockInv
  <2>4. \A a \in Applications : rowLock'[a] \in Requests \cup {None}
    BY <1>1, <2>1 DEF ProtocolInv, LockInv
  <2>5. \A a \in Applications :
          contactLock'[a] = None \/ (contactLock'[a] \in Services /\ stage'[contactLock'[a]] \in Holding)
    BY <1>1, <2>1 DEF ProtocolInv, LockInv
  <2> QED
    BY <2>1, <2>2, <2>3, <2>4, <2>5 DEF ProtocolInv, LockInv
<1>6. ServiceInv'
  <2>1. \A q \in Services : stage[q] \notin Holding
    BY <1>1, <1>2, <1>3 DEF ProtocolInv, ServiceInv
  <2> QED
    BY <1>1, <1>2, <2>1 DEF ProtocolInv, Types, ServiceInv, Holding
<1>7. WithdrawalInv'
  <2> SUFFICES ASSUME NEW q \in Withdrawals, stage'[q] = "writing"
               PROVE  /\ Stored(db, work[q].application)
                      /\ rowLock'[work[q].application] = q
                      /\ before'[q] = TargetRow(q)
                      /\ after'[q] \in WithdrawalResults(TargetRow(q), work[q].application)
    BY <1>2 DEF WithdrawalInv, TargetRow, Stored
  <2>1. CASE q = p
    BY <1>1, <1>2, <1>3, <2>1 DEF ProtocolInv, Types
  <2>2. CASE q # p
    <3>1. stage[q] = "writing" /\ before'[q] = before[q] /\ after'[q] = after[q]
      BY <1>1, <1>2, <2>2 DEF ProtocolInv, Types
    <3>2. work[q].application \in Applications /\ rowLock[work[q].application] = q
      BY <3>1 DEF ProtocolInv, Types, Connected, WorkOf, WithdrawalWork, WithdrawalInv
    <3>3. rowLock'[work[q].application] = q
      BY <1>1, <1>2, <3>2 DEF ProtocolInv, Types
    <3> QED
      BY <3>1, <3>3 DEF ProtocolInv, WithdrawalInv
  <2> QED
    BY <2>1, <2>2
<1> QED
  BY <1>4, <1>5, <1>6, <1>7 DEF ProtocolInv

-----------------------------------------------------------------------------
(* What the two kinds of transactions commit.                               *)
LEMMA CommitIsSerial ==
  ASSUME ProtocolInv, db \in Tables, NEW p \in Services, Commit(p)
  PROVE  /\ work[p] \in ServiceWork
         /\ \E t \in Instants : db' \in Results(work[p], db, t)
<1>1. stage[p] = "writing" /\ db' = Written(p)
  BY DEF Commit, Committed
<1>2. p \in Requests /\ work[p] \in ServiceWork
  BY <1>1, TransactionConstants DEF ProtocolInv, Types, Connected, WorkOf
<1>3. before[p] = db /\ \E t \in Instants : after[p] \in Results(work[p], db, t)
  BY <1>1 DEF ProtocolInv, ServiceInv
<1>4. Extended(after[p])
  BY <1>2, <1>3, ResultsExtendTheTables
<1> QED
  BY <1>1, <1>2, <1>3, <1>4, WrittenIsAfter

LEMMA TablesUpdate ==
  ASSUME NEW f, NEW c, NEW i, NEW u, NEW d, NEW v
  PROVE  /\ [[applications |-> f, contacts |-> c, idempotency |-> i, audit |-> u] EXCEPT !.contacts = d]
              = [applications |-> f, contacts |-> d, idempotency |-> i, audit |-> u]
         /\ [[applications |-> f, contacts |-> c, idempotency |-> i, audit |-> u] EXCEPT !.audit = v]
              = [applications |-> f, contacts |-> c, idempotency |-> i, audit |-> v]
OBVIOUS

LEMMA WithdrawalIsSerial ==
  ASSUME ProtocolInv, db \in Tables, NEW p \in Withdrawals, CommitWithdrawal(p)
  PROVE  /\ work[p] \in WithdrawalWork
         /\ stage[p] = "writing"
         /\ db' \in WithdrawalResults(db, work[p].application)
<1> DEFINE a0 == work[p].application
           row == TargetRow(p)
<1>1. stage[p] = "writing" /\ p \in Requests
  BY TransactionConstants DEF CommitWithdrawal
<1>2. work[p] \in WithdrawalWork /\ a0 \in Applications
  BY <1>1, TransactionConstants DEF ProtocolInv, Types, Connected, WorkOf, WithdrawalWork
<1>3. Stored(db, a0) /\ before[p] = row /\ after[p] \in WithdrawalResults(row, a0)
  BY <1>1 DEF ProtocolInv, WithdrawalInv
<1>4. DeletesContact(p) <=> Active(db, a0)
  BY <1>2, <1>3, TargetRowIsTheRow DEF DeletesContact
<1>r. /\ row.applications = [a \in Applications |-> IF a = a0 THEN db.applications[a] ELSE NoRow]
      /\ row.contacts = {}
      /\ row.idempotency = [k \in Keys |-> NoRow]
      /\ row.audit = [a \in Applications |-> <<>>]
  BY <1>2, TargetRowIsTheRow
<1>t. \A a \in Applications : db.audit[a] \in Seq(AuditEvents)
  BY DEF Tables
<1>5. CASE ~Active(db, a0)
  <2>1. after[p] = before[p]
    BY <1>2, <1>3, <1>5, TargetRowIsTheRow DEF WithdrawalResults
  <2>2. \A a \in Applications : db.audit[a] \o
          SubSeq(after[p].audit[a], Len(before[p].audit[a]) + 1, Len(after[p].audit[a])) = db.audit[a]
    <3> TAKE a \in Applications
    <3>1. db.audit[a] \in Seq(AuditEvents) /\ after[p].audit[a] = <<>> /\ before[p].audit[a] = <<>>
      BY <1>3, <1>r, <1>t, <2>1
    <3> QED
      BY <3>1
  <2>3. Written(p) = [applications |-> [a \in Applications |-> db.applications[a]],
                      contacts |-> db.contacts,
                      idempotency |-> [k \in Keys |-> db.idempotency[k]],
                      audit |-> [a \in Applications |-> db.audit[a]]]
    BY <2>1, <2>2 DEF Written, ChangedApplications
  <2>4. Written(p) = db
    BY <2>3 DEF Tables
  <2> QED
    BY <1>1, <1>2, <1>3, <1>4, <1>5, <2>4 DEF CommitWithdrawal, Committed, WithdrawalResults
<1>6. CASE Active(db, a0)
  <2>1. after[p] = [row EXCEPT !.applications[a0].lifecycle = "WITHDRAWN",
                               !.contacts = @ \ {a0},
                               !.audit[a0] = Append(@, "withdrawn")]
    BY <1>2, <1>3, <1>6, TargetRowIsTheRow DEF WithdrawalResults
  <2>2. /\ after[p].applications = [row.applications EXCEPT ![a0].lifecycle = "WITHDRAWN"]
        /\ after[p].contacts = {}
        /\ after[p].idempotency = row.idempotency
        /\ after[p].audit = [row.audit EXCEPT ![a0] = Append(@, "withdrawn")]
    BY <1>2, <2>1, TargetRowIsTheRow DEF TargetRow, EmptyTables
  <2>3. \A a \in Applications :
          (IF a \in ChangedApplications(p) THEN after[p].applications[a] ELSE db.applications[a])
            = IF a = a0 THEN [db.applications[a] EXCEPT !.lifecycle = "WITHDRAWN"] ELSE db.applications[a]
    <3> HIDE DEF row
    <3>1. \A a \in Applications : a # a0 => after[p].applications[a] = before[p].applications[a]
      BY <1>3, <1>r, <2>2
    <3>2. /\ after[p].applications[a0] = [db.applications[a0] EXCEPT !.lifecycle = "WITHDRAWN"]
          /\ before[p].applications[a0] = db.applications[a0]
      BY <1>2, <1>3, <1>r, <2>2
    <3> QED
      BY <3>1, <3>2 DEF ChangedApplications
  <2>4. \A a \in Applications : db.audit[a] \o
          SubSeq(after[p].audit[a], Len(before[p].audit[a]) + 1, Len(after[p].audit[a]))
            = IF a = a0 THEN Append(db.audit[a], "withdrawn") ELSE db.audit[a]
    <3> TAKE a \in Applications
    <3>1. db.audit[a] \in Seq(AuditEvents) /\ before[p].audit[a] = <<>>
      BY <1>3, <1>r, <1>t
    <3>2. after[p].audit[a] = IF a = a0 THEN <<"withdrawn">> ELSE <<>>
      <4> HIDE DEF row
      <4>1. after[p].audit[a] = IF a = a0 THEN Append(row.audit[a], "withdrawn") ELSE row.audit[a]
        BY <1>r, <2>2
      <4> QED
        BY <1>r, <4>1
    <3>3. "withdrawn" \in AuditEvents
      BY DEF AuditEvents
    <3>4. /\ db.audit[a] \o SubSeq(<<"withdrawn">>, 1, 1) = Append(db.audit[a], "withdrawn")
          /\ db.audit[a] \o SubSeq(<<>>, 1, 0) = db.audit[a]
          /\ Len(<<"withdrawn">>) = 1 /\ Len(<<>>) = 0
      BY <3>1, <3>3
    <3>5. CASE a = a0
      BY <3>1, <3>2, <3>4, <3>5
    <3>6. CASE a # a0
      BY <3>1, <3>2, <3>4, <3>6
    <3> QED
      BY <3>5, <3>6
  <2>5. \A k \in Keys :
          (IF before[p].idempotency[k] # after[p].idempotency[k]
             THEN after[p].idempotency[k] ELSE db.idempotency[k]) = db.idempotency[k]
    BY <1>3, <2>2
  <2>6. (db.contacts \ (before[p].contacts \ after[p].contacts))
           \cup (after[p].contacts \ before[p].contacts) = db.contacts
    BY <1>2, <1>3, <2>2, TargetRowIsTheRow
  <2>7. Written(p) = [applications |-> [a \in Applications |->
                          IF a = a0 THEN [db.applications[a] EXCEPT !.lifecycle = "WITHDRAWN"]
                                    ELSE db.applications[a]],
                      contacts |-> db.contacts,
                      idempotency |-> [k \in Keys |-> db.idempotency[k]],
                      audit |-> [a \in Applications |->
                          IF a = a0 THEN Append(db.audit[a], "withdrawn") ELSE db.audit[a]]]
    BY <2>3, <2>4, <2>5, <2>6 DEF Written
  <2>8. [Written(p) EXCEPT !.contacts = @ \ {a0}]
          = [db EXCEPT !.applications[a0].lifecycle = "WITHDRAWN",
                       !.contacts = @ \ {a0},
                       !.audit[a0] = Append(@, "withdrawn")]
    <3> DEFINE withdrawn == [db EXCEPT !.applications[a0].lifecycle = "WITHDRAWN"]
               redacted == [withdrawn EXCEPT !.contacts = @ \ {a0}]
               result == [redacted EXCEPT !.audit[a0] = Append(@, "withdrawn")]
    <3>1. /\ db = [applications |-> db.applications, contacts |-> db.contacts,
                   idempotency |-> db.idempotency, audit |-> db.audit]
          /\ db.applications = [a \in Applications |-> db.applications[a]]
          /\ db.idempotency = [k \in Keys |-> db.idempotency[k]]
          /\ db.audit = [a \in Applications |-> db.audit[a]]
      BY DEF Tables
    <3>2. withdrawn = [applications |-> [db.applications EXCEPT ![a0].lifecycle = "WITHDRAWN"],
                       contacts |-> db.contacts, idempotency |-> db.idempotency, audit |-> db.audit]
      BY <3>1
    <3>3. redacted = [applications |-> [db.applications EXCEPT ![a0].lifecycle = "WITHDRAWN"],
                      contacts |-> db.contacts \ {a0}, idempotency |-> db.idempotency, audit |-> db.audit]
      <4>1. redacted = [withdrawn EXCEPT !.contacts = withdrawn.contacts \ {a0}]
        OBVIOUS
      <4>2. withdrawn.contacts \ {a0} = db.contacts \ {a0}
        BY <3>2
      <4> HIDE DEF withdrawn, redacted
      <4> QED
        BY <4>1, <4>2, <3>2, TablesUpdate
    <3>4. result = [applications |-> [db.applications EXCEPT ![a0].lifecycle = "WITHDRAWN"],
                    contacts |-> db.contacts \ {a0}, idempotency |-> db.idempotency,
                    audit |-> [db.audit EXCEPT ![a0] = Append(@, "withdrawn")]]
      <4>1. result = [redacted EXCEPT !.audit = [redacted.audit EXCEPT ![a0] = Append(@, "withdrawn")]]
        OBVIOUS
      <4> HIDE DEF redacted, result
      <4>2. [redacted.audit EXCEPT ![a0] = Append(@, "withdrawn")]
              = [db.audit EXCEPT ![a0] = Append(@, "withdrawn")]
        BY <3>3
      <4> QED
        BY <4>1, <4>2, <3>3, TablesUpdate
    <3>5. /\ [db.applications EXCEPT ![a0].lifecycle = "WITHDRAWN"]
               = [a \in Applications |-> IF a = a0 THEN [db.applications[a] EXCEPT !.lifecycle = "WITHDRAWN"]
                                                   ELSE db.applications[a]]
          /\ [db.audit EXCEPT ![a0] = Append(@, "withdrawn")]
               = [a \in Applications |-> IF a = a0 THEN Append(db.audit[a], "withdrawn") ELSE db.audit[a]]
      BY <1>2, <3>1
    <3>6. [db EXCEPT !.applications[a0].lifecycle = "WITHDRAWN",
                     !.contacts = @ \ {a0},
                     !.audit[a0] = Append(@, "withdrawn")] = result
      OBVIOUS
    <3>7. [Written(p) EXCEPT !.contacts = @ \ {a0}]
            = [applications |-> [db.applications EXCEPT ![a0].lifecycle = "WITHDRAWN"],
               contacts |-> db.contacts \ {a0}, idempotency |-> db.idempotency,
               audit |-> [db.audit EXCEPT ![a0] = Append(@, "withdrawn")]]
      <4>1. Written(p) = [applications |-> [db.applications EXCEPT ![a0].lifecycle = "WITHDRAWN"],
                          contacts |-> db.contacts, idempotency |-> db.idempotency,
                          audit |-> [db.audit EXCEPT ![a0] = Append(@, "withdrawn")]]
        BY <2>7, <3>1, <3>5
      <4>2. Written(p).contacts \ {a0} = db.contacts \ {a0}
        BY <4>1
      <4> DEFINE table == Written(p)
                 left == db.contacts \ {a0}
      <4>3. [table EXCEPT !.contacts = @ \ {a0}] = [table EXCEPT !.contacts = left]
        BY <4>2
      <4>4. [table EXCEPT !.contacts = left]
              = [applications |-> [db.applications EXCEPT ![a0].lifecycle = "WITHDRAWN"],
                 contacts |-> left, idempotency |-> db.idempotency,
                 audit |-> [db.audit EXCEPT ![a0] = Append(@, "withdrawn")]]
        <5> DEFINE rows == [db.applications EXCEPT ![a0].lifecycle = "WITHDRAWN"]
                   events == [db.audit EXCEPT ![a0] = Append(@, "withdrawn")]
        <5>1. table = [applications |-> rows, contacts |-> db.contacts,
                       idempotency |-> db.idempotency, audit |-> events]
          BY <4>1
        <5> HIDE DEF table, left, rows, events
        <5>2. [table EXCEPT !.contacts = left]
                = [applications |-> rows, contacts |-> left,
                   idempotency |-> db.idempotency, audit |-> events]
          BY <5>1
        <5> QED
          BY <5>2 DEF rows, events
      <4> QED
        BY <4>3, <4>4
    <3> HIDE DEF result
    <3> QED
      BY <3>4, <3>6, <3>7
  <2> QED
    BY <1>1, <1>2, <1>3, <1>4, <1>6, <2>8 DEF CommitWithdrawal, Committed, WithdrawalResults
<1> QED
  BY <1>5, <1>6

-----------------------------------------------------------------------------
(* The commits keep the locking protocol: whoever commits was alone with the *)
(* rows it wrote.                                                           *)
LEMMA CommittedEnds ==
  ASSUME Types, NEW p \in Requests, work[p] \in ServiceWork \cup WithdrawalWork,
         NEW tables, Committed(p, tables)
  PROVE  /\ Ends(p)
         /\ confirmed' \subseteq ServiceWork \cup WithdrawalWork
BY DEF Committed, Ends, Types

LEMMA CommitKeeps ==
  ASSUME ProtocolInv, db \in Tables, NEW p \in Services, Commit(p)
  PROVE  ProtocolInv'
<1> USE TransactionConstants
<1>1. p \in Requests /\ stage[p] = "writing" /\ work[p] \in ServiceWork
  BY CommitIsSerial DEF Commit
<1>2. Ends(p) /\ confirmed' \subseteq ServiceWork \cup WithdrawalWork
  BY <1>1, CommittedEnds DEF Commit, ProtocolInv
<1>3. Types' /\ LockInv'
  BY <1>1, <1>2, EndingIsTyped, EndingKeepsLocks DEF ProtocolInv
<1>4. \A q \in Requests : stage'[q] = IF q = p THEN "idle" ELSE stage[q]
  BY <1>1, <1>2 DEF Ends, ProtocolInv, Types
<1>5. /\ \A q \in Services : stage'[q] \notin Holding
      /\ \A q \in Withdrawals : stage'[q] # "writing"
  BY <1>1, <1>4, HoldingExcludesOthers DEF Holding, Serving
<1> QED
  BY <1>3, <1>5 DEF ProtocolInv, ServiceInv, WithdrawalInv, Holding

LEMMA WithdrawalChangesItsRow ==
  ASSUME db \in Tables, NEW a \in Applications, db' \in WithdrawalResults(db, a),
         NEW c \in Applications, c # a
  PROVE  db'.applications[c] = db.applications[c]
<1>1. CASE Active(db, a)
  <2>1. db' = [db EXCEPT !.applications[a].lifecycle = "WITHDRAWN",
                         !.contacts = @ \ {a},
                         !.audit[a] = Append(@, "withdrawn")]
    BY <1>1 DEF WithdrawalResults
  <2>2. db'.applications = [db.applications EXCEPT ![a].lifecycle = "WITHDRAWN"]
    BY <2>1 DEF Tables
  <2> QED
    BY <2>2 DEF Tables
<1>2. CASE ~Active(db, a)
  BY <1>2 DEF WithdrawalResults
<1> QED
  BY <1>1, <1>2

LEMMA CommitWithdrawalKeeps ==
  ASSUME ProtocolInv, db \in Tables, NEW p \in Withdrawals, CommitWithdrawal(p)
  PROVE  ProtocolInv'
<1> USE TransactionConstants
<1> DEFINE target == work[p].application
<1>1. /\ p \in Requests /\ stage[p] = "writing"
      /\ work[p] \in WithdrawalWork /\ target \in Applications
      /\ db' \in WithdrawalResults(db, target)
  BY WithdrawalIsSerial DEF WithdrawalWork
<1>2. Ends(p) /\ confirmed' \subseteq ServiceWork \cup WithdrawalWork
  BY <1>1, CommittedEnds DEF CommitWithdrawal, ProtocolInv
<1>3. Types' /\ LockInv'
  BY <1>1, <1>2, EndingIsTyped, EndingKeepsLocks DEF ProtocolInv
<1>4. /\ \A q \in Requests : stage'[q] = IF q = p THEN "idle" ELSE stage[q]
      /\ \A q \in Requests : q # p =>
           work'[q] = work[q] /\ before'[q] = before[q] /\ after'[q] = after[q]
      /\ \A a \in Applications : rowLock'[a] = IF rowLock[a] = p THEN None ELSE rowLock[a]
  BY <1>1, <1>2 DEF ProtocolInv, Types, Ends, Forget, ReleaseLocks
<1>5. ServiceInv'
  <2>1. \A q \in Services : stage'[q] \notin Holding
    BY <1>1, <1>4, HoldingExcludesOthers
  <2> QED
    BY <2>1 DEF ServiceInv, Holding
<1>6. WithdrawalInv'
  <2> SUFFICES ASSUME NEW q \in Withdrawals, stage'[q] = "writing"
               PROVE  /\ Stored(db, work[q].application)'
                      /\ rowLock'[work'[q].application] = q
                      /\ before'[q] = TargetRow(q)'
                      /\ after'[q] \in WithdrawalResults(TargetRow(q)', work'[q].application)
    BY DEF WithdrawalInv
  <2>1. q \in Requests /\ q # p /\ stage[q] = "writing"
    BY <1>1, <1>4
  <2>2. work[q].application \in Applications
    BY <2>1 DEF ProtocolInv, Types, Connected, WorkOf, WithdrawalWork
  <2>3. /\ Stored(db, work[q].application)
        /\ rowLock[work[q].application] = q
        /\ before[q] = TargetRow(q)
        /\ after[q] \in WithdrawalResults(TargetRow(q), work[q].application)
    BY <2>1 DEF ProtocolInv, WithdrawalInv
  <2>4. work[q].application # target
    BY <1>1, <2>1, <2>3 DEF ProtocolInv, WithdrawalInv
  <2>5. db'.applications[work[q].application] = db.applications[work[q].application]
    BY <1>1, <2>2, <2>4, WithdrawalChangesItsRow
  <2>6. work'[q] = work[q] /\ before'[q] = before[q] /\ after'[q] = after[q]
    BY <1>4, <2>1
  <2>7. TargetRow(q)' = TargetRow(q)
    BY <2>5, <2>6 DEF TargetRow
  <2>8. Stored(db, work[q].application)'
    BY <2>3, <2>5, <2>6 DEF Stored
  <2>9. rowLock'[work'[q].application] = q
    BY <1>4, <2>1, <2>2, <2>3, <2>6
  <2> QED
    BY <2>3, <2>6, <2>7, <2>8, <2>9
<1> QED
  BY <1>3, <1>5, <1>6 DEF ProtocolInv

(* A withdrawal that times out holds nothing yet.                           *)
LEMMA TimingOutEnds ==
  ASSUME ProtocolInv, NEW p \in Withdrawals, LockTimeout(p)
  PROVE  Ends(p) /\ db' = db /\ confirmed' = confirmed
<1> USE TransactionConstants
<1>1. /\ p \in Requests /\ stage[p] = "begun"
      /\ stage' = [stage EXCEPT ![p] = "idle"] /\ Forget(p)
      /\ UNCHANGED <<db, advisory, rowLock, contactLock, confirmed>>
  BY DEF LockTimeout, locks
<1>2. advisory # p /\ \A a \in Applications : rowLock[a] # p /\ contactLock[a] # p
  BY <1>1 DEF ProtocolInv, LockInv
<1>3. ReleaseLocks(p)
  BY <1>1, <1>2 DEF ReleaseLocks, ProtocolInv, Types
<1> QED
  BY <1>1, <1>3 DEF Ends

-----------------------------------------------------------------------------
(* A step of a transaction that does not commit keeps the protocol and       *)
(* touches no table.                                                       *)
LEMMA OnlyCommitsWrite ==
  ASSUME ProtocolInv, db \in Tables, [Next]_vars
  PROVE  \/ ProtocolInv' /\ db' = db /\ confirmed' = confirmed
         \/ \E p \in Services : Commit(p)
         \/ \E p \in Withdrawals : CommitWithdrawal(p)
<1> USE TransactionConstants
<1>1. ASSUME NEW p \in Requests, Arrive(p) \/ Connect(p)
      PROVE  ProtocolInv' /\ db' = db /\ confirmed' = confirmed
  BY <1>1, ArriveKeeps, ConnectKeeps DEF Arrive, Connect
<1>2. ASSUME NEW p \in Services, ServiceStep(p), ~Commit(p)
      PROVE  ProtocolInv' /\ db' = db /\ confirmed' = confirmed
  <2>1. CASE LockService(p)
    BY <2>1, LockServiceKeeps DEF LockService
  <2>2. CASE LockRow(p)
    BY <2>2, LockRowKeeps DEF LockRow
  <2>3. CASE LockContacts(p)
    BY <2>3, LockContactsKeeps DEF LockContacts
  <2>4. CASE LoadApplications(p)
    BY <2>4, LoadApplicationsKeeps DEF LoadApplications
  <2>5. CASE LoadRestAndRun(p)
    BY <2>5, LoadRestAndRunKeeps DEF LoadRestAndRun
  <2> QED
    BY <1>2, <2>1, <2>2, <2>3, <2>4, <2>5 DEF ServiceStep
<1>3. ASSUME NEW p \in Withdrawals, LockRowAndRun(p)
      PROVE  ProtocolInv' /\ db' = db /\ confirmed' = confirmed
  BY <1>3, LockRowAndRunKeeps DEF LockRowAndRun
<1>4. ASSUME NEW p \in Requests, RollBack(p) \/ Fail(p)
      PROVE  ProtocolInv' /\ db' = db /\ confirmed' = confirmed
  BY <1>4, EndingWithoutWriting DEF RollBack, Fail, Ends
<1>5. ASSUME NEW p \in Withdrawals, LockTimeout(p)
      PROVE  ProtocolInv' /\ db' = db /\ confirmed' = confirmed
  BY <1>5, TimingOutEnds, EndingWithoutWriting
<1>6. CASE UNCHANGED vars
  <2>1. UNCHANGED <<db, stage, work, advisory, rowLock, contactLock, before, after, confirmed>>
    BY <1>6 DEF vars
  <2>2. Types' /\ LockInv'
    BY <2>1 DEF ProtocolInv, Types, LockInv, Connected
  <2>3. ServiceInv'
    BY <2>1 DEF ProtocolInv, ServiceInv, Stored
  <2>4. WithdrawalInv'
    BY <2>1 DEF ProtocolInv, WithdrawalInv, Stored, TargetRow
  <2> QED
    BY <2>1, <2>2, <2>3, <2>4 DEF ProtocolInv
<1>7. CASE Next
  BY <1>1, <1>2, <1>3, <1>4, <1>5, <1>7 DEF Next, Advance, WithdrawalStep
<1> QED
  BY <1>6, <1>7

LEMMA ServiceCommitStep ==
  ASSUME NEW w \in ServiceWork, NEW t \in Instants, db' \in Results(w, db, t)
  PROVE  Serial!Next
<1>1. CASE w.op = "submit"
  BY <1>1, SerialNext DEF ServiceWork, Results
<1>2. CASE w.op = "decide"
  BY <1>2, SerialNext DEF ServiceWork, Results
<1>3. CASE w.op = "purge"
  BY <1>3, SerialNext DEF ServiceWork, Results
<1> QED
  BY <1>1, <1>2, <1>3 DEF ServiceWork

-----------------------------------------------------------------------------
(* What was confirmed lasts.                                               *)
LEMMA ReceiptsAreKept ==
  ASSUME db \in Tables, Serial!Next, NEW k \in Keys, db.idempotency[k] # NoRow
  PROVE  db'.idempotency[k] = db.idempotency[k]
<1>1. ASSUME NEW t \in Instants, NEW key \in Keys, NEW body \in Bodies,
             db' \in SubmissionResults(db, key, body, t)
      PROVE  db'.idempotency[k] = db.idempotency[k]
  BY <1>1, SubmissionExtends DEF SubmissionResults, Free, Extended
<1>2. ASSUME NEW t \in Instants, NEW a \in Applications, NEW decision \in ManualDecisions,
             db' \in DecisionResults(db, a, decision, t)
      PROVE  db'.idempotency[k] = db.idempotency[k]
  BY <1>2, DecisionExtends DEF DecisionResults, Extended
<1>3. ASSUME NEW t \in Instants, db' \in PurgeResults(db, t)
      PROVE  db'.idempotency[k] = db.idempotency[k]
  BY <1>3, PurgeExtends DEF Extended
<1>4. ASSUME NEW a \in Applications, db' \in WithdrawalResults(db, a)
      PROVE  db'.idempotency[k] = db.idempotency[k]
  BY <1>4 DEF WithdrawalResults, Tables
<1> QED
  BY <1>1, <1>2, <1>3, <1>4, SerialNext

LEMMA RowsAreFinal ==
  ASSUME Intake!IInv, Serial!Next, NEW a \in Applications, Stored(db, a)
  PROVE  /\ Stored(db, a)'
         /\ ~Active(db, a) => ~Active(db, a)'
         /\ db.applications[a].decision # "PENDING" =>
              db'.applications[a].decision = db.applications[a].decision
<1>1. CASE db' = db
  BY <1>1 DEF Stored, Active
<1>2. CASE db' # db
  <2>1. Intake!IInv /\ [Intake!Next]_db => [\A c \in Applications : Intake!RowIsFinal(c)]_db
    BY IntakeAssumption, IntakeRowAssumption, IntakeDefinitions, Intake!NextIsFinal
  <2>2. Intake!RowIsFinal(a)
    BY <1>2, <2>1, SerialNext
  <2> QED
    BY <2>2 DEF Intake!RowIsFinal, Intake!Stored, Intake!Active, Stored, Active
<1> QED
  BY <1>1, <1>2

LEMMA EffectsLast ==
  ASSUME Intake!IInv, Serial!Next, NEW w \in ServiceWork \cup WithdrawalWork, Effective(w),
         w.op \in {"withdraw", "decide"} => Stored(db, w.application)
  PROVE  /\ Effective(w)'
         /\ w.op \in {"withdraw", "decide"} => Stored(db, w.application)'
<1>1. CASE w.op = "submit"
  BY <1>1, ReceiptsAreKept, TablesAreTyped DEF Effective, ServiceWork, WithdrawalWork
<1>2. CASE w.op = "decide"
  <2>1. w.application \in Applications /\ w.decision # "PENDING"
    BY <1>2 DEF ServiceWork, WithdrawalWork, ManualDecisions
  <2> QED
    BY <1>2, <2>1, RowsAreFinal DEF Effective
<1>3. CASE w.op = "withdraw"
  <2>1. w.application \in Applications
    BY <1>3 DEF ServiceWork, WithdrawalWork
  <2>2. Stored(db, w.application)' /\ ~Active(db, w.application)'
    BY <1>3, <2>1, RowsAreFinal DEF Effective
  <2>3. Intake!IInv'
    BY SerialStepKeepsTables
  <2>4. w.application \notin db'.contacts
    BY <2>1, <2>2, <2>3 DEF Intake!IInv, Intake!ContactOnlyWhileActive, Intake!Active, Intake!Stored, Active, Stored
  <2> QED
    BY <1>3, <2>2, <2>4 DEF Effective
<1>4. CASE w.op = "purge"
  BY <1>4 DEF Effective
<1> QED
  BY <1>1, <1>2, <1>3, <1>4 DEF ServiceWork, WithdrawalWork

LEMMA ServiceEffect ==
  ASSUME db \in Tables, NEW w \in ServiceWork, NEW t \in Instants, db' \in Results(w, db, t)
  PROVE  /\ Effective(w)'
         /\ w.op \in {"withdraw", "decide"} => Stored(db, w.application)'
<1>1. CASE w.op = "submit"
  <2>1. w.key \in Keys /\ w.body \in Bodies
    BY <1>1 DEF ServiceWork
  <2>2. CASE /\ db' = db /\ db.idempotency[w.key] # NoRow
             /\ db.idempotency[w.key].request = w.body
    BY <1>1, <2>2 DEF Effective
  <2>3. CASE \E a \in Applications : db' = WithNewApplication(db, w.key, w.body, t, a)
    <3>1. PICK a \in Applications : db' = WithNewApplication(db, w.key, w.body, t, a)
      BY <2>3
    <3>2. db'.idempotency[w.key] = [request |-> w.body, application |-> a]
      BY <2>1, <3>1 DEF WithNewApplication, Tables
    <3>3. db'.idempotency[w.key] # NoRow
      BY <2>1, <3>2, IntakeRowAssumption DEF KeyRows
    <3> QED
      BY <1>1, <3>2, <3>3 DEF Effective
  <2> QED
    BY <1>1, <2>2, <2>3 DEF Results, SubmissionResults, Free
<1>2. CASE w.op = "decide"
  <2>1. w.application \in Applications /\ w.decision \in ManualDecisions
    BY <1>2 DEF ServiceWork
  <2>2. Active(db, w.application) /\ db.applications[w.application] \in ApplicationRows
    BY <1>2, <2>1 DEF Results, DecisionResults, Active, Stored, Tables
  <2>3. CASE db' = db /\ db.applications[w.application].decision = w.decision
    BY <1>2, <2>2, <2>3 DEF Effective, Active, Stored
  <2>4. CASE db' = WithDecision(db, w.application, w.decision, t)
    <3>1. db'.applications = [db.applications EXCEPT ![w.application].decision = w.decision,
                                                     ![w.application].expires = t + DecisionRetention]
      BY <2>4 DEF WithDecision, Tables
    <3> DEFINE row == db'.applications[w.application]
    <3>2. row = [db.applications[w.application] EXCEPT !.decision = w.decision,
                                                       !.expires = t + DecisionRetention]
      BY <2>1, <3>1 DEF Tables
    <3>3. t + DecisionRetention \in Nat
      BY IntakeAssumption
    <3>4. row \in ApplicationRows /\ row.decision = w.decision
      <4> HIDE DEF row
      <4> QED
        BY <2>1, <2>2, <3>2, <3>3 DEF ApplicationRows, Decisions
    <3>5. row # NoRow
      BY <3>4, IntakeRowAssumption
    <3> QED
      BY <1>2, <3>4, <3>5 DEF Effective, Stored
  <2> QED
    BY <1>2, <2>3, <2>4 DEF Results, DecisionResults
<1>3. CASE w.op = "purge"
  BY <1>3 DEF Effective
<1> QED
  BY <1>1, <1>2, <1>3 DEF ServiceWork

LEMMA WithdrawalEffect ==
  ASSUME Intake!IInv, Intake!IInv', NEW w \in WithdrawalWork, db' \in WithdrawalResults(db, w.application)
  PROVE  /\ Effective(w)'
         /\ Stored(db, w.application)'
<1> DEFINE a == w.application
<1>1. w.op = "withdraw" /\ a \in Applications /\ db \in Tables /\ Stored(db, a)
  BY TablesAreTyped DEF WithdrawalWork, WithdrawalResults
<1>2. Stored(db, a)' /\ ~Active(db, a)'
  <2>1. CASE ~Active(db, a)
    BY <1>1, <2>1 DEF WithdrawalResults, Stored, Active
  <2>2. CASE Active(db, a)
    <3>1. db' = [db EXCEPT !.applications[a].lifecycle = "WITHDRAWN",
                           !.contacts = @ \ {a},
                           !.audit[a] = Append(@, "withdrawn")]
      BY <1>1, <2>2 DEF WithdrawalResults
    <3> DEFINE row == db'.applications[a]
    <3>2. row = [db.applications[a] EXCEPT !.lifecycle = "WITHDRAWN"] /\ db.applications[a] \in ApplicationRows
      BY <1>1, <3>1 DEF Tables, Stored
    <3>3. row \in ApplicationRows /\ row.lifecycle = "WITHDRAWN"
      <4> HIDE DEF row
      <4> QED
        BY <3>2 DEF ApplicationRows, Lifecycles
    <3>4. row # NoRow
      BY <3>3, IntakeRowAssumption
    <3> QED
      BY <3>3, <3>4 DEF Stored, Active
  <2> QED
    BY <2>1, <2>2
<1>3. a \notin db'.contacts
  BY <1>1, <1>2 DEF Intake!IInv, Intake!ContactOnlyWhileActive, Intake!Active, Intake!Stored, Active, Stored
<1> QED
  BY <1>1, <1>2, <1>3 DEF Effective

-----------------------------------------------------------------------------
LEMMA InitIInv == Init => IInv
<1> SUFFICES ASSUME Init PROVE IInv
  OBVIOUS
<1> USE TransactionConstants DEF Init
<1>1. Types
  BY DEF Types, Connected, Stages
<1>2. LockInv
  BY DEF LockInv, Serving
<1>3. ServiceInv /\ WithdrawalInv
  BY DEF ServiceInv, WithdrawalInv, Holding
<1>4. ConfirmedInv
  BY DEF ConfirmedInv
<1> QED
  BY <1>1, <1>2, <1>3, <1>4, SerialInit DEF IInv, ProtocolInv

(* A step is a stutter of the atomic service or one of its steps, and keeps  *)
(* everything that was confirmed in effect.                                *)
LEMMA NextIInv == IInv /\ [Next]_vars => IInv' /\ [Serial!Next]_db
<1> SUFFICES ASSUME IInv, [Next]_vars PROVE IInv' /\ [Serial!Next]_db
  OBVIOUS
<1>1. db \in Tables /\ ProtocolInv /\ Intake!IInv /\ ConfirmedInv
  BY TablesAreTyped DEF IInv
<1>2. \A w \in confirmed : w \in ServiceWork \cup WithdrawalWork
  BY <1>1 DEF ProtocolInv, Types
<1>3. CASE ProtocolInv' /\ db' = db /\ confirmed' = confirmed
  <2>1. Intake!IInv'
    BY <1>1, <1>3, SerialStepKeepsTables
  <2>2. ConfirmedInv'
    BY <1>1, <1>3 DEF ConfirmedInv, Effective, Stored, Active
  <2> QED
    BY <1>3, <2>1, <2>2 DEF IInv
<1>4. ASSUME NEW done \in ServiceWork \cup WithdrawalWork, Serial!Next, ProtocolInv',
             confirmed' \in {confirmed, confirmed \cup {done}},
             Effective(done)',
             done.op \in {"withdraw", "decide"} => Stored(db, done.application)'
      PROVE  IInv' /\ [Serial!Next]_db
  <2>1. Intake!IInv'
    BY <1>1, <1>4, SerialStepKeepsTables
  <2>2. \A w \in confirmed :
          /\ Effective(w)'
          /\ w.op \in {"withdraw", "decide"} => Stored(db, w.application)'
    BY <1>1, <1>2, <1>4, EffectsLast DEF ConfirmedInv
  <2>3. \A w \in confirmed' : w \in confirmed \/ w = done
    BY <1>4
  <2>4. ConfirmedInv'
    BY <1>4, <2>2, <2>3 DEF ConfirmedInv
  <2> QED
    BY <1>4, <2>1, <2>4 DEF IInv
<1>5. ASSUME NEW p \in Services, Commit(p) PROVE IInv' /\ [Serial!Next]_db
  <2>1. PICK done : done = work[p]
    OBVIOUS
  <2>2. ProtocolInv'
    BY <1>1, <1>5, CommitKeeps
  <2>3. done \in ServiceWork /\ \E t \in Instants : db' \in Results(done, db, t)
    BY <1>1, <1>5, <2>1, CommitIsSerial
  <2>4. confirmed' \in {confirmed, confirmed \cup {done}}
    BY <1>5, <2>1 DEF Commit, Committed
  <2>5. Serial!Next
    BY <2>3, ServiceCommitStep
  <2>6. /\ Effective(done)'
        /\ done.op \in {"withdraw", "decide"} => Stored(db, done.application)'
    BY <1>1, <2>3, ServiceEffect
  <2> QED
    BY <1>4, <2>2, <2>3, <2>4, <2>5, <2>6
<1>6. ASSUME NEW p \in Withdrawals, CommitWithdrawal(p) PROVE IInv' /\ [Serial!Next]_db
  <2>1. PICK done : done = work[p]
    OBVIOUS
  <2>2. ProtocolInv'
    BY <1>1, <1>6, CommitWithdrawalKeeps
  <2>3. done \in WithdrawalWork /\ db' \in WithdrawalResults(db, done.application)
    BY <1>1, <1>6, <2>1, WithdrawalIsSerial
  <2>4. confirmed' \in {confirmed, confirmed \cup {done}}
    BY <1>6, <2>1 DEF CommitWithdrawal, Committed
  <2>5. Serial!Next
    BY <2>3, SerialNext DEF WithdrawalWork
  <2>6. Intake!IInv'
    BY <1>1, <2>5, SerialStepKeepsTables
  <2>7. Effective(done)' /\ Stored(db, done.application)'
    BY <1>1, <2>3, <2>6, WithdrawalEffect
  <2> QED
    BY <1>4, <2>2, <2>3, <2>4, <2>5, <2>7
<1> QED
  BY <1>1, <1>3, <1>5, <1>6, OnlyCommitsWrite

THEOREM Invariance == Spec => []IInv
<1>1. IInv /\ [Next]_vars => IInv'
  BY NextIInv
<1> QED
  BY InitIInv, <1>1, PTL DEF Spec

(* Locks are held by transactions under way, of the kind that takes them,    *)
(* and only those have work; a connection is held by nobody else.           *)
THEOREM TypeSafety == Spec => []TypeOK
<1>1. IInv => TypeOK
  <2> SUFFICES ASSUME IInv PROVE TypeOK
    OBVIOUS
  <2> USE TransactionConstants
  <2>1. Types /\ LockInv
    BY DEF IInv, ProtocolInv
  <2>2. \A p \in Requests : work[p] = None <=> p \notin Connected
    BY <2>1 DEF Types
  <2>3. advisory \in Connected \cup {None}
    BY <2>1 DEF LockInv, Connected, Serving
  <2>4. \A a \in Applications : rowLock[a] \in Connected \cup {None}
    BY <2>1 DEF LockInv, Connected, Serving
  <2>5. \A a \in Applications : contactLock[a] \in Connected \cup {None}
    BY <2>1 DEF LockInv, Connected, Holding
  <2>6. rowLock \in [Applications -> Requests \cup {None}] /\ contactLock \in [Applications -> Services \cup {None}]
    BY <2>1 DEF Types, LockInv
  <2> QED
    BY <2>1, <2>2, <2>3, <2>4, <2>5, <2>6 DEF TypeOK, Types, LockInv
<1> QED
  BY <1>1, Invariance, PTL

(* The advisory lock closes the insert race for any number of transactions:  *)
(* a callback that succeeded is never refused over a row inserted meanwhile. *)
THEOREM NoCallbackLosesItsInsert == Spec => []NoInsertRace
<1>1. IInv => NoInsertRace
  <2> SUFFICES ASSUME IInv, NEW p \in Services, stage[p] = "writing" PROVE ~Conflict(p)
    BY DEF NoInsertRace
  <2>1. /\ before[p] = db /\ \E t \in Instants : after[p] \in Results(work[p], db, t)
        /\ p \in Requests /\ work[p] \in ServiceWork
        /\ db \in Tables
    BY TransactionConstants, TablesAreTyped DEF IInv, ProtocolInv, ServiceInv, Types, Connected, WorkOf
  <2> QED
    BY <2>1, ResultsExtendTheTables, WrittenIsAfter
<1> QED
  BY <1>1, Invariance, PTL

(* Every wait leads to a request that is further on its way: queued behind    *)
(* the pool, at the advisory lock or at its row, between rows, before the     *)
(* contact row.  However many transactions there are, they never deadlock.  *)
THEOREM NobodyWaitsInACircle == Spec => []WaitingGoesForward
<1>1. IInv => WaitingGoesForward
  <2> SUFFICES ASSUME IInv, NEW p \in Requests, NEW q \in BlockedBy(p)
               PROVE  Depth(q) < Depth(p)
    BY DEF WaitingGoesForward
  <2>1. /\ Types /\ LockInv
        /\ q \in Requests /\ q # p
        /\ stage[q] \in Stages \ {"idle", "queued"}
    BY DEF IInv, ProtocolInv, BlockedBy, Connected, Types
  <2>2. \A r \in Services : r \in Requests /\ r \notin Withdrawals
    BY TransactionConstants
  <2>3. CASE stage[p] = "queued"
    <3>1. Depth(p) = 4
      BY <2>3 DEF Depth
    <3>2. Depth(q) \in 0..3
      BY <2>1 DEF Depth, Stages
    <3> QED
      BY <3>1, <3>2
  <2>4. CASE stage[p] = "begun" /\ p \in Services /\ advisory = q
    <3>1. Depth(p) = 3
      BY <2>4 DEF Depth
    <3>2. stage[q] \in Serving
      BY <2>1, <2>2, <2>4, TransactionConstants DEF LockInv
    <3>3. Depth(q) \in 0..2
      BY <3>2 DEF Depth, Serving
    <3> QED
      BY <3>1, <3>3
  <2>5. CASE stage[p] = "rows" /\ \E a \in Applications : rowLock[a] = q
    <3>1. Depth(p) = 2
      BY <2>5 DEF Depth
    <3>2. p \in Services /\ advisory = p
      BY <2>1, <2>5 DEF Types, LockInv, Serving, Requests
    <3>3. q \in Withdrawals /\ stage[q] = "writing"
      BY <2>1, <2>5, <3>2 DEF LockInv, Requests
    <3>4. Depth(q) = 1
      BY <3>3 DEF Depth
    <3> QED
      BY <3>1, <3>4
  <2>6. CASE stage[p] = "rows" /\ \E a \in db.contacts : contactLock[a] = q
    <3>1. p \in Services /\ advisory = p
      BY <2>1, <2>6 DEF Types, LockInv, Serving, Requests
    <3>2. db.contacts \subseteq Applications
      BY TablesAreTyped DEF IInv, Tables
    <3>3. q \in Services /\ stage[q] \in Serving
      BY <2>1, <2>2, <2>6, <3>2, TransactionConstants DEF LockInv, Holding, Serving
    <3> QED
      BY <2>1, <3>1, <3>3 DEF LockInv
  <2>7. CASE stage[p] = "begun" /\ p \in Withdrawals /\ rowLock[work[p].application] = q
    <3>1. Depth(p) = 3
      BY <2>7 DEF Depth
    <3>2. work[p].application \in Applications
      BY <2>1, <2>7, TransactionConstants DEF Types, Connected, WorkOf, WithdrawalWork
    <3>3. stage[q] \in Serving
      BY <2>1, <2>7, <3>2 DEF LockInv, Serving
    <3>4. Depth(q) \in 0..2
      BY <3>3 DEF Depth, Serving
    <3> QED
      BY <3>1, <3>4
  <2>8. CASE /\ stage[p] = "writing" /\ p \in Withdrawals
             /\ contactLock[work[p].application] = q
    <3>1. Depth(p) = 1
      BY <2>8 DEF Depth
    <3>2. work[p].application \in Applications
      BY <2>1, <2>8, TransactionConstants DEF Types, Connected, WorkOf, WithdrawalWork
    <3>3. q \in Services /\ stage[q] \in Holding
      BY <2>1, <2>2, <2>8, <3>2, TransactionConstants DEF LockInv
    <3>4. Depth(q) = 0
      BY <2>2, <3>3 DEF Depth, Holding
    <3> QED
      BY <3>1, <3>4
  <2> QED
    BY <2>3, <2>4, <2>5, <2>6, <2>7, <2>8 DEF BlockedBy
<1> QED
  BY <1>1, Invariance, PTL

(* What a client was told has happened stays so, whatever the two kinds of   *)
(* transactions commit later, and asking for it again changes nothing.      *)
THEOREM ConfirmationsLast == Spec => []ConfirmedIsDurable
<1>1. IInv => ConfirmedIsDurable
  <2> SUFFICES ASSUME IInv, NEW w \in confirmed PROVE Effective(w) /\ Repeatable(w)
    BY DEF ConfirmedIsDurable
  <2>1. /\ w \in ServiceWork \cup WithdrawalWork
        /\ Effective(w)
        /\ w.op \in {"withdraw", "decide"} => Stored(db, w.application)
    BY DEF IInv, ProtocolInv, Types, ConfirmedInv
  <2>2. CASE w.op = "submit"
    BY <2>1, <2>2 DEF Effective, Repeatable, Results, SubmissionResults
  <2>3. CASE w.op = "decide"
    <3>1. db.applications[w.application].decision \in ManualDecisions
      BY <2>1, <2>3 DEF Effective, ServiceWork, WithdrawalWork
    <3> QED
      BY <2>1, <2>3, <3>1 DEF Effective, Repeatable, Results, DecisionResults, ManualDecisions
  <2>4. CASE w.op = "withdraw"
    BY <2>1, <2>4 DEF Effective, Repeatable, WithdrawalResults
  <2>5. CASE w.op = "purge"
    BY <2>1, <2>5 DEF Repeatable
  <2> QED
    BY <2>1, <2>2, <2>3, <2>4, <2>5 DEF ServiceWork, WithdrawalWork
<1> QED
  BY <1>1, Invariance, PTL

(* The transactions implement the atomic service: each commit is one of its  *)
(* steps on the tables as they are, so no update of the other path is lost.  *)
THEOREM TransactionsImplementTheService == Spec => TransactionsAreSerial
<1>1. Init => Serial!Init
  BY SerialInit
<1>2. IInv /\ [Next]_vars => [Serial!Next]_db
  BY NextIInv
<1> QED
  BY <1>1, <1>2, Invariance, PTL DEF Spec, TransactionsAreSerial, Serial!Spec
=============================================================================
