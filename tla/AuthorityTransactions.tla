----------------------- MODULE AuthorityTransactions -----------------------
(***************************************************************************)
(* How the PostgreSQL adapter makes the service's operations atomic.  A     *)
(* service transaction takes the service-wide advisory lock, locks every    *)
(* application and contact row in a fixed order, loads the tables, runs the *)
(* operation on that snapshot in memory, and writes the difference back     *)
(* before it commits.  The withdrawal of one application takes another     *)
(* path: no advisory lock, one row lock, a lock timeout.                    *)
(*                                                                         *)
(* The tables are those of the application intake, the only ones the        *)
(* withdrawal path shares with the rest.  Every other operation of the      *)
(* service is a service transaction like these and holds the advisory lock. *)
(*                                                                         *)
(* PostgreSQL runs at READ COMMITTED: a statement sees what was committed   *)
(* when it started, uncommitted writes are seen by nobody else, and a lock  *)
(* is held until its transaction commits or rolls back.                     *)
(***************************************************************************)
EXTENDS IntakeOperations

CONSTANTS Services,      \* requests served by service transactions
          Withdrawals,   \* requests served by withdrawal transactions
          PoolSize,      \* database connections of the process
          None           \* nobody holds the lock, nothing is loaded

Requests == Services \cup Withdrawals

ASSUME TransactionAssumption ==
  /\ Services \cap Withdrawals = {}
  /\ None \notin Requests
  /\ PoolSize \in Nat \ {0}

VARIABLES db,            \* the committed tables
          stage,         \* how far each request has come
          work,          \* the operation each request asks for
          advisory,      \* holder of the service-wide advisory lock
          rowLock,       \* holder of the lock on each application row
          contactLock,   \* holder of the lock on each contact row
          before,        \* the snapshot each transaction has loaded
          after,         \* the snapshot its callback has left behind
          confirmed      \* operations whose success a client has been told

vars == <<db, stage, work, advisory, rowLock, contactLock, before, after, confirmed>>
locks == <<advisory, rowLock, contactLock>>
snapshots == <<before, after>>

ServiceWork ==
  [op : {"submit"}, key : Keys, body : Bodies]
    \cup [op : {"decide"}, application : Applications, decision : ManualDecisions]
    \cup [op : {"purge"}, cutoff : Instants]
WithdrawalWork == [op : {"withdraw"}, application : Applications]
WorkOf(p) == IF p \in Services THEN ServiceWork ELSE WithdrawalWork

ASSUME WorkAssumption == None \notin ServiceWork \cup WithdrawalWork

(* The callback of a service transaction on a snapshot; it reads the    *)
(* clock itself, the cutoff of a purge is read before.                      *)
Results(w, tables, t) ==
  CASE w.op = "submit"   -> SubmissionResults(tables, w.key, w.body, t)
    [] w.op = "decide"   -> DecisionResults(tables, w.application, w.decision, t)
    [] w.op = "purge"    -> PurgeResults(tables, w.cutoff)

Init ==
  /\ db = EmptyTables
  /\ stage = [p \in Requests |-> "idle"]
  /\ work = [p \in Requests |-> None]
  /\ advisory = None
  /\ rowLock = [a \in Applications |-> None]
  /\ contactLock = [a \in Applications |-> None]
  /\ before = [p \in Requests |-> None]
  /\ after = [p \in Requests |-> None]
  /\ confirmed = {}

-----------------------------------------------------------------------------
(* A request arrives and waits for a connection of the pool.               *)

Connected == {p \in Requests : stage[p] \notin {"idle", "queued"}}

Arrive(p) ==
  /\ stage[p] = "idle"
  /\ stage' = [stage EXCEPT ![p] = "queued"]
  /\ UNCHANGED <<db, work, locks, snapshots, confirmed>>

(* What it asks for matters from here on.                                  *)
Connect(p) ==
  /\ stage[p] = "queued"
  /\ Cardinality(Connected) < PoolSize
  /\ \E w \in WorkOf(p) : work' = [work EXCEPT ![p] = w]
  /\ stage' = [stage EXCEPT ![p] = "begun"]
  /\ UNCHANGED <<db, locks, snapshots, confirmed>>

ReleaseLocks(p) ==
  /\ advisory' = IF advisory = p THEN None ELSE advisory
  /\ rowLock' = [a \in Applications |-> IF rowLock[a] = p THEN None ELSE rowLock[a]]
  /\ contactLock' = [a \in Applications |-> IF contactLock[a] = p THEN None ELSE contactLock[a]]

Forget(p) ==
  /\ work' = [work EXCEPT ![p] = None]
  /\ before' = [before EXCEPT ![p] = None]
  /\ after' = [after EXCEPT ![p] = None]

-----------------------------------------------------------------------------
(* The service transaction.                                                *)

(* Faulty variant: the advisory lock does not exclude anybody.              *)
LockServiceShared(p) ==
  /\ stage[p] = "begun"
  /\ advisory' = p
  /\ stage' = [stage EXCEPT ![p] = "rows"]
  /\ UNCHANGED <<db, work, rowLock, contactLock, snapshots, confirmed>>

(* Faulty variant: the contact rows are locked before the applications.     *)
LockServiceThenContacts(p) ==
  /\ stage[p] = "begun"
  /\ advisory = None
  /\ advisory' = p
  /\ contactLock' = [a \in Applications |-> IF a \in db.contacts THEN p ELSE contactLock[a]]
  /\ stage' = [stage EXCEPT ![p] = "rows"]
  /\ UNCHANGED <<db, work, rowLock, snapshots, confirmed>>

LockService(p) ==
  /\ stage[p] = "begun"
  /\ advisory = None
  /\ advisory' = p
  /\ stage' = [stage EXCEPT ![p] = "rows"]
  /\ UNCHANGED <<db, work, rowLock, contactLock, snapshots, confirmed>>

NextRow(p, a) ==
  /\ Stored(db, a) /\ rowLock[a] # p
  /\ \A c \in Applications : Stored(db, c) /\ rowLock[c] # p => a <= c

(* Application rows are locked one after the other, in the order of their   *)
(* ids; a row that a withdrawal holds is waited for.                        *)
LockRow(p) ==
  /\ stage[p] = "rows"
  /\ \E a \in Applications :
       /\ NextRow(p, a)
       /\ rowLock[a] = None
       /\ rowLock' = [rowLock EXCEPT ![a] = p]
  /\ UNCHANGED <<db, stage, work, advisory, contactLock, snapshots, confirmed>>

RowsLocked(p) == \A a \in Applications : ~NextRow(p, a)

(* Faulty variant: the contact rows are locked, the application rows are    *)
(* not waited for.                                                         *)
LockContactsOnly(p) ==
  /\ stage[p] = "rows"
  /\ \A a \in db.contacts : contactLock[a] \in {None, p}
  /\ contactLock' = [a \in Applications |-> IF a \in db.contacts THEN p ELSE contactLock[a]]
  /\ stage' = [stage EXCEPT ![p] = "load"]
  /\ UNCHANGED <<db, work, advisory, rowLock, snapshots, confirmed>>

LockContacts(p) ==
  /\ stage[p] = "rows"
  /\ RowsLocked(p)
  /\ \A a \in db.contacts : contactLock[a] \in {None, p}
  /\ contactLock' = [a \in Applications |-> IF a \in db.contacts THEN p ELSE contactLock[a]]
  /\ stage' = [stage EXCEPT ![p] = "load"]
  /\ UNCHANGED <<db, work, advisory, rowLock, snapshots, confirmed>>

(* The tables are read one statement after the other: first the             *)
(* applications, then the rest.                                            *)
LoadApplications(p) ==
  /\ stage[p] = "load"
  /\ before' = [before EXCEPT ![p] =
                  [EmptyTables EXCEPT !.applications = db.applications]]
  /\ stage' = [stage EXCEPT ![p] = "loadRest"]
  /\ UNCHANGED <<db, work, locks, after, confirmed>>

Loaded(p) == [db EXCEPT !.applications = before[p].applications]

(* Once everything is loaded the operation runs on it in memory.            *)
LoadRestAndRun(p) ==
  /\ stage[p] = "loadRest"
  /\ before' = [before EXCEPT ![p] = Loaded(p)]
  /\ \E t \in Instants : \E result \in Results(work[p], Loaded(p), t) :
       after' = [after EXCEPT ![p] = result]
  /\ stage' = [stage EXCEPT ![p] = "writing"]
  /\ UNCHANGED <<db, work, locks, confirmed>>

Refused(p) == \A t \in Instants : Results(work[p], Loaded(p), t) = {}

(* The writes are the rows that differ between the two snapshots; an        *)
(* updated row is written as a whole.                                      *)
ChangedApplications(p) ==
  {a \in Applications : before[p].applications[a] # after[p].applications[a]}

Written(p) ==
  [applications |-> [a \in Applications |->
                       IF a \in ChangedApplications(p) THEN after[p].applications[a]
                                                       ELSE db.applications[a]],
   contacts     |-> (db.contacts \ (before[p].contacts \ after[p].contacts))
                       \cup (after[p].contacts \ before[p].contacts),
   idempotency  |-> [k \in Keys |->
                       IF before[p].idempotency[k] # after[p].idempotency[k]
                         THEN after[p].idempotency[k] ELSE db.idempotency[k]],
   audit        |-> [a \in Applications |->
                       db.audit[a] \o SubSeq(after[p].audit[a],
                                             Len(before[p].audit[a]) + 1,
                                             Len(after[p].audit[a]))]]

(* A new row whose primary key somebody else has committed meanwhile.       *)
Conflict(p) ==
  \/ \E k \in Keys : /\ before[p].idempotency[k] # after[p].idempotency[k]
                     /\ db.idempotency[k] # NoRow
  \/ \E a \in Applications : /\ ~Stored(before[p], a) /\ Stored(after[p], a)
                             /\ Stored(db, a)

(* The client is answered after the commit; the answer may be lost.         *)
Committed(p, tables) ==
  /\ db' = tables
  /\ confirmed' \in {confirmed, confirmed \cup {work[p]}}
  /\ stage' = [stage EXCEPT ![p] = "idle"]
  /\ Forget(p)
  /\ ReleaseLocks(p)

Commit(p) ==
  /\ stage[p] = "writing"
  /\ ~Conflict(p)
  /\ Committed(p, Written(p))

-----------------------------------------------------------------------------
(* The withdrawal transaction.                                             *)

TargetRow(p) ==
  [EmptyTables EXCEPT !.applications[work[p].application] =
                         db.applications[work[p].application]]

RunWithdrawal(p) ==
  /\ before' = [before EXCEPT ![p] = TargetRow(p)]
  /\ \E result \in WithdrawalResults(TargetRow(p), work[p].application) :
       after' = [after EXCEPT ![p] = result]
  /\ stage' = [stage EXCEPT ![p] = "writing"]

(* Faulty variant: the row is read without FOR UPDATE.                      *)
ReadRowAndRun(p) ==
  /\ stage[p] = "begun"
  /\ RunWithdrawal(p)
  /\ UNCHANGED <<db, work, locks, confirmed>>

(* One statement locks the target row and reads it, and nothing else; the   *)
(* withdrawal then runs on that row in memory.                             *)
LockRowAndRun(p) ==
  /\ stage[p] = "begun"
  /\ rowLock[work[p].application] = None
  /\ rowLock' = [rowLock EXCEPT ![work[p].application] = p]
  /\ RunWithdrawal(p)
  /\ UNCHANGED <<db, work, advisory, contactLock, confirmed>>

(* The contact row is deleted although it was never read.                   *)
DeletesContact(p) == Active(before[p], work[p].application)

CommitWithdrawal(p) ==
  /\ stage[p] = "writing"
  /\ DeletesContact(p) => contactLock[work[p].application] = None
  /\ Committed(p, IF DeletesContact(p)
                    THEN [Written(p) EXCEPT !.contacts = @ \ {work[p].application}]
                    ELSE Written(p))

-----------------------------------------------------------------------------
(* How else a request ends.                                                *)

(* A refused operation or a broken constraint rolls the transaction back.   *)
RollBack(p) ==
  /\ \/ stage[p] = "loadRest" /\ Refused(p)
     \/ stage[p] = "writing" /\ p \in Services /\ Conflict(p)
     \/ /\ stage[p] = "begun" /\ p \in Withdrawals
        /\ WithdrawalResults(TargetRow(p), work[p].application) = {}
  /\ stage' = [stage EXCEPT ![p] = "idle"]
  /\ Forget(p)
  /\ ReleaseLocks(p)
  /\ UNCHANGED <<db, confirmed>>

(* The database gives up a withdrawal that waits for its row.               *)
LockTimeout(p) ==
  /\ stage[p] = "begun"
  /\ rowLock[work[p].application] # None
  /\ stage' = [stage EXCEPT ![p] = "idle"]
  /\ Forget(p)
  /\ UNCHANGED <<db, locks, confirmed>>

(* The connection, the process or the client is lost before the commit, and *)
(* everything is rolled back.                                              *)
Fail(p) ==
  /\ stage[p] # "idle"
  /\ stage' = [stage EXCEPT ![p] = "idle"]
  /\ Forget(p)
  /\ ReleaseLocks(p)
  /\ UNCHANGED <<db, confirmed>>

-----------------------------------------------------------------------------
ServiceStep(p) ==
  \/ LockService(p) \/ LockRow(p) \/ LockContacts(p)
  \/ LoadApplications(p) \/ LoadRestAndRun(p) \/ Commit(p)

WithdrawalStep(p) == LockRowAndRun(p) \/ CommitWithdrawal(p)

(* What moves a request forward without anything going wrong.              *)
Advance(p) ==
  \/ Connect(p) \/ RollBack(p)
  \/ p \in Services /\ ServiceStep(p)
  \/ p \in Withdrawals /\ WithdrawalStep(p)

Next ==
  \/ \E p \in Requests : Arrive(p) \/ Advance(p) \/ Fail(p)
  \/ \E p \in Withdrawals : LockTimeout(p)

Spec == Init /\ [][Next]_vars

(* The queues for connections and locks serve every waiter in turn, and     *)
(* nobody stops between two statements: a request that can advance again    *)
(* and again does.  Timeouts and failures may happen but need not.          *)
FairSpec == Spec /\ \A p \in Requests : SF_vars(Advance(p))

-----------------------------------------------------------------------------
Stages == {"idle", "queued", "begun", "rows", "load", "loadRest", "writing"}

(* Locks are held by transactions under way, and only those have work.      *)
TypeOK ==
  /\ stage \in [Requests -> Stages]
  /\ advisory \in Services \cup {None}
  /\ rowLock \in [Applications -> Requests \cup {None}]
  /\ contactLock \in [Applications -> Services \cup {None}]
  /\ \A p \in Requests : work[p] = None <=> p \notin Connected
  /\ advisory \in Connected \cup {None}
  /\ \A a \in Applications : {rowLock[a], contactLock[a]} \subseteq Connected \cup {None}
  /\ confirmed \subseteq ServiceWork \cup WithdrawalWork

(* The advisory lock closes the insert race: no operation whose callback    *)
(* succeeded is refused because somebody else inserted its row first.       *)
NoInsertRace ==
  \A p \in Services : stage[p] = "writing" => ~Conflict(p)

(* Whom a request cannot go on without: the pool is full, or the next       *)
(* statement needs a lock that somebody else holds.                        *)
BlockedBy(p) ==
  {q \in Connected \ {p} :
     \/ stage[p] = "queued" /\ Cardinality(Connected) >= PoolSize
     \/ stage[p] = "begun" /\ p \in Services /\ advisory = q
     \/ stage[p] = "rows" /\ \E a \in Applications : NextRow(p, a) /\ rowLock[a] = q
     \/ /\ stage[p] = "rows" /\ RowsLocked(p)
        /\ \E a \in db.contacts : contactLock[a] = q
     \/ stage[p] = "begun" /\ p \in Withdrawals /\ rowLock[work[p].application] = q
     \/ /\ stage[p] = "writing" /\ p \in Withdrawals
        /\ DeletesContact(p) /\ contactLock[work[p].application] = q}

(* The order in which the two paths take what they share: connections, the   *)
(* advisory lock and a withdrawal's row, the rows, the contact rows.        *)
Depth(p) ==
  CASE stage[p] \in {"idle", "queued"} -> 4
    [] stage[p] = "begun" -> 3
    [] stage[p] = "rows" -> 2
    [] stage[p] = "writing" /\ p \in Withdrawals -> 1
    [] OTHER -> 0

(* Whoever waits, waits for a request that is further on its way, so nobody  *)
(* waits in a circle: the database has no deadlock to break.                *)
WaitingGoesForward ==
  \A p \in Requests : \A q \in BlockedBy(p) : Depth(q) < Depth(p)

Effective(w) ==
  CASE w.op = "submit" -> /\ db.idempotency[w.key] # NoRow
                          /\ db.idempotency[w.key].request = w.body
    [] w.op = "decide" -> db.applications[w.application].decision = w.decision
    [] w.op = "withdraw" -> /\ ~Active(db, w.application)
                            /\ w.application \notin db.contacts
    [] w.op = "purge" -> TRUE

(* A submission or a withdrawal that is repeated gets the answer it got, a   *)
(* decision gets it or is refused, and nothing changes.                     *)
Repeatable(w) ==
  CASE w.op = "submit" -> \A t \in Instants : Results(w, db, t) = {db}
    [] w.op = "decide" -> \A t \in Instants : Results(w, db, t) \subseteq {db}
    [] w.op = "withdraw" -> WithdrawalResults(db, w.application) = {db}
    [] w.op = "purge" -> TRUE

(* What a client was told has happened stays so, whatever transactions with *)
(* older snapshots commit later, and a retry of it is harmless.             *)
ConfirmedIsDurable == \A w \in confirmed : Effective(w) /\ Repeatable(w)

Serial == INSTANCE ApplicationIntake

(* Every committed transaction is one step of the atomic service: no update *)
(* is lost between the two transaction paths, no redacted contact returns.  *)
TransactionsAreSerial == Serial!Spec

(* Every request that arrives is answered, refused or fails, without the    *)
(* help of a timeout: no deadlock between the two paths or over the pool.   *)
EveryRequestEnds == \A p \in Requests : stage[p] = "queued" ~> stage[p] = "idle"
=============================================================================
