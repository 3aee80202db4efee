---------------------- MODULE ReviewerAuthorityProofs ----------------------
(***************************************************************************)
(* Theorems about ReviewerAuthority for every set of reviewers, principals, *)
(* invitations and versions, and for any stamps the clocks give.           *)
(***************************************************************************)
EXTENDS ReviewerAuthority, SequenceTheorems, FiniteSetTheorems, FunctionTheorems, TLAPS

(* A consent history belongs to a stored account, and a row that claims     *)
(* consent has an event behind the claim.                                  *)
HistoriesBelongToAccounts ==
  \A r \in Reviewers, v \in Versions :
    /\ history[r][v] # <<>> => Exists(r)
    /\ Exists(r) /\ accounts[r].consentVersion = v /\ accounts[r].consentState = "CONSENTED" =>
         history[r][v] # <<>>

(* The numbers of a history are the order its events were recorded in, its  *)
(* places the order of their stamps.                                       *)
Numbered(h) ==
  /\ \A n \in 1..Len(h) : h[n].nth \in 1..Len(h)
  /\ \A m, n \in 1..Len(h) : h[m].nth = h[n].nth => m = n
Sorted(h) == \A m, n \in 1..Len(h) : m <= n => h[m].at <= h[n].at
HistoriesAreSorted ==
  \A r \in Reviewers, v \in Versions : Numbered(history[r][v]) /\ Sorted(history[r][v])

(* The account row tells what was recorded last, wherever it stands.        *)
RowTellsLastRecorded ==
  \A r \in Reviewers, v \in Versions :
    Exists(r) /\ accounts[r].consentVersion = v /\ history[r][v] # <<>> =>
      \E n \in 1..Len(history[r][v]) :
        /\ history[r][v][n].nth = Len(history[r][v])
        /\ accounts[r].consentState =
             IF history[r][v][n].state = "ACCEPTED" THEN "CONSENTED" ELSE "REVOKED"

IInv ==
  /\ TypeOK
  /\ IdentitiesMatchAccounts
  /\ InvitationsEndOnce
  /\ HistoriesBelongToAccounts
  /\ HistoriesAreSorted
  /\ RowTellsLastRecorded
  /\ HistoriesAlternate
  /\ ProjectionMatchesHistory

-----------------------------------------------------------------------------
(* Histories after an event.                                               *)

(* The event stands somewhere, the events behind it move up by one.         *)
IsInserted(h, event, g, k) ==
  /\ Len(g) = Len(h) + 1
  /\ \A n \in 1..Len(g) : g[n] = IF n <= k THEN h[n] ELSE IF n = k + 1 THEN event ELSE h[n - 1]

(* Earlier stamps stand before it, later ones behind it.                    *)
StandsAt(h, event, k) ==
  /\ \A n \in 1..k : h[n].at <= event.at
  /\ \A n \in (k + 1)..Len(h) : h[n].at >= event.at

LEMMA InsertionPoint ==
  ASSUME NEW h \in Seq(ConsentEvents), NEW event \in ConsentEvents, NEW g \in Stored(h, event)
  PROVE  /\ g \in Seq(ConsentEvents)
         /\ \E k \in 0..Len(h) : IsInserted(h, event, g, k) /\ StandsAt(h, event, k)
  <1>1. PICK k \in 0..Len(h) :
          /\ g = SubSeq(h, 1, k) \o <<event>> \o SubSeq(h, k + 1, Len(h))
          /\ StandsAt(h, event, k)
    BY DEF Stored, StandsAt
  <1> DEFINE before == SubSeq(h, 1, k)
             after == SubSeq(h, k + 1, Len(h))
  <1>2. Len(h) \in Nat /\ \A n \in 1..Len(h) : h[n] \in ConsentEvents
    OBVIOUS
  <1>3. /\ before \in Seq(ConsentEvents)
        /\ Len(before) = k
        /\ \A n \in 1..k : before[n] = h[n]
    <2>1. \A n \in 1..k : h[n] \in ConsentEvents
      BY <1>2
    <2>2. 1 \in Int /\ k \in Int
      BY <1>2
    <2>3. /\ before \in Seq(ConsentEvents)
          /\ Len(before) = IF 1 <= k THEN k - 1 + 1 ELSE 0
          /\ \A n \in 1..(k - 1 + 1) : before[n] = h[1 + n - 1]
      BY ONLY <2>1, <2>2, SubSeqProperties
    <2> HIDE DEF before
    <2> QED
      BY <1>2, <2>3
  <1>4. /\ after \in Seq(ConsentEvents)
        /\ Len(after) = Len(h) - k
        /\ \A n \in 1..(Len(h) - k) : after[n] = h[k + n]
    <2>1. \A n \in (k + 1)..Len(h) : h[n] \in ConsentEvents
      BY <1>2
    <2>2. k + 1 \in Int /\ Len(h) \in Int
      BY <1>2
    <2>3. /\ after \in Seq(ConsentEvents)
          /\ Len(after) = IF k + 1 <= Len(h) THEN Len(h) - (k + 1) + 1 ELSE 0
          /\ \A n \in 1..(Len(h) - (k + 1) + 1) : after[n] = h[(k + 1) + n - 1]
      BY ONLY <2>1, <2>2, SubSeqProperties
    <2> HIDE DEF after
    <2> QED
      BY <1>2, <2>3
  <1>5. <<event>> \in Seq(ConsentEvents) /\ Len(<<event>>) = 1 /\ <<event>>[1] = event
    OBVIOUS
  <1> DEFINE start == before \o <<event>>
  <1>6. /\ start \in Seq(ConsentEvents)
        /\ Len(start) = k + 1
        /\ \A n \in 1..(k + 1) : start[n] = IF n <= k THEN h[n] ELSE event
    <2> HIDE DEF before
    <2>1. /\ start \in Seq(ConsentEvents)
          /\ Len(start) = Len(before) + Len(<<event>>)
          /\ \A n \in 1..(Len(before) + Len(<<event>>)) : start[n] =
                IF n <= Len(before) THEN before[n] ELSE <<event>>[n - Len(before)]
      BY ONLY <1>3, <1>5, ConcatProperties
    <2> HIDE DEF start
    <2> QED
      BY <1>2, <1>3, <1>5, <2>1
  <1>7. /\ g \in Seq(ConsentEvents)
        /\ Len(g) = Len(h) + 1
        /\ \A n \in 1..(Len(h) + 1) : g[n] = IF n <= k + 1 THEN start[n] ELSE after[n - (k + 1)]
    <2>1. g = start \o after
      BY <1>1
    <2> HIDE DEF start, after
    <2>2. /\ g \in Seq(ConsentEvents)
          /\ Len(g) = Len(start) + Len(after)
          /\ \A n \in 1..(Len(start) + Len(after)) : g[n] =
                IF n <= Len(start) THEN start[n] ELSE after[n - Len(start)]
      BY ONLY <1>4, <1>6, <2>1, ConcatProperties
    <2> QED
      BY <1>2, <1>4, <1>6, <2>2
  <1> HIDE DEF start, after
  <1>8. \A n \in 1..Len(g) : g[n] = IF n <= k THEN h[n] ELSE IF n = k + 1 THEN event ELSE h[n - 1]
    <2> TAKE n \in 1..Len(g)
    <2>1. CASE n <= k
      BY <1>2, <1>6, <1>7, <2>1
    <2>2. CASE n = k + 1
      BY <1>2, <1>6, <1>7, <2>2
    <2>3. CASE n > k + 1
      <3>1. n - (k + 1) \in 1..(Len(h) - k) /\ k + (n - (k + 1)) = n - 1
        BY <1>2, <1>7, <2>3
      <3>2. g[n] = after[n - (k + 1)]
        BY <1>2, <1>7, <2>3
      <3>3. g[n] = h[n - 1]
        BY <1>4, <3>1, <3>2
      <3> QED
        BY <1>2, <2>3, <3>3
    <2> QED
      BY <1>2, <1>7, <2>1, <2>2, <2>3
  <1> QED
    BY <1>1, <1>2, <1>7, <1>8 DEF IsInserted

LEMMA StoredHistories ==
  ASSUME NEW h \in Seq(ConsentEvents), NEW event \in ConsentEvents, NEW g \in Stored(h, event)
  PROVE  /\ g \in Seq(ConsentEvents)
         /\ g # <<>>
         /\ \A n \in 1..Len(g) : g[n] = event \/ \E m \in 1..Len(h) : g[n] = h[m]
  <1>1. PICK k \in 0..Len(h) : IsInserted(h, event, g, k)
    BY InsertionPoint
  <1>2. Len(h) \in Nat /\ g \in Seq(ConsentEvents)
    BY InsertionPoint
  <1>3. ASSUME NEW n \in 1..Len(g)
        PROVE  g[n] = event \/ \E m \in 1..Len(h) : g[n] = h[m]
    <2>1. CASE n <= k
      BY <1>1, <1>2, <1>3, <2>1 DEF IsInserted
    <2>2. CASE n = k + 1
      BY <1>1, <1>2, <1>3, <2>2 DEF IsInserted
    <2>3. CASE n > k + 1
      <3>1. n - 1 \in 1..Len(h) /\ g[n] = h[n - 1]
        BY <1>1, <1>2, <1>3, <2>3 DEF IsInserted
      <3> QED
        BY <3>1
    <2> QED
      BY <1>1, <1>2, <2>1, <2>2, <2>3 DEF IsInserted
  <1> QED
    BY <1>1, <1>2, <1>3 DEF IsInserted

(* The event that is recorded next keeps a history numbered and sorted.     *)
LEMMA SortedHistories ==
  ASSUME NEW h \in Seq(ConsentEvents), NEW event \in ConsentEvents, NEW g \in Stored(h, event),
         Numbered(h), Sorted(h), event.nth = Len(h) + 1
  PROVE  /\ Numbered(g) /\ Sorted(g)
         /\ \E n \in 1..Len(g) : g[n] = event /\ g[n].nth = Len(g)
  <1>1. PICK k \in 0..Len(h) : IsInserted(h, event, g, k) /\ StandsAt(h, event, k)
    BY InsertionPoint
  <1>2. Len(h) \in Nat /\ Len(g) = Len(h) + 1
    BY <1>1 DEF IsInserted
  <1>3. /\ event.at \in Nat
        /\ \A n \in 1..Len(h) : h[n].at \in Nat /\ h[n].nth \in 1..Len(h)
    <2>1. \A n \in 1..Len(h) : h[n] \in ConsentEvents
      OBVIOUS
    <2> QED
      BY <2>1, AuthorityAssumption DEF ConsentEvents, Numbered
  <1> DEFINE Old(n) == IF n <= k THEN n ELSE n - 1
  <1>4. g[k + 1] = event /\ k + 1 \in 1..Len(g)
    BY <1>1, <1>2 DEF IsInserted
  <1>5. ASSUME NEW n \in 1..Len(g), n # k + 1
        PROVE  Old(n) \in 1..Len(h) /\ g[n] = h[Old(n)]
    BY <1>1, <1>2, <1>5 DEF IsInserted
  <1>6. Numbered(g)
    <2>1. ASSUME NEW n \in 1..Len(g), n # k + 1
          PROVE  g[n].nth \in 1..Len(h)
      BY <1>3, <1>5, <2>1
    <2>2. \A n \in 1..Len(g) : g[n].nth \in 1..Len(g)
      BY <1>2, <1>4, <2>1
    <2>3. ASSUME NEW m \in 1..Len(g), NEW n \in 1..Len(g), g[m].nth = g[n].nth
          PROVE  m = n
      <3>1. CASE m = k + 1 /\ n # k + 1
        BY <1>2, <1>4, <2>1, <2>3, <3>1
      <3>2. CASE n = k + 1 /\ m # k + 1
        BY <1>2, <1>4, <2>1, <2>3, <3>2
      <3>3. CASE m # k + 1 /\ n # k + 1
        <4>1. /\ Old(m) \in 1..Len(h) /\ g[m] = h[Old(m)]
              /\ Old(n) \in 1..Len(h) /\ g[n] = h[Old(n)]
          BY <1>5, <3>3
        <4> HIDE DEF Old
        <4>2. Old(m) = Old(n)
          BY <2>3, <4>1 DEF Numbered
        <4> QED
          BY <1>2, <3>3, <4>2 DEF Old
      <3> QED
        BY <3>1, <3>2, <3>3
    <2> QED
      BY <2>2, <2>3 DEF Numbered
  <1>7. Sorted(g)
    <2> SUFFICES ASSUME NEW m \in 1..Len(g), NEW n \in 1..Len(g), m <= n
                 PROVE  g[m].at <= g[n].at
      BY DEF Sorted
    <2>1. CASE m = k + 1 /\ n = k + 1
      BY <1>3, <1>4, <2>1
    <2>2. CASE m = k + 1 /\ n # k + 1
      <3>1. n - 1 \in (k + 1)..Len(h) /\ g[n] = h[n - 1]
        BY <1>2, <1>5, <2>2
      <3> QED
        BY <1>1, <1>3, <1>4, <2>2, <3>1 DEF StandsAt
    <2>3. CASE m # k + 1 /\ n = k + 1
      <3>1. m \in 1..k /\ g[m] = h[m]
        BY <1>2, <1>5, <2>3
      <3> QED
        BY <1>1, <1>4, <2>3, <3>1 DEF StandsAt
    <2>4. CASE m # k + 1 /\ n # k + 1
      <3>1. Old(m) \in 1..Len(h) /\ Old(n) \in 1..Len(h) /\ Old(m) <= Old(n)
        BY <1>2, <1>5, <2>4
      <3> QED
        BY <1>5, <2>4, <3>1 DEF Sorted
    <2> QED
      BY <2>1, <2>2, <2>3, <2>4
  <1> QED
    BY <1>2, <1>4, <1>6, <1>7

(* An event whose stamp is the latest stands behind all others.             *)
LEMMA LatestStampsAreAppended ==
  ASSUME NEW h \in Seq(ConsentEvents), NEW event \in ConsentEvents, NEW g \in Stored(h, event),
         Numbered(h), event.nth = Len(h) + 1, LastStampIsLatest(g)
  PROVE  /\ Len(g) = Len(h) + 1
         /\ g # <<>>
         /\ \A n \in 1..Len(h) : g[n] = h[n]
         /\ g[Len(g)] = event
  <1>1. PICK k \in 0..Len(h) : IsInserted(h, event, g, k) /\ StandsAt(h, event, k)
    BY InsertionPoint
  <1>2. Len(h) \in Nat /\ Len(g) = Len(h) + 1
    BY <1>1 DEF IsInserted
  <1>3. event.at \in Nat /\ \A n \in 1..Len(h) : h[n].at \in Nat
    <2>1. \A n \in 1..Len(h) : h[n] \in ConsentEvents
      OBVIOUS
    <2> QED
      BY <2>1, AuthorityAssumption DEF ConsentEvents
  <1>4. k = Len(h)
    <2> SUFFICES ASSUME k < Len(h) PROVE FALSE
      BY <1>2
    <2>1. /\ k + 1 \in 1..Len(g) /\ k + 1 < Len(g) /\ Len(g) \in 1..Len(g)
          /\ Len(h) \in 1..Len(h) /\ Len(h) \in (k + 1)..Len(h)
      BY <1>2
    <2>2. g[k + 1] = event /\ g[Len(g)] = h[Len(h)]
      <3>1. g[k + 1] = event
        BY <1>1, <1>2, <2>1 DEF IsInserted
      <3>2. g[Len(g)] = h[Len(g) - 1]
        BY <1>1, <1>2, <2>1 DEF IsInserted
      <3> QED
        BY <1>2, <3>1, <3>2
    <2>3. h[Len(h)].nth \in 1..Len(h)
      BY <2>1 DEF Numbered
    <2>4. g[Len(g)].nth < g[k + 1].nth /\ g[k + 1].nth = Len(g)
      BY <1>2, <2>2, <2>3
    <2>5. g[Len(g)].at < g[k + 1].at
      BY <2>1, <2>4 DEF LastStampIsLatest
    <2>6. h[Len(h)].at >= event.at
      BY <1>1, <2>1 DEF StandsAt
    <2> QED
      BY <1>3, <2>1, <2>2, <2>5, <2>6
  <1>5. \A n \in 1..Len(h) : g[n] = h[n]
    BY <1>1, <1>2, <1>4 DEF IsInserted
  <1>6. g[Len(g)] = event
    BY <1>1, <1>2, <1>4 DEF IsInserted
  <1> QED
    BY <1>2, <1>5, <1>6

(* A history in order has the latest stamp last, and was in order before    *)
(* its last event.                                                         *)
LEMMA OrderedHistories ==
  ASSUME NEW h \in Seq(ConsentEvents), NEW g \in Seq(ConsentEvents), StampsInOrder(g)
  PROVE  /\ LastStampIsLatest(g)
         /\ Len(g) = Len(h) + 1 /\ (\A n \in 1..Len(h) : g[n] = h[n]) => StampsInOrder(h)
  <1>1. Len(h) \in Nat /\ Len(g) \in Nat
    OBVIOUS
  <1>2. LastStampIsLatest(g)
    BY DEF StampsInOrder, LastStampIsLatest
  <1>3. ASSUME Len(g) = Len(h) + 1, \A n \in 1..Len(h) : g[n] = h[n]
        PROVE  StampsInOrder(h)
    <2> SUFFICES ASSUME NEW m \in 1..Len(h), NEW n \in 1..Len(h), h[m].nth < h[n].nth
                 PROVE  h[m].at < h[n].at
      BY DEF StampsInOrder
    <2>1. m \in 1..Len(g) /\ n \in 1..Len(g) /\ g[m] = h[m] /\ g[n] = h[n]
      BY <1>1, <1>3
    <2> QED
      BY <2>1 DEF StampsInOrder
  <1> QED
    BY <1>2, <1>3

-----------------------------------------------------------------------------
(* Rows.                                                                   *)

LEMMA RowsAreRows ==
  ASSUME TypeOK
  PROVE  /\ NoRow \notin AccountRows /\ NoRow \notin InvitationRows /\ NoRow \notin Reviewers
         /\ \A r \in Reviewers : Exists(r) => accounts[r] \in AccountRows
         /\ \A i \in Invitations : invitations[i] # NoRow => invitations[i] \in InvitationRows
         /\ \A r \in Reviewers, v \in Versions : history[r][v] \in Seq(ConsentEvents)
  BY AuthorityRowAssumption DEF TypeOK, Exists

(* One account row is written.                                             *)
LEMMA AccountWritten ==
  ASSUME TypeOK, NEW r \in Reviewers, NEW row \in AccountRows,
         accounts' = [accounts EXCEPT ![r] = row]
  PROVE  /\ accounts' \in [Reviewers -> AccountRows \cup {NoRow}]
         /\ accounts'[r] = row
         /\ \A q \in Reviewers : q # r => accounts'[q] = accounts[q]
         /\ \A q \in Reviewers : Exists(q)' <=> Exists(q) \/ q = r
  BY RowsAreRows DEF TypeOK, Exists

LEMMA AuditWritten ==
  ASSUME TypeOK, NEW r \in Reviewers, NEW events, Audited(r, events)
  PROVE  audit' \in [Reviewers -> [AuthAuditEvents -> Nat]]
  BY DEF TypeOK, Audited

(* What an account operation writes to the account's row.                   *)
LEMMA NewAccountRow ==
  ASSUME TypeOK, NEW r \in Reviewers, NEW p \in Principals,
         CreateReviewerAccountForPrincipal(r, p)
  PROVE  \E row \in AccountRows :
           /\ accounts' = [accounts EXCEPT ![r] = row]
           /\ row.subject = p
           /\ row.consentState = "NOT_CONSENTED"
  <1> DEFINE row == [status |-> "ACTIVE", subject |-> p, consentVersion |-> CurrentVersion,
                     consentState |-> "NOT_CONSENTED"]
  <1>1. row \in AccountRows
    BY AuthorityAssumption DEF AccountRows, AccountStatuses, ConsentStates
  <1>2. accounts' = [accounts EXCEPT ![r] = row] /\ row.subject = p /\ row.consentState = "NOT_CONSENTED"
    BY DEF CreateReviewerAccountForPrincipal
  <1> QED
    BY <1>1, <1>2

LEMMA RegisteredRow ==
  ASSUME TypeOK, NEW r \in Reviewers, NEW status \in AccountStatuses, NEW v \in Versions,
         RegisterReviewerAccount(r, status, v)
  PROVE  \E row \in AccountRows :
           /\ accounts' = [accounts EXCEPT ![r] = row]
           /\ row.subject = External
           /\ row.consentState = "NOT_CONSENTED"
  <1> DEFINE row == [status |-> status, subject |-> External, consentVersion |-> v,
                     consentState |-> "NOT_CONSENTED"]
  <1>1. row \in AccountRows
    BY DEF AccountRows, ConsentStates
  <1>2. /\ accounts' = [accounts EXCEPT ![r] = row]
        /\ row.subject = External /\ row.consentState = "NOT_CONSENTED"
    BY DEF RegisterReviewerAccount
  <1> QED
    BY <1>1, <1>2

LEMMA LinkedRow ==
  ASSUME TypeOK, NEW r \in Reviewers, NEW p \in Principals, LinkReviewerAuthIdentity(r, p)
  PROVE  \E row \in AccountRows :
           /\ accounts' = [accounts EXCEPT ![r] = row]
           /\ row.subject = p
           /\ row.status = accounts[r].status
           /\ row.consentVersion = accounts[r].consentVersion
           /\ row.consentState = accounts[r].consentState
  <1> DEFINE row == [accounts[r] EXCEPT !.subject = p]
  <1>1. accounts[r] \in AccountRows
    BY RowsAreRows DEF LinkReviewerAuthIdentity
  <1>2. /\ row \in AccountRows
        /\ row.subject = p
        /\ row.status = accounts[r].status
        /\ row.consentVersion = accounts[r].consentVersion
        /\ row.consentState = accounts[r].consentState
    BY <1>1 DEF AccountRows
  <1>3. accounts' = [accounts EXCEPT ![r] = row]
    BY DEF LinkReviewerAuthIdentity
  <1> QED
    BY <1>2, <1>3

(* Withdrawal and disabling write the status.                              *)
StatusChange(r) == WithdrawReviewerAccount(r) \/ DisableReviewerAccount(r)

LEMMA StatusRow ==
  ASSUME TypeOK, NEW r \in Reviewers, StatusChange(r)
  PROVE  \E row \in AccountRows :
           /\ accounts' = [accounts EXCEPT ![r] = row]
           /\ row.status # "ACTIVE"
           /\ accounts[r].status = "DISABLED" => row.status = "DISABLED"
           /\ row.subject = accounts[r].subject
           /\ row.consentVersion = accounts[r].consentVersion
           /\ row.consentState = accounts[r].consentState
  <1>1. PICK status \in {"WITHDRAWN", "DISABLED"} :
          /\ accounts' = [accounts EXCEPT ![r].status = status]
          /\ accounts[r].status # "DISABLED"
    BY DEF StatusChange, WithdrawReviewerAccount, DisableReviewerAccount
  <1> DEFINE row == [accounts[r] EXCEPT !.status = status]
  <1>2. accounts[r] \in AccountRows
    BY RowsAreRows DEF StatusChange, WithdrawReviewerAccount, DisableReviewerAccount
  <1>3. /\ row \in AccountRows
        /\ row.status = status
        /\ row.subject = accounts[r].subject
        /\ row.consentVersion = accounts[r].consentVersion
        /\ row.consentState = accounts[r].consentState
    BY <1>2 DEF AccountRows, AccountStatuses
  <1>4. accounts' = [accounts EXCEPT ![r] = row]
    BY <1>1
  <1> QED
    BY <1>1, <1>3, <1>4

(* A consent change writes the projection and one event.                    *)
LEMMA ConsentWritten ==
  ASSUME TypeOK, NEW r \in Reviewers, NEW v \in Versions, NEW state \in ConsentStates,
         Exists(r), ProjectConsent(r, v, state)
  PROVE  \E row \in AccountRows :
           /\ accounts' = [accounts EXCEPT ![r] = row]
           /\ row.status = accounts[r].status
           /\ row.subject = accounts[r].subject
           /\ row.consentVersion = v
           /\ row.consentState = state
  <1> DEFINE row == [accounts[r] EXCEPT !.consentVersion = v, !.consentState = state]
  <1>1. accounts[r] \in AccountRows
    BY RowsAreRows
  <1>2. /\ row \in AccountRows
        /\ row.status = accounts[r].status
        /\ row.subject = accounts[r].subject
        /\ row.consentVersion = v
        /\ row.consentState = state
    BY <1>1 DEF AccountRows
  <1>3. accounts' = [accounts EXCEPT ![r] = row]
    BY <1>1 DEF ProjectConsent, TypeOK, AccountRows
  <1> QED
    BY <1>2, <1>3

(* A consent operation, by what it found and what it writes.                *)
ConsentEffect(r, v, row, event) ==
  /\ Exists(r)
  /\ Len(history[r][v]) < MaxConsents
  /\ accounts[r].status # "DISABLED"
  /\ accounts' = [accounts EXCEPT ![r] = row]
  /\ row.status = accounts[r].status
  /\ row.subject = accounts[r].subject
  /\ row.consentVersion = v
  /\ \E h \in Stored(history[r][v], event) : history' = [history EXCEPT ![r][v] = h]
  /\ identities' = identities
  /\ event.nth = Len(history[r][v]) + 1
  /\ \/ /\ event.state = "ACCEPTED" /\ row.consentState = "CONSENTED"
        /\ ~Consented(r, v)
        /\ accounts[r].status = "ACTIVE"
        /\ Audited(r, {"consent_accepted"})
     \/ /\ event.state = "REVOKED" /\ row.consentState = "REVOKED"
        /\ Consented(r, v)
        /\ history[r][v] # <<>>
        /\ Audited(r, {"consent_revoked"})

LEMMA ConsentEffects ==
  ASSUME TypeOK, NEW r \in Reviewers, NEW v \in Versions, NEW t \in Instants,
         RecordConsent(r, v, t) \/ RevokeConsent(r, v, t)
  PROVE  \E row \in AccountRows, event \in ConsentEvents : ConsentEffect(r, v, row, event)
  <1>1. Exists(r) /\ accounts[r].status # "DISABLED"
    BY DEF RecordConsent, RevokeConsent
  <1>2. CASE RecordConsent(r, v, t)
    <2> DEFINE event == NextEvent(r, v, "ACCEPTED", t)
    <2>1. /\ event \in ConsentEvents /\ event.state = "ACCEPTED"
          /\ event.nth = Len(history[r][v]) + 1
      <3>1. Len(history[r][v]) \in Nat
        BY RowsAreRows
      <3> QED
        BY <3>1 DEF NextEvent, ConsentEvents
    <2>2. /\ Len(history[r][v]) < MaxConsents
          /\ ProjectConsent(r, v, "CONSENTED")
          /\ \E h \in Stored(history[r][v], event) : history' = [history EXCEPT ![r][v] = h]
          /\ identities' = identities
          /\ ~Consented(r, v)
          /\ accounts[r].status = "ACTIVE"
          /\ Audited(r, {"consent_accepted"})
      BY <1>2 DEF RecordConsent, ConsentChanges
    <2>3. "CONSENTED" \in ConsentStates
      BY DEF ConsentStates
    <2>4. PICK row \in AccountRows :
            /\ accounts' = [accounts EXCEPT ![r] = row]
            /\ row.status = accounts[r].status
            /\ row.subject = accounts[r].subject
            /\ row.consentVersion = v
            /\ row.consentState = "CONSENTED"
      BY <1>1, <2>2, <2>3, ConsentWritten
    <2> HIDE DEF event
    <2> QED
      BY <1>1, <2>1, <2>2, <2>4 DEF ConsentEffect
  <1>3. CASE RevokeConsent(r, v, t)
    <2> DEFINE event == NextEvent(r, v, "REVOKED", t)
    <2>1. /\ event \in ConsentEvents /\ event.state = "REVOKED"
          /\ event.nth = Len(history[r][v]) + 1
      <3>1. Len(history[r][v]) \in Nat
        BY RowsAreRows
      <3> QED
        BY <3>1 DEF NextEvent, ConsentEvents
    <2>2. /\ Len(history[r][v]) < MaxConsents
          /\ ProjectConsent(r, v, "REVOKED")
          /\ \E h \in Stored(history[r][v], event) : history' = [history EXCEPT ![r][v] = h]
          /\ identities' = identities
          /\ Consented(r, v)
          /\ history[r][v] # <<>>
          /\ Audited(r, {"consent_revoked"})
      BY <1>3 DEF RevokeConsent, ConsentChanges
    <2>3. "REVOKED" \in ConsentStates
      BY DEF ConsentStates
    <2>4. PICK row \in AccountRows :
            /\ accounts' = [accounts EXCEPT ![r] = row]
            /\ row.status = accounts[r].status
            /\ row.subject = accounts[r].subject
            /\ row.consentVersion = v
            /\ row.consentState = "REVOKED"
      BY <1>1, <2>2, <2>3, ConsentWritten
    <2> HIDE DEF event
    <2> QED
      BY <1>1, <2>1, <2>2, <2>4 DEF ConsentEffect
  <1> QED
    BY <1>2, <1>3

-----------------------------------------------------------------------------
(* Invitations.                                                            *)

LEMMA InvitationIssued ==
  ASSUME TypeOK, NEW i \in Invitations, NEW t \in Instants, IssueReviewerInvitation(i, t)
  PROVE  /\ invitations' \in [Invitations -> InvitationRows \cup {NoRow}]
         /\ invitations'[i] # NoRow /\ invitations'[i].state = "ISSUED"
         /\ \A j \in Invitations : j # i => invitations'[j] = invitations[j]
         /\ invitationAudit' = [invitationAudit EXCEPT ![i] = Append(@, "issued")]
  <1> DEFINE row == [state |-> "ISSUED", expires |-> t + InvitationTtl]
  <1>1. row \in InvitationRows
    BY AuthorityAssumption DEF InvitationRows, InvitationStates
  <1>2. invitations' = [invitations EXCEPT ![i] = row] /\ row.state = "ISSUED"
    BY DEF IssueReviewerInvitation
  <1> HIDE DEF row
  <1> QED
    BY <1>1, <1>2, RowsAreRows DEF TypeOK, IssueReviewerInvitation

LEMMA InvitationEnded ==
  ASSUME TypeOK, NEW i \in Invitations, NEW state \in InvitationStates, NEW event,
         Open(i), InvitationEnds(i, state, event)
  PROVE  /\ invitations' \in [Invitations -> InvitationRows \cup {NoRow}]
         /\ invitations'[i] # NoRow /\ invitations'[i].state = state
         /\ \A j \in Invitations : j # i => invitations'[j] = invitations[j]
         /\ invitationAudit' = [invitationAudit EXCEPT ![i] = Append(@, event)]
  <1> DEFINE row == [invitations[i] EXCEPT !.state = state]
  <1>1. invitations[i] \in InvitationRows
    BY RowsAreRows DEF Open
  <1>2. row \in InvitationRows /\ row.state = state
    BY <1>1 DEF InvitationRows
  <1>3. invitations' = [invitations EXCEPT ![i] = row]
    BY DEF InvitationEnds
  <1> HIDE DEF row
  <1> QED
    BY <1>2, <1>3, RowsAreRows DEF TypeOK, InvitationEnds

(* An open invitation ends in one of three ways.                            *)
Ends(i, state) ==
  /\ Open(i)
  /\ state \in {"CONSUMED", "REVOKED", "EXPIRED"}
  /\ InvitationEnds(i, state, EndingOf(state))

LEMMA Endings ==
  /\ EndingOf("CONSUMED") = "consumed"
  /\ EndingOf("REVOKED") = "revoked"
  /\ EndingOf("EXPIRED") = "expired"
  BY DEF EndingOf

LEMMA InvitationSteps ==
  ASSUME NEW i \in Invitations, NEW t \in Instants, InvitationStep(i, t)
  PROVE  \/ IssueReviewerInvitation(i, t)
         \/ Ends(i, "EXPIRED") \/ Ends(i, "REVOKED") \/ Ends(i, "CONSUMED")
  BY Endings DEF InvitationStep, Ends, ExpireReviewerInvitation, RevokeReviewerInvitation,
         RedeemReviewerInvitation

(* Only an invitation step touches invitations.                            *)
LEMMA InvitationsUntouched ==
  ASSUME [Next]_vars, ~(\E i \in Invitations, t \in Instants : InvitationStep(i, t))
  PROVE  UNCHANGED <<invitations, invitationAudit>>
  BY DEF Next, vars, AccountStep, RegisterReviewerAccount, ProvisionReviewerAccount,
         LinkReviewerAuthIdentity, WithdrawReviewerAccount, DisableReviewerAccount,
         ConsentStep, RecordConsent, RevokeConsent, ConsentChanges

LEMMA InvitationTypes ==
  ASSUME TypeOK, [Next]_vars
  PROVE  /\ invitations' \in [Invitations -> InvitationRows \cup {NoRow}]
         /\ invitationAudit' \in [Invitations -> Seq(InvitationAuditEvents)]
  <1>1. ASSUME NEW i \in Invitations, NEW event \in InvitationAuditEvents,
               invitationAudit' = [invitationAudit EXCEPT ![i] = Append(@, event)]
        PROVE  invitationAudit' \in [Invitations -> Seq(InvitationAuditEvents)]
    BY <1>1 DEF TypeOK
  <1>2. CASE ~(\E i \in Invitations, t \in Instants : InvitationStep(i, t))
    BY <1>2, InvitationsUntouched DEF TypeOK
  <1>3. ASSUME NEW i \in Invitations, NEW t \in Instants, InvitationStep(i, t)
        PROVE  /\ invitations' \in [Invitations -> InvitationRows \cup {NoRow}]
               /\ invitationAudit' \in [Invitations -> Seq(InvitationAuditEvents)]
    <2>1. CASE IssueReviewerInvitation(i, t)
      <3>1. "issued" \in InvitationAuditEvents
        BY DEF InvitationAuditEvents
      <3> QED
        BY <1>1, <2>1, <3>1, InvitationIssued
    <2>2. ASSUME NEW state, Ends(i, state)
          PROVE  /\ invitations' \in [Invitations -> InvitationRows \cup {NoRow}]
                 /\ invitationAudit' \in [Invitations -> Seq(InvitationAuditEvents)]
      <3>1. state \in InvitationStates /\ EndingOf(state) \in InvitationAuditEvents
        BY <2>2, Endings DEF Ends, InvitationStates, InvitationAuditEvents
      <3> QED
        BY <1>1, <2>2, <3>1, InvitationEnded DEF Ends
    <2> QED
      BY <1>3, <2>1, <2>2, InvitationSteps
  <1> QED
    BY <1>2, <1>3

LEMMA InvitationsEndOnceStep ==
  ASSUME TypeOK, InvitationsEndOnce, [Next]_vars
  PROVE  InvitationsEndOnce'
  <1>1. CASE ~(\E i \in Invitations, t \in Instants : InvitationStep(i, t))
    BY <1>1, InvitationsUntouched DEF InvitationsEndOnce, InvitationStory
  <1>2. ASSUME NEW i \in Invitations, NEW t \in Instants, InvitationStep(i, t)
        PROVE  InvitationsEndOnce'
    <2>1. CASE IssueReviewerInvitation(i, t)
      <3>1. /\ invitationAudit' = [invitationAudit EXCEPT ![i] = Append(@, "issued")]
            /\ invitations'[i] # NoRow /\ invitations'[i].state = "ISSUED"
            /\ \A j \in Invitations : j # i => invitations'[j] = invitations[j]
        BY <2>1, InvitationIssued
      <3>2. invitationAudit[i] = <<>>
        BY <2>1 DEF IssueReviewerInvitation, InvitationsEndOnce, InvitationStory
      <3>3. invitationAudit'[i] = <<"issued">>
        BY <3>1, <3>2 DEF TypeOK
      <3>4. InvitationStory(i)' = <<"issued">>
        BY <3>1 DEF InvitationStory
      <3>5. \A j \in Invitations : j # i =>
              InvitationStory(j)' = InvitationStory(j) /\ invitationAudit'[j] = invitationAudit[j]
        BY <3>1 DEF InvitationStory, TypeOK
      <3> QED
        BY <3>3, <3>4, <3>5 DEF InvitationsEndOnce
    <2>2. ASSUME NEW state, Ends(i, state)
          PROVE  InvitationsEndOnce'
      <3>1. state \in InvitationStates
        BY <2>2 DEF Ends, InvitationStates
      <3>2. /\ invitationAudit' = [invitationAudit EXCEPT ![i] = Append(@, EndingOf(state))]
            /\ invitations'[i] # NoRow /\ invitations'[i].state = state
            /\ \A j \in Invitations : j # i => invitations'[j] = invitations[j]
        BY <2>2, <3>1, InvitationEnded DEF Ends
      <3>3. invitationAudit[i] = <<"issued">>
        BY <2>2 DEF Ends, Open, InvitationsEndOnce, InvitationStory
      <3>4. invitationAudit'[i] = Append(<<"issued">>, EndingOf(state))
        BY <3>2, <3>3 DEF TypeOK
      <3>5. InvitationStory(i)' = Append(<<"issued">>, EndingOf(state))
        BY <2>2, <3>2 DEF Ends, InvitationStory
      <3>6. \A j \in Invitations : j # i =>
              InvitationStory(j)' = InvitationStory(j) /\ invitationAudit'[j] = invitationAudit[j]
        BY <3>2 DEF InvitationStory, TypeOK
      <3> QED
        BY <3>4, <3>5, <3>6 DEF InvitationsEndOnce
    <2> QED
      BY <1>2, <2>1, <2>2, InvitationSteps
  <1> QED
    BY <1>1, <1>2

-----------------------------------------------------------------------------
(* The kinds of steps, by what they write of accounts and identities.       *)

(* An account is made for a principal without one.                          *)
Provides(r, p) == identities[p] = NoRow /\ CreateReviewerAccountForPrincipal(r, p)

ChangesConsent(r) ==
  \E v \in Versions, row \in AccountRows, event \in ConsentEvents :
    ConsentEffect(r, v, row, event)

LEMMA KindsOfSteps ==
  ASSUME TypeOK, [Next]_vars
  PROVE  \/ \E r \in Reviewers, status \in AccountStatuses, v \in Versions :
              RegisterReviewerAccount(r, status, v)
         \/ \E r \in Reviewers, p \in Principals : Provides(r, p) /\ UNCHANGED history
         \/ \E r \in Reviewers, p \in Principals : LinkReviewerAuthIdentity(r, p)
         \/ \E r \in Reviewers : StatusChange(r)
         \/ \E r \in Reviewers : ChangesConsent(r)
         \/ UNCHANGED <<accounts, identities, history, audit>>
  <1>1. CASE UNCHANGED vars
    BY <1>1 DEF vars
  <1>2. ASSUME NEW r \in Reviewers, AccountStep(r)
        PROVE  \/ \E status \in AccountStatuses, v \in Versions : RegisterReviewerAccount(r, status, v)
               \/ \E p \in Principals : Provides(r, p) /\ UNCHANGED history
               \/ \E p \in Principals : LinkReviewerAuthIdentity(r, p)
               \/ StatusChange(r)
    BY <1>2 DEF AccountStep, ProvisionReviewerAccount, Provides, StatusChange
  <1>3. ASSUME NEW i \in Invitations, NEW t \in Instants, InvitationStep(i, t)
        PROVE  \/ \E r \in Reviewers, p \in Principals : Provides(r, p) /\ UNCHANGED history
               \/ UNCHANGED <<accounts, identities, history, audit>>
    BY <1>3 DEF InvitationStep, IssueReviewerInvitation, ExpireReviewerInvitation,
           RevokeReviewerInvitation, RedeemReviewerInvitation, Provides
  <1>4. ASSUME NEW r \in Reviewers, NEW t \in Instants, ConsentStep(r, t)
        PROVE  ChangesConsent(r)
    BY <1>4, ConsentEffects DEF ConsentStep, ChangesConsent
  <1> QED
    BY <1>1, <1>2, <1>3, <1>4 DEF Next

(* Accounts, identities, histories and audit keep their types.              *)
RowTypes ==
  /\ accounts \in [Reviewers -> AccountRows \cup {NoRow}]
  /\ identities \in [Principals -> Reviewers \cup {NoRow}]
  /\ history \in [Reviewers -> [Versions -> Seq(ConsentEvents)]]
  /\ audit \in [Reviewers -> [AuthAuditEvents -> Nat]]

LEMMA RowTypesStep ==
  ASSUME TypeOK, [Next]_vars
  PROVE  RowTypes'
  <1>1. ASSUME NEW r \in Reviewers, NEW status \in AccountStatuses, NEW v \in Versions,
               RegisterReviewerAccount(r, status, v)
        PROVE  RowTypes'
    <2>1. accounts' \in [Reviewers -> AccountRows \cup {NoRow}]
      BY <1>1, RegisteredRow, AccountWritten
    <2>2. audit' \in [Reviewers -> [AuthAuditEvents -> Nat]]
      BY <1>1, AuditWritten DEF RegisterReviewerAccount
    <2> QED
      BY <1>1, <2>1, <2>2 DEF RegisterReviewerAccount, TypeOK, RowTypes
  <1>2. ASSUME NEW r \in Reviewers, NEW p \in Principals, Provides(r, p), UNCHANGED history
        PROVE  RowTypes'
    <2>1. accounts' \in [Reviewers -> AccountRows \cup {NoRow}]
      BY <1>2, NewAccountRow, AccountWritten DEF Provides
    <2>2. audit' \in [Reviewers -> [AuthAuditEvents -> Nat]]
      BY <1>2, AuditWritten DEF Provides, CreateReviewerAccountForPrincipal
    <2> QED
      BY <1>2, <2>1, <2>2 DEF Provides, CreateReviewerAccountForPrincipal, TypeOK, RowTypes
  <1>3. ASSUME NEW r \in Reviewers, NEW p \in Principals, LinkReviewerAuthIdentity(r, p)
        PROVE  RowTypes'
    <2>1. accounts' \in [Reviewers -> AccountRows \cup {NoRow}]
      BY <1>3, LinkedRow, AccountWritten
    <2>2. audit' \in [Reviewers -> [AuthAuditEvents -> Nat]]
      BY <1>3, AuditWritten DEF LinkReviewerAuthIdentity
    <2> QED
      BY <1>3, <2>1, <2>2 DEF LinkReviewerAuthIdentity, TypeOK, RowTypes
  <1>4. ASSUME NEW r \in Reviewers, StatusChange(r)
        PROVE  RowTypes'
    <2>1. accounts' \in [Reviewers -> AccountRows \cup {NoRow}]
      BY <1>4, StatusRow, AccountWritten
    <2>2. audit' \in [Reviewers -> [AuthAuditEvents -> Nat]]
      BY <1>4, AuditWritten DEF StatusChange, WithdrawReviewerAccount, DisableReviewerAccount
    <2> QED
      BY <1>4, <2>1, <2>2
      DEF StatusChange, WithdrawReviewerAccount, DisableReviewerAccount, TypeOK, RowTypes
  <1>5. ASSUME NEW r \in Reviewers, ChangesConsent(r)
        PROVE  RowTypes'
    <2>1. PICK v \in Versions, row \in AccountRows, event \in ConsentEvents :
            ConsentEffect(r, v, row, event)
      BY <1>5 DEF ChangesConsent
    <2>2. accounts' \in [Reviewers -> AccountRows \cup {NoRow}]
      BY <2>1, AccountWritten DEF ConsentEffect
    <2>3. audit' \in [Reviewers -> [AuthAuditEvents -> Nat]]
      BY <2>1, AuditWritten DEF ConsentEffect
    <2>4. history' \in [Reviewers -> [Versions -> Seq(ConsentEvents)]]
      <3>1. PICK h \in Stored(history[r][v], event) : history' = [history EXCEPT ![r][v] = h]
        BY <2>1 DEF ConsentEffect
      <3>2. h \in Seq(ConsentEvents)
        BY <2>1, <3>1, RowsAreRows, StoredHistories
      <3> QED
        BY <3>1, <3>2 DEF TypeOK
    <2> QED
      BY <2>1, <2>2, <2>3, <2>4 DEF ConsentEffect, TypeOK, RowTypes
  <1> QED
    BY <1>1, <1>2, <1>3, <1>4, <1>5, KindsOfSteps DEF TypeOK, RowTypes

LEMMA TypeStep ==
  ASSUME TypeOK, [Next]_vars
  PROVE  TypeOK'
  BY InvitationTypes, RowTypesStep DEF RowTypes, TypeOK

(* The account a principal names is the account that names the principal.   *)
LEMMA IdentityStep ==
  ASSUME TypeOK, IdentitiesMatchAccounts, [Next]_vars
  PROVE  IdentitiesMatchAccounts'
  <1>1. ASSUME NEW r \in Reviewers, NEW status \in AccountStatuses, NEW v \in Versions,
               RegisterReviewerAccount(r, status, v)
        PROVE  IdentitiesMatchAccounts'
    <2>1. ~Exists(r) /\ identities' = identities
      BY <1>1 DEF RegisterReviewerAccount
    <2>2. /\ accounts'[r].subject = External
          /\ \A q \in Reviewers : q # r => accounts'[q] = accounts[q]
          /\ \A q \in Reviewers : Exists(q)' <=> Exists(q) \/ q = r
      BY <1>1, RegisteredRow, AccountWritten
    <2> QED
      BY <2>1, <2>2, AuthorityAssumption DEF IdentitiesMatchAccounts
  <1>2. ASSUME NEW r \in Reviewers, NEW p \in Principals, Provides(r, p)
        PROVE  IdentitiesMatchAccounts'
    <2>1. ~Exists(r) /\ identities[p] = NoRow /\ identities' = [identities EXCEPT ![p] = r]
      BY <1>2 DEF Provides, CreateReviewerAccountForPrincipal
    <2>2. /\ accounts'[r].subject = p
          /\ \A q \in Reviewers : q # r => accounts'[q] = accounts[q]
          /\ \A q \in Reviewers : Exists(q)' <=> Exists(q) \/ q = r
      BY <1>2, NewAccountRow, AccountWritten DEF Provides
    <2>3. /\ NoRow \notin Reviewers
          /\ \A u \in Principals : identities'[u] = IF u = p THEN r ELSE identities[u]
      BY <2>1, RowsAreRows DEF TypeOK
    <2>4. ASSUME NEW q \in Reviewers, NEW u \in Principals
          PROVE  identities'[u] = q <=> Exists(q)' /\ accounts'[q].subject = u
      BY <2>1, <2>2, <2>3 DEF IdentitiesMatchAccounts
    <2> QED
      BY <2>4 DEF IdentitiesMatchAccounts, Exists
  <1>3. ASSUME NEW r \in Reviewers, NEW p \in Principals, LinkReviewerAuthIdentity(r, p)
        PROVE  IdentitiesMatchAccounts'
    <2>1. /\ Exists(r) /\ ~Mapped(r)
          /\ identities[p] = NoRow /\ identities' = [identities EXCEPT ![p] = r]
      BY <1>3 DEF LinkReviewerAuthIdentity
    <2>2. /\ accounts'[r].subject = p
          /\ \A q \in Reviewers : q # r => accounts'[q] = accounts[q]
          /\ \A q \in Reviewers : Exists(q)' <=> Exists(q)
      BY <1>3, <2>1, LinkedRow, AccountWritten
    <2>3. /\ NoRow \notin Reviewers
          /\ \A u \in Principals : identities'[u] = IF u = p THEN r ELSE identities[u]
      BY <2>1, RowsAreRows DEF TypeOK
    <2>4. ASSUME NEW q \in Reviewers, NEW u \in Principals
          PROVE  identities'[u] = q <=> Exists(q)' /\ accounts'[q].subject = u
      BY <2>1, <2>2, <2>3 DEF IdentitiesMatchAccounts, Mapped
    <2> QED
      BY <2>4 DEF IdentitiesMatchAccounts, Exists
  <1>4. ASSUME NEW r \in Reviewers, StatusChange(r) \/ ChangesConsent(r)
        PROVE  IdentitiesMatchAccounts'
    <2>1. /\ Exists(r) /\ identities' = identities
          /\ \E row \in AccountRows : /\ accounts' = [accounts EXCEPT ![r] = row]
                                     /\ row.subject = accounts[r].subject
      <3>1. CASE StatusChange(r)
        BY <3>1, StatusRow DEF StatusChange, WithdrawReviewerAccount, DisableReviewerAccount
      <3>2. CASE ChangesConsent(r)
        BY <3>2 DEF ChangesConsent, ConsentEffect
      <3> QED
        BY <1>4, <3>1, <3>2
    <2>2. /\ accounts'[r].subject = accounts[r].subject
          /\ \A q \in Reviewers : q # r => accounts'[q] = accounts[q]
          /\ \A q \in Reviewers : Exists(q)' <=> Exists(q)
      BY <2>1, AccountWritten
    <2> QED
      BY <2>1, <2>2 DEF IdentitiesMatchAccounts
  <1>5. CASE UNCHANGED <<accounts, identities>>
    BY <1>5 DEF IdentitiesMatchAccounts, Exists
  <1> QED
    BY <1>1, <1>2, <1>3, <1>4, <1>5, KindsOfSteps

-----------------------------------------------------------------------------
(* Consent histories.                                                      *)

(* What a step that is no consent change does to rows and histories.        *)
LEMMA OtherSteps ==
  ASSUME TypeOK, [Next]_vars, \A r \in Reviewers : ~ChangesConsent(r), NEW q \in Reviewers
  PROVE  /\ history' = history
         /\ \/ accounts'[q] = accounts[q]
            \/ /\ Exists(q)' /\ ~Exists(q)
               /\ accounts'[q].consentState = "NOT_CONSENTED"
            \/ /\ Exists(q)' /\ Exists(q)
               /\ accounts'[q].consentVersion = accounts[q].consentVersion
               /\ accounts'[q].consentState = accounts[q].consentState
  <1>1. ASSUME NEW r \in Reviewers, NEW status \in AccountStatuses, NEW v \in Versions,
               RegisterReviewerAccount(r, status, v)
        PROVE  /\ history' = history /\ ~Exists(r) /\ Exists(r)'
               /\ accounts'[r].consentState = "NOT_CONSENTED"
               /\ q # r => accounts'[q] = accounts[q]
    BY <1>1, RegisteredRow, AccountWritten DEF RegisterReviewerAccount
  <1>2. ASSUME NEW r \in Reviewers, NEW p \in Principals, Provides(r, p)
        PROVE  /\ ~Exists(r) /\ Exists(r)'
               /\ accounts'[r].consentState = "NOT_CONSENTED"
               /\ q # r => accounts'[q] = accounts[q]
    <2>1. CreateReviewerAccountForPrincipal(r, p) /\ ~Exists(r)
      BY <1>2 DEF Provides, CreateReviewerAccountForPrincipal
    <2> QED
      BY <2>1, NewAccountRow, AccountWritten
  <1>3. ASSUME NEW r \in Reviewers, NEW p \in Principals, LinkReviewerAuthIdentity(r, p)
        PROVE  /\ history' = history /\ Exists(r) /\ Exists(r)'
               /\ accounts'[r].consentVersion = accounts[r].consentVersion
               /\ accounts'[r].consentState = accounts[r].consentState
               /\ q # r => accounts'[q] = accounts[q]
    <2>1. history' = history /\ Exists(r)
      BY <1>3 DEF LinkReviewerAuthIdentity
    <2> QED
      BY <1>3, <2>1, LinkedRow, AccountWritten
  <1>4. ASSUME NEW r \in Reviewers, StatusChange(r)
        PROVE  /\ history' = history /\ Exists(r) /\ Exists(r)'
               /\ accounts'[r].consentVersion = accounts[r].consentVersion
               /\ accounts'[r].consentState = accounts[r].consentState
               /\ q # r => accounts'[q] = accounts[q]
    <2>1. history' = history /\ Exists(r)
      BY <1>4 DEF StatusChange, WithdrawReviewerAccount, DisableReviewerAccount
    <2>2. PICK row \in AccountRows :
            /\ accounts' = [accounts EXCEPT ![r] = row]
            /\ row.consentVersion = accounts[r].consentVersion
            /\ row.consentState = accounts[r].consentState
      BY <1>4, StatusRow
    <2>3. /\ accounts'[r] = row
          /\ \A u \in Reviewers : u # r => accounts'[u] = accounts[u]
          /\ \A u \in Reviewers : Exists(u)' <=> Exists(u) \/ u = r
      BY <2>2, AccountWritten
    <2> QED
      BY <2>1, <2>2, <2>3
  <1> QED
    BY <1>1, <1>2, <1>3, <1>4, KindsOfSteps

LEMMA ConsentWrites ==
  ASSUME TypeOK, NEW r \in Reviewers, NEW v \in Versions, NEW row \in AccountRows,
         NEW event \in ConsentEvents, ConsentEffect(r, v, row, event)
  PROVE  /\ accounts'[r] = row
         /\ \A q \in Reviewers : q # r => accounts'[q] = accounts[q]
         /\ \A q \in Reviewers : Exists(q)' <=> Exists(q)
         /\ history'[r][v] \in Stored(history[r][v], event)
         /\ \A q \in Reviewers, w \in Versions :
              q # r \/ w # v => history'[q][w] = history[q][w]
         /\ history[r][v] \in Seq(ConsentEvents)
  <1>1. /\ accounts'[r] = row
        /\ \A q \in Reviewers : q # r => accounts'[q] = accounts[q]
        /\ \A q \in Reviewers : Exists(q)' <=> Exists(q)
    BY AccountWritten DEF ConsentEffect
  <1>2. PICK h \in Stored(history[r][v], event) : history' = [history EXCEPT ![r][v] = h]
    BY DEF ConsentEffect
  <1>3. /\ history'[r][v] = h
        /\ \A q \in Reviewers, w \in Versions :
             q # r \/ w # v => history'[q][w] = history[q][w]
    BY <1>2 DEF TypeOK
  <1> QED
    BY <1>1, <1>2, <1>3, RowsAreRows

LEMMA HistoriesBelongToAccountsStep ==
  ASSUME TypeOK, HistoriesBelongToAccounts, [Next]_vars
  PROVE  HistoriesBelongToAccounts'
  <1>1. CASE \A r \in Reviewers : ~ChangesConsent(r)
    <2>1. ASSUME NEW q \in Reviewers, NEW w \in Versions
          PROVE  /\ history'[q][w] # <<>> => Exists(q)'
                 /\ Exists(q)' /\ accounts'[q].consentVersion = w
                      /\ accounts'[q].consentState = "CONSENTED" => history'[q][w] # <<>>
      BY <1>1, OtherSteps DEF HistoriesBelongToAccounts, Exists
    <2> QED
      BY <2>1 DEF HistoriesBelongToAccounts, Exists
  <1>2. ASSUME NEW r \in Reviewers, NEW v \in Versions, NEW row \in AccountRows,
               NEW event \in ConsentEvents, ConsentEffect(r, v, row, event)
        PROVE  HistoriesBelongToAccounts'
    <2>1. history'[r][v] # <<>>
      BY <1>2, ConsentWrites, StoredHistories
    <2>2. Exists(r) /\ row.consentVersion = v
      BY <1>2 DEF ConsentEffect
    <2>3. ASSUME NEW q \in Reviewers, NEW w \in Versions
          PROVE  /\ history'[q][w] # <<>> => Exists(q)'
                 /\ Exists(q)' /\ accounts'[q].consentVersion = w
                      /\ accounts'[q].consentState = "CONSENTED" => history'[q][w] # <<>>
      <3>1. CASE q = r /\ w = v
        BY <1>2, <2>1, <2>2, <3>1, ConsentWrites
      <3>2. CASE q = r /\ w # v
        BY <1>2, <2>2, <3>2, ConsentWrites DEF HistoriesBelongToAccounts
      <3>3. CASE q # r
        BY <1>2, <3>3, ConsentWrites DEF HistoriesBelongToAccounts
      <3> QED
        BY <3>1, <3>2, <3>3
    <2> QED
      BY <2>3 DEF HistoriesBelongToAccounts, Exists
  <1> QED
    BY <1>1, <1>2 DEF ChangesConsent

LEMMA HistoriesAreSortedStep ==
  ASSUME TypeOK, HistoriesAreSorted, [Next]_vars
  PROVE  HistoriesAreSorted'
  <1>1. CASE \A r \in Reviewers : ~ChangesConsent(r)
    <2>1. ASSUME NEW q \in Reviewers PROVE history' = history
      BY <1>1, OtherSteps
    <2> QED
      BY <2>1 DEF HistoriesAreSorted
  <1>2. ASSUME NEW r \in Reviewers, NEW v \in Versions, NEW row \in AccountRows,
               NEW event \in ConsentEvents, ConsentEffect(r, v, row, event)
        PROVE  HistoriesAreSorted'
    <2>1. /\ history[r][v] \in Seq(ConsentEvents)
          /\ history'[r][v] \in Stored(history[r][v], event)
          /\ event.nth = Len(history[r][v]) + 1
      <3>1. event.nth = Len(history[r][v]) + 1
        BY <1>2 DEF ConsentEffect
      <3> QED
        BY <1>2, <3>1, ConsentWrites
    <2>2. Numbered(history[r][v]) /\ Sorted(history[r][v])
      BY DEF HistoriesAreSorted
    <2>3. Numbered(history'[r][v]) /\ Sorted(history'[r][v])
      BY <2>1, <2>2, SortedHistories
    <2>4. ASSUME NEW q \in Reviewers, NEW w \in Versions
          PROVE  Numbered(history'[q][w]) /\ Sorted(history'[q][w])
      <3>1. CASE q = r /\ w = v
        BY <2>3, <3>1
      <3>2. CASE q # r \/ w # v
        BY <1>2, <3>2, ConsentWrites DEF HistoriesAreSorted
      <3> QED
        BY <3>1, <3>2
    <2> QED
      BY <2>4 DEF HistoriesAreSorted
  <1> QED
    BY <1>1, <1>2 DEF ChangesConsent

LEMMA RowTellsLastRecordedStep ==
  ASSUME IInv, [Next]_vars
  PROVE  RowTellsLastRecorded'
  <1> DEFINE Tells(row, h) ==
        \E n \in 1..Len(h) :
          /\ h[n].nth = Len(h)
          /\ row.consentState = IF h[n].state = "ACCEPTED" THEN "CONSENTED" ELSE "REVOKED"
  <1> SUFFICES ASSUME NEW q \in Reviewers, NEW w \in Versions, Exists(q)',
                      accounts'[q].consentVersion = w, history'[q][w] # <<>>
               PROVE  Tells(accounts'[q], history'[q][w])
    BY DEF RowTellsLastRecorded
  <1>1. TypeOK /\ HistoriesAreSorted /\ HistoriesBelongToAccounts
    BY DEF IInv
  <1>2. Exists(q) /\ accounts[q].consentVersion = w /\ history[q][w] # <<>> =>
          Tells(accounts[q], history[q][w])
    BY DEF IInv, RowTellsLastRecorded
  <1>3. CASE \A r \in Reviewers : ~ChangesConsent(r)
    <2>1. /\ history'[q][w] = history[q][w]
          /\ \/ accounts'[q] = accounts[q]
             \/ ~Exists(q)
             \/ /\ Exists(q)
                /\ accounts'[q].consentVersion = accounts[q].consentVersion
                /\ accounts'[q].consentState = accounts[q].consentState
      BY <1>1, <1>3, OtherSteps
    <2>2. Exists(q)
      BY <1>1, <2>1 DEF HistoriesBelongToAccounts
    <2> QED
      BY <1>2, <2>1, <2>2
  <1>4. ASSUME NEW r \in Reviewers, NEW v \in Versions, NEW row \in AccountRows,
               NEW event \in ConsentEvents, ConsentEffect(r, v, row, event)
        PROVE  Tells(accounts'[q], history'[q][w])
    <2>1. /\ accounts'[r] = row
          /\ \A u \in Reviewers : u # r => accounts'[u] = accounts[u]
          /\ \A u \in Reviewers : Exists(u)' <=> Exists(u)
          /\ \A u \in Reviewers, x \in Versions : u # r \/ x # v => history'[u][x] = history[u][x]
      BY <1>1, <1>4, ConsentWrites
    <2>2. CASE q = r
      <3>1. /\ row.consentVersion = v
            /\ event.nth = Len(history[r][v]) + 1
            /\ row.consentState = IF event.state = "ACCEPTED" THEN "CONSENTED" ELSE "REVOKED"
        BY <1>4 DEF ConsentEffect
      <3>2. w = v
        BY <2>1, <2>2, <3>1
      <3>3. /\ history[r][v] \in Seq(ConsentEvents)
            /\ history'[r][v] \in Stored(history[r][v], event)
            /\ Numbered(history[r][v]) /\ Sorted(history[r][v])
        BY <1>1, <1>4, ConsentWrites DEF HistoriesAreSorted
      <3>4. \E n \in 1..Len(history'[r][v]) :
              history'[r][v][n] = event /\ history'[r][v][n].nth = Len(history'[r][v])
        BY <3>1, <3>3, SortedHistories
      <3> QED
        BY <2>1, <2>2, <3>1, <3>2, <3>4
    <2>3. CASE q # r
      BY <1>2, <2>1, <2>3
    <2> QED
      BY <2>2, <2>3
  <1> QED
    BY <1>3, <1>4 DEF ChangesConsent

(* Consent of a history that has events is told by the last one.            *)
LEMMA ConsentOfHistory ==
  ASSUME NEW r \in Reviewers, NEW v \in Versions, history[r][v] # <<>>,
         LatestEvent(history[r][v]).state \in {"ACCEPTED", "REVOKED"}
  PROVE  Consented(r, v) <=> LatestEvent(history[r][v]).state = "ACCEPTED"
  BY DEF Consented, CurrentConsent

(* A consent change whose stamp is the latest is loaded last.               *)
LEMMA ConsentIsAppended ==
  ASSUME IInv, [Next]_vars, NEW r \in Reviewers, NEW v \in Versions, NEW row \in AccountRows,
         NEW event \in ConsentEvents, ConsentEffect(r, v, row, event),
         LastStampIsLatest(history'[r][v])
  PROVE  LET h == history[r][v]
             g == history'[r][v]
         IN  /\ h \in Seq(ConsentEvents)
             /\ g \in Seq(ConsentEvents)
             /\ Len(g) = Len(h) + 1
             /\ g # <<>>
             /\ \A n \in 1..Len(h) : g[n] = h[n]
             /\ LatestEvent(g) = event
  <1> DEFINE h == history[r][v]
             g == history'[r][v]
  <1>1. h \in Seq(ConsentEvents) /\ g \in Stored(h, event)
    BY ConsentWrites DEF IInv
  <1>2. Numbered(h) /\ event.nth = Len(h) + 1 /\ LastStampIsLatest(g)
    BY DEF IInv, HistoriesAreSorted, ConsentEffect
  <1> HIDE DEF h, g
  <1>3. /\ Len(g) = Len(h) + 1
        /\ g # <<>>
        /\ \A n \in 1..Len(h) : g[n] = h[n]
        /\ g[Len(g)] = event
    BY <1>1, <1>2, LatestStampsAreAppended
  <1>4. g \in Seq(ConsentEvents)
    BY <1>1, InsertionPoint
  <1> QED
    BY <1>1, <1>3, <1>4 DEF h, g, LatestEvent

LEMMA ParityAlternates ==
  ASSUME NEW n \in Nat
  PROVE  (n + 1) % 2 = 1 <=> ~(n % 2 = 1)
  OBVIOUS

LEMMA HistoriesAlternateStep ==
  ASSUME IInv, [Next]_vars
  PROVE  HistoriesAlternate'
  <1> DEFINE Alternates(h) ==
        \A n \in 1..Len(h) : h[n].state = IF n % 2 = 1 THEN "ACCEPTED" ELSE "REVOKED"
  <1>1. \A q \in Reviewers, w \in Versions : StampsInOrder(history[q][w]) => Alternates(history[q][w])
    BY DEF IInv, HistoriesAlternate
  <1>2. CASE \A r \in Reviewers : ~ChangesConsent(r)
    <2>1. history' = history
      BY <1>2, KindsOfSteps DEF IInv, RegisterReviewerAccount, LinkReviewerAuthIdentity, StatusChange,
         WithdrawReviewerAccount, DisableReviewerAccount
    <2> QED
      BY <1>1, <2>1 DEF HistoriesAlternate
  <1>3. ASSUME NEW r \in Reviewers, NEW v \in Versions, NEW row \in AccountRows,
               NEW event \in ConsentEvents, ConsentEffect(r, v, row, event)
        PROVE  HistoriesAlternate'
    <2> DEFINE h == history[r][v]
               g == history'[r][v]
    <2>1. ASSUME StampsInOrder(g) PROVE Alternates(g)
      <3>1. /\ h \in Seq(ConsentEvents)
            /\ Len(g) = Len(h) + 1
            /\ \A n \in 1..Len(h) : g[n] = h[n]
            /\ g[Len(h) + 1] = event
            /\ StampsInOrder(h)
        <4>1. h \in Seq(ConsentEvents) /\ g \in Seq(ConsentEvents)
          <5>1. h \in Seq(ConsentEvents) /\ g \in Stored(h, event)
            BY <1>3, ConsentWrites DEF IInv
          <5> HIDE DEF h, g
          <5> QED
            BY <5>1, InsertionPoint
        <4>2. LastStampIsLatest(g)
          <5> HIDE DEF h, g
          <5> QED
            BY <2>1, <4>1, OrderedHistories
        <4>3. /\ Len(g) = Len(h) + 1
              /\ \A n \in 1..Len(h) : g[n] = h[n]
              /\ LatestEvent(g) = event
          BY <1>3, <4>2, ConsentIsAppended
        <4> HIDE DEF h, g
        <4> QED
          BY <2>1, <4>1, <4>3, OrderedHistories DEF LatestEvent
      <3>2. Len(h) \in Nat
        BY <3>1
      <3>3. event.state = IF (Len(h) + 1) % 2 = 1 THEN "ACCEPTED" ELSE "REVOKED"
        <4>1. CASE h = <<>>
          <5>1. event.state = "ACCEPTED"
            BY <1>3, <4>1 DEF ConsentEffect
          <5> QED
            BY <4>1, <5>1
        <4>2. CASE h # <<>>
          <5>1. /\ Len(h) \in 1..Len(h)
                /\ LatestEvent(h) = h[Len(h)]
                /\ LatestEvent(h).state = IF Len(h) % 2 = 1 THEN "ACCEPTED" ELSE "REVOKED"
            <6>1. Alternates(h)
              BY <1>1, <3>1
            <6> HIDE DEF h
            <6>2. Len(h) \in 1..Len(h)
              BY <3>1, <3>2, <4>2
            <6> QED
              BY <6>1, <6>2 DEF LatestEvent
          <5>2. Consented(r, v) <=> Len(h) % 2 = 1
            BY <4>2, <5>1, ConsentOfHistory
          <5>3. event.state = IF Len(h) % 2 = 1 THEN "REVOKED" ELSE "ACCEPTED"
            BY <1>3, <5>2 DEF ConsentEffect
          <5>4. (Len(h) + 1) % 2 = 1 <=> ~(Len(h) % 2 = 1)
            BY ONLY <3>2, ParityAlternates
          <5> QED
            BY <5>3, <5>4
        <4> QED
          BY <4>1, <4>2
      <3>4. Alternates(g)
        <4> SUFFICES ASSUME NEW n \in 1..Len(g)
                     PROVE  g[n].state = IF n % 2 = 1 THEN "ACCEPTED" ELSE "REVOKED"
          OBVIOUS
        <4> HIDE DEF h, g
        <4>1. CASE n = Len(h) + 1
          BY <3>1, <3>3, <4>1
        <4>2. CASE n \in 1..Len(h)
          BY <1>1, <3>1, <4>2 DEF h
        <4> QED
          BY <3>1, <3>2, <4>1, <4>2
      <3> QED
        BY <3>4
    <2>5. ASSUME NEW q \in Reviewers, NEW w \in Versions, StampsInOrder(history'[q][w])
          PROVE  Alternates(history'[q][w])
      <3>1. CASE q = r /\ w = v
        BY <2>1, <2>5, <3>1
      <3>2. CASE q # r \/ w # v
        <4>1. history'[q][w] = history[q][w]
          BY <1>3, <3>2, ConsentWrites DEF IInv
        <4> QED
          BY <1>1, <2>5, <4>1
      <3> QED
        BY <3>1, <3>2
    <2> QED
      BY <2>5 DEF HistoriesAlternate
  <1> QED
    BY <1>2, <1>3 DEF ChangesConsent

LEMMA ProjectionMatchesHistoryStep ==
  ASSUME IInv, [Next]_vars
  PROVE  ProjectionMatchesHistory'
  <1> SUFFICES ASSUME NEW q \in Reviewers, Exists(q)',
                      LastStampIsLatest(history'[q][accounts'[q].consentVersion])
               PROVE  CurrentConsent(q, accounts[q].consentVersion)'.state = accounts'[q].consentState
    BY DEF ProjectionMatchesHistory
  <1>1. TypeOK
    BY DEF IInv
  <1>2. Exists(q) /\ LastStampIsLatest(history[q][accounts[q].consentVersion]) =>
          CurrentConsent(q, accounts[q].consentVersion).state = accounts[q].consentState
    BY DEF IInv, ProjectionMatchesHistory
  <1>3. CASE \A r \in Reviewers : ~ChangesConsent(r)
    <2>1. CASE accounts'[q] = accounts[q]
      BY <1>1, <1>2, <1>3, <2>1, OtherSteps DEF CurrentConsent, Exists
    <2>2. CASE ~Exists(q)
      <3>1. accounts'[q] \in AccountRows
        BY <1>1, TypeStep, RowsAreRows DEF TypeOK, Exists
      <3>2. history'[q][accounts'[q].consentVersion] = <<>>
        BY <1>1, <1>3, <2>2, <3>1, OtherSteps DEF IInv, HistoriesBelongToAccounts, AccountRows
      <3> QED
        BY <3>2 DEF CurrentConsent
    <2>3. CASE /\ Exists(q)
               /\ accounts'[q].consentVersion = accounts[q].consentVersion
               /\ accounts'[q].consentState = accounts[q].consentState
      BY <1>1, <1>2, <1>3, <2>3, OtherSteps DEF CurrentConsent
    <2> QED
      BY <1>1, <1>3, <2>1, <2>2, <2>3, OtherSteps
  <1>4. ASSUME NEW r \in Reviewers, NEW v \in Versions, NEW row \in AccountRows,
               NEW event \in ConsentEvents, ConsentEffect(r, v, row, event)
        PROVE  CurrentConsent(q, accounts[q].consentVersion)'.state = accounts'[q].consentState
    <2>1. CASE q = r
      <3>1. accounts'[r] = row
        BY <1>1, <1>4, ConsentWrites
      <3>2. /\ row.consentVersion = v
            /\ row.consentState = IF event.state = "ACCEPTED" THEN "CONSENTED" ELSE "REVOKED"
        BY <1>4 DEF ConsentEffect
      <3>3. history'[r][v] # <<>> /\ LatestEvent(history'[r][v]) = event
        BY <1>4, <2>1, <3>1, <3>2, ConsentIsAppended
      <3> QED
        BY <2>1, <3>1, <3>2, <3>3 DEF CurrentConsent
    <2>2. CASE q # r
      <3>1. /\ accounts'[q] = accounts[q]
            /\ Exists(q)
            /\ accounts[q].consentVersion \in Versions
        BY <1>1, <1>4, <2>2, ConsentWrites, RowsAreRows DEF AccountRows
      <3>2. history'[q][accounts[q].consentVersion] = history[q][accounts[q].consentVersion]
        BY <1>1, <1>4, <2>2, <3>1, ConsentWrites
      <3> QED
        BY <1>2, <3>1, <3>2 DEF CurrentConsent
    <2> QED
      BY <2>1, <2>2
  <1> QED
    BY <1>3, <1>4 DEF ChangesConsent

-----------------------------------------------------------------------------
(* Theorems.                                                               *)

LEMMA InitIInv == Init => IInv
  BY AuthorityAssumption, AuthorityRowAssumption
  DEF Init, IInv, TypeOK, IdentitiesMatchAccounts, InvitationsEndOnce, InvitationStory,
      HistoriesBelongToAccounts, HistoriesAreSorted, Numbered, Sorted, RowTellsLastRecorded,
      HistoriesAlternate, ProjectionMatchesHistory, Exists

LEMMA NextIInv == IInv /\ [Next]_vars => IInv'
  BY TypeStep, IdentityStep, InvitationsEndOnceStep, HistoriesBelongToAccountsStep,
     HistoriesAreSortedStep, RowTellsLastRecordedStep, HistoriesAlternateStep,
     ProjectionMatchesHistoryStep
  DEF IInv

(* The inductive invariant of the specification.                           *)
THEOREM SpecIInv == Spec => []IInv
  BY InitIInv, NextIInv, PTL DEF Spec

(* Every reachable state is well typed.                                    *)
THEOREM TypeSafety == Spec => []TypeOK
  <1>1. IInv => TypeOK
    BY DEF IInv
  <1> QED
    BY <1>1, SpecIInv, PTL

(* A login resolves to one account, which answers to that login only.       *)
THEOREM LoginsAreUnambiguous == Spec => []IdentitiesMatchAccounts
  <1>1. IInv => IdentitiesMatchAccounts
    BY DEF IInv
  <1> QED
    BY <1>1, SpecIInv, PTL

(* No invitation ends twice.                                               *)
THEOREM InvitationsAreSpentOnce == Spec => []InvitationsEndOnce
  <1>1. IInv => InvitationsEndOnce
    BY DEF IInv
  <1> QED
    BY <1>1, SpecIInv, PTL

(* Whatever the clocks do, authority needs an acceptance of the current    *)
(* version.                                                                *)
LEMMA AuthorityIsAccepted == IInv => AuthorityNeedsAcceptance
  <1> SUFFICES ASSUME IInv, NEW r \in Reviewers, Eligible(r)
               PROVE  /\ history[r][CurrentVersion] # <<>>
                      /\ LatestEvent(history[r][CurrentVersion]).state = "ACCEPTED"
    BY DEF AuthorityNeedsAcceptance
  <1>1. Exists(r) /\ Consented(r, CurrentVersion) /\ CurrentVersion \in Versions
    BY AuthorityAssumption DEF Eligible
  <1>2. history[r][CurrentVersion] # <<>>
    <2> SUFFICES ASSUME history[r][CurrentVersion] = <<>> PROVE FALSE
      OBVIOUS
    <2>1. accounts[r].consentVersion = CurrentVersion /\ accounts[r].consentState = "CONSENTED"
      BY <1>1 DEF Consented, CurrentConsent
    <2> QED
      BY <1>1, <2>1 DEF IInv, HistoriesBelongToAccounts
  <1>3. LatestEvent(history[r][CurrentVersion]).state = "ACCEPTED"
    BY <1>1, <1>2 DEF Consented, CurrentConsent
  <1> QED
    BY <1>2, <1>3

(* An acceptance that is loaded behind the revocation recorded last is       *)
(* stamped no earlier than it.                                             *)
LEMMA RevocationsAreOvertaken == IInv => RevocationsStand
  <1> SUFFICES ASSUME IInv, NEW r \in Reviewers, RevokedOnRow(r), Eligible(r)
               PROVE  Overtaken(history[r][CurrentVersion])
    BY DEF RevocationsStand
  <1> DEFINE h == history[r][CurrentVersion]
  <1>1. /\ CurrentVersion \in Versions /\ Exists(r)
        /\ accounts[r].consentVersion = CurrentVersion /\ accounts[r].consentState = "REVOKED"
    BY AuthorityAssumption DEF RevokedOnRow
  <1>2. h # <<>> /\ LatestEvent(h).state = "ACCEPTED"
    BY AuthorityIsAccepted DEF AuthorityNeedsAcceptance
  <1>3. h \in Seq(ConsentEvents) /\ Numbered(h) /\ Sorted(h)
    BY <1>1, RowsAreRows DEF IInv, HistoriesAreSorted
  <1>4. PICK n \in 1..Len(h) : h[n].nth = Len(h) /\ h[n].state # "ACCEPTED"
    BY <1>1, <1>2 DEF IInv, RowTellsLastRecorded
  <1> HIDE DEF h
  <1>5. Len(h) \in 1..Len(h) /\ h[Len(h)].state = "ACCEPTED"
    BY <1>2, <1>3 DEF LatestEvent
  <1>6. \A k \in 1..Len(h) : h[k].at \in Nat /\ h[k].nth \in 1..Len(h) /\
                              h[k].state \in {"ACCEPTED", "REVOKED"}
    <2>1. \A k \in 1..Len(h) : h[k] \in ConsentEvents
      BY <1>3
    <2> QED
      BY <1>3, <2>1, AuthorityAssumption DEF ConsentEvents, Numbered
  <1>7. h[n].at <= h[Len(h)].at
    BY <1>3, <1>5 DEF Sorted
  <1>8. h[Len(h)].nth < h[n].nth
    <2>1. Len(h) # n
      BY <1>4, <1>5
    <2>2. h[Len(h)].nth # h[n].nth
      BY <1>3, <1>5, <2>1 DEF Numbered
    <2> QED
      BY <1>4, <1>5, <1>6, <2>2
  <1>9. h[n].state = "REVOKED" /\ h[Len(h)].at >= h[n].at
    BY <1>4, <1>5, <1>6, <1>7
  <1> QED
    BY <1>4, <1>5, <1>8, <1>9 DEF Overtaken, h

(* Whatever the clocks stamp: a history whose stamps are in order alternates *)
(* between acceptance and revocation, the account row agrees with every     *)
(* history whose last stamp is the latest, a revocation is only overtaken   *)
(* by an acceptance stamped no earlier, and authority has an acceptance     *)
(* behind it.                                                              *)
THEOREM ConsentTellsOneStory == Spec => []ConsentIsConsistent
  <1>1. IInv => ConsentIsConsistent
    BY AuthorityIsAccepted, RevocationsAreOvertaken DEF IInv, ConsentIsConsistent
  <1> QED
    BY <1>1, SpecIInv, PTL

(* A revocation of the current version, the last consent request of its     *)
(* reviewer, takes the authority away whenever its stamp is later than      *)
(* those of the events recorded before it; the order of stamps elsewhere    *)
(* does not matter.                                                        *)
THEOREM RevocationStands ==
  Spec => [](\A r \in Reviewers :
               LastStampIsLatest(history[r][CurrentVersion]) /\ RevokedOnRow(r) => ~Eligible(r))
  <1>1. ASSUME NEW r \in Reviewers, Overtaken(history[r][CurrentVersion])
        PROVE  ~(TypeOK /\ LastStampIsLatest(history[r][CurrentVersion]))
    <2> SUFFICES ASSUME TypeOK, LastStampIsLatest(history[r][CurrentVersion]) PROVE FALSE
      OBVIOUS
    <2> DEFINE h == history[r][CurrentVersion]
    <2>1. PICK m, n \in 1..Len(h) : /\ h[n].nth = Len(h) /\ h[m].nth < h[n].nth
                                    /\ h[m].at >= h[n].at
      BY <1>1 DEF Overtaken
    <2>2. h[m].at < h[n].at
      BY <2>1 DEF LastStampIsLatest
    <2>3. h[m].at \in Nat /\ h[n].at \in Nat
      <3>1. h \in Seq(ConsentEvents)
        BY RowsAreRows, AuthorityAssumption
      <3> HIDE DEF h
      <3>2. h[m] \in ConsentEvents /\ h[n] \in ConsentEvents
        BY <3>1
      <3> QED
        BY <3>2, AuthorityAssumption DEF ConsentEvents
    <2> QED
      BY <2>1, <2>2, <2>3
  <1>2. IInv => (\A r \in Reviewers :
                   LastStampIsLatest(history[r][CurrentVersion]) /\ RevokedOnRow(r) => ~Eligible(r))
    BY <1>1, RevocationsAreOvertaken DEF IInv, RevocationsStand
  <1> QED
    BY <1>2, SpecIInv, PTL

(* A redemption spends one invitation and maps one more account.            *)
LEMMA ConsumedStep ==
  ASSUME TypeOK, IdentitiesMatchAccounts, ConsumedInvitationsMadeAccounts, [Next]_vars
  PROVE  ConsumedInvitationsMadeAccounts'
  <1>1. /\ IsFiniteSet(Consumed) /\ IsFiniteSet(MappedReviewers) /\ IsFiniteSet(MappedReviewers')
        /\ Cardinality(Consumed) \in Nat /\ Cardinality(MappedReviewers) \in Nat
        /\ Cardinality(MappedReviewers') \in Nat
    <2>1. Consumed \in SUBSET Invitations /\ MappedReviewers \in SUBSET Reviewers
      BY DEF Consumed, MappedReviewers
    <2>2. MappedReviewers' \in SUBSET Reviewers
      BY DEF MappedReviewers
    <2> QED
      BY <2>1, <2>2, AuthorityAssumption, FS_Subset, FS_CardinalityType
  <1>2. MappedReviewers \subseteq MappedReviewers'
    <2>1. \A p \in Principals : identities[p] # NoRow => identities'[p] = identities[p]
      BY KindsOfSteps
      DEF TypeOK, RegisterReviewerAccount, Provides, CreateReviewerAccountForPrincipal,
          LinkReviewerAuthIdentity, StatusChange, WithdrawReviewerAccount, DisableReviewerAccount,
          ChangesConsent, ConsentEffect
    <2> QED
      BY <2>1, RowsAreRows DEF MappedReviewers, Mapped
  <1>3. CASE Consumed' = Consumed
    <2>1. Cardinality(MappedReviewers) <= Cardinality(MappedReviewers')
      BY <1>1, <1>2, FS_Subset
    <2> QED
      BY <1>1, <1>3, <2>1 DEF ConsumedInvitationsMadeAccounts
  <1>4. ASSUME NEW i \in Invitations, NEW r \in Reviewers, NEW p \in Principals, NEW t \in Instants,
               RedeemReviewerInvitation(i, r, p, t)
        PROVE  ConsumedInvitationsMadeAccounts'
    <2>1. Open(i) /\ InvitationEnds(i, "CONSUMED", "consumed") /\ ~Exists(r)
      BY <1>4 DEF RedeemReviewerInvitation, CreateReviewerAccountForPrincipal
    <2>2. Consumed' = Consumed \cup {i}
      <3>1. "CONSUMED" \in InvitationStates
        BY DEF InvitationStates
      <3>2. /\ invitations'[i] # NoRow /\ invitations'[i].state = "CONSUMED"
            /\ \A j \in Invitations : j # i => invitations'[j] = invitations[j]
        BY <2>1, <3>1, InvitationEnded
      <3> QED
        BY <3>2 DEF Consumed
    <2>3. r \notin MappedReviewers
      BY <2>1 DEF MappedReviewers, Mapped, IdentitiesMatchAccounts
    <2>4. r \in MappedReviewers'
      <3>1. identities'[p] = r
        BY <1>4 DEF RedeemReviewerInvitation, CreateReviewerAccountForPrincipal, TypeOK
      <3> QED
        BY <3>1 DEF MappedReviewers, Mapped
    <2>5. /\ Cardinality(Consumed \cup {i}) <= Cardinality(Consumed) + 1
          /\ Cardinality(Consumed \cup {i}) \in Nat
      <3>1. Cardinality(Consumed \cup {i}) =
              IF i \in Consumed THEN Cardinality(Consumed) ELSE Cardinality(Consumed) + 1
        BY ONLY <1>1, FS_AddElement
      <3> QED
        BY <1>1, <3>1
    <2>6. Cardinality(MappedReviewers \cup {r}) = Cardinality(MappedReviewers) + 1
      BY <1>1, <2>3, FS_AddElement
    <2>7. Cardinality(MappedReviewers \cup {r}) <= Cardinality(MappedReviewers')
      <3>1. MappedReviewers \cup {r} \in SUBSET MappedReviewers'
        BY <1>2, <2>4
      <3> QED
        BY ONLY <1>1, <3>1, FS_Subset
    <2>8. Cardinality(Consumed \cup {i}) <= Cardinality(MappedReviewers')
      BY <1>1, <2>5, <2>6, <2>7 DEF ConsumedInvitationsMadeAccounts
    <2> QED
      BY <2>2, <2>8 DEF ConsumedInvitationsMadeAccounts
  <1>5. ASSUME NEW i \in Invitations, NEW t \in Instants, InvitationStep(i, t),
               ~\E r \in Reviewers, p \in Principals : RedeemReviewerInvitation(i, r, p, t)
        PROVE  Consumed' = Consumed
    <2>1. CASE IssueReviewerInvitation(i, t)
      <3>1. invitations[i] = NoRow
        BY <2>1 DEF IssueReviewerInvitation
      <3> QED
        BY <2>1, <3>1, InvitationIssued DEF Consumed
    <2>2. ASSUME NEW state \in {"EXPIRED", "REVOKED"}, NEW event, Open(i), InvitationEnds(i, state, event)
          PROVE  Consumed' = Consumed
      <3>1. state \in InvitationStates /\ state # "CONSUMED"
        BY DEF InvitationStates
      <3>2. /\ invitations'[i].state = state
            /\ \A j \in Invitations : j # i => invitations'[j] = invitations[j]
        BY <2>2, <3>1, InvitationEnded
      <3> QED
        BY <2>2, <3>1, <3>2 DEF Consumed, Open
    <2> QED
      BY <1>5, <2>1, <2>2 DEF InvitationStep, ExpireReviewerInvitation, RevokeReviewerInvitation
  <1>6. CASE ~(\E i \in Invitations, t \in Instants : InvitationStep(i, t))
    BY <1>3, <1>6, InvitationsUntouched DEF Consumed
  <1> QED
    BY <1>3, <1>4, <1>5, <1>6

(* Every spent invitation made an account of its own.                       *)
THEOREM InvitationsMakeAccounts == Spec => []ConsumedInvitationsMadeAccounts
  <1>1. Init => ConsumedInvitationsMadeAccounts
    <2> SUFFICES ASSUME Init PROVE ConsumedInvitationsMadeAccounts
      OBVIOUS
    <2>1. Consumed = {} /\ MappedReviewers \in SUBSET Reviewers
      BY DEF Init, Consumed, MappedReviewers
    <2>2. Cardinality(MappedReviewers) \in Nat
      BY <2>1, AuthorityAssumption, FS_Subset, FS_CardinalityType
    <2>3. Cardinality({}) = 0
      BY FS_EmptySet
    <2> QED
      BY <2>1, <2>2, <2>3 DEF ConsumedInvitationsMadeAccounts
  <1>2. IInv /\ ConsumedInvitationsMadeAccounts /\ [Next]_vars => ConsumedInvitationsMadeAccounts'
    BY ConsumedStep DEF IInv
  <1> QED
    BY <1>1, <1>2, SpecIInv, PTL DEF Spec

(* A closed account never accepts again, a disabled one records nothing, a  *)
(* mapped account keeps its principal.                                     *)
THEOREM ClosedStaysClosed == Spec => ClosedAccountsStayClosed
  <1>1. IInv /\ [Next]_vars => [\A r \in Reviewers : AuthorityKeeps(r)]_vars
    <2> SUFFICES ASSUME IInv, [Next]_vars, NEW q \in Reviewers, Exists(q)
                 PROVE  AuthorityKeeps(q)
      BY DEF AuthorityKeeps
    <2>1. TypeOK /\ IdentitiesMatchAccounts
      BY DEF IInv
    <2>2. CASE UNCHANGED <<accounts, identities, history, audit>>
      BY <2>2 DEF AuthorityKeeps, Exists
    <2>3. ASSUME NEW r \in Reviewers, NEW events, Audited(r, events),
                 r # q \/ "consent_accepted" \notin events
          PROVE  audit'[q]["consent_accepted"] = audit[q]["consent_accepted"]
      BY <2>1, <2>3 DEF Audited, TypeOK, AuthAuditEvents
    <2>4. ASSUME NEW r \in Reviewers, NEW status \in AccountStatuses, NEW v \in Versions,
                 RegisterReviewerAccount(r, status, v)
          PROVE  AuthorityKeeps(q)
      <3>1. q # r /\ Audited(r, {"account_created"}) /\ history' = history
        BY <2>4 DEF RegisterReviewerAccount
      <3>2. accounts'[q] = accounts[q]
        BY <2>1, <2>4, <3>1, RegisteredRow, AccountWritten
      <3> QED
        BY <2>3, <3>1, <3>2 DEF AuthorityKeeps, Exists
    <2>5. ASSUME NEW r \in Reviewers, NEW p \in Principals, Provides(r, p), UNCHANGED history
          PROVE  AuthorityKeeps(q)
      <3>1. q # r /\ Audited(r, {"account_created", "authentication_mapping_created"})
        BY <2>5 DEF Provides, CreateReviewerAccountForPrincipal
      <3>2. accounts'[q] = accounts[q]
        BY <2>1, <2>5, <3>1, NewAccountRow, AccountWritten DEF Provides
      <3> QED
        BY <2>3, <2>5, <3>1, <3>2 DEF AuthorityKeeps, Exists
    <2>6. ASSUME NEW r \in Reviewers, NEW p \in Principals, LinkReviewerAuthIdentity(r, p)
          PROVE  AuthorityKeeps(q)
      <3>1. ~Mapped(r) /\ Audited(r, {"authentication_mapping_created"}) /\ history' = history
        BY <2>6 DEF LinkReviewerAuthIdentity
      <3>2. audit'[q]["consent_accepted"] = audit[q]["consent_accepted"]
        BY <2>3, <3>1
      <3>3. /\ q # r => accounts'[q] = accounts[q]
            /\ q = r => accounts'[q].status = accounts[q].status
            /\ Exists(q)'
        BY <2>1, <2>6, LinkedRow, AccountWritten
      <3>4. q = r => accounts[q].subject = External
        <4>1. accounts[q] \in AccountRows
          BY <2>1, RowsAreRows
        <4> QED
          BY <2>1, <3>1, <4>1 DEF AccountRows, IdentitiesMatchAccounts, Mapped
      <3> QED
        BY <3>1, <3>2, <3>3, <3>4 DEF AuthorityKeeps
    <2>7. ASSUME NEW r \in Reviewers, StatusChange(r)
          PROVE  AuthorityKeeps(q)
      <3>1. history' = history /\ \E events : Audited(r, events) /\ "consent_accepted" \notin events
        BY <2>7 DEF StatusChange, WithdrawReviewerAccount, DisableReviewerAccount
      <3>2. audit'[q]["consent_accepted"] = audit[q]["consent_accepted"]
        BY <2>3, <3>1
      <3>3. PICK row \in AccountRows :
              /\ accounts' = [accounts EXCEPT ![r] = row]
              /\ row.status # "ACTIVE"
              /\ accounts[r].status = "DISABLED" => row.status = "DISABLED"
              /\ row.subject = accounts[r].subject
        BY <2>1, <2>7, StatusRow
      <3>4. /\ accounts'[r] = row
            /\ q # r => accounts'[q] = accounts[q]
            /\ Exists(q)'
        BY <2>1, <3>3, AccountWritten
      <3> QED
        BY <3>1, <3>2, <3>3, <3>4 DEF AuthorityKeeps
    <2>8. ASSUME NEW r \in Reviewers, NEW v \in Versions, NEW row \in AccountRows,
                 NEW event \in ConsentEvents, ConsentEffect(r, v, row, event)
          PROVE  AuthorityKeeps(q)
      <3>1. /\ accounts'[r] = row
            /\ q # r => accounts'[q] = accounts[q]
            /\ Exists(q)'
            /\ \A w \in Versions : q # r => history'[q][w] = history[q][w]
        BY <2>1, <2>8, ConsentWrites
      <3>2. /\ accounts[r].status # "DISABLED"
            /\ row.status = accounts[r].status
            /\ row.subject = accounts[r].subject
            /\ \/ accounts[r].status = "ACTIVE" /\ Audited(r, {"consent_accepted"})
               \/ Audited(r, {"consent_revoked"})
        BY <2>8 DEF ConsentEffect
      <3>3. q # r => history'[q] = history[q]
        <4>1. history' \in [Reviewers -> [Versions -> Seq(ConsentEvents)]]
          BY <2>1, RowTypesStep DEF RowTypes
        <4> QED
          BY <2>1, <3>1, <4>1 DEF TypeOK
      <3>4. accounts[q].status # "ACTIVE" =>
              audit'[q]["consent_accepted"] = audit[q]["consent_accepted"]
        BY <2>3, <3>2
      <3> QED
        BY <3>1, <3>2, <3>3, <3>4 DEF AuthorityKeeps
    <2> QED
      BY <2>1, <2>2, <2>4, <2>5, <2>6, <2>7, <2>8, KindsOfSteps DEF ChangesConsent
  <1> QED
    BY <1>1, SpecIInv, PTL DEF Spec, ClosedAccountsStayClosed

-----------------------------------------------------------------------------
(* The audit of an account.                                                *)

(* An event that is inserted anywhere in a history is one event more: the   *)
(* events behind it are the same events one place further.                 *)
LEMMA EventCounted ==
  ASSUME TypeOK, NEW r \in Reviewers, NEW v \in Versions, NEW row \in AccountRows,
         NEW event \in ConsentEvents, ConsentEffect(r, v, row, event),
         NEW state, IsFiniteSet(Events(r, state))
  PROVE  /\ IsFiniteSet(Events(r, state)')
         /\ Cardinality(Events(r, state)') =
              IF event.state = state THEN Cardinality(Events(r, state)) + 1
                                     ELSE Cardinality(Events(r, state))
  <1>1. PICK h, g : h = history[r][v] /\ g = history'[r][v]
    OBVIOUS
  <1>2. /\ h \in Seq(ConsentEvents) /\ g \in Stored(h, event)
        /\ \A w \in Versions : w # v => history'[r][w] = history[r][w]
    BY <1>1, ConsentWrites
  <1>3. Len(h) \in Nat /\ MaxConsents \in Nat /\ Len(h) < MaxConsents
    BY <1>1, <1>2, AuthorityAssumption DEF ConsentEffect
  <1>4. PICK k \in 0..Len(h) : IsInserted(h, event, g, k)
    BY <1>2, InsertionPoint
  <1>5. PICK S, T : S = Events(r, state) /\ T = Events(r, state)'
    OBVIOUS
  <1> DEFINE new == <<v, k + 1>>
             Moved(e) == IF e[1] = v /\ e[2] > k THEN <<e[1], e[2] + 1>> ELSE e
             move == [e \in S |-> Moved(e)]
  <1>6. /\ S \subseteq Versions \X (1..MaxConsents)
        /\ \A w \in Versions, n \in 1..MaxConsents : <<w, n>> \in S <=>
             n <= Len(history[r][w]) /\ history[r][w][n].state = state
    BY <1>5 DEF Events
  <1>7. /\ T \subseteq Versions \X (1..MaxConsents)
        /\ \A w \in Versions, n \in 1..MaxConsents : <<w, n>> \in T <=>
             n <= Len(history'[r][w]) /\ history'[r][w][n].state = state
    BY <1>5 DEF Events
  <1>8. \A w \in Versions, n \in 1..MaxConsents : w # v => (<<w, n>> \in T <=> <<w, n>> \in S)
    BY <1>2, <1>6, <1>7
  <1>9. \A n \in 1..MaxConsents : <<v, n>> \in S <=> n <= Len(h) /\ h[n].state = state
    BY <1>1, <1>6
  <1>10. \A n \in 1..MaxConsents : <<v, n>> \in T <=> n <= Len(g) /\ g[n].state = state
    BY <1>1, <1>7
  <1>11. /\ \A n \in 1..k : <<v, n>> \in T <=> <<v, n>> \in S
         /\ \A n \in (k + 1)..Len(h) : <<v, n + 1>> \in T <=> <<v, n>> \in S
         /\ k + 1 \in 1..MaxConsents
         /\ new \in T <=> event.state = state
         /\ \A n \in 1..MaxConsents : <<v, n>> \in S \cup T => n <= Len(h) + 1
         /\ \A n \in 1..MaxConsents : <<v, n>> \in S => n <= Len(h)
    <2>1. \A n \in 1..k : n \in 1..MaxConsents /\ n <= Len(h) /\ n <= Len(g) /\ g[n] = h[n]
      BY <1>3, <1>4 DEF IsInserted
    <2>2. \A n \in (k + 1)..Len(h) : /\ n \in 1..MaxConsents /\ n + 1 \in 1..MaxConsents
                                    /\ n + 1 <= Len(g) /\ g[n + 1] = h[n]
      BY <1>3, <1>4 DEF IsInserted
    <2>3. k + 1 \in 1..MaxConsents /\ k + 1 <= Len(g) /\ g[k + 1] = event
      BY <1>3, <1>4 DEF IsInserted
    <2>4. Len(g) = Len(h) + 1
      BY <1>4 DEF IsInserted
    <2>5. \A n \in (k + 1)..Len(h) : <<v, n + 1>> \in T <=> <<v, n>> \in S
      BY <1>3, <1>9, <1>10, <2>2
    <2> QED
      BY <1>3, <1>9, <1>10, <2>1, <2>3, <2>4, <2>5
  <1>12. \A e \in S : Moved(e) \in T \ {new}
    <2> TAKE e \in S
    <2>1. PICK w \in Versions, n \in 1..MaxConsents : e = <<w, n>>
      BY <1>6
    <2>2. CASE w # v
      BY <1>8, <2>1, <2>2
    <2>3. CASE w = v /\ n <= k
      BY <1>3, <1>11, <2>1, <2>3
    <2>4. CASE w = v /\ n > k
      <3>1. n \in (k + 1)..Len(h) /\ Moved(e) = <<v, n + 1>> /\ n + 1 # k + 1
        BY <1>3, <1>11, <2>1, <2>4
      <3> QED
        BY <1>11, <2>1, <2>4, <3>1
    <2> QED
      BY <1>3, <2>2, <2>3, <2>4
  <1>13. \A d, e \in S : Moved(d) = Moved(e) => d = e
    <2> SUFFICES ASSUME NEW d \in S, NEW e \in S, Moved(d) = Moved(e) PROVE d = e
      OBVIOUS
    <2>1. PICK w \in Versions, n \in 1..MaxConsents : d = <<w, n>>
      BY <1>6
    <2>2. PICK u \in Versions, m \in 1..MaxConsents : e = <<u, m>>
      BY <1>6
    <2>3. /\ Moved(d) = <<w, IF w = v /\ n > k THEN n + 1 ELSE n>>
          /\ Moved(e) = <<u, IF u = v /\ m > k THEN m + 1 ELSE m>>
      BY <2>1, <2>2
    <2>4. w = u /\ (IF w = v /\ n > k THEN n + 1 ELSE n) = (IF u = v /\ m > k THEN m + 1 ELSE m)
      BY <2>3
    <2>5. n = m
      BY <1>3, <2>4
    <2> QED
      BY <2>1, <2>2, <2>4, <2>5
  <1>14. \A e \in T \ {new} : \E d \in S : Moved(d) = e
    <2> TAKE e \in T \ {new}
    <2>1. PICK w \in Versions, n \in 1..MaxConsents : e = <<w, n>>
      BY <1>7
    <2>2. CASE w # v
      BY <1>8, <2>1, <2>2
    <2>3. CASE w = v /\ n <= k
      <3>1. e \in S /\ Moved(e) = e
        BY <1>3, <1>11, <2>1, <2>3
      <3> QED
        BY <3>1
    <2>4. CASE w = v /\ n > k
      <3>1. n # k + 1 /\ n <= Len(h) + 1
        BY <1>11, <2>1, <2>4
      <3>2. n - 1 \in (k + 1)..Len(h) /\ (n - 1) + 1 = n
        BY <1>3, <2>4, <3>1
      <3>3. <<v, n - 1>> \in S
        BY <1>11, <2>1, <2>4, <3>2
      <3>4. Moved(<<v, n - 1>>) = e
        BY <2>1, <2>4, <3>2, <1>3
      <3> QED
        BY <3>3, <3>4
    <2> QED
      BY <1>3, <2>2, <2>3, <2>4
  <1>15. ExistsBijection(S, T \ {new})
    <2> HIDE DEF Moved, new
    <2>1. move \in [S -> T \ {new}] /\ \A e \in S : move[e] = Moved(e)
      BY <1>12
    <2>2. (\A d, e \in S : move[d] = move[e] => d = e) /\ \A e \in T \ {new} : \E d \in S : move[d] = e
      BY <1>13, <1>14, <2>1
    <2> HIDE DEF move
    <2>3. move \in Bijection(S, T \ {new})
      BY ONLY <2>1, <2>2, Fun_IsBij
    <2> QED
      BY <2>3, Fun_ExistsBij
  <1>16. IsFiniteSet(T \ {new}) /\ Cardinality(T \ {new}) = Cardinality(S) /\ Cardinality(S) \in Nat
    BY ONLY <1>5, <1>15, FS_Bijection, FS_CardinalityType, IsFiniteSet(Events(r, state))
  <1>17. new \in T <=> event.state = state
    BY <1>11
  <1> HIDE DEF new
  <1>18. CASE new \in T
    <2>1. T = (T \ {new}) \cup {new}
      BY <1>18
    <2>2. /\ IsFiniteSet((T \ {new}) \cup {new})
          /\ Cardinality((T \ {new}) \cup {new}) = Cardinality(T \ {new}) + 1
      BY <1>16, FS_AddElement
    <2> QED
      BY <1>5, <1>16, <1>17, <1>18, <2>1, <2>2
  <1>19. CASE new \notin T
    <2>1. T \ {new} = T
      BY <1>19
    <2> QED
      BY <1>5, <1>16, <1>17, <1>19, <2>1
  <1> QED
    BY <1>18, <1>19

(* The audit of consents counts the events of the histories.                *)
ConsentsCounted(r) ==
  /\ IsFiniteSet(Events(r, "ACCEPTED")) /\ IsFiniteSet(Events(r, "REVOKED"))
  /\ audit[r]["consent_accepted"] = Cardinality(Events(r, "ACCEPTED"))
  /\ audit[r]["consent_revoked"] = Cardinality(Events(r, "REVOKED"))

(* Account, identity and closing are recorded once; a closing event that is *)
(* recorded has closed the account.                                        *)
AccountCounted(r) ==
  /\ audit[r]["account_created"] = (IF Exists(r) THEN 1 ELSE 0)
  /\ audit[r]["authentication_mapping_created"] = (IF Mapped(r) THEN 1 ELSE 0)
  /\ \/ audit[r]["account_withdrawn"] = 0
     \/ audit[r]["account_withdrawn"] = 1 /\ Exists(r) /\ accounts[r].status # "ACTIVE"
  /\ \/ audit[r]["account_disabled"] = 0
     \/ audit[r]["account_disabled"] = 1 /\ Exists(r) /\ accounts[r].status = "DISABLED"

AuditCounts == \A r \in Reviewers : ConsentsCounted(r) /\ AccountCounted(r)

LEMMA Counted ==
  ASSUME TypeOK, NEW r \in Reviewers, NEW events, Audited(r, events)
  PROVE  /\ \A q \in Reviewers : q # r => audit'[q] = audit[q]
         /\ \A e \in AuthAuditEvents :
              audit'[r][e] = IF e \in events THEN audit[r][e] + 1 ELSE audit[r][e]
  BY DEF Audited, TypeOK

(* A consent change adds one event and records it.                          *)
LEMMA ConsentsCountedStep ==
  ASSUME TypeOK, NEW q \in Reviewers, ConsentsCounted(q), [Next]_vars
  PROVE  ConsentsCounted(q)'
  <1>1. {"consent_accepted", "consent_revoked"} \subseteq AuthAuditEvents
    BY DEF AuthAuditEvents
  <1>2. ASSUME UNCHANGED history, audit'[q]["consent_accepted"] = audit[q]["consent_accepted"],
               audit'[q]["consent_revoked"] = audit[q]["consent_revoked"]
        PROVE  ConsentsCounted(q)'
    <2>1. Events(q, "ACCEPTED")' = Events(q, "ACCEPTED") /\ Events(q, "REVOKED")' = Events(q, "REVOKED")
      BY <1>2 DEF Events
    <2> QED
      BY <1>2, <2>1 DEF ConsentsCounted
  <1>3. ASSUME NEW r \in Reviewers, NEW events, Audited(r, events), UNCHANGED history,
               "consent_accepted" \notin events, "consent_revoked" \notin events
        PROVE  ConsentsCounted(q)'
    <2>1. /\ audit'[q]["consent_accepted"] = audit[q]["consent_accepted"]
          /\ audit'[q]["consent_revoked"] = audit[q]["consent_revoked"]
      BY <1>1, <1>3, Counted
    <2> QED
      BY <1>2, <1>3, <2>1
  <1>4. ASSUME NEW r \in Reviewers, NEW status \in AccountStatuses, NEW v \in Versions,
               RegisterReviewerAccount(r, status, v)
        PROVE  ConsentsCounted(q)'
    BY <1>3, <1>4 DEF RegisterReviewerAccount
  <1>5. ASSUME NEW r \in Reviewers, NEW p \in Principals, Provides(r, p), UNCHANGED history
        PROVE  ConsentsCounted(q)'
    BY <1>3, <1>5 DEF Provides, CreateReviewerAccountForPrincipal
  <1>6. ASSUME NEW r \in Reviewers, NEW p \in Principals, LinkReviewerAuthIdentity(r, p)
        PROVE  ConsentsCounted(q)'
    BY <1>3, <1>6 DEF LinkReviewerAuthIdentity
  <1>7. ASSUME NEW r \in Reviewers, StatusChange(r)
        PROVE  ConsentsCounted(q)'
    BY <1>3, <1>7 DEF StatusChange, WithdrawReviewerAccount, DisableReviewerAccount
  <1>8. ASSUME NEW r \in Reviewers, ChangesConsent(r)
        PROVE  ConsentsCounted(q)'
    <2>1. PICK v \in Versions, row \in AccountRows, event \in ConsentEvents :
            ConsentEffect(r, v, row, event)
      BY <1>8 DEF ChangesConsent
    <2>2. CASE q # r
      <3>1. \A w \in Versions : history'[q][w] = history[q][w]
        BY <2>1, <2>2, ConsentWrites
      <3>2. audit'[q] = audit[q]
        BY <2>1, <2>2, Counted DEF ConsentEffect
      <3>3. Events(q, "ACCEPTED")' = Events(q, "ACCEPTED") /\ Events(q, "REVOKED")' = Events(q, "REVOKED")
        BY <3>1 DEF Events
      <3> QED
        BY <3>2, <3>3 DEF ConsentsCounted
    <2>3. CASE q = r
      <3>1. /\ IsFiniteSet(Events(r, "ACCEPTED")) /\ IsFiniteSet(Events(r, "REVOKED"))
            /\ audit[r]["consent_accepted"] = Cardinality(Events(r, "ACCEPTED"))
            /\ audit[r]["consent_revoked"] = Cardinality(Events(r, "REVOKED"))
        BY <2>3 DEF ConsentsCounted
      <3>2. /\ IsFiniteSet(Events(r, "ACCEPTED")')
            /\ Cardinality(Events(r, "ACCEPTED")') =
                 IF event.state = "ACCEPTED" THEN Cardinality(Events(r, "ACCEPTED")) + 1
                                             ELSE Cardinality(Events(r, "ACCEPTED"))
        BY <2>1, <3>1, EventCounted
      <3>3. /\ IsFiniteSet(Events(r, "REVOKED")')
            /\ Cardinality(Events(r, "REVOKED")') =
                 IF event.state = "REVOKED" THEN Cardinality(Events(r, "REVOKED")) + 1
                                            ELSE Cardinality(Events(r, "REVOKED"))
        BY <2>1, <3>1, EventCounted
      <3>4. \/ event.state = "ACCEPTED" /\ Audited(r, {"consent_accepted"})
            \/ event.state = "REVOKED" /\ Audited(r, {"consent_revoked"})
        BY <2>1 DEF ConsentEffect
      <3>5. /\ audit'[r]["consent_accepted"] =
                 IF event.state = "ACCEPTED" THEN audit[r]["consent_accepted"] + 1
                                             ELSE audit[r]["consent_accepted"]
            /\ audit'[r]["consent_revoked"] =
                 IF event.state = "REVOKED" THEN audit[r]["consent_revoked"] + 1
                                            ELSE audit[r]["consent_revoked"]
        BY <1>1, <3>4, Counted
      <3> QED
        BY <2>3, <3>1, <3>2, <3>3, <3>5 DEF ConsentsCounted
    <2> QED
      BY <2>2, <2>3
  <1>9. CASE UNCHANGED <<accounts, identities, history, audit>>
    BY <1>2, <1>9
  <1> QED
    BY <1>4, <1>5, <1>6, <1>7, <1>8, <1>9, KindsOfSteps

(* An account is made, mapped, withdrawn and disabled at most once.         *)
LEMMA AccountCountedStep ==
  ASSUME TypeOK, IdentitiesMatchAccounts, NEW q \in Reviewers, AccountCounted(q), [Next]_vars
  PROVE  AccountCounted(q)'
  <1>1. {"account_created", "authentication_mapping_created", "account_withdrawn",
         "account_disabled"} \subseteq AuthAuditEvents
    BY DEF AuthAuditEvents
  <1>2. ~Exists(q) => ~Mapped(q)
    BY DEF Mapped, IdentitiesMatchAccounts
  <1>3. NoRow \notin Reviewers
    BY RowsAreRows
  <1>4. ASSUME NEW r \in Reviewers, q # r, NEW events, Audited(r, events),
               accounts'[q] = accounts[q], Mapped(q)' <=> Mapped(q)
        PROVE  AccountCounted(q)'
    BY <1>4, Counted DEF AccountCounted, Exists
  <1>5. ASSUME NEW status \in AccountStatuses, NEW r \in Reviewers, NEW v \in Versions,
               RegisterReviewerAccount(r, status, v)
        PROVE  AccountCounted(q)'
    <2>1. ~Exists(r) /\ identities' = identities /\ Audited(r, {"account_created"})
      BY <1>5 DEF RegisterReviewerAccount
    <2>2. (\A u \in Reviewers : u # r => accounts'[u] = accounts[u]) /\ Exists(r)'
      BY <1>5, RegisteredRow, AccountWritten
    <2>3. Mapped(q)' <=> Mapped(q)
      BY <2>1 DEF Mapped
    <2>4. CASE q = r
      BY <1>1, <1>2, <2>1, <2>2, <2>3, <2>4, Counted DEF AccountCounted
    <2> QED
      BY <1>4, <2>1, <2>2, <2>3, <2>4
  <1>6. ASSUME NEW r \in Reviewers, NEW p \in Principals, Provides(r, p)
        PROVE  AccountCounted(q)'
    <2>1. /\ ~Exists(r) /\ identities[p] = NoRow /\ identities' = [identities EXCEPT ![p] = r]
          /\ Audited(r, {"account_created", "authentication_mapping_created"})
      BY <1>6 DEF Provides, CreateReviewerAccountForPrincipal
    <2>2. (\A u \in Reviewers : u # r => accounts'[u] = accounts[u]) /\ Exists(r)'
      BY <1>6, NewAccountRow, AccountWritten DEF Provides
    <2>3. Mapped(q)' <=> Mapped(q) \/ q = r
      BY <1>3, <2>1 DEF Mapped, TypeOK
    <2>4. CASE q = r
      BY <1>1, <1>2, <2>1, <2>2, <2>3, <2>4, Counted DEF AccountCounted
    <2> QED
      BY <1>4, <2>1, <2>2, <2>3, <2>4
  <1>7. ASSUME NEW r \in Reviewers, NEW p \in Principals, LinkReviewerAuthIdentity(r, p)
        PROVE  AccountCounted(q)'
    <2>1. /\ Exists(r) /\ ~Mapped(r)
          /\ identities[p] = NoRow /\ identities' = [identities EXCEPT ![p] = r]
          /\ Audited(r, {"authentication_mapping_created"})
      BY <1>7 DEF LinkReviewerAuthIdentity
    <2>2. PICK row \in AccountRows :
            /\ accounts' = [accounts EXCEPT ![r] = row]
            /\ row.status = accounts[r].status
      BY <1>7, LinkedRow
    <2>3. /\ accounts'[r] = row
          /\ \A u \in Reviewers : u # r => accounts'[u] = accounts[u]
          /\ \A u \in Reviewers : Exists(u)' <=> Exists(u) \/ u = r
      BY <2>2, AccountWritten
    <2>4. Mapped(q)' <=> Mapped(q) \/ q = r
      BY <1>3, <2>1 DEF Mapped, TypeOK
    <2>5. CASE q = r
      BY <1>1, <2>1, <2>2, <2>3, <2>4, <2>5, Counted DEF AccountCounted
    <2> QED
      BY <1>4, <2>1, <2>3, <2>4, <2>5
  <1>8. ASSUME NEW r \in Reviewers, StatusChange(r)
        PROVE  AccountCounted(q)'
    <2>1. /\ Exists(r) /\ identities' = identities
          /\ \/ /\ accounts[r].status = "ACTIVE" /\ accounts'[r].status = "WITHDRAWN"
                /\ Audited(r, {"account_withdrawn"})
             \/ /\ accounts[r].status # "DISABLED" /\ accounts'[r].status = "DISABLED"
                /\ Audited(r, {"account_disabled"})
      <3>1. accounts[r] \in AccountRows
        BY <1>8, RowsAreRows DEF StatusChange, WithdrawReviewerAccount, DisableReviewerAccount
      <3>2. \A status : [accounts[r] EXCEPT !.status = status].status = status
        BY <3>1 DEF AccountRows
      <3>3. ASSUME NEW status, accounts' = [accounts EXCEPT ![r].status = status]
            PROVE  accounts'[r].status = status
        BY <3>2, <3>3 DEF TypeOK
      <3> QED
        BY <1>8, <3>3 DEF StatusChange, WithdrawReviewerAccount, DisableReviewerAccount
    <2>2. /\ \A u \in Reviewers : u # r => accounts'[u] = accounts[u]
          /\ Exists(r)'
      BY <1>8, StatusRow, AccountWritten
    <2>3. Mapped(q)' <=> Mapped(q)
      BY <2>1 DEF Mapped
    <2>4. CASE q = r
      <3>1. CASE accounts[r].status = "ACTIVE" /\ accounts'[r].status = "WITHDRAWN"
                   /\ Audited(r, {"account_withdrawn"})
        BY <1>1, <2>1, <2>2, <2>3, <2>4, <3>1, Counted DEF AccountCounted
      <3>2. CASE accounts[r].status # "DISABLED" /\ accounts'[r].status = "DISABLED"
                   /\ Audited(r, {"account_disabled"})
        BY <1>1, <2>1, <2>2, <2>3, <2>4, <3>2, Counted DEF AccountCounted
      <3> QED
        BY <2>1, <3>1, <3>2
    <2>5. CASE q # r
      BY <1>4, <2>1, <2>2, <2>3, <2>5
    <2> QED
      BY <2>4, <2>5
  <1>9. ASSUME NEW r \in Reviewers, ChangesConsent(r)
        PROVE  AccountCounted(q)'
    <2>1. PICK v \in Versions, row \in AccountRows, event \in ConsentEvents :
            ConsentEffect(r, v, row, event)
      BY <1>9 DEF ChangesConsent
    <2>2. /\ accounts'[r] = row /\ row.status = accounts[r].status
          /\ \A u \in Reviewers : u # r => accounts'[u] = accounts[u]
          /\ \A u \in Reviewers : Exists(u)' <=> Exists(u)
      <3>1. row.status = accounts[r].status
        BY <2>1 DEF ConsentEffect
      <3> QED
        BY <2>1, <3>1, ConsentWrites
    <2>3. PICK events \in {{"consent_accepted"}, {"consent_revoked"}} : Audited(r, events)
      BY <2>1 DEF ConsentEffect
    <2>4. Mapped(q)' <=> Mapped(q)
      BY <2>1 DEF Mapped, ConsentEffect
    <2>5. CASE q = r
      BY <1>1, <2>2, <2>3, <2>4, <2>5, Counted DEF AccountCounted
    <2> QED
      BY <1>4, <2>2, <2>3, <2>4, <2>5
  <1>10. CASE UNCHANGED <<accounts, identities, history, audit>>
    BY <1>10 DEF AccountCounted, Exists, Mapped
  <1> QED
    BY <1>5, <1>6, <1>7, <1>8, <1>9, <1>10, KindsOfSteps

(* The audit of an account counts what happened to it, also when events of  *)
(* one instant are read back in another order.                             *)
THEOREM AuditIsComplete == Spec => []AuditTellsTheStory
  <1>1. Init => AuditCounts
    <2> SUFFICES ASSUME Init, NEW r \in Reviewers PROVE ConsentsCounted(r) /\ AccountCounted(r)
      BY DEF AuditCounts
    <2>1. \A e \in AuthAuditEvents : audit[r][e] = 0
      BY DEF Init
    <2>2. \A v \in Versions : history[r][v] = <<>>
      BY DEF Init
    <2>3. Events(r, "ACCEPTED") = {} /\ Events(r, "REVOKED") = {}
      BY <2>2, AuthorityAssumption DEF Events
    <2>4. IsFiniteSet({}) /\ Cardinality({}) = 0
      BY FS_EmptySet
    <2>5. ConsentsCounted(r)
      BY <2>1, <2>3, <2>4 DEF ConsentsCounted, AuthAuditEvents
    <2>6. ~Exists(r) /\ ~Mapped(r)
      BY AuthorityRowAssumption DEF Init, Exists, Mapped
    <2> QED
      BY <2>1, <2>5, <2>6 DEF AccountCounted, AuthAuditEvents
  <1>2. IInv /\ AuditCounts /\ [Next]_vars => AuditCounts'
    BY ConsentsCountedStep, AccountCountedStep DEF IInv, AuditCounts
  <1>3. IInv /\ AuditCounts => AuditTellsTheStory
    BY DEF IInv, AuditCounts, ConsentsCounted, AccountCounted, AuditTellsTheStory
  <1> QED
    BY <1>1, <1>2, <1>3, SpecIInv, PTL DEF Spec

-----------------------------------------------------------------------------
(* The authority implements EligibilityFacts.                              *)

LEMMA SameAuthority ==
  ASSUME NEW q \in Reviewers, accounts'[q] = accounts[q],
         history'[q][CurrentVersion] = history[q][CurrentVersion]
  PROVE  (Eligible(q)' <=> Eligible(q)) /\ (IsClosed(q)' <=> IsClosed(q))
  BY DEF Eligible, IsClosed, Exists, Consented, CurrentConsent

(* A fresh account has neither a consent nor a history.                     *)
LEMMA FreshHasNone ==
  ASSUME IInv, NEW r \in Reviewers, ~Exists(r), history' = history,
         accounts'[r].consentState = "NOT_CONSENTED"
  PROVE  ~Eligible(r)' /\ ~IsClosed(r)
  <1>1. history'[r][CurrentVersion] = <<>>
    BY AuthorityAssumption DEF IInv, HistoriesBelongToAccounts
  <1> QED
    BY <1>1 DEF Eligible, IsClosed, Consented, CurrentConsent

(* What a step does to one reviewer, the others keeping what they have.     *)
OthersKeep(r) ==
  \A q \in Reviewers : q # r =>
    (Eligible(q)' <=> Eligible(q)) /\ (IsClosed(q)' <=> IsClosed(q))

Gains(r) == Eligible(r)' /\ ~IsClosed(r) /\ ~IsClosed(r)'
Loses(r) == ~Eligible(r)' /\ (IsClosed(r) => IsClosed(r)')

LEMMA GainsOrLoses ==
  ASSUME NEW r \in Reviewers, OthersKeep(r), Gains(r) \/ Loses(r)
  PROVE  Promised!Next
  <1>1. CASE Gains(r)
    <2>1. EligibleReviewers' = EligibleReviewers \cup {r} /\ ClosedAccounts' = ClosedAccounts
      BY <1>1 DEF Gains, OthersKeep, EligibleReviewers, ClosedAccounts
    <2>2. r \notin ClosedAccounts
      BY <1>1 DEF Gains, ClosedAccounts
    <2> QED
      BY <2>1, <2>2 DEF Promised!Next, Promised!Gain
  <1>2. CASE Loses(r)
    <2>1. EligibleReviewers' = EligibleReviewers \ {r}
      BY <1>2 DEF Loses, OthersKeep, EligibleReviewers
    <2>2. ClosedAccounts' \in {ClosedAccounts, ClosedAccounts \cup {r}}
      <3>1. CASE IsClosed(r)'
        BY <3>1 DEF OthersKeep, ClosedAccounts
      <3>2. CASE ~IsClosed(r)'
        BY <1>2, <3>2 DEF Loses, OthersKeep, ClosedAccounts
      <3> QED
        BY <3>1, <3>2
    <2> QED
      BY <2>1, <2>2 DEF Promised!Next, Promised!Lose
  <1> QED
    BY <1>1, <1>2

LEMMA PromiseStep ==
  ASSUME IInv, [Next]_vars
  PROVE  [Promised!Next]_(Promised!facts)
  <1> USE DEF IInv
  <1>1. CurrentVersion \in Versions
    BY AuthorityAssumption
  <1>2. ASSUME NEW r \in Reviewers, history' = history,
               \A q \in Reviewers : q # r => accounts'[q] = accounts[q]
        PROVE  OthersKeep(r)
    BY <1>2, SameAuthority DEF OthersKeep
  <1>3. ASSUME NEW r \in Reviewers, NEW status \in AccountStatuses, NEW v \in Versions,
               RegisterReviewerAccount(r, status, v)
        PROVE  Promised!Next
    <2>1. /\ ~Exists(r) /\ history' = history
          /\ accounts'[r].consentState = "NOT_CONSENTED"
          /\ \A q \in Reviewers : q # r => accounts'[q] = accounts[q]
      BY <1>3, RegisteredRow, AccountWritten DEF RegisterReviewerAccount
    <2> QED
      BY <1>2, <2>1, FreshHasNone, GainsOrLoses DEF Loses
  <1>4. ASSUME NEW r \in Reviewers, NEW p \in Principals, Provides(r, p), UNCHANGED history
        PROVE  Promised!Next
    <2>1. CreateReviewerAccountForPrincipal(r, p) /\ ~Exists(r)
      BY <1>4 DEF Provides, CreateReviewerAccountForPrincipal
    <2>2. /\ accounts'[r].consentState = "NOT_CONSENTED"
          /\ \A q \in Reviewers : q # r => accounts'[q] = accounts[q]
      BY <2>1, NewAccountRow, AccountWritten
    <2> QED
      BY <1>2, <1>4, <2>1, <2>2, FreshHasNone, GainsOrLoses DEF Loses
  <1>5. ASSUME NEW r \in Reviewers, NEW p \in Principals, LinkReviewerAuthIdentity(r, p)
        PROVE  UNCHANGED Promised!facts
    <2>1. history' = history /\ Exists(r)
      BY <1>5 DEF LinkReviewerAuthIdentity
    <2>2. PICK row \in AccountRows :
            /\ accounts' = [accounts EXCEPT ![r] = row]
            /\ row.status = accounts[r].status
            /\ row.consentVersion = accounts[r].consentVersion
            /\ row.consentState = accounts[r].consentState
      BY <1>5, LinkedRow
    <2>3. /\ accounts'[r] = row
          /\ \A u \in Reviewers : u # r => accounts'[u] = accounts[u]
          /\ \A u \in Reviewers : Exists(u)' <=> Exists(u) \/ u = r
      BY <2>2, AccountWritten
    <2>4. (Eligible(r)' <=> Eligible(r)) /\ (IsClosed(r)' <=> IsClosed(r))
      BY <2>1, <2>2, <2>3 DEF Eligible, IsClosed, Consented, CurrentConsent
    <2> QED
      BY <1>2, <2>1, <2>3, <2>4
      DEF OthersKeep, Promised!facts, EligibleReviewers, ClosedAccounts
  <1>6. ASSUME NEW r \in Reviewers, StatusChange(r)
        PROVE  Promised!Next
    <2>1. history' = history
      BY <1>6 DEF StatusChange, WithdrawReviewerAccount, DisableReviewerAccount
    <2>2. PICK row \in AccountRows :
            accounts' = [accounts EXCEPT ![r] = row] /\ row.status # "ACTIVE"
      BY <1>6, StatusRow
    <2>3. /\ accounts'[r] = row /\ Exists(r)'
          /\ \A u \in Reviewers : u # r => accounts'[u] = accounts[u]
      BY <2>2, AccountWritten
    <2>4. Loses(r)
      BY <2>2, <2>3 DEF Loses, Eligible, IsClosed
    <2> QED
      BY <1>2, <2>1, <2>3, <2>4, GainsOrLoses
  <1>7. ASSUME NEW r \in Reviewers, ChangesConsent(r)
        PROVE  Promised!Next
    <2>1. PICK v \in Versions, row \in AccountRows, event \in ConsentEvents :
            ConsentEffect(r, v, row, event)
      BY <1>7 DEF ChangesConsent
    <2>2. /\ accounts'[r].status = accounts[r].status
          /\ \A q \in Reviewers : q # r => accounts'[q] = accounts[q]
          /\ \A q \in Reviewers : Exists(q)' <=> Exists(q)
          /\ \A q \in Reviewers : q # r => history'[q][CurrentVersion] = history[q][CurrentVersion]
      <3>1. row.status = accounts[r].status
        BY <2>1 DEF ConsentEffect
      <3> QED
        BY <1>1, <2>1, <3>1, ConsentWrites
    <2>3. IsClosed(r)' <=> IsClosed(r)
      BY <2>2 DEF IsClosed
    <2>4. OthersKeep(r)
      BY <2>2, SameAuthority DEF OthersKeep
    <2>5. CASE Eligible(r)'
      BY <2>3, <2>4, <2>5, GainsOrLoses DEF Gains, Eligible, IsClosed
    <2>6. CASE ~Eligible(r)'
      BY <2>3, <2>4, <2>6, GainsOrLoses DEF Loses
    <2> QED
      BY <2>5, <2>6
  <1>8. CASE UNCHANGED <<accounts, identities, history, audit>>
    BY <1>8, SameAuthority DEF Promised!facts, EligibleReviewers, ClosedAccounts
  <1> QED
    BY <1>3, <1>4, <1>5, <1>6, <1>7, <1>8, KindsOfSteps

(* Whatever the clocks do, a transaction changes the authority of one      *)
(* reviewer at most, and a closed account never has authority again.        *)
THEOREM PromiseIsKept == Spec => KeepsItsPromise
  <1>1. Init => Promised!Init
    <2> SUFFICES ASSUME Init PROVE \A r \in Reviewers : ~Exists(r)
      BY DEF Promised!Init, EligibleReviewers, ClosedAccounts, Eligible, IsClosed
    <2> QED
      BY DEF Init, Exists
  <1> QED
    BY <1>1, PromiseStep, SpecIInv, PTL DEF Spec, KeepsItsPromise, Promised!Spec

(* Qualification and ReviewBatch assume less of their surroundings: that no *)
(* account is closed for good.                                             *)
Assumed == INSTANCE EligibilityFacts WITH eligible <- EligibleReviewers, closed <- {}

THEOREM SurroundingsAreReal == Spec => Assumed!Spec
  <1>1. Promised!Init => Assumed!Init
    BY DEF Promised!Init, Assumed!Init
  <1>2. [Promised!Next]_(Promised!facts) => [Assumed!Next]_(Assumed!facts)
    BY DEF Promised!Next, Promised!Gain, Promised!Lose, Promised!facts,
           Assumed!Next, Assumed!Gain, Assumed!Lose, Assumed!facts
  <1> QED
    BY <1>1, <1>2, PromiseIsKept, PTL DEF KeepsItsPromise, Promised!Spec, Assumed!Spec

=============================================================================
