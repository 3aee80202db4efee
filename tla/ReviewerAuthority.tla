------------------------- MODULE ReviewerAuthority -------------------------
(***************************************************************************)
(* Who may act as a reviewer: accounts, the identities that map a verified *)
(* principal to an account, invitations, and the consent history that gives*)
(* an account its authority.  Every action is one transaction of the       *)
(* service; transactions are serial (AuthorityTransactions says why).      *)
(*                                                                         *)
(* Consent events are loaded in the order of their timestamps, events of   *)
(* one instant in the order of their random ids.  A stored history is      *)
(* therefore the sequence the next transaction will load.                  *)
(*                                                                         *)
(* A transaction stamps with the wall clock of the process that runs it.   *)
(* Clocks of two processes differ and a clock may be set back, so a stamp   *)
(* is any instant, whatever was stamped before.  The order of the commits  *)
(* is not kept by the database; nth, an auxiliary field, remembers it.     *)
(*                                                                         *)
(* Only consent events and invitations carry an instant here.  The link of *)
(* an invitation to an application is left out: it is provenance, nothing  *)
(* reads it again.                                                         *)
(***************************************************************************)
EXTENDS Integers, Sequences, FiniteSets

CONSTANTS Reviewers,       \* opaque reviewer ids, one per account
          Principals,      \* authenticated provider-and-subject pairs
          Invitations,     \* invitation ids, each with its own credential
          Versions,        \* versions of the consent policy
          CurrentVersion,  \* the one the service is configured with
          Instants,        \* what the clock of a process may read
          InvitationTtl,   \* how long an invitation can be redeemed
          MaxConsents,     \* bound on the events of one consent history
          MaxEvents,       \* bound on the events of all consent histories
          NoRow,           \* marks a row that is not stored
          External         \* a subject reference that is no identity's

ASSUME AuthorityAssumption ==
  /\ IsFiniteSet(Reviewers) /\ IsFiniteSet(Invitations)
  /\ CurrentVersion \in Versions
  /\ Instants \subseteq Nat
  /\ InvitationTtl \in Nat \ {0}
  /\ MaxConsents \in Nat /\ MaxEvents \in Nat
  /\ External \notin Principals

AccountStatuses == {"ACTIVE", "WITHDRAWN", "DISABLED"}
ConsentStates == {"NOT_CONSENTED", "CONSENTED", "REVOKED"}
InvitationStates == {"ISSUED", "CONSUMED", "REVOKED", "EXPIRED"}

AccountRows ==
  [status : AccountStatuses, subject : Principals \cup {External},
   consentVersion : Versions, consentState : ConsentStates]
InvitationRows == [state : InvitationStates, expires : Nat]
ConsentEvents == [state : {"ACCEPTED", "REVOKED"}, at : Instants, nth : Nat \ {0}]
AuthAuditEvents ==
  {"account_created", "authentication_mapping_created", "consent_accepted",
   "consent_revoked", "account_withdrawn", "account_disabled"}
InvitationAuditEvents == {"issued", "consumed", "revoked", "expired"}

ASSUME AuthorityRowAssumption ==
  NoRow \notin AccountRows \cup InvitationRows \cup Reviewers

VARIABLES accounts,         \* account rows
          identities,       \* the account a principal is mapped to
          invitations,      \* invitation rows
          history,          \* consent events per account and policy version
          audit,            \* how often each event was recorded per account
          invitationAudit   \* recorded events per invitation, in order

vars == <<accounts, identities, invitations, history, audit, invitationAudit>>

Init ==
  /\ accounts = [r \in Reviewers |-> NoRow]
  /\ identities = [p \in Principals |-> NoRow]
  /\ invitations = [i \in Invitations |-> NoRow]
  /\ history = [r \in Reviewers |-> [v \in Versions |-> <<>>]]
  /\ audit = [r \in Reviewers |-> [e \in AuthAuditEvents |-> 0]]
  /\ invitationAudit = [i \in Invitations |-> <<>>]

Exists(r) == accounts[r] # NoRow
Mapped(r) == \E p \in Principals : identities[p] = r

Audited(r, events) ==
  audit' = [audit EXCEPT ![r] =
              [e \in AuthAuditEvents |-> IF e \in events THEN @[e] + 1 ELSE @[e]]]

-----------------------------------------------------------------------------
(* Accounts and identities.                                                *)

(* Trusted setup, without an identity and always unconsented.  Its subject  *)
(* reference is the operator's choice, assumed to be no identity's.        *)
RegisterReviewerAccount(r, status, v) ==
  /\ ~Exists(r)
  /\ accounts' = [accounts EXCEPT ![r] =
       [status |-> status, subject |-> External, consentVersion |-> v,
        consentState |-> "NOT_CONSENTED"]]
  /\ Audited(r, {"account_created"})
  /\ UNCHANGED <<identities, invitations, history, invitationAudit>>

(* A fresh account and the mapping to it.                                  *)
CreateReviewerAccountForPrincipal(r, p) ==
  /\ ~Exists(r)
  /\ accounts' = [accounts EXCEPT ![r] =
       [status |-> "ACTIVE", subject |-> p, consentVersion |-> CurrentVersion,
        consentState |-> "NOT_CONSENTED"]]
  /\ identities' = [identities EXCEPT ![p] = r]
  /\ Audited(r, {"account_created", "authentication_mapping_created"})

(* A principal that is mapped already gets its account back.               *)
ProvisionReviewerAccount(r, p) ==
  /\ identities[p] = NoRow
  /\ CreateReviewerAccountForPrincipal(r, p)
  /\ UNCHANGED <<invitations, history, invitationAudit>>

(* Faulty variant: an account that has an identity gets a second one.       *)
LinkRebinding(r, p) ==
  /\ Exists(r)
  /\ identities[p] = NoRow
  /\ accounts' = [accounts EXCEPT ![r].subject = p]
  /\ identities' = [identities EXCEPT ![p] = r]
  /\ Audited(r, {"authentication_mapping_created"})
  /\ UNCHANGED <<invitations, history, invitationAudit>>

LinkReviewerAuthIdentity(r, p) ==
  /\ Exists(r)
  /\ identities[p] = NoRow
  /\ ~Mapped(r)
  /\ accounts' = [accounts EXCEPT ![r].subject = p]
  /\ identities' = [identities EXCEPT ![p] = r]
  /\ Audited(r, {"authentication_mapping_created"})
  /\ UNCHANGED <<invitations, history, invitationAudit>>

(* Faulty variant: withdrawing again is recorded again.                     *)
WithdrawalRepeated(r) ==
  /\ Exists(r)
  /\ accounts[r].status # "DISABLED"
  /\ accounts' = [accounts EXCEPT ![r].status = "WITHDRAWN"]
  /\ Audited(r, {"account_withdrawn"})
  /\ UNCHANGED <<identities, invitations, history, invitationAudit>>

WithdrawReviewerAccount(r) ==
  /\ Exists(r)
  /\ accounts[r].status = "ACTIVE"
  /\ accounts' = [accounts EXCEPT ![r].status = "WITHDRAWN"]
  /\ Audited(r, {"account_withdrawn"})
  /\ UNCHANGED <<identities, invitations, history, invitationAudit>>

DisableReviewerAccount(r) ==
  /\ Exists(r)
  /\ accounts[r].status # "DISABLED"
  /\ accounts' = [accounts EXCEPT ![r].status = "DISABLED"]
  /\ Audited(r, {"account_disabled"})
  /\ UNCHANGED <<identities, invitations, history, invitationAudit>>

-----------------------------------------------------------------------------
(* Invitations.                                                            *)

InvitationEnds(i, state, event) ==
  /\ invitations' = [invitations EXCEPT ![i].state = state]
  /\ invitationAudit' = [invitationAudit EXCEPT ![i] = Append(@, event)]

(* The clock is read before the transaction.                               *)
IssueReviewerInvitation(i, t) ==
  /\ invitations[i] = NoRow
  /\ invitations' = [invitations EXCEPT ![i] =
       [state |-> "ISSUED", expires |-> t + InvitationTtl]]
  /\ invitationAudit' = [invitationAudit EXCEPT ![i] = Append(@, "issued")]
  /\ UNCHANGED <<accounts, identities, history, audit>>

Open(i) == invitations[i] # NoRow /\ invitations[i].state = "ISSUED"

(* Whoever finds the invitation past its time marks it, and that is kept    *)
(* although a redeemer is then refused.                                    *)
ExpireReviewerInvitation(i, t) ==
  /\ Open(i)
  /\ t >= invitations[i].expires
  /\ InvitationEnds(i, "EXPIRED", "expired")
  /\ UNCHANGED <<accounts, identities, history, audit>>

RevokeReviewerInvitation(i, t) ==
  /\ Open(i)
  /\ t < invitations[i].expires
  /\ InvitationEnds(i, "REVOKED", "revoked")
  /\ UNCHANGED <<accounts, identities, history, audit>>

(* Faulty variant: a mapped principal is handed its account, and the        *)
(* invitation is spent on it.                                              *)
RedemptionByMappedPrincipal(i, r, p, t) ==
  /\ Open(i)
  /\ t < invitations[i].expires
  /\ IF identities[p] = NoRow
       THEN CreateReviewerAccountForPrincipal(r, p)
       ELSE UNCHANGED <<accounts, identities, audit>>
  /\ InvitationEnds(i, "CONSUMED", "consumed")
  /\ UNCHANGED history

(* A mapped principal is refused and the invitation stays open.            *)
RedeemReviewerInvitation(i, r, p, t) ==
  /\ Open(i)
  /\ t < invitations[i].expires
  /\ identities[p] = NoRow
  /\ CreateReviewerAccountForPrincipal(r, p)
  /\ InvitationEnds(i, "CONSUMED", "consumed")
  /\ UNCHANGED history

-----------------------------------------------------------------------------
(* Consent.                                                                *)

LatestEvent(h) == h[Len(h)]

(* Without an event for the version asked about, the projection on the      *)
(* account row answers, for the version it was written for.                *)
CurrentConsent(r, v) ==
  IF history[r][v] = <<>>
    THEN [version |-> accounts[r].consentVersion, state |-> accounts[r].consentState]
    ELSE [version |-> v,
          state   |-> IF LatestEvent(history[r][v]).state = "ACCEPTED"
                        THEN "CONSENTED" ELSE "REVOKED"]

Consented(r, v) == CurrentConsent(r, v) = [version |-> v, state |-> "CONSENTED"]

(* Faulty variant: the status of the account is not looked at.              *)
EligibleByConsent(r) == Exists(r) /\ Consented(r, CurrentVersion)

(* What every reviewer action of the other components asks for.            *)
Eligible(r) ==
  /\ Exists(r)
  /\ accounts[r].status = "ACTIVE"
  /\ Consented(r, CurrentVersion)

(* The event a consent change records, the next one of its history.        *)
NextEvent(r, v, state, t) == [state |-> state, at |-> t, nth |-> Len(history[r][v]) + 1]

(* The histories that may be loaded after an event is stored.              *)
Stored(h, event) ==
  {SubSeq(h, 1, k) \o <<event>> \o SubSeq(h, k + 1, Len(h)) :
     k \in {n \in 0..Len(h) : /\ \A m \in 1..n : h[m].at <= event.at
                              /\ \A m \in n + 1..Len(h) : h[m].at >= event.at}}

ProjectConsent(r, v, state) ==
  accounts' = [accounts EXCEPT ![r].consentVersion = v, ![r].consentState = state]

EventsStored ==
  {e \in Reviewers \X Versions \X (1..MaxConsents) : e[3] <= Len(history[e[1]][e[2]])}

ConsentChanges(r, v, t, event, state, auditEvent) ==
  /\ Len(history[r][v]) < MaxConsents
  /\ Cardinality(EventsStored) < MaxEvents
  /\ \E h \in Stored(history[r][v], NextEvent(r, v, event, t)) :
       history' = [history EXCEPT ![r][v] = h]
  /\ ProjectConsent(r, v, state)
  /\ Audited(r, {auditEvent})
  /\ UNCHANGED <<identities, invitations, invitationAudit>>

(* Faulty variant: the status of the account is not looked at.              *)
ConsentOfClosedAccount(r, v, t) ==
  /\ Exists(r)
  /\ ~Consented(r, v)
  /\ ConsentChanges(r, v, t, "ACCEPTED", "CONSENTED", "consent_accepted")

(* Consent to a version that is consented already returns the old event.   *)
RecordConsent(r, v, t) ==
  /\ Exists(r)
  /\ accounts[r].status = "ACTIVE"
  /\ ~Consented(r, v)
  /\ ConsentChanges(r, v, t, "ACCEPTED", "CONSENTED", "consent_accepted")

(* Faulty variant: the projection on the account row is forgotten.          *)
RevocationWithoutProjection(r, v, t) ==
  /\ Exists(r)
  /\ accounts[r].status # "DISABLED"
  /\ Consented(r, v)
  /\ history[r][v] # <<>>
  /\ ConsentChanges(r, v, t, "REVOKED", accounts[r].consentState, "consent_revoked")

(* A withdrawn reviewer may still revoke; the repository wants an accepted  *)
(* event before a revocation.                                              *)
RevokeConsent(r, v, t) ==
  /\ Exists(r)
  /\ accounts[r].status # "DISABLED"
  /\ Consented(r, v)
  /\ history[r][v] # <<>>
  /\ ConsentChanges(r, v, t, "REVOKED", "REVOKED", "consent_revoked")

-----------------------------------------------------------------------------
AccountStep(r) ==
  \/ \E status \in AccountStatuses, v \in Versions : RegisterReviewerAccount(r, status, v)
  \/ \E p \in Principals : ProvisionReviewerAccount(r, p) \/ LinkReviewerAuthIdentity(r, p)
  \/ WithdrawReviewerAccount(r)
  \/ DisableReviewerAccount(r)

InvitationStep(i, t) ==
  \/ IssueReviewerInvitation(i, t)
  \/ ExpireReviewerInvitation(i, t)
  \/ RevokeReviewerInvitation(i, t)
  \/ \E r \in Reviewers, p \in Principals : RedeemReviewerInvitation(i, r, p, t)

ConsentStep(r, t) ==
  \E v \in Versions : RecordConsent(r, v, t) \/ RevokeConsent(r, v, t)

Next ==
  \/ \E r \in Reviewers : AccountStep(r)
  \/ \E i \in Invitations, t \in Instants : InvitationStep(i, t)
  \/ \E r \in Reviewers, t \in Instants : ConsentStep(r, t)

Spec == Init /\ [][Next]_vars

-----------------------------------------------------------------------------
TypeOK ==
  /\ accounts \in [Reviewers -> AccountRows \cup {NoRow}]
  /\ identities \in [Principals -> Reviewers \cup {NoRow}]
  /\ invitations \in [Invitations -> InvitationRows \cup {NoRow}]
  /\ history \in [Reviewers -> [Versions -> Seq(ConsentEvents)]]
  /\ audit \in [Reviewers -> [AuthAuditEvents -> Nat]]
  /\ invitationAudit \in [Invitations -> Seq(InvitationAuditEvents)]

(* An account and its identity name each other: a login always resolves,    *)
(* to one account, and an account never answers to two principals, however *)
(* provisioning, linking and redemption are interleaved.                   *)
IdentitiesMatchAccounts ==
  \A r \in Reviewers, p \in Principals :
    identities[p] = r <=> Exists(r) /\ accounts[r].subject = p

(* Authority rests on an accepted event for exactly the current version:    *)
(* neither registration, redemption, consent to another version nor the    *)
(* projection on the account row makes a reviewer eligible.                *)
AuthorityNeedsAcceptance ==
  \A r \in Reviewers : Eligible(r) =>
    /\ history[r][CurrentVersion] # <<>>
    /\ LatestEvent(history[r][CurrentVersion]).state = "ACCEPTED"

(* The stamps of a history tell the order its events were recorded in; the  *)
(* stamp of the event recorded last is later than all others.              *)
StampsInOrder(h) ==
  \A m, n \in 1..Len(h) : h[m].nth < h[n].nth => h[m].at < h[n].at
LastStampIsLatest(h) ==
  \A m, n \in 1..Len(h) : h[m].nth < h[n].nth /\ h[n].nth = Len(h) => h[m].at < h[n].at

(* Acceptances and revocations of one version alternate, the first being an *)
(* acceptance; so the repository never refuses what the service decided.   *)
HistoriesAlternate ==
  \A r \in Reviewers, v \in Versions :
    StampsInOrder(history[r][v]) =>
      \A n \in 1..Len(history[r][v]) :
        history[r][v][n].state = IF n % 2 = 1 THEN "ACCEPTED" ELSE "REVOKED"

(* The account row and the history tell the same: the consent projected on  *)
(* the row is the current consent for the version it is projected from.    *)
ProjectionMatchesHistory ==
  \A r \in Reviewers : Exists(r) /\ LastStampIsLatest(history[r][accounts[r].consentVersion]) =>
    CurrentConsent(r, accounts[r].consentVersion).state = accounts[r].consentState

(* An acceptance recorded before the last event, a revocation, is stamped no *)
(* earlier than it.                                                        *)
Overtaken(h) ==
  \E m, n \in 1..Len(h) :
    /\ h[m].state = "ACCEPTED" /\ h[n].state = "REVOKED"
    /\ h[n].nth = Len(h) /\ h[m].nth < h[n].nth
    /\ h[m].at >= h[n].at

RevokedOnRow(r) ==
  /\ Exists(r)
  /\ accounts[r].consentVersion = CurrentVersion
  /\ accounts[r].consentState = "REVOKED"

(* A reviewer whose last consent request was a revocation of the current    *)
(* version keeps authority in one way only: an earlier acceptance carries a *)
(* stamp that is not earlier.                                              *)
RevocationsStand ==
  \A r \in Reviewers :
    RevokedOnRow(r) /\ Eligible(r) => Overtaken(history[r][CurrentVersion])

(* Only stamps that are equal or out of order make a history tell another   *)
(* story when it is read back.  A history whose stamps are in order         *)
(* alternates, the account row agrees with every history whose last stamp   *)
(* is the latest, a revocation is only ever overtaken; and authority has an *)
(* acceptance behind it whatever the clocks do.                             *)
ConsentIsConsistent ==
  /\ HistoriesAlternate
  /\ ProjectionMatchesHistory
  /\ RevocationsStand
  /\ AuthorityNeedsAcceptance

Events(r, state) ==
  {e \in Versions \X (1..MaxConsents) :
     /\ e[2] <= Len(history[r][e[1]])
     /\ history[r][e[1]][e[2]].state = state}

EndingOf(state) ==
  CASE state = "CONSUMED" -> "consumed"
    [] state = "REVOKED"  -> "revoked"
    [] state = "EXPIRED"  -> "expired"

InvitationStory(i) ==
  IF invitations[i] = NoRow THEN <<>>
  ELSE IF invitations[i].state = "ISSUED" THEN <<"issued">>
  ELSE Append(<<"issued">>, EndingOf(invitations[i].state))

(* An invitation ends once: it is spent, revoked or expired, never twice    *)
(* and never one after the other, and its audit says which.                *)
InvitationsEndOnce == \A i \in Invitations : invitationAudit[i] = InvitationStory(i)

(* The audit of an account counts what happened to it, no event is missing  *)
(* and a repeated request adds none; and no invitation ends twice.          *)
AuditTellsTheStory ==
  /\ \A r \in Reviewers :
       /\ audit[r]["account_created"] = (IF Exists(r) THEN 1 ELSE 0)
       /\ audit[r]["authentication_mapping_created"] = (IF Mapped(r) THEN 1 ELSE 0)
       /\ audit[r]["consent_accepted"] = Cardinality(Events(r, "ACCEPTED"))
       /\ audit[r]["consent_revoked"] = Cardinality(Events(r, "REVOKED"))
       /\ audit[r]["account_withdrawn"] <= 1
       /\ audit[r]["account_disabled"] <= 1
  /\ InvitationsEndOnce

Consumed == {i \in Invitations : invitations[i] # NoRow /\ invitations[i].state = "CONSUMED"}
MappedReviewers == {r \in Reviewers : Mapped(r)}

(* Every spent invitation made an account of its own: a replay or a         *)
(* redemption by a principal with an account spends nothing.               *)
ConsumedInvitationsMadeAccounts == Cardinality(Consumed) <= Cardinality(MappedReviewers)

EligibleReviewers == {r \in Reviewers : Eligible(r)}
IsClosed(r) == Exists(r) /\ accounts[r].status # "ACTIVE"
ClosedAccounts == {r \in Reviewers : IsClosed(r)}

(* What the other components rely on: a transaction changes the authority   *)
(* of one reviewer at most, and one whose account was withdrawn or disabled *)
(* never has authority again.                                              *)
Promised == INSTANCE EligibilityFacts WITH eligible <- EligibleReviewers, closed <- ClosedAccounts
KeepsItsPromise == Promised!Spec

AuthorityKeeps(r) ==
  Exists(r) =>
    /\ Exists(r)'
    /\ accounts[r].status # "ACTIVE" =>
         /\ accounts'[r].status # "ACTIVE"
         /\ audit'[r]["consent_accepted"] = audit[r]["consent_accepted"]
    /\ accounts[r].status = "DISABLED" =>
         accounts'[r].status = "DISABLED" /\ history'[r] = history[r]
    /\ accounts[r].subject # External => accounts'[r].subject = accounts[r].subject

(* A closed account stays closed: it never accepts again, a disabled one    *)
(* records nothing any more, and no step rebinds a mapped account.         *)
ClosedAccountsStayClosed == [][\A r \in Reviewers : AuthorityKeeps(r)]_vars

(* A reviewer whose last consent request for the current version was a      *)
(* revocation has no authority ("revocation remains authoritative",        *)
(* docs/community-review-reviewer-portal-architecture.md:821).             *)
RevocationIsAuthoritative == \A r \in Reviewers : RevokedOnRow(r) => ~Eligible(r)
=============================================================================
