# TutorBench: specifications and proofs of its protocols

TutorBench evaluates AI tutors. Most of the repository reads frozen inputs and
writes reports; this project models the parts in which something can go wrong
over time:

* the *community review service* (`src/services/community-review-service`) with
  the pure *review protocol* it applies (`src/src/community-review`): shared
  rows, concurrent requests, durable promises;
* an *upstream call* (`src/src/providers`, `adapters`, `transport`): retries, a
  deadline, a response stream with three parties that may stop it;
* *collection and evaluation* (`src/src/collection`, `runner`): long commands
  that fail in part, are killed, and are resumed from the files they left;
* the *expert review* of the evaluator-stress fixtures
  (`src/src/case-system-vnext/expert-review*.ts`): five commands with weeks and
  people's hands between them.

## 1. Inventory

| Component | Source | State it keeps | Operations | Interacts with |
| --- | --- | --- | --- | --- |
| Review protocol | `src/src/community-review/{packet,freeze,fingerprint}.ts`, `src/src/contracts/community-review*.ts` | none (pure) | coverage, close record, freeze, agreement evidence, public artifact | called by the review batches |
| Review batches | `service.ts` 2600-3145, `in-memory-repository.ts` 1520-1900 | batch rows, assignments, submissions, close records with their accepted snapshot, frozen pools, agreement evidence, disclosures | create, open, assign, withdraw, submit, close, freeze, agreement, disclose, serve | reads accounts, consent, receipts and pools; one transaction per operation |
| Reviewer authority | `service.ts` 1613-2048 | accounts, identity mappings, invitations, consent events | register, provision, invite, revoke, redeem, consent, withdraw, disable | reads applications; gates batches and qualification |
| Qualification | `service.ts` 2050-2598, `qualification.ts` | pools, attempts, receipts | register, seal, activate, retire, attempt, submit, issue | gates assignments |
| Application intake | `application-intake.ts` | applications, contacts, idempotency keys, audit, rate-limit windows | submit, decide, withdraw, purge | an INVITED application may be named by an invitation |
| Authority transactions | `postgres-repository.ts`, `postgres-codec.ts`, `in-memory-repository.ts` 2015-2038 | locks and snapshots of the running transactions | begin, lock, load, call back, persist, commit, roll back | runs every operation above |
| Service shell | `application.ts`, `http.ts`, `runtime.ts`, `oidc.ts`, `config.ts`, `migrations.ts`, `material.ts`, portal | HTTP sessions, configuration | routing, authentication, start and stop | calls the components above |
| Adapters, providers, transport | `src/src/transport/response-body.ts`, `providers/chat-completions`, `adapters/http-tutor*.ts`, `review-translation` | per call: attempts, timer, abort signal, the relayed body | call, time out, retry, read, cancel | external hosts; called by collection and evaluation |
| Collection and corpus | `src/src/collection/baseline.ts`, `src/src/cli/tutorbench-collect-model.ts`, `corpus` | the corpus file; the responses collected so far | collect, resume | tutor adapters; read by the runner |
| Runner and scoring | `src/src/runner`, `scoring`, `evaluators`, `src/src/cli/tutor-case-common.ts` | result files; the case-runs judged so far | evaluate a corpus, resume, aggregate | the corpus file, judges |
| Case system | `src/src/case-system-vnext`, five `case-system-vnext-expert-review*` commands | the fixture file, manifests, packets, submissions, evidence, resolutions, candidates (all files) | export, import, adjudication export and import, reference candidate | reviewers and an adjudicator, who fill files in |
| Calibration, pairwise, experiments, judge analyses | `src/src/calibration`, `pairwise`, `experiments`, `judge` | none (files in, files out) | build packets, compare, report | - |
| Publication, release, reporting, review translation, site, website, CLI | `src/src/publication`, `release`, `reporting`, `review-translation`, `site`, `cli`, `src/website` | none (files) | validate, render, write | - |

The components above the line of the service shell share one database and one
process; a request is one transaction, so they interact only through rows: an
operator decides an application (intake), may issue an invitation for it
(reviewer authority), the redeemed account consents and qualifies
(qualification), receives blind assignments and submits (review batches), and
the operator closes, freezes and discloses. Nothing calls back. Collection and
evaluation interact through the corpus file, and use upstream calls one at a
time. The expert review interacts with people through files.

### What is hard, and what would be correct

| Component | Hard behaviour | What makes it correct |
| --- | --- | --- |
| Review batches | four copies of the evidence (live rows, close record with its snapshot, frozen pool, disclosed artifacts) written by different operations at different times; reviewers racing the operator's close; authority lost between assignment and submission; retries | evidence belongs to assigned, qualified reviewers; the copies never drift; a covered batch can always be closed and frozen; a stored record is never rewritten |
| Application intake | retries after a lost answer, decisions after withdrawal, purge racing both | one application per key; contact data only while ACTIVE; decisions and tombstones final; audit complete |
| Authority transactions | two transaction paths with different locks, whole-row writes computed from a snapshot, failure at any statement, a bounded pool | every commit is one atomic step; no insert race; no deadlock; confirmed is durable |
| Reviewer authority | consent history read back in another order than it was written, by the stamps of clocks that need not agree; two redemptions of one invitation | eligibility follows the last event; one account per principal, one redemption per invitation |
| Qualification | attempts counted at creation and submitted later; pools retired in between; material that is read again by every transaction and may have been replaced | at most the permitted attempts; every attempt judged by the committed key; one receipt for a reviewer and a pool, never lost to a retirement |
| Upstream call | a service that is silent, trickles or sends too much; a deadline that fires during any await; retries of some failures only; consumer, source and abort listener each stop the stream | only whole bodies within budget are used; nothing of an attempt outlives it; the outcome names its cause; every call ends |
| Collection and evaluation | a case-run fails and the rest goes on; results reused by a later command with another selection, after the corpus was extended or collected anew; a process killed while it writes the only copy | a resumed result is one an uninterrupted evaluation could have given; nothing complete is judged twice or lost; "full" and the overall score mean everything |
| Expert review | two reviewers see the same responses in opposite orders and change places; a fixture is edited without a new version while packets are out; a revised answer arrives after the queue was cut; a command killed between its files, among them the packet a person reads and the template that is sent back | agreement is what both meant; a candidate is of the text there is today; a ruling belongs to the evidence it rules on; a complete review never gets stuck |

## 2. Plan

The order of the work, most important behaviour first.

1. `ReviewProtocol`, `ReviewBatch`, its abstract specification `EvidencePool`,
   with proofs of invariants and refinement. *Done.*
2. `IntakeOperations`, `ApplicationIntake`, and `AuthorityTransactions`, which
   implements it on two transaction paths. *Done, with the proof of the
   refinement.*
3. `ReviewerAuthority`, and `Qualification`, which implements
   `QualificationFacts`, the part of it that `ReviewBatch` is composed with.
   *Done, with their audits proved.*
4. `BoundedBody` and `UpstreamCall`, which composes it with the five clients.
   *Done.*
5. `CorpusCollection` and `CorpusEvaluation`, which composes it with the runner.
   *Done.*
6. `ExpertReview`. *Done.*
7. `EligibilityFacts`, what qualification and batches may rely on of the
   reviewer authority, implemented by `ReviewerAuthority` and used by both.
   *Done, with the proof of the refinement.*

What is left, in this order: one composed specification of authority,
qualification and batches, so that what section 5 says in words (each component
keeps what the others assume) is one theorem; two commands on one file at once
(see section 6); the start of the service, with its migrations and the drain at
shutdown.

A module for the record of rejected submissions was planned and given up: the
rows are only ever added, after any error and best effort, and no operation
reads them, so no promise depends on them.

Runs stay near or below a few million states: two or three actors, two objects,
one or two values, so that every pair of operations meets.

## 3. Modules and code

| Module | Models | State and actions |
| --- | --- | --- |
| `ReviewProtocol` | `packet.ts`, `freeze.ts`, the parsers in `contracts/community-review-validation.ts` that decide a transition | operators only: `BuildCoverage`, `CloseAllowed`, `CloseRecord`, `FreezeAllowed`, `FreezePool`, `AgreementEvidence`, `PublicArtifact` |
| `ReviewBatch` | the batch operations of `service.ts` with their repository methods | one action per operation, named after it: `CreateBatch`, `OpenBatch`, `GetOrCreateOwnEligibleAssignment`, `WithdrawAssignment`, `SubmitReview`, `CloseBatch`, `FreezeBatch`, `BuildAgreementEvidence`, `CreateDisclosure`; the rows of other components change by `EligibilityStep`, a step of `EligibilityFacts`, and `QualificationStep`, a step of `QualificationFacts` |
| `EvidencePool` | what `ReviewBatch` promises, with a single copy of the evidence | phase, roster, evidence, published |
| `MCReviewBatch` | the instances for TLC | - |
| `ReviewBatchProofs` | theorems about `ReviewBatch`, the refinement of `EvidencePool` last | - |
| `IntakeOperations` | the callbacks of `application-intake.ts` as functions from table contents to table contents | `SubmissionResults`, `DecisionResults`, `PurgeResults`, `WithdrawalResults` |
| `ApplicationIntake` | the same operations, each an atomic step; also what `InMemoryCommunityReviewRepository.transaction` gives by its promise chain | `db`: the four tables |
| `ApplicationIntakeProofs` | theorems about `ApplicationIntake` | - |
| `AuthorityTransactions` | `postgres-repository.ts` and the parts of `postgres-codec.ts` for these tables | per request its stage, work, loaded and resulting snapshot; the advisory lock, the row locks; actions `Arrive`, `Connect`, `LockService`, `LockRow`, `LockContacts`, `LoadApplications`, `LoadRestAndRun`, `Commit`, `LockRowAndRun`, `CommitWithdrawal`, `RollBack`, `LockTimeout`, `Fail` |
| `AuthorityTransactionsProofs` | theorems about `AuthorityTransactions`, with `ApplicationIntakeProofs` instantiated | - |
| `ReviewerAuthority` | accounts, identities, invitations and consent of `service.ts` with their repository methods | `accounts`, `identities`, `invitations`, `history` and the two audits; one action per operation: `RegisterReviewerAccount`, `ProvisionReviewerAccount`, `LinkReviewerAuthIdentity`, `WithdrawReviewerAccount`, `DisableReviewerAccount`, `IssueReviewerInvitation`, `RevokeReviewerInvitation`, `RedeemReviewerInvitation`, `RecordConsent`, `RevokeConsent`; `ExpireReviewerInvitation` is the branch that redemption and revocation share |
| `EligibilityFacts` | what the other components may rely on of it: one reviewer's authority changes at a time, and not for the better once the account is closed | `eligible`, `closed`; instantiated by `Qualification` and `ReviewBatch` as their environment, with no account closed for good, and by `ReviewerAuthority` under a refinement mapping |
| `MCReviewerAuthority` | the instance for TLC | - |
| `ReviewerAuthorityProofs` | theorems about `ReviewerAuthority` | - |
| `Qualification` | the qualification operations of `service.ts`, `evaluateQualification`, their repository methods | `pools`, `attempts`, `receipts`, two audits; `RegisterQualificationPool`, `SealQualificationPool`, `ActivateQualificationPool`, `RetireQualificationPool`, `CreateQualificationAttempt`, `SubmitQualificationAttempt`, `IssueQualificationReceipt`, `RegisterAuthoritativeQualificationReceipt`, and `ImportLegacyAttempt` for migrated rows; outside of the database `material` (`ChangeItems`, `ChangeKey`) and `eligible` (`EligibilityStep`, a step of `EligibilityFacts`) |
| `QualificationFacts` | what the batches may rely on of it: receipts stay, pools move forward only | `receipts`, `poolState`; instantiated by `ReviewBatch` as its environment and by `Qualification` under a refinement mapping |
| `QualificationProofs` | theorems about `Qualification` | - |
| `BoundedBody` | `response-body.ts`: the relay stream in front of a body, with its byte budget | `source`, `read`, `total`, `stopped`, `listening`, `output`, and the counts `sent`, `delivered`; each continuation after an await is a step: `Pull`, `Source`, `Continue` (`Relay`, `Close`, `Refuse`, `TooLate`), `Abort`, `Cancel` |
| `UpstreamCall` | the clients of `BoundedBody`: the chat-completions judge, `HttpTutor`, `HttpTutorExecutionHost`, `HttpReviewTranslator`, `createBoundedFetch` | `client`, `phase`, `attempts`, `timer`, `status`, `outcome`; `Start`, `Resend`, `FetchFails`, `FetchAnswers`, `ReadAnswer`, `RefuseAnswer`, `ReadSettles`, `TimerFires`, `ConsumerCancels` |
| `UpstreamCallProofs` | theorems about `UpstreamCall` | - |
| `CorpusCollection` | `collectTutorEvidence` under `tutorbench-collect-model` | `corpus`, `command`; `StartCollection`, `ResumeCollection`, `CallTutor`, `WriteCorpus`, `CorpusWritten`, `CommandDies`, `RemoveCorpus` |
| `CorpusEvaluation` | `runTutorResponseCorpus`, `tutor-response-corpus-resume.ts`, the reader of results, the aggregator as far as it decides whether there is a score, the writing of the file | adds `evaluations`; `StartEvaluation`, `RunCase`, `WriteResult`, `ResultWritten` |
| `MCCorpusEvaluation` | the instances for TLC | - |
| `CorpusEvaluationProofs` | theorems about both | - |
| `ExpertReview` | `expert-review*.ts` of the case system under its five commands, and the people who fill the files in | one variable for each kind of file, the template beside a packet being one of its own; the commands `Export`, `Import`, `AdjudicationExport`, `AdjudicationImport`, `ConsensusCandidate`, `AdjudicatedCandidate`, the people's `EditSuite`, `Review`, `Adjudicate` |
| `MCExpertReview` | the instances for TLC | - |
| `ExpertReviewProofs` | theorems about `ExpertReview` | - |

Conventions. An operation that throws rolls back, so a refused request is a step
that changes nothing and is not an action. Timestamps other than the creation
stamp of a batch, the clock of the intake and the stamps of consent events
and invitations are left out; those of `ReviewerAuthority` are taken from
`Instants` with no order between one transaction and the next, because each is
read from the wall clock of some process (`service.ts:1144`, `:1936`, `:1988`),
which may step back; a fingerprint is a function of the fields it
commits to, so comparing the fields is comparing the fingerprints. Rows that are
not stored are `NoRow`; a file that is missing is `NoFile`, one whose writing was
cut short is `Torn`, and `ExpertReview`, where nothing distinguishes the two,
calls both `Unreadable`. A command that is killed in `ExpertReview` is part of the
action of the command (`Written`: each of its files is the old one, the new one or
cut off), because nothing runs beside it; in the collection it is a step of its
own, `CommandDies`. Operators marked *faulty variant* or *mutant* are never used
by the specifications: each is the form of an operator that a plausible bug
would give it, kept to show that the property next to it in `PROJECT.json` really
depends on the code.

## 4. Runs

| Run | Distinct states | Bounds | Shows |
| --- | --- | --- | --- |
| `batch` | 578,931 (symmetry over reviewers) | an interpretable batch that needs two reviewers and a pilot that needs one, of two pools with any creation stamps in {0, 1}; two reviewers, two statuses, one policy | every interleaving of assignment, withdrawal, submission, loss of eligibility, retirement, close, freeze and publication; the copies of the evidence agree and implement `EvidencePool`; authority is current for each write; no decision about publication is recorded twice; selection without a hint, with equal, ordered and reversed stamps |
| `disclosure_versions` | violation | two policies | a documented promise about returning to an earlier policy |
| `application_intake` | 4,417 | two applications, two keys, two bodies, clock 0 to 2 with retentions 2 and 1 | replays, conflicts, reversals, withdrawals and purges in any order, before and after the deadline |
| `transactions_requests` | 295,656 | two service requests, one withdrawal, one application, clock 0 and 1, pool of two | a third request waits for a connection while two interleave: no insert race; nobody waits in a circle (`WaitingGoesForward`); confirmed operations stay effective and a repetition of them is harmless; every commit is a step of `ApplicationIntake`; no request waits for ever |
| `authority` | 4,119,240 (symmetry over reviewers, principals and invitations) | two accounts, two principals, two invitations, two versions of the policy, three instants in any order with a time to live of two, three consent events in all | provisioning, linking and redemption race for two principals; an invitation is redeemed, revoked or found expired; every order of consent changes over two versions with every order of their stamps, and withdrawal and disabling between them; the refinement to `EligibilityFacts`. Three events are an acceptance, its revocation and one more, the least that can be read back in a wrong order and go on |
| `authority_instant` | violation | one account, two events, two instants in any order | what the order of the stamps decides, see below |
| `qualification` | 179,784 | one pool registered in any state, two reviewers, three attempts with a limit of two, two keys, two names of the instrument | material that changes between sealing, issue and submission; retirement at any point; two attempts that compete for one receipt; the audit of each order; the refinement to `QualificationFacts`. Pools share no row, so one is enough |
| `upstream_call` | 4,137 | the five clients, three attempts, chunks of 0, 1 and 2 bytes against budgets of 3 and 1 | a deadline, a cancel and an answer at any moment of the call; budgets met exactly, missed and exceeded by one chunk and by several; a body that trickles for ever; every call ends |
| `evaluation` | 7,166,264 | two cases with two runs, one of which needs a judge and one of which has two possible answers; a limit of one; one corpus and one result file | collections and evaluations, partial, narrowed, killed at any point and resumed, in any order; the second answer makes a corpus that was collected anew differ in its text only. There is one tutor, one judge or none, and one scoring: that nothing is reused under another is what the theorems of section 5 say, for any number of each |
| `resume_unweighted` | violation | the same, one case without a weight | a result that no resume accepts, see below |
| `expert_review` | 4,134,250 | two fixtures of one domain, the first of which may be missing and the second rewritten under the same version; the panels p1, p2 and p3, p1. Either (`Reviewing`) one edit, one ruling, one output, three submissions, two of every other thing, nine in all, one command other than an export killed; or (`Exporting`) three exports, one of them killed at any of its five files, two submissions, one of every other thing, eight in all, no adjudication | a reviewer who changes place and may adjudicate elsewhere; exports again after an edit; revised answers before and after the queue was cut; packets and templates of two exports in one directory, what is answered on them and where it is accepted. A full review with adjudication takes seven things, so nine leave two that go wrong; evidence on another text takes seven, with its candidate eight |
| `expert_review_templates` | violation | the second alternative, one panel | evidence that names a packet its reviewer never saw, see below |

The actors are few because every conflict the code can have is between two
transactions over one or two rows, or between a command and the file one
earlier command left. What a small instance cannot say is left to the proofs of
section 5, which cover every safety property these runs check.

Deadlock is checked in the runs of the batches, the intake, the transactions, the
qualification and the evaluation. It is not in those of `ReviewerAuthority` and
`ExpertReview`, whose instances end when ids, instants or the bounds in `Limits`
are used up, and of `UpstreamCall`, where a call that has settled is over.

**Fairness.** Two specifications have a liveness property; the others have safety
properties only and assume none.

* `AuthorityTransactions` assumes strong fairness of each request's own next step
  (`Advance`): PostgreSQL grants locks in queue order and the driver's pool hands
  connections out first come first served, so a waiter whose condition holds
  again and again is served, and a transaction holding its locks runs its next
  statement. Timeouts, failures and new arrivals are not fair:
  `EveryRequestEnds` holds although they may never happen.
* `UpstreamCall` assumes weak fairness of the program's own steps, of its timer
  and of the rejection of a fetch whose signal is aborted, all of which the
  runtime promises. Nothing is assumed of the service: it may stay silent before
  the headers or in the middle of a body. `EveryCallEnds` says nothing of the
  relay, whose deadline and consumer belong to an SDK.

### Where documents and code disagree

* `disclosure_versions`. `docs/community-review-service.md:708` says that
  changing policy or date appends a version. The disclosure id is a hash of
  mode, policy and date, so after A, B, A the third request returns the first
  version, none is appended, and the artifact served by default stays B's. A
  decision that is not on record yet is always served (`FreshIsServed`), so going
  back is the only way.
* `authority_instant`. `docs/community-review-reviewer-portal-architecture.md:821`
  says "revocation remains authoritative". Consent histories are loaded in the
  order of `recordedAt` and then of the random event id
  (`in-memory-repository.ts:217`, `postgres-codec.ts:599`), and the last event
  decides. A revocation whose stamp is not later than that of the acceptance
  before it may stand in front of it when the history is next loaded; the account
  row then says REVOKED while the reviewer is eligible. It takes two transactions
  that read one millisecond, a clock that was set back, or service processes with
  differing clocks.
  `ConsentIsConsistent` says what remains whatever the clocks do: a history whose
  stamps are in the order they were recorded alternates, the account row agrees
  with a history whose last stamp is the latest, a revocation on the row that has
  no effect was overtaken by an acceptance stamped no earlier, and authority has
  an acceptance behind it.
* `resume_unweighted`. `docs/scoring-provenance.md:12` allows category weights of
  zero as long as one is positive, and `docs/first-real-baseline.md:321` says that
  valid `failed` case-runs are reused. A case all of whose categories weigh
  nothing has no score (`aggregator.ts:73`); its run fails without one, the result
  is written and read, and every resume of it is refused
  (`tutor-response-corpus-resume.ts:362`). The command line has the default
  weights only; the library takes others.
* `expert_review_templates`. `docs/case-system-vnext-expert-review.md:151` says that
  evidence records the exact source packet of each reviewer and that evidence of
  one export must not be reused with a different reviewer-visible export. The
  packet that a reviewer reads and the template that carries its fingerprint are
  two files of one `Promise.all` (`cli/case-system-vnext-expert-review.ts:290`), and
  the import compares the fingerprint of the template
  (`expert-review.ts:651`). An export that is killed between the two may leave the
  packet of the old text beside the template for the new one; when the export has
  been run again, answers on the old text are evidence on the new one. The same
  holds of the adjudicator's files
  (`cli/case-system-vnext-expert-review-adjudication.ts:238`), whose template the
  import loads and never compares. `AgreementIsMeant` and `ReadyIsWhatWasMeant` say
  that this is the only way: an answer is on the text it is taken for unless a
  command was killed and the packet that was read is another one than the packet
  named. The run reaches the exception for the reviewers; the one for the
  adjudicator, which takes fourteen steps and a kill, is left to the theorem
  `ReadyIsMeant`.

Two more are plain from a few lines of code and have no run.

* Timeouts of the judge. `docs/real-model-baselines.md:325` says "timeouts and
  transient 429/5xx transport failures use bounded retries", line 264 of the same
  document "no timeout retry". The chat-completions judge throws `judge_timeout`
  after the attempt whose deadline passed (`tutor-eval-judge.ts:554`), whatever the
  number of attempts, and so does the model. No property takes a side:
  `OutcomeNamesItsCause` forbids repeating a failure that is neither transient nor
  a timeout, and leaves it open whether a timeout may be repeated.
* Published annotations. `docs/community-review-protocol.md:188` says atomic
  annotations may be published or omitted. With reviewer ids published and
  annotations omitted, the artifact keeps the disagreement rows, which name a
  reviewer, a requirement and the status given (`freeze.ts:374`); the validator
  accepts it. The theorem `AnnotationsStayPrivate` has the absence of such a policy
  as its hypothesis, and shows that nothing else lets an annotation out.

## 5. Proofs

Every safety property of the passing runs is also a theorem, for every value of
the constants, under the named assumptions of the modules: finitely many
reviewers and atoms, numbered batches, and an interpretable batch that needs at least
two of them (`community-review-validation.ts:559` insists on it); finitely many
accounts, invitations and attempts; instants, budgets and case numbers that are
natural numbers; one to three attempts of a call, which is what the clients are
configured with; a marker that is no row and no work (`ReviewerAssumption`,
`AtomAssumption`, `SubmissionAssumption`, `BatchAssumption`, `IntakeAssumption`,
`IntakeRowAssumption`, `TransactionAssumption`, `WorkAssumption`,
`AuthorityAssumption`, `AuthorityRowAssumption`, `QualificationAssumption`,
`QualificationRowAssumption`, `BudgetAssumption`, `AttemptsAssumption`,
`CollectionAssumption`, `EvaluationAssumption`, `ReviewAssumption`).

`ReviewBatchProofs`. The invariants of the runs are not inductive alone: that a
freeze cannot be refused needs the snapshot to equal the live rows, which needs
every row to be frozen after the close, and that a published artifact is about
the live rows needs the frozen pool to be the close record's. `IInv` joins
`TypeOK`, the shape of disclosure histories, `AcceptedIsAssigned`, that accepted
evidence has a receipt, `NoEvidenceBeforeItsState`, `CloseSnapshotIsExact`, that
a frozen pool is its close record and the close was allowed by the rows it
recorded, and `PublishedEvidenceIsLiveEvidence`. `SpecIInv` is proved with one
lemma per group of actions; `EvidenceBelongsToAssigned`,
`SnapshotNeverDrifts`, `CoveredCanClose`, `IndependenceHolds`,
`EvidenceFollowsState`, `PublishedIsLive` and the action properties
`EvidenceOnlyGrows` and `AuthorityIsCurrent` follow from it.
In its last section `MappedRows` shows that roster and evidence, read from
whichever copy is current, are the live rows; then every action of `ReviewBatch`
is an action of `EvidencePool` or leaves its variables alone
(`ImplementsEvidencePool`). Versions are a set of decisions in the order of their
first request and none is recorded twice (`DecisionsAreVersions`), and the newest public one is the one
served (`FreshIsServed`). `EvidenceAddsUp` is about the counts that the parsers of
agreement evidence and artifacts insist on: agreements and disagreements add up
to the comparisons, and an artifact has one submission for each reviewer, named
or not; it counts pairs by one-to-one functions. `AnnotationsStayPrivate` is
conditional: no policy names reviewers and omits annotations, which
section 4 shows to be needed. `AcceptedIsAssigned` and `EvidenceIsAppendOnly` are in
no run of their own because the refinement implies them.

`ApplicationIntakeProofs`. `IInv` joins `TypeOK`, `ContactOnlyWhileActive`,
`OneApplicationPerKey` and `AuditTellsTheStory`: that a first submission finds an
empty audit to append to is a fact of the audit invariant, and that its receipt
is the only one for the fresh id is a fact of `TypeOK`. Withdrawal and purge
leave the same thing behind, some ACTIVE rows turned into tombstones
(`WithTombstones`), so both are one lemma, `TombstonesIInv`. The four parts are
the theorems `TypeSafety`, `ContactIsRedacted`, `DuplicatesCollapse` and
`AuditIsComplete`; `HistoryIsFinal` is the action property
`DecisionsAndTombstonesAreFinal`, from `IInv` and a lemma over the actions.

`AuthorityTransactionsProofs`. The argument has three layers. Locks (`LockInv`):
the advisory lock is held by the one service transaction past it, a row lock by
that one or by a withdrawal about to write the row. Snapshots (`ServiceInv`,
`WithdrawalInv`): a service transaction that loads has locked every stored row,
so nobody else can write a row it reads, and what it has read is the database;
a withdrawal that is about to write holds its row, which is as it was read.
Effect: the whole-row write of a transaction whose snapshot is the database is
the result of its callback (`WrittenIsAfter`), hence a commit is a step of
`ApplicationIntake` and every other step a stutter
(`TransactionsImplementTheService`). Since each commit is such a step,
`Intake!IInv` holds of the database, and with the lemma `NextIsFinal` of
`ApplicationIntakeProofs` it follows that what was confirmed stays so
(`ConfirmationsLast`), and a repeated request with the same key and body, or the
same decision, changes nothing that was confirmed. `NoCallbackLosesItsInsert` is
`NoInsertRace`. `NobodyWaitsInACircle` is freedom from deadlock for any number of
requests and rows: `Depth` orders the stages by what they hold, and whoever waits
for a connection or a lock waits for a request with a smaller depth.

`ReviewerAuthorityProofs`. `IInv` joins `TypeOK`, `IdentitiesMatchAccounts`,
`InvitationsEndOnce`, `HistoriesAlternate`, `ProjectionMatchesHistory` and three
facts they need: a history belongs to a stored account and a row that claims
consent has an event behind it (`HistoriesBelongToAccounts`; without it a fresh
registration could meet an old history); a history is sorted by its stamps, and
the numbers `nth` that the model keeps beside them are the order in which its
events were recorded (`HistoriesAreSorted`); and the row tells the event recorded
last, wherever that event now stands (`RowTellsLastRecorded`). An event whose stamp
is later than all others is the last one loaded (`LatestStampsAreAppended`), and
only then the row and the history speak of the same event. Stamps are any
instants, so no theorem assumes anything of the clocks; where the order of stamps
matters, the theorem says so in its statement.
`KindsOfSteps` sorts the actions by what they write, and each part is preserved
by each kind. The theorems are `LoginsAreUnambiguous`, `InvitationsAreSpentOnce`,
`InvitationsMakeAccounts` (by cardinalities, one redemption adding one to each
side), `ConsentTellsOneStory`, `RevocationStands`, the action property
`ClosedStaysClosed`, `AuditIsComplete` (the audit counts events, and an event
inserted anywhere in a history is one event more of its kind, by a bijection
between the positions before and after), and the refinement `PromiseIsKept`: each
step lets one reviewer at most gain or lose authority (`GainsOrLoses`).
`SurroundingsAreReal` derives from it what `Qualification` and `ReviewBatch` assume,
the same without closed accounts. Together with `PromiseIsKept` of
`QualificationProofs` this discharges every assumption that one component of the
service makes about another.

`QualificationProofs`. `IInv` joins `TypeOK` (a sealed pool has a commitment),
`EvaluatedByCommittedKey`, `ReceiptsAreEarned` and `AttemptsBelongToPools`: an
attempt belongs to a pool that has been active, or was migrated into a legacy
pool with its result and without answers. That is what keeps the two ways to a
receipt apart, and why a qualified attempt never meets a pool that could refuse
it. The key that judges an attempt is the one in the files, `Loads` makes it the
committed one. Each group of actions has a lemma that says which row it changes
and how (`PoolStepChanges`, `AttemptStepChanges`, `ReceiptStepChanges`); the
invariant, the action property `DecisionsStand`, the limit (`LimitIsRespected`,
by cardinality), the audit of pools and attempts (`AuditIsComplete`) and the
refinement `PromiseIsKept` are proved from these lemmas. `ReviewBatchProofs` in
turn uses of the qualification only that every step of its environment is one of
`QualificationFacts`.

`UpstreamCallProofs`. `IInv` says in `RelayInv` that the relay is readable exactly
as long as it has not been stopped and listens, in `SourceInv` that what the
source has sent is what was relayed plus the chunk that a read may hold, in
`PhaseInv` where timer, body and attempts stand in each phase of a call.
`BodiesAreWhole`, `AttemptsCleanUp` and `CausesAreNamed` hold for every set of
chunk sizes and every pair of budgets. `CallsEnd` is liveness, proved from
`DueStepsAreTaken`, the weak fairness of `FairSpec` with the condition of each step
spelled out: a call is at one of a few stations (`StationsAreAll`), each of
which is left for the next because its step is due until it is taken
(`AttemptsEnd`), and the attempts are counted to the last
(`AttemptsAreCounted`). Since `DueStepsAreTaken` names the steps and their
conditions, no `ENABLED` occurs in the proof.

`CorpusEvaluationProofs`. `IInv` joins what a corpus may hold, what a command in
the making has and where it has it from, and what every result on file says of
its verdicts (`FilesInv`: each was returned by the judge and under the scoring
that the file names, for a response of its tutor). That a result stays reusable
after its corpus was collected anew is the comparison of the judged text in
`SameCaseRuns`. The loops take the first run left; that there is one is
well-foundedness of the natural numbers. `ResumesLoseNothing` says that a resumed
collection keeps every response and a resumed evaluation judges nothing twice.
`ResultsCanBeResumed` holds if
`Unweighted = {}`, which `resume_unweighted` shows to be needed.

`ExpertReviewProofs`. `IInv` says of every file that a person's answer reached
that the person meant it: a submission and a ruling hold the labels of what was
meant in the order of their packets (`ReturnedInv`, `RulingInv`), evidence holds
what was meant (`EvidenceInv`), a candidate is ready only with it
(`ReadyIsWhatWasMeant`). The heart is `LabelsAreReadAsMeant`: a label read in the
order in which it was written is the view again. On which text an answer was
given is known from the files a person works from: as long as no command was
killed each template is that of the packet beside it (`PacketsInv`,
`AdjudicationInv`); afterwards the exception in the two properties may apply, and
an exception once made stays (`KillingForgives`). Of the rest of the directory
nothing need be known, in whatever state a killed export left it: each command
builds the export again and compares (`SourceIsAnExport`), which gives
`CandidatesAreOfToday`
as an action property. `NumbersAreDistinct`, by cardinality, gives each fixture
one task, as the strict parser in front of a candidate demands
(`CompleteIsAccepted`). The bounds `Limits` play no part in the proofs.

**Only model-checked.** `EveryRequestEnds`: its proof would take an induction over
the requests ahead of one in the queue for each lock, under strong fairness of
`Advance`, which the prover's temporal backend cannot quantify over.
`EveryCallEnds` under `FairSpec` itself: that its weak fairness gives the hypothesis
`DueStepsAreTaken` of `CallsEnd` is a matter of `ENABLED`, and the run
`upstream_call` checks the property under `FairSpec` without it. That the
violations are reached is shown by TLC's traces. `TypeOK` is a theorem of each of
the modules that have one (`TypeSafety`, or a part of the invariant).

## 6. Not modelled

* Withdrawal credentials, the intake switch, OIDC, operator authorisation: they
  refuse a request before it reads or writes anything.
* Rate limiters: they refuse requests and keep no durable state. Their eviction of
  the source seen longest ago lets a source begin again before its window ends,
  which is a matter of load, not of state.
* The audit tables of the review operations and the record of rejected
  submissions: added to, never read.
* A ROLLBACK that fails and a connection that goes back to the pool inside an
  aborted transaction: what happens next is the driver's.
* Of qualification the nonce and the packet fingerprint of a submission, which
  refuse a request or do nothing, and the reading of packets and views.
* Of reviewer authority the link of an invitation to an application: it can
  refuse an issuance and is provenance afterwards.
* HTTP routing, migrations, material loading, start and stop, and the portal:
  I/O around the operations.
* Of the upstream calls the building of requests and the field-by-field parsing of
  answers (a choice between valid and invalid), and the OpenAI judge, whose
  retries run inside its SDK.
* Two collections or evaluations on one path at once. Commands read their files
  before their loop and write at the end (`tutorbench-collect-model.ts:415`), so
  the later of two replaces what the earlier one paid for; the operator is
  expected to run one. Likewise a killed collection loses the calls it has made:
  the code keeps them in memory until the end, and no document promises more.
* The arithmetic of scores beyond whether there is one, the evaluation of rubrics,
  and the semantic replay of a corpus on a later version of its dataset.
* Of the expert review the statistics of the analysis, the instructions, the
  parsing of arguments and the contents of tasks. The domain of a fixture is a
  constant (`DomainOf`): it comes from the fixture's archetype in the pilot, and
  the edits that are modelled rewrite, add or remove a fixture and leave its
  archetype alone. A template with tasks that the packet beside it does not show
  is not filled, because there is nothing to answer from.
* The rest of the batch tooling: calibration, pairwise, experiments, judge
  analyses, publication, release, reporting, review translation beyond its HTTP
  call, site, website and the other commands. These are the larger part of the
  repository's lines: contracts parsed field by field, transformations of frozen
  files in one pass, and rendering. They keep no state between steps and have no
  order of events that could go wrong, so a state machine of them would only
  repeat the text.
