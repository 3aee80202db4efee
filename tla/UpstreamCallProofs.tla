------------------------- MODULE UpstreamCallProofs -------------------------
(***************************************************************************)
(* Theorems about UpstreamCall: its safety invariants for every set of     *)
(* chunk sizes, every pair of budgets and every number of attempts.        *)
(***************************************************************************)
EXTENDS UpstreamCall, TLAPS

Used == {"ok", "truncated", "provider", "relayed"}
Transient == {"transient_error", "transient_status"}

(* The relay: it is readable exactly as long as it has not been stopped and *)
(* listens for the abort; nothing has moved before it is opened; what it    *)
(* delivered is what it counted, within budget.                             *)
RelayInv ==
  /\ output = "readable" <=> ~stopped
  /\ listening <=> output = "readable"
  /\ output = "none" => sent = 0 /\ total = 0 /\ read = "idle"
  /\ delivered = total
  /\ total <= Budget(status)

(* The source: while the relay is readable, the bytes sent are those        *)
(* relayed and the chunk a read may hold; afterwards it no longer flows.    *)
SourceInv ==
  /\ output = "readable" =>
       /\ read \in {"idle", "waiting"} => sent = total /\ source = "flowing"
       /\ read = "chunk" => sent = total + size /\ source = "flowing"
       /\ read = "done" => sent = total /\ source = "ended"
  /\ output \notin {"none", "readable"} => source # "flowing"
  /\ output = "closed" => source = "ended" /\ sent = total

(* Where a call stands in each phase.                                       *)
PhaseInv ==
  /\ phase \in {"idle", "fetching"} => output = "none" /\ source = "none"
  /\ phase = "idle" => attempts = 0 /\ timer = "off"
  /\ phase = "retrying" =>
       output = "none" /\ source # "flowing" /\ timer # "armed" /\ attempts < MaxAttempts
  /\ phase = "answered" => output = "none" /\ timer = "armed"
  /\ phase = "reading" => output # "none" /\ (timer = "fired" => output = "aborted")
  /\ phase \in {"fetching", "reading"} => timer # "off"
  /\ phase = "settled" => output # "readable" /\ timer # "armed" /\ source # "flowing"

(* What the caller is told, and why.                                        *)
OutcomeInv ==
  /\ phase # "settled" => outcome = "none"
  /\ outcome \in Used => output = "closed"
  /\ OutcomeNamesItsCause

IInv == TypeOK /\ RelayInv /\ SourceInv /\ PhaseInv /\ OutcomeInv

(* The invariant holds where a call begins.                                 *)
LEMMA InitIInv == Init => IInv
<1> SUFFICES ASSUME Init PROVE IInv OBVIOUS
<1> USE DEF Init, BodyInit
<1>1. TypeOK
  <2>1. BodyTypeOK
    BY DEF BodyTypeOK, SourceStates, ReadStates, OutputStates
  <2>2. retried \subseteq Causes
    BY DEF Causes
  <2>3. attempts \in 0..MaxAttempts
    BY AttemptsAssumption DEF PhaseInv
  <2>4. /\ client \in Clients /\ phase \in Phases /\ timer \in Timers
        /\ status \in Statuses /\ outcome \in Outcomes /\ cause \in Causes
    BY DEF Clients, Phases, Timers, Statuses, Outcomes, Causes, FetchErrors
  <2> QED BY <2>1, <2>2, <2>3, <2>4 DEF TypeOK
<1>2. RelayInv
  BY BudgetAssumption DEF TypeOK, BodyTypeOK, PhaseInv, RelayInv, Budget
<1>3. SourceInv
  BY DEF TypeOK, BodyTypeOK, PhaseInv, RelayInv, SourceInv, SourceStates, ReadStates
<1>4. PhaseInv
  BY AttemptsAssumption DEF PhaseInv
<1>5. OutcomeInv
  BY DEF TypeOK, PhaseInv, OutcomeInv, OutcomeNamesItsCause, Used
<1> QED BY <1>1, <1>2, <1>3, <1>4, <1>5 DEF IInv

(* Sending a request, for the first time or again.                          *)
LEMMA SendKeepsIInv ==
  ASSUME IInv, phase \in {"idle", "retrying"}, SendRequest
  PROVE  IInv'
<1> USE DEF SendRequest, ForgetBody
<1>1. TypeOK'
  <2>1. BodyTypeOK'
    BY DEF IInv, TypeOK, BodyTypeOK, SourceStates, ReadStates, OutputStates
  <2>2. retried' \subseteq Causes
    BY DEF IInv, TypeOK, Causes
  <2>3. attempts' \in 0..MaxAttempts
    BY AttemptsAssumption DEF IInv, TypeOK, PhaseInv
  <2>4. /\ client' \in Clients /\ phase' \in Phases /\ timer' \in Timers
        /\ status' \in Statuses /\ outcome' \in Outcomes /\ cause' \in Causes
    BY DEF IInv, TypeOK, Clients, Phases, Timers, Statuses, Outcomes, Causes, FetchErrors
  <2> QED BY <2>1, <2>2, <2>3, <2>4 DEF TypeOK
<1>2. RelayInv'
  BY BudgetAssumption DEF IInv, TypeOK, BodyTypeOK, PhaseInv, RelayInv, Budget
<1>3. SourceInv'
  BY DEF IInv, TypeOK, BodyTypeOK, PhaseInv, RelayInv, SourceInv, SourceStates, ReadStates
<1>4. PhaseInv'
  BY AttemptsAssumption DEF IInv, TypeOK, PhaseInv, RelayInv, SourceInv, Phases, Timers
<1>5. OutcomeInv'
  BY DEF IInv, TypeOK, PhaseInv, OutcomeInv, OutcomeNamesItsCause, Used
<1> QED BY <1>1, <1>2, <1>3, <1>4, <1>5 DEF IInv

LEMMA StartKeepsIInv == IInv /\ Start => IInv'
<1> SUFFICES ASSUME IInv, Start PROVE IInv' OBVIOUS
<1>1. CASE SendRequest
  BY <1>1, SendKeepsIInv DEF Start
<1>2. CASE Settle("unavailable") /\ UNCHANGED <<cause, bodyVars>>
  BY <1>2
  DEF Start, Settle, ClearTimer, IInv, TypeOK, BodyTypeOK, RelayInv, SourceInv, PhaseInv,
      OutcomeInv, OutcomeNamesItsCause, Used, SourceStates, ReadStates, OutputStates, Clients,
      Phases, Timers, Statuses, Outcomes, Causes, FetchErrors, Budget, bodyVars
<1> QED BY <1>1, <1>2 DEF Start

(* A rejected fetch is repeated or settles the call.                        *)
LEMMA FetchFailsKeepsIInv == IInv /\ FetchFails => IInv'
<1> SUFFICES ASSUME IInv, FetchFails PROVE IInv' OBVIOUS
<1> USE DEF IInv, TypeOK, BodyTypeOK, RelayInv, SourceInv, PhaseInv, OutcomeInv,
      OutcomeNamesItsCause, Used, SourceStates, ReadStates, OutputStates, Clients, Phases,
      Timers, Statuses, Outcomes, Causes, FetchErrors, Budget, bodyVars, FetchFails, ClearTimer
<1>1. CASE MayRetry(cause') /\ Retry(cause')
  BY <1>1, AttemptsAssumption DEF MayRetry, Retry
<1>2. CASE ~MayRetry(cause')
  <2>1. client = "judge" /\ cause' \in Transient => attempts = MaxAttempts
    BY <1>2, AttemptsAssumption DEF MayRetry, Transient
  <2> QED BY <1>2, <2>1, AttemptsAssumption DEF Settle, Transient
<1> QED BY <1>1, <1>2

LEMMA FetchAnswersKeepsIInv == IInv /\ FetchAnswers => IInv'
BY BudgetAssumption
DEF FetchAnswers, IInv, TypeOK, BodyTypeOK, RelayInv, SourceInv, PhaseInv, OutcomeInv,
    OutcomeNamesItsCause, Used, SourceStates, ReadStates, OutputStates, Clients, Phases,
    Timers, Statuses, Outcomes, Causes, FetchErrors, Budget

LEMMA ReadAnswerKeepsIInv == IInv /\ ReadAnswer => IInv'
BY BudgetAssumption
DEF ReadAnswer, OpenRelay, OpenEmpty, IInv, TypeOK, BodyTypeOK, RelayInv, SourceInv,
    PhaseInv, OutcomeInv, OutcomeNamesItsCause, Used, SourceStates, ReadStates, OutputStates,
    Clients, Phases, Timers, Statuses, Outcomes, Causes, FetchErrors, Budget

(* An answer that is cancelled unread is repeated or settles the call.      *)
LEMMA RefuseAnswerKeepsIInv == IInv /\ RefuseAnswer => IInv'
<1> SUFFICES ASSUME IInv, RefuseAnswer PROVE IInv' OBVIOUS
<1> USE DEF IInv, TypeOK, BodyTypeOK, RelayInv, SourceInv, PhaseInv, OutcomeInv,
      OutcomeNamesItsCause, Used, SourceStates, ReadStates, OutputStates, Clients, Phases,
      Timers, Statuses, Outcomes, Causes, FetchErrors, Budget, RefuseAnswer, CancelSource,
      ClearTimer
<1>1. CASE MayRetry(cause') /\ Retry(cause')
  BY <1>1, AttemptsAssumption DEF MayRetry, Retry
<1>2. CASE ~MayRetry(cause') /\ Settle("transport")
  <2>1. client = "judge" /\ cause' \in Transient => attempts = MaxAttempts
    BY <1>2, AttemptsAssumption DEF MayRetry, Transient
  <2> QED BY <1>2, <2>1, AttemptsAssumption DEF Settle, Transient
<1> QED BY <1>1, <1>2

(* A body that settles: read to its end, or not.                            *)
LEMMA ReadSettlesKeepsIInv == IInv /\ ReadSettles => IInv'
<1> SUFFICES ASSUME IInv, ReadSettles PROVE IInv' OBVIOUS
<1>1. PICK o \in IF output = "closed" /\ delivered > 0 THEN Parsed ELSE {Unparsed} : Settle(o)
  BY DEF ReadSettles
<1>2. /\ o \in Outcomes
      /\ o \in Used => output = "closed"
      /\ o # "transport" /\ o # "none"
      /\ client \in {"judge", "translator"} /\ timer = "fired" => o = "timeout"
      /\ o = "timeout" => timer = "fired"
  BY <1>1 DEF Parsed, Unparsed, Outcomes, Used, IInv, PhaseInv, ReadSettles, BodyIsOver
<1> QED
  BY <1>1, <1>2
  DEF ReadSettles, BodyIsOver, Settle, ClearTimer, IInv, TypeOK, BodyTypeOK, RelayInv, SourceInv,
      PhaseInv, OutcomeInv, OutcomeNamesItsCause, SourceStates, ReadStates, OutputStates,
      Clients, Phases, Timers, Statuses, Causes, FetchErrors, Budget, bodyVars

(* The deadline stops whatever is being read.                               *)
LEMMA TimerFiresKeepsIInv == IInv /\ TimerFires => IInv'
<1> SUFFICES ASSUME IInv, TimerFires PROVE IInv' OBVIOUS
<1> USE DEF TimerFires, DeadlineIsDue, Abort, Stop, CancelSource, ReleaseRead, bodyVars
<1>1. TypeOK'
  <2>1. BodyTypeOK'
    BY DEF IInv, TypeOK, BodyTypeOK, SourceStates, ReadStates, OutputStates
  <2>2. retried' \subseteq Causes
    BY DEF IInv, TypeOK, Causes
  <2>3. attempts' \in 0..MaxAttempts
    BY AttemptsAssumption DEF IInv, TypeOK, PhaseInv
  <2>4. /\ client' \in Clients /\ phase' \in Phases /\ timer' \in Timers
        /\ status' \in Statuses /\ outcome' \in Outcomes /\ cause' \in Causes
    BY DEF IInv, TypeOK, Clients, Phases, Timers, Statuses, Outcomes, Causes, FetchErrors
  <2> QED BY <2>1, <2>2, <2>3, <2>4 DEF TypeOK
<1>2. RelayInv'
  BY BudgetAssumption DEF IInv, TypeOK, BodyTypeOK, PhaseInv, RelayInv, Budget
<1>3. SourceInv'
  BY DEF IInv, TypeOK, BodyTypeOK, PhaseInv, RelayInv, SourceInv, SourceStates, ReadStates
<1>4. PhaseInv'
  BY AttemptsAssumption DEF IInv, TypeOK, PhaseInv, RelayInv, SourceInv, Phases, Timers
<1>5. OutcomeInv'
  BY DEF IInv, TypeOK, PhaseInv, OutcomeInv, OutcomeNamesItsCause, Used
<1> QED BY <1>1, <1>2, <1>3, <1>4, <1>5 DEF IInv

(* A step of the source moves bytes into the read that waits for them.      *)
LEMMA SourceKeepsIInv == IInv /\ Source /\ UNCHANGED callVars => IInv'
BY BudgetAssumption
DEF Source, SourceSends, SourceSendsGarbage, SourceEnds, SourceFails, callVars, IInv, TypeOK,
    BodyTypeOK, RelayInv, SourceInv, PhaseInv, OutcomeInv, OutcomeNamesItsCause, Used,
    SourceStates, ReadStates, OutputStates, Clients, Phases, Timers, Statuses, Outcomes,
    Causes, FetchErrors, Budget

LEMMA PullKeepsIInv == IInv /\ Pull /\ UNCHANGED callVars => IInv'
BY DEF Pull, callVars, IInv, TypeOK, BodyTypeOK, RelayInv, SourceInv, PhaseInv, OutcomeInv,
    OutcomeNamesItsCause, Used, SourceStates, ReadStates, OutputStates, Clients, Phases,
    Timers, Statuses, Outcomes, Causes, FetchErrors, Budget

(* The continuation of a pull: relayed, closed, refused, or too late.       *)
LEMMA ContinueKeepsIInv == IInv /\ Continue(status) /\ UNCHANGED callVars => IInv'
<1> SUFFICES ASSUME IInv, Continue(status), UNCHANGED callVars PROVE IInv' OBVIOUS
<1> USE BudgetAssumption
    DEF Continue, callVars, IInv, TypeOK, BodyTypeOK, RelayInv, SourceInv, PhaseInv,
      OutcomeInv, OutcomeNamesItsCause, Used, SourceStates, ReadStates, OutputStates, Clients,
      Phases, Timers, Statuses, Outcomes, Causes, FetchErrors, Budget
<1>1. CASE Relay(status)
  BY <1>1 DEF Relay
<1>2. CASE Close
  BY <1>2 DEF Close, Stop
<1>3. CASE Refuse(status)
  <2>1. TypeOK'
    BY <1>3 DEF Refuse, Stop, CancelSource
  <2>5. RelayInv'
    BY <1>3 DEF Refuse, Stop, CancelSource
  <2>2. SourceInv'
    BY <1>3 DEF Refuse, Stop, CancelSource
  <2>3. PhaseInv'
    BY <1>3 DEF Refuse, Stop, CancelSource
  <2>4. OutcomeInv'
    BY <1>3 DEF Refuse, Stop, CancelSource
  <2> QED BY <2>1, <2>2, <2>3, <2>4, <2>5
<1>4. CASE TooLate
  BY <1>4 DEF TooLate
<1> QED BY <1>1, <1>2, <1>3, <1>4

LEMMA ConsumerCancelsKeepsIInv == IInv /\ ConsumerCancels => IInv'
BY DEF ConsumerCancels, Cancel, Stop, CancelSource, ReleaseRead, callVars, IInv, TypeOK,
    BodyTypeOK, RelayInv, SourceInv, PhaseInv, OutcomeInv, OutcomeNamesItsCause, Used,
    SourceStates, ReadStates, OutputStates, Clients, Phases, Timers, Statuses, Outcomes,
    Causes, FetchErrors, Budget

(* Every step keeps the invariant.                                          *)
LEMMA StepKeepsIInv == IInv /\ [Next]_vars => IInv'
<1> SUFFICES ASSUME IInv, [Next]_vars PROVE IInv' OBVIOUS
<1>1. CASE Start
  BY <1>1, StartKeepsIInv
<1>2. CASE Resend
  BY <1>2, SendKeepsIInv DEF Resend
<1>3. CASE FetchFails
  BY <1>3, FetchFailsKeepsIInv
<1>4. CASE FetchAnswers
  BY <1>4, FetchAnswersKeepsIInv
<1>5. CASE ReadAnswer
  BY <1>5, ReadAnswerKeepsIInv
<1>6. CASE RefuseAnswer
  BY <1>6, RefuseAnswerKeepsIInv
<1>7. CASE ReadSettles
  BY <1>7, ReadSettlesKeepsIInv
<1>8. CASE TimerFires
  BY <1>8, TimerFiresKeepsIInv
<1>9. CASE BodyStep
  BY <1>9, SourceKeepsIInv, PullKeepsIInv, ContinueKeepsIInv DEF BodyStep
<1>10. CASE ConsumerCancels
  BY <1>10, ConsumerCancelsKeepsIInv
<1>11. CASE UNCHANGED vars
  BY <1>11 DEF vars, callVars, bodyVars, IInv, TypeOK, BodyTypeOK, RelayInv, SourceInv,
    PhaseInv, OutcomeInv, OutcomeNamesItsCause, Budget
<1> QED
  BY <1>1, <1>2, <1>3, <1>4, <1>5, <1>6, <1>7, <1>8, <1>9, <1>10, <1>11 DEF Next

THEOREM Invariance == Spec => []IInv
BY InitIInv, StepKeepsIInv, PTL DEF Spec

(* Every variable has its type, the attempts included: no more requests     *)
(* than maxAttempts are ever sent (the loop of evaluateWithMetrics).        *)
THEOREM TypeSafety == Spec => []TypeOK
BY Invariance, PTL DEF IInv

(* Nothing but whole bodies within budget is used of an answer              *)
(* (boundedResponse and the clients that parse what it relays).             *)
THEOREM BodiesAreWhole == Spec => []OnlyWholeBodiesAreUsed
<1>1. IInv => OnlyWholeBodiesAreUsed
  BY DEF IInv, TypeOK, BodyTypeOK, RelayInv, SourceInv, OutcomeInv, OnlyWholeBodiesAreUsed,
    Used
<1> QED BY Invariance, <1>1, PTL

(* No timer, listener or source outlives its attempt, in whatever order the *)
(* source, the consumer and the deadline stop it.                           *)
THEOREM AttemptsCleanUp == Spec => []NothingOutlivesAnAttempt
<1>1. IInv => NothingOutlivesAnAttempt
  BY DEF IInv, RelayInv, SourceInv, PhaseInv, NothingOutlivesAnAttempt
<1> QED BY Invariance, <1>1, PTL

(* Retries and the code reported to the caller follow what happened.        *)
THEOREM CausesAreNamed == Spec => []OutcomeNamesItsCause
BY Invariance, PTL DEF IInv, OutcomeInv

-----------------------------------------------------------------------------
(* That calls end.  A call under way is in one of the stations below; each   *)
(* has a step that is due, and leaves only for stations listed after it.     *)
Mine == client # "relay"

Fetching == Mine /\ phase = "fetching" /\ timer = "armed"
Aborted  == Mine /\ phase = "fetching" /\ timer = "fired"
Refused  == Mine /\ phase = "answered" /\ ~ReadsBody
Answered == Mine /\ phase = "answered" /\ ReadsBody
Reading  == Mine /\ phase = "reading" /\ ~BodyIsOver
Read     == Mine /\ phase = "reading" /\ BodyIsOver
Retrying == Mine /\ phase = "retrying"
Settled  == phase = "settled"

UnderWay == Mine /\ phase \notin {"idle", "settled"}

LEMMA StationsAreAll ==
  IInv /\ UnderWay =>
    \/ Fetching \/ Aborted \/ Refused \/ Answered \/ Reading \/ Read \/ Retrying
BY DEF UnderWay, Mine, Fetching, Aborted, Refused, Answered, Reading, Read, Retrying, IInv,
  TypeOK, PhaseInv, Phases, Timers

(* A step that is due at a station takes the call on.                       *)
LEMMA DueSteps ==
  IInv =>
    /\ Retrying /\ <<Resend>>_vars => Fetching'
    /\ Fetching /\ <<TimerFires>>_vars => Aborted'
    /\ Aborted /\ <<FetchFails>>_vars => Settled' \/ Retrying'
    /\ Refused /\ <<RefuseAnswer>>_vars => Settled' \/ Retrying'
    /\ Answered /\ <<ReadAnswer>>_vars => Reading' \/ Read'
    /\ Reading /\ <<TimerFires>>_vars => Read'
    /\ Read /\ <<ReadSettles>>_vars => Settled'
<1> HAVE IInv
<1> USE DEF Mine, Settled
<1>1. Retrying /\ Resend => Fetching'
  BY DEF Retrying, Fetching, Resend, SendRequest
<1>2. Fetching /\ TimerFires => Aborted'
  BY DEF Fetching, Aborted, TimerFires
<1>3. Aborted /\ FetchFails => Settled' \/ Retrying'
  BY DEF Aborted, Retrying, FetchFails, Settle, Retry
<1>4. Refused /\ RefuseAnswer => Settled' \/ Retrying'
  BY DEF Refused, Retrying, RefuseAnswer, Settle, Retry
<1>5. Answered /\ ReadAnswer => Reading' \/ Read'
  BY DEF Answered, Reading, Read, ReadAnswer
<1>6. Reading /\ TimerFires => Read'
  BY DEF Reading, Read, TimerFires, BodyIsOver, IInv, RelayInv, Abort
<1>7. Read /\ ReadSettles => Settled'
  BY DEF ReadSettles, Settle
<1> QED
  BY <1>1, <1>2, <1>3, <1>4, <1>5, <1>6, <1>7

(* Whatever else happens keeps it where it is or takes it on, too.          *)
LEMMA OtherSteps ==
  IInv /\ [Next]_vars =>
    /\ Retrying => Retrying' \/ Fetching'
    /\ Fetching => \/ Fetching' \/ Aborted' \/ Refused' \/ Answered' \/ Settled' \/ Retrying'
    /\ Aborted => Aborted' \/ Settled' \/ Retrying'
    /\ Refused => Refused' \/ Settled' \/ Retrying'
    /\ Answered => Answered' \/ Reading' \/ Read'
    /\ Reading => Reading' \/ Read' \/ Settled'
    /\ Read => Read' \/ Settled'
<1> HAVE IInv /\ [Next]_vars
<1> USE DEF Mine, Settled
<1>1. CASE UNCHANGED vars
  BY <1>1 DEF vars, callVars, bodyVars, Retrying, Fetching, Aborted, Refused, Answered,
    Reading, Read, ReadsBody, BodyIsOver
<1>2. CASE Start
  BY <1>2 DEF Start, Retrying, Fetching, Aborted, Refused, Answered, Reading, Read
<1>3. CASE Resend
  BY <1>3, DueSteps DEF Resend, SendRequest, Retrying, Fetching, Aborted, Refused, Answered,
    Reading, Read
<1>4. CASE FetchFails
  BY <1>4 DEF FetchFails, Settle, Retry, Retrying, Fetching, Aborted, Refused, Answered,
    Reading, Read
<1>5. CASE FetchAnswers
  BY <1>5 DEF FetchAnswers, Retrying, Fetching, Aborted, Refused, Answered, Reading, Read,
    ReadsBody
<1>6. CASE ReadAnswer
  BY <1>6 DEF ReadAnswer, Retrying, Fetching, Aborted, Refused, Answered, Reading, Read
<1>7. CASE RefuseAnswer
  BY <1>7 DEF RefuseAnswer, Settle, Retry, Retrying, Fetching, Aborted, Refused, Answered,
    Reading, Read
<1>8. CASE ReadSettles
  BY <1>8 DEF ReadSettles, Settle, Retrying, Fetching, Aborted, Refused, Answered, Reading,
    Read
<1>9. CASE TimerFires
  BY <1>9 DEF TimerFires, DeadlineIsDue, Abort, BodyIsOver, IInv, PhaseInv, RelayInv, Retrying,
    Fetching, Aborted, Refused, Answered, Reading, Read
<1>10. ASSUME UNCHANGED callVars, output # "readable" => output' # "readable"
       PROVE  /\ Retrying => Retrying'
              /\ Fetching => Fetching'
              /\ Aborted => Aborted'
              /\ Refused => Refused'
              /\ Answered => Answered'
              /\ Reading => Reading' \/ Read'
              /\ Read => Read'
  BY <1>10 DEF callVars, Retrying, Fetching, Aborted, Refused, Answered, Reading, Read,
    ReadsBody, BodyIsOver
<1>11. CASE BodyStep
  <2>1. output # "readable" => output' # "readable"
    BY <1>11 DEF BodyStep, Source, SourceSends, SourceSendsGarbage, SourceEnds, SourceFails,
      Pull, Continue, Relay, Close, Refuse, TooLate
  <2> QED
    BY <1>10, <1>11, <2>1 DEF BodyStep
<1>12. CASE ConsumerCancels
  <2>1. output' # "readable"
    BY <1>12 DEF ConsumerCancels, Cancel
  <2> QED
    BY <1>10, <1>12, <2>1 DEF ConsumerCancels
<1> QED
  BY <1>1, <1>2, <1>3, <1>4, <1>5, <1>6, <1>7, <1>8, <1>9, <1>11, <1>12 DEF Next

(* The attempts are counted: sending a request again adds one.              *)
AtLeast(k) == attempts >= k

LEMMA AttemptsAreCounted ==
  ASSUME NEW k \in Nat, IInv, [Next]_vars
  PROVE  /\ AtLeast(k) => AtLeast(k)'
         /\ Retrying /\ AtLeast(k) => Retrying' \/ AtLeast(k + 1)'
<1>1. attempts \in Nat
  BY AttemptsAssumption DEF IInv, TypeOK
<1>2. attempts' = attempts \/ (SendRequest /\ attempts' = attempts + 1)
  BY DEF Next, Start, SendRequest, Settle, Resend, FetchFails, Retry, FetchAnswers, ReadAnswer,
    RefuseAnswer, ReadSettles, TimerFires, BodyStep, ConsumerCancels, callVars, vars
<1>3. Retrying => Retrying' \/ Fetching'
  BY OtherSteps
<1>4. phase' = "fetching" /\ phase = "retrying" => SendRequest
  BY DEF Next, Start, Settle, Resend, FetchFails, Retry, FetchAnswers, ReadAnswer,
    RefuseAnswer, ReadSettles, TimerFires, BodyStep, ConsumerCancels, callVars, vars
<1>5. SendRequest => attempts' = attempts + 1
  BY DEF SendRequest
<1> QED
  BY <1>1, <1>2, <1>3, <1>4, <1>5 DEF AtLeast, Retrying, Fetching

(* The hypothesis of what follows: Fairness of the calls, with the condition *)
(* each step waits for spelled out in place of its ENABLED.  A step that is  *)
(* due is taken or is due no longer, again and again.                       *)
DueStepsAreTaken ==
  /\ []<>~(phase = "idle") \/ []<><<Start>>_vars
  /\ []<>~(phase = "retrying") \/ []<><<Resend>>_vars
  /\ []<>~(phase = "fetching" /\ timer = "fired") \/ []<><<FetchFails>>_vars
  /\ []<>~(phase = "answered" /\ ReadsBody) \/ []<><<ReadAnswer>>_vars
  /\ []<>~(phase = "answered" /\ ~ReadsBody) \/ []<><<RefuseAnswer>>_vars
  /\ []<>~(phase = "reading" /\ BodyIsOver) \/ []<><<ReadSettles>>_vars
  /\ []<>~DeadlineIsDue \/ []<><<TimerFires>>_vars

(* An attempt that has begun settles the call or is repeated.               *)
LEMMA AttemptsEnd ==
  Spec /\ DueStepsAreTaken => (UnderWay ~> (Settled \/ Retrying))
<1>1. /\ Aborted => phase = "fetching" /\ timer = "fired"
      /\ Refused => phase = "answered" /\ ~ReadsBody
      /\ Answered => phase = "answered" /\ ReadsBody
      /\ Read => phase = "reading" /\ BodyIsOver
      /\ IInv /\ (Fetching \/ Reading) => DeadlineIsDue
  BY DEF Fetching, Aborted, Refused, Answered, Reading, Read, BodyIsOver,
    DeadlineIsDue, IInv, TypeOK, PhaseInv, Timers
<1> USE Invariance, DueSteps, OtherSteps
<1>2. Spec /\ DueStepsAreTaken => (Read ~> Settled)
  BY <1>1, PTL DEF Spec, DueStepsAreTaken
<1>3. Spec /\ DueStepsAreTaken => (Reading ~> (Read \/ Settled))
  BY <1>1, PTL DEF Spec, DueStepsAreTaken
<1>4. Spec /\ DueStepsAreTaken => (Answered ~> (Reading \/ Read))
  BY <1>1, PTL DEF Spec, DueStepsAreTaken
<1>5. Spec /\ DueStepsAreTaken => (Refused ~> (Settled \/ Retrying))
  BY <1>1, PTL DEF Spec, DueStepsAreTaken
<1>6. Spec /\ DueStepsAreTaken => (Aborted ~> (Settled \/ Retrying))
  BY <1>1, PTL DEF Spec, DueStepsAreTaken
<1>7. Spec /\ DueStepsAreTaken =>
        (Fetching ~> (Aborted \/ Refused \/ Answered \/ Settled \/ Retrying))
  BY <1>1, PTL DEF Spec, DueStepsAreTaken
<1> QED
  BY StationsAreAll, <1>2, <1>3, <1>4, <1>5, <1>6, <1>7, PTL

(* Every call ends, after at most three attempts, however the service        *)
(* behaves, provided that what is due is done (EveryCallEnds under          *)
(* DueStepsAreTaken).                                                       *)
THEOREM CallsEnd == Spec /\ DueStepsAreTaken => EveryCallEnds
<1> DEFINE Idle == Mine /\ phase = "idle"
<1>1. /\ Init /\ client # "relay" => Idle
      /\ IInv /\ Idle /\ [Next]_vars => Idle' \/ Settled' \/ (UnderWay /\ AtLeast(1))'
      /\ IInv /\ Idle /\ <<Start>>_vars => Settled' \/ (UnderWay /\ AtLeast(1))'
      /\ Idle => phase = "idle"
  <2>1. IInv /\ Idle /\ Start => Settled' \/ (UnderWay /\ AtLeast(1))'
    BY DEF Start, SendRequest, Settle, Mine, Settled, UnderWay, AtLeast, IInv, PhaseInv
  <2>2. phase = "idle" /\ [Next]_vars => Start \/ UNCHANGED callVars
    BY DEF Next, Resend, FetchFails, FetchAnswers, ReadAnswer, RefuseAnswer, ReadSettles,
      TimerFires, DeadlineIsDue, BodyStep, ConsumerCancels, vars
  <2>3. Idle /\ UNCHANGED callVars => Idle'
    BY DEF callVars, Mine
  <2>4. Init /\ client # "relay" => Idle
    BY DEF Init, Mine
  <2> QED
    BY <2>1, <2>2, <2>3, <2>4
<1>2. Spec /\ DueStepsAreTaken => (Idle ~> (Settled \/ (UnderWay /\ AtLeast(1))))
  BY Invariance, <1>1, PTL DEF Spec, DueStepsAreTaken
<1>3. IInv /\ [Next]_vars =>
        /\ AtLeast(1) => AtLeast(1)'
        /\ AtLeast(2) => AtLeast(2)'
        /\ AtLeast(3) => AtLeast(3)'
        /\ Retrying /\ AtLeast(1) => Retrying' \/ AtLeast(2)'
        /\ Retrying /\ AtLeast(2) => Retrying' \/ AtLeast(3)'
        /\ Retrying /\ AtLeast(3) => Retrying' \/ AtLeast(4)'
  BY AttemptsAreCounted, 1 + 1 = 2, 2 + 1 = 3, 3 + 1 = 4
<1>4. IInv => ~AtLeast(4)
  BY AttemptsAssumption DEF IInv, TypeOK, AtLeast
<1>5. /\ Retrying => phase = "retrying"
      /\ Fetching => UnderWay /\ ~Retrying
  BY DEF Retrying, Fetching, UnderWay
<1>6. /\ Spec /\ DueStepsAreTaken => (Retrying /\ AtLeast(1) ~> UnderWay /\ AtLeast(2))
      /\ Spec /\ DueStepsAreTaken => (Retrying /\ AtLeast(2) ~> UnderWay /\ AtLeast(3))
      /\ Spec /\ DueStepsAreTaken => (Retrying /\ AtLeast(3) ~> UnderWay /\ AtLeast(4))
  BY Invariance, DueSteps, OtherSteps, <1>3, <1>5, PTL DEF Spec, DueStepsAreTaken
<1>7. Settled <=> phase = "settled"
  BY DEF Settled
<1> QED
  BY Invariance, AttemptsEnd, <1>1, <1>2, <1>3, <1>4, <1>6, <1>7, PTL DEF Spec, EveryCallEnds
=============================================================================
