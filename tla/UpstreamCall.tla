---------------------------- MODULE UpstreamCall ----------------------------
(***************************************************************************)
(* One call of an upstream service over HTTP, with its deadline, its        *)
(* retries and its bounded body, for the five clients of                    *)
(* src/src/transport/response-body.ts:                                      *)
(*   "judge"       createChatCompletionsExecutor, the only one that retries *)
(*   "tutor"       HttpTutor.respond                                        *)
(*   "host"        HttpTutorExecutionHost.execute                           *)
(*   "translator"  HttpReviewTranslator.translate                           *)
(*   "relay"       createBoundedFetch, whose consumer is an SDK             *)
(* The service may answer, fail, trickle or stay silent; the deadline is a  *)
(* timer of each attempt, and a fetch whose signal is aborted rejects.      *)
(***************************************************************************)
EXTENDS BoundedBody

CONSTANTS
  MaxAttempts    (* maxAttempts of the judge                                *)

(* The judge refuses to be configured with more than                        *)
(* MAX_CHAT_COMPLETIONS_JUDGE_ATTEMPTS.                                     *)
ASSUME AttemptsAssumption == MaxAttempts \in 1..3

VARIABLES
  client,     (* which of the clients made the call                         *)
  phase,      (* where the call stands                                      *)
  attempts,   (* requests sent so far                                       *)
  timer,      (* the deadline of the current attempt                        *)
  status,     (* class of the status of the answer                          *)
  outcome,    (* what the caller is told                                    *)
  cause,      (* history: how the last attempt failed                       *)
  retried     (* history: the failures after which the call was repeated    *)

callVars == <<client, phase, attempts, timer, status, outcome, cause, retried>>
vars == <<callVars, bodyVars>>

Clients == {"judge", "tutor", "host", "translator", "relay"}
Phases == {"idle", "fetching", "answered", "reading", "retrying", "settled"}
Timers == {"off", "armed", "fired"}
(* 408, 409, 429 and 500 up are "transient", other failures "rejected".     *)
Statuses == {"none", "ok", "transient", "rejected"}
Outcomes ==
  {"none", "ok", "unavailable", "timeout", "transport", "invalid", "truncated",
   "status", "provider", "relayed", "broken"}
(* A rejected fetch: named as a timeout, by a transient error, otherwise.   *)
FetchErrors == {"named_timeout", "transient_error", "other_error"}
Causes == FetchErrors \cup {"none", "deadline", "transient_status", "rejected_status"}

TypeOK ==
  /\ BodyTypeOK
  /\ client \in Clients
  /\ phase \in Phases
  /\ attempts \in 0..MaxAttempts
  /\ timer \in Timers
  /\ status \in Statuses
  /\ outcome \in Outcomes
  /\ cause \in Causes
  /\ retried \subseteq Causes

Init ==
  /\ BodyInit
  /\ client \in Clients
  /\ phase = "idle"
  /\ attempts = 0
  /\ timer = "off"
  /\ status = "none"
  /\ outcome = "none"
  /\ cause = "none"
  /\ retried = {}

-----------------------------------------------------------------------------
ClearTimer == timer' = IF timer = "armed" THEN "off" ELSE timer

Settle(o) ==
  /\ phase' = "settled"
  /\ outcome' = o
  /\ ClearTimer
  /\ UNCHANGED <<client, attempts, status, retried>>

SendRequest ==
  /\ attempts' = attempts + 1
  /\ phase' = "fetching"
  /\ timer' = "armed"
  /\ status' = "none"
  /\ ForgetBody
  /\ UNCHANGED <<client, outcome, cause, retried>>

(* A mutant of MayRetry: the last attempt is counted as made already.       *)
MayRetryShort(c) ==
  /\ client = "judge"
  /\ c \in {"transient_error", "transient_status"}
  /\ attempts < MaxAttempts - 1

MayRetry(c) ==
  /\ client = "judge"
  /\ c \in {"transient_error", "transient_status"}
  /\ attempts < MaxAttempts

(* The continue of the loop; its finally clears the timer.                  *)
Retry(c) ==
  /\ phase' = "retrying"
  /\ retried' = retried \cup {c}
  /\ ClearTimer
  /\ UNCHANGED <<client, attempts, status, outcome>>

(* The first request; a judge without a key sends none.                     *)
Start ==
  /\ phase = "idle"
  /\ \/ SendRequest
     \/ client = "judge" /\ Settle("unavailable") /\ UNCHANGED <<cause, bodyVars>>

Resend == phase = "retrying" /\ SendRequest

(* The fetch rejects: because the deadline aborted it, or for its own       *)
(* reasons.                                                                 *)
FetchFails ==
  /\ phase = "fetching"
  /\ cause' \in IF timer = "fired" THEN {"deadline"} ELSE FetchErrors
  /\ \/ MayRetry(cause') /\ Retry(cause')
     \/ /\ ~MayRetry(cause')
        /\ Settle(IF \/ cause' = "deadline"
                     \/ client = "judge" /\ cause' = "named_timeout"
                  THEN "timeout" ELSE "transport")
  /\ UNCHANGED bodyVars

(* The response arrives; its continuation runs before any timer can.        *)
FetchAnswers ==
  /\ phase = "fetching" /\ timer = "armed"
  /\ phase' = "answered"
  /\ status' \in {"ok", "transient", "rejected"}
  /\ source' \in {"flowing", "none"}
  /\ UNCHANGED <<client, attempts, timer, outcome, cause, retried>>
  /\ UNCHANGED <<sent, read, size, total, stopped, listening, output, delivered>>

(* A success is read by everybody, a failure by the host (nonSuccessCode)   *)
(* and by the relay; the other clients cancel it unread.                    *)
ReadsBody == status = "ok" \/ client \in {"host", "relay"}

ReadAnswer ==
  /\ phase = "answered" /\ ReadsBody
  /\ phase' = "reading"
  /\ IF source = "flowing" THEN OpenRelay ELSE OpenEmpty
  /\ UNCHANGED <<client, attempts, timer, status, outcome, cause, retried>>

(* A mutant of RefuseAnswer: the unread body is left to send.               *)
RefuseAnswerUncancelled ==
  /\ phase = "answered" /\ ~ReadsBody
  /\ UNCHANGED bodyVars
  /\ cause' = IF status = "transient" THEN "transient_status" ELSE "rejected_status"
  /\ \/ MayRetry(cause') /\ Retry(cause')
     \/ ~MayRetry(cause') /\ Settle("transport")

RefuseAnswer ==
  /\ phase = "answered" /\ ~ReadsBody
  /\ CancelSource
  /\ UNCHANGED <<sent, read, size, total, stopped, listening, output, delivered>>
  /\ cause' = IF status = "transient" THEN "transient_status" ELSE "rejected_status"
  /\ \/ MayRetry(cause') /\ Retry(cause')
     \/ ~MayRetry(cause') /\ Settle("transport")

(* What the client makes of a body it could read to its end, and of one it  *)
(* could not: an empty body is no JSON.                                     *)
Parsed ==
  CASE client = "judge" -> {"ok", "invalid", "truncated"}
    [] client = "host" /\ status # "ok" -> {"status", "provider"}
    [] client = "relay" -> {"relayed"}
    [] OTHER -> {"ok", "invalid"}

Unparsed ==
  CASE client \in {"judge", "translator"} /\ timer = "fired" -> "timeout"
    [] client = "host" /\ status # "ok" -> "status"
    [] client = "relay" -> IF output = "closed" THEN "relayed" ELSE "broken"
    [] OTHER -> "invalid"

BodyIsOver == output # "readable" \/ (client = "judge" /\ timer = "fired")

(* json() settles with the relay; the judge also races it against the       *)
(* deadline.                                                                *)
ReadSettles ==
  /\ phase = "reading" /\ BodyIsOver
  /\ \E o \in IF output = "closed" /\ delivered > 0 THEN Parsed ELSE {Unparsed} :
       Settle(o)
  /\ UNCHANGED <<cause, bodyVars>>

(* The deadline: the signal is aborted and its listener, if any, runs.  A   *)
(* timer cannot fire between an answer, or the end of the relay, and the    *)
(* continuation that is then queued as a microtask.                         *)
DeadlineIsDue ==
  /\ timer = "armed"
  /\ phase = "fetching" \/ (phase = "reading" /\ output = "readable")

TimerFires ==
  /\ DeadlineIsDue
  /\ timer' = "fired"
  /\ IF listening THEN Abort ELSE UNCHANGED bodyVars
  /\ UNCHANGED <<client, phase, attempts, status, outcome, cause, retried>>

BodyStep ==
  /\ Source \/ Pull \/ Continue(status)
  /\ UNCHANGED callVars

ConsumerCancels == client = "relay" /\ Cancel /\ UNCHANGED callVars

Next ==
  \/ Start
  \/ Resend
  \/ FetchFails
  \/ FetchAnswers
  \/ ReadAnswer
  \/ RefuseAnswer
  \/ ReadSettles
  \/ TimerFires
  \/ BodyStep
  \/ ConsumerCancels

Spec == Init /\ [][Next]_vars

(* The program's own steps are taken, timers fire, and a fetch that was     *)
(* aborted rejects.  Nothing is assumed of the service: it need not answer, *)
(* send, or stop sending.                                                   *)
Fairness ==
  /\ WF_vars(Start)
  /\ WF_vars(Resend)
  /\ WF_vars(timer = "fired" /\ FetchFails)
  /\ WF_vars(ReadAnswer)
  /\ WF_vars(RefuseAnswer)
  /\ WF_vars(ReadSettles)
  /\ WF_vars(TimerFires)

FairSpec == Spec /\ Fairness

-----------------------------------------------------------------------------
(* What is used of a body is the whole body: a client that got anything out *)
(* of an answer saw the source end, every byte it sent, and no more bytes   *)
(* than the budget of the status; and nothing over that budget reaches a    *)
(* consumer even of an answer that fails later.                             *)
OnlyWholeBodiesAreUsed ==
  /\ delivered <= Budget(status)
  /\ outcome \in {"ok", "truncated", "provider", "relayed"} =>
       source = "ended" /\ output = "closed" /\ delivered = sent

(* Whatever the order in which timer, source and consumer stop an attempt,   *)
(* nothing of it is left when the call is repeated or has ended: no armed    *)
(* timer, no listener on the signal, no source that goes on sending; and a   *)
(* relay its consumer sees as over has let go of its source.                 *)
NothingOutlivesAnAttempt ==
  /\ phase \in {"retrying", "settled"} =>
       timer # "armed" /\ ~listening /\ source # "flowing"
  /\ output \notin {"none", "readable"} => stopped /\ ~listening /\ source # "flowing"

(* What the caller is told is what happened: a failure that no repetition    *)
(* can mend is never repeated, the judge gives up on a transient one only    *)
(* after its last attempt, a deadline that passed is reported as a timeout   *)
(* by the clients that have a name for it while the body is read, and a      *)
(* timeout is reported only for a deadline or for an error that calls itself *)
(* one.  Whether a timeout may be repeated is left open here.                *)
OutcomeNamesItsCause ==
  /\ retried \cap {"other_error", "rejected_status"} = {}
  /\ phase = "settled" =>
       /\ client = "judge" /\ outcome = "transport"
            /\ cause \in {"transient_error", "transient_status"}
            => attempts = MaxAttempts
       /\ client \in {"judge", "translator"} /\ timer = "fired" => outcome = "timeout"
       /\ outcome = "timeout" => timer = "fired" \/ cause = "named_timeout"

(* Every call ends, whatever the service does or leaves undone: silence      *)
(* before the headers, silence in the middle of a body and an endless        *)
(* trickle of empty chunks included.  The relay is left out, its signal and  *)
(* its reading belong to the SDK.                                            *)
EveryCallEnds == client # "relay" => <>(phase = "settled")

=============================================================================
