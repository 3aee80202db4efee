---------------------------- MODULE BoundedBody ----------------------------
(***************************************************************************)
(* One upstream response body read through the byte budget of              *)
(* src/src/transport/response-body.ts.  Three parties act on the relay     *)
(* stream that boundedResponse puts in front of the source: its consumer    *)
(* pulls or cancels it, the source answers the read that a pull left        *)
(* pending, and the abort listener stops it.  Everything after an await is  *)
(* a step of its own (Continue), so any of them may come in between.        *)
(*                                                                         *)
(* The module has no specification: UpstreamCall composes its steps with    *)
(* the calls that own the response.  Bytes are counted, never looked at.    *)
(***************************************************************************)
EXTENDS Naturals

CONSTANTS
  Chunks,        (* the sizes of the chunks a source may deliver            *)
  MaxResponse,   (* MAX_UPSTREAM_RESPONSE_BYTES                             *)
  MaxError       (* MAX_UPSTREAM_ERROR_BYTES                                *)

ASSUME BudgetAssumption ==
  /\ Chunks \subseteq Nat
  /\ MaxResponse \in Nat
  /\ MaxError \in Nat

VARIABLES
  source,     (* response.body: none yet, flowing, or how it stopped        *)
  sent,       (* bytes the source has handed over, the refused chunk too    *)
  read,       (* the reader.read() of the pull under way, and its result    *)
  size,       (* bytes of the chunk that read resolved with                 *)
  total,      (* the code's count of the bytes relayed                      *)
  stopped,    (* the code's flag: reader released, listener removed         *)
  listening,  (* the abort listener is registered on the signal             *)
  output,     (* the relay stream as its consumer sees it                   *)
  delivered   (* bytes enqueued for the consumer                            *)

bodyVars ==
  <<source, sent, read, size, total, stopped, listening, output, delivered>>

SourceStates == {"none", "flowing", "ended", "failed", "cancelled"}
ReadStates == {"idle", "waiting", "chunk", "garbage", "done", "failed"}
OutputStates ==
  {"none", "readable", "closed", "aborted", "overflowed", "broken", "cancelled"}

BodyTypeOK ==
  /\ source \in SourceStates
  /\ sent \in Nat
  /\ read \in ReadStates
  /\ size \in Nat
  /\ total \in Nat
  /\ stopped \in BOOLEAN
  /\ listening \in BOOLEAN
  /\ output \in OutputStates
  /\ delivered \in Nat

(* responseByteBudget; "ok" stands for the statuses 200 to 299. *)
Budget(status) == IF status = "ok" THEN MaxResponse ELSE MaxError

(* No response yet: the state in which a request is sent. *)
BodyInit ==
  /\ source = "none" /\ sent = 0 /\ read = "idle" /\ size = 0 /\ total = 0
  /\ stopped = TRUE /\ listening = FALSE /\ output = "none" /\ delivered = 0

ForgetBody ==
  /\ source' = "none" /\ sent' = 0 /\ read' = "idle" /\ size' = 0 /\ total' = 0
  /\ stopped' = TRUE /\ listening' = FALSE /\ output' = "none" /\ delivered' = 0

-----------------------------------------------------------------------------
(* The source: what a pending read resolves with.                          *)

SourceSends ==
  /\ source = "flowing" /\ read = "waiting"
  /\ \E n \in Chunks : size' = n /\ sent' = sent + n
  /\ read' = "chunk"
  /\ UNCHANGED <<source, total, stopped, listening, output, delivered>>

(* A chunk that is not a byte array. *)
SourceSendsGarbage ==
  /\ source = "flowing" /\ read = "waiting"
  /\ read' = "garbage"
  /\ UNCHANGED <<source, sent, size, total, stopped, listening, output, delivered>>

SourceEnds ==
  /\ source = "flowing" /\ read = "waiting"
  /\ source' = "ended"
  /\ read' = "done"
  /\ UNCHANGED <<sent, size, total, stopped, listening, output, delivered>>

SourceFails ==
  /\ source = "flowing" /\ read = "waiting"
  /\ source' = "failed"
  /\ read' = "failed"
  /\ UNCHANGED <<sent, size, total, stopped, listening, output, delivered>>

Source == SourceSends \/ SourceSendsGarbage \/ SourceEnds \/ SourceFails

-----------------------------------------------------------------------------
(* cancelResponseBody, and reader.cancel() inside stop: a source that has  *)
(* stopped by itself is left as it is.                                     *)
CancelSource == source' = IF source = "flowing" THEN "cancelled" ELSE source

(* The function stop; a read that is still pending when the lock is        *)
(* released is rejected.                                                   *)
Stop(cancel) ==
  /\ stopped' = TRUE
  /\ listening' = FALSE
  /\ IF cancel THEN CancelSource ELSE UNCHANGED source

ReleaseRead == read' = IF read = "waiting" THEN "failed" ELSE read

(* boundedResponse on a response with a body. *)
OpenRelay ==
  /\ stopped' = FALSE
  /\ listening' = TRUE
  /\ output' = "readable"
  /\ UNCHANGED <<source, sent, read, size, total, delivered>>

(* boundedResponse on a response whose body is null: a relay that is over. *)
OpenEmpty ==
  /\ output' = "closed"
  /\ source' = "ended"
  /\ UNCHANGED <<sent, read, size, total, stopped, listening, delivered>>

(* The consumer asks for more; with a highWaterMark of 0 nothing else does. *)
Pull ==
  /\ output = "readable" /\ read = "idle"
  /\ read' = "waiting"
  /\ UNCHANGED <<source, sent, size, total, stopped, listening, output, delivered>>

(* A mutant of Relay: the bytes relayed are not counted.                    *)
RelayUncounted(status) ==
  /\ ~stopped /\ read = "chunk" /\ size <= Budget(status) - total
  /\ delivered' = delivered + size
  /\ UNCHANGED <<source, total, stopped, listening, output>>

(* The continuation of pull after its await, for a chunk within budget.     *)
Relay(status) ==
  /\ ~stopped /\ read = "chunk" /\ size <= Budget(status) - total
  /\ total' = total + size
  /\ delivered' = delivered + size
  /\ UNCHANGED <<source, stopped, listening, output>>

(* ... at the end of the source. *)
Close ==
  /\ ~stopped /\ read = "done"
  /\ Stop(FALSE)
  /\ output' = "closed"
  /\ UNCHANGED <<total, delivered>>

(* ... for a chunk over budget, one that is no byte array, a failed read.   *)
Refuse(status) ==
  /\ ~stopped
  /\ \/ read \in {"failed", "garbage"} /\ output' = "broken"
     \/ read = "chunk" /\ size > Budget(status) - total /\ output' = "overflowed"
  /\ Stop(TRUE)
  /\ UNCHANGED <<total, delivered>>

(* ... when the stream was stopped during the await. *)
TooLate == stopped /\ UNCHANGED <<source, total, stopped, listening, output, delivered>>

Continue(status) ==
  /\ read \notin {"idle", "waiting"}
  /\ read' = "idle"
  /\ Relay(status) \/ Close \/ Refuse(status) \/ TooLate
  /\ UNCHANGED <<sent, size>>

(* A mutant of Abort: the relay is stopped, its consumer is not told.       *)
AbortSilently ==
  /\ Stop(TRUE)
  /\ ReleaseRead
  /\ UNCHANGED <<sent, size, total, output, delivered>>

(* The abort listener. *)
Abort ==
  /\ Stop(TRUE)
  /\ ReleaseRead
  /\ output' = "aborted"
  /\ UNCHANGED <<sent, size, total, delivered>>

(* The consumer gives the relay up. *)
Cancel ==
  /\ output = "readable"
  /\ Stop(TRUE)
  /\ ReleaseRead
  /\ output' = "cancelled"
  /\ UNCHANGED <<sent, size, total, delivered>>
=============================================================================
