------------------------------ MODULE Pipeline ------------------------------
(***************************************************************************)
(* LogPipeline.Run (src/internal/pipeline/pipeline.go): a subscription     *)
(* pushes batches of logs into the track channel, the serializer goroutine *)
(* turns them into payloads and enqueues them, the dispatcher ships them,  *)
(* and Run restarts the subscription until it gives up or the context is   *)
(* cancelled; then it cancels its own context and stops the dispatcher.    *)
(*                                                                         *)
(* A log gets its number when whoever received it lets go of it: for the   *)
(* environment subscription that is at once, for the handler of a          *)
(* deployment when the flush loop takes the log or the handler gives up.   *)
(* A batch is a set of logs, and the dispatcher's item for a batch is the  *)
(* number of its last log.  The state of the dispatcher and of the retry   *)
(* loop is that of modules Dispatcher and Retry.                           *)
(***************************************************************************)
EXTENDS Integers, Sequences, FiniteSets

CONSTANTS
  Workers, MaxQueueSize, MaxRetries,  \* of the dispatcher
  TrackSize,        \* capacity of the track channel
  MaxSubscribe,     \* retries of the subscription
  MaxLogs           \* bound: logs received during a run

\* The settings of the dispatcher are those that its config.validate lets pass.
ASSUME PipelineAssumption ==
  /\ Workers # {}
  /\ MaxQueueSize \in Nat \ {0}
  /\ MaxRetries \in Nat
  /\ TrackSize \in Nat \ {0}
  /\ MaxSubscribe \in Nat
  /\ MaxLogs \in Nat

Logs == 1 .. MaxLogs

VARIABLES
  items, offered, late, stale, pc, held, attempt, live, cancelled, stop,
  drainLeft, drainItem, shipped, dropped, attempts,   \* the dispatcher
  phase, tries, verdict,                              \* the retry loop
  buffered,     \* the subscription is http_logs, which batches logs between flushes
  ctxDone,      \* the context given to Run is done
  pipeDone,     \* pipeCtx is done
  waiting,      \* how many logs are with handlers of deployments, for the flush loop to take
  forsaken,     \* the logs given up by handlers of deployments no longer wanted
  received,     \* how many logs have left the handlers, or never were with one
  buffer,       \* httpLogBuffer: logs that wait for the next flush
  pushing,      \* the batch that is being sent to track
  track,        \* the channel
  serializer,   \* the serializer goroutine
  payload,      \* the batch the serializer has turned into a payload
  contents,     \* contents[i]: the logs of the dispatcher's item i
  unserialized, \* logs counted as failed by the serializer
  returned,     \* Run has returned
  arrived       \* how often the receiver has taken each payload

dispatcherVars == <<items, offered, late, stale, pc, held, attempt, live, cancelled,
                    stop, drainLeft, drainItem, shipped, dropped, attempts>>
retryVars      == <<phase, tries, verdict>>
sourceVars     == <<buffered, waiting, forsaken, received, buffer, pushing>>
serializerVars == <<serializer, payload, contents, unserialized>>
otherVars      == <<returned, arrived>>
vars == <<dispatcherVars, retryVars, ctxDone, pipeDone, sourceVars, track, serializerVars, otherVars>>

D == INSTANCE Dispatcher WITH MaxItems <- MaxLogs
R == INSTANCE Retry WITH MaxRetries <- MaxSubscribe, CountTo <- 0, attempt <- tries
W == INSTANCE Webhook WITH Payloads <- Logs

TypeOK ==
  /\ D!TypeOK
  /\ R!TypeOK
  /\ arrived \in [Logs -> Nat]
  /\ buffered \in BOOLEAN
  /\ ctxDone \in BOOLEAN /\ pipeDone \in BOOLEAN /\ returned \in BOOLEAN
  /\ received \in 0 .. MaxLogs /\ waiting \in 0 .. MaxLogs - received
  /\ forsaken \subseteq 1 .. received
  /\ buffer \subseteq Logs /\ pushing \subseteq Logs /\ unserialized \subseteq Logs
  /\ track \in Seq(SUBSET Logs) /\ Len(track) <= TrackSize
  /\ serializer \in {"select", "enqueue", "exited"}
  /\ payload \subseteq Logs
  /\ contents \in [Logs -> SUBSET Logs]

Init ==
  /\ D!Init
  /\ R!Init
  /\ W!Init
  /\ buffered \in BOOLEAN
  /\ ctxDone = FALSE /\ pipeDone = FALSE /\ returned = FALSE
  /\ received = 0 /\ waiting = 0 /\ forsaken = {}
  /\ buffer = {} /\ pushing = {} /\ unserialized = {}
  /\ track = <<>>
  /\ serializer = "select"
  /\ payload = {}
  /\ contents = [i \in Logs |-> {}]

Last(batch) == CHOOSE l \in batch : \A k \in batch : k <= l

-----------------------------------------------------------------------------
(* The subscription: p.subscribe, called by the retry loop.                *)

Subscribed == phase = "call"

\* A message brings one more log, and the cursor moves past it.  The environment
\* subscription sends it to track itself, before it looks at another; in the HTTP
\* subscription the handler of the deployment waits for the flush loop.
Receive ==
  /\ Subscribed
  /\ received + waiting < MaxLogs
  /\ IF buffered
     THEN waiting' = waiting + 1 /\ UNCHANGED <<received, pushing>>
     ELSE /\ pushing = {}
          /\ received' = received + 1
          /\ pushing' = {received + 1}
          /\ UNCHANGED waiting
  /\ UNCHANGED <<dispatcherVars, retryVars, buffered, forsaken, ctxDone, pipeDone, buffer, track,
                 serializerVars, otherVars>>

\* A handler lets go of its log, in one way or the other.
LetGo ==
  /\ Subscribed
  /\ waiting > 0
  /\ waiting' = waiting - 1
  /\ received' = received + 1
  /\ UNCHANGED <<dispatcherVars, retryVars, buffered, ctxDone, pipeDone, pushing, track,
                 serializerVars, otherVars>>

\* The flush loop takes the log.  It takes nothing while it is sending.
HandOver ==
  /\ LetGo
  /\ pushing = {}
  /\ buffer' = buffer \cup {received + 1}
  /\ UNCHANGED forsaken

\* The deployment is no longer wanted, and the context of its handler is done: the
\* handler returns with its log, which is a clean end, and the subscription goes on.
Forsake ==
  /\ LetGo
  /\ forsaken' = forsaken \cup {received + 1}
  /\ UNCHANGED buffer

\* The flush ticker fires and there is something to send.
Flush ==
  /\ Subscribed
  /\ buffer # {} /\ pushing = {}
  /\ pushing' = buffer
  /\ buffer' = {}
  /\ UNCHANGED <<dispatcherVars, retryVars, buffered, waiting, forsaken, received, ctxDone, pipeDone,
                 track, serializerVars, otherVars>>

\* The blocking send to track.
Push ==
  /\ Subscribed
  /\ pushing # {} /\ Len(track) < TrackSize
  /\ track' = Append(track, pushing)
  /\ pushing' = {}
  /\ UNCHANGED <<dispatcherVars, retryVars, buffered, waiting, forsaken, received, ctxDone, pipeDone,
                 buffer, serializerVars, otherVars>>

\* Whatever the subscription, its handlers included, had received and not sent is gone
\* when it returns.
Forget ==
  /\ buffer' = {} /\ pushing' = {}
  /\ waiting' = 0
  /\ received' = received + waiting
  /\ UNCHANGED <<buffered, forsaken>>

\* The subscription fails while its context is live.  What the environment
\* subscription can fail at, it does before it receives anything.
SubscribeFails ==
  /\ buffered \/ pushing = {}
  /\ R!FailRetryable
  /\ Forget
  /\ UNCHANGED <<dispatcherVars, ctxDone, pipeDone, track, serializerVars, otherVars>>

\* The subscription notices that its context is done and returns its error,
\* which Run turns into nil; or it was waiting to resubscribe, and its error does
\* not unwrap to context.Canceled.
SubscribeCancelled ==
  /\ pipeDone
  /\ R!Succeed \/ R!FailRetryable
  /\ Forget
  /\ UNCHANGED <<dispatcherVars, ctxDone, pipeDone, track, serializerVars, otherVars>>

Subscribe ==
  /\ R!Elapse
  /\ UNCHANGED <<dispatcherVars, ctxDone, pipeDone, sourceVars, track, serializerVars, otherVars>>

RetryInterrupted ==
  /\ pipeDone
  /\ R!Interrupt
  /\ UNCHANGED <<dispatcherVars, ctxDone, pipeDone, sourceVars, track, serializerVars, otherVars>>

-----------------------------------------------------------------------------
(* The serializer goroutine.                                               *)

SerializerTake ==
  /\ serializer = "select"
  /\ track # <<>>
  /\ track' = Tail(track)
  /\ UNCHANGED <<dispatcherVars, retryVars, ctxDone, pipeDone, sourceVars, contents, otherVars>>

Serialized ==
  /\ SerializerTake
  /\ payload' = Head(track)
  /\ serializer' = "enqueue"
  /\ UNCHANGED unserialized

\* Mistakes: no `continue' after the error; no count; a return.
SerializeFailedGoesOn ==
  /\ SerializerTake
  /\ unserialized' = unserialized \cup Head(track)
  /\ payload' = Head(track)
  /\ serializer' = "enqueue"

SerializeFailedUncounted ==
  /\ SerializerTake
  /\ UNCHANGED <<unserialized, payload, serializer>>

SerializeFailedReturns ==
  /\ SerializerTake
  /\ unserialized' = unserialized \cup Head(track)
  /\ serializer' = "exited"
  /\ UNCHANGED payload

SerializeFailed ==
  /\ SerializerTake
  /\ unserialized' = unserialized \cup Head(track)
  /\ UNCHANGED <<payload, serializer>>

Enqueue ==
  /\ serializer = "enqueue"
  /\ D!Enqueue(Last(payload))
  /\ contents' = [contents EXCEPT ![Last(payload)] = payload]
  /\ payload' = {}
  /\ serializer' = "select"
  /\ UNCHANGED <<retryVars, ctxDone, pipeDone, sourceVars, track, unserialized, otherVars>>

SerializerExit ==
  /\ serializer = "select"
  /\ pipeDone
  /\ serializer' = "exited"
  /\ UNCHANGED <<dispatcherVars, retryVars, ctxDone, pipeDone, sourceVars, track,
                 payload, contents, unserialized, otherVars>>

SerializerStep == Serialized \/ SerializeFailed \/ Enqueue \/ SerializerExit

-----------------------------------------------------------------------------
(* The contexts, and the deferred calls of Run.                            *)

\* Mistake: pipeCtx is not derived from the context given to Run.
CancelNotPassedOn ==
  /\ ~ctxDone
  /\ ctxDone' = TRUE
  /\ D!ParentCancel \/ (cancelled /\ UNCHANGED dispatcherVars)
  /\ UNCHANGED <<pipeDone, retryVars, sourceVars, track, serializerVars, otherVars>>

\* The context given to Run is cancelled, and with it pipeCtx and d.ctx.
Cancel ==
  /\ ~ctxDone
  /\ ctxDone' = TRUE
  /\ pipeDone' = TRUE
  /\ D!ParentCancel \/ (cancelled /\ UNCHANGED dispatcherVars)
  /\ UNCHANGED <<retryVars, sourceVars, track, serializerVars, otherVars>>

\* RetryBackoff has returned: pipeCancel runs first, dispatcher.Stop after it.
PipeCancel ==
  /\ phase = "done"
  /\ ~pipeDone
  /\ pipeDone' = TRUE
  /\ UNCHANGED <<dispatcherVars, retryVars, ctxDone, sourceVars, track, serializerVars, otherVars>>

Frame == UNCHANGED <<retryVars, ctxDone, pipeDone, sourceVars, track, serializerVars>>

DispatcherStop ==
  /\ phase = "done" /\ pipeDone
  /\ D!StopCancel
  /\ Frame /\ UNCHANGED otherVars

\* Mistake: Run does not wait for Stop.
ReturnEarly ==
  /\ stop # "running" /\ ~returned
  /\ returned' = TRUE
  /\ Frame /\ UNCHANGED <<dispatcherVars, arrived>>

Return ==
  /\ stop = "stopped" /\ ~returned
  /\ returned' = TRUE
  /\ Frame /\ UNCHANGED <<dispatcherVars, arrived>>

Expire == D!Tick /\ Frame /\ UNCHANGED otherVars

\* The dispatch of payload i ends, and its result is what has become of the request.
Dispatched(i, contextLive) == W!SendRawWebhook(i, contextLive, shipped' # shipped)

WorkerStep(w) ==
  /\ D!WorkerStep(w)
  /\ IF pc[w] = "sending" THEN Dispatched(held[w], live[w]) ELSE UNCHANGED arrived
  /\ Frame /\ UNCHANGED returned

StopStep ==
  /\ D!StopStep
  /\ IF drainItem # D!NoItem THEN Dispatched(drainItem, TRUE) ELSE UNCHANGED arrived
  /\ Frame /\ UNCHANGED returned

SubscriptionStep == HandOver \/ Push \/ SubscribeCancelled \/ Subscribe \/ RetryInterrupted

RunStep == PipeCancel \/ DispatcherStop \/ StopStep \/ Return

Next ==
  \/ Receive \/ Forsake \/ Flush \/ SubscribeFails \/ SubscriptionStep
  \/ SerializerStep
  \/ \E w \in Workers : WorkerStep(w)
  \/ Expire \/ Cancel
  \/ RunStep

Spec == Init /\ [][Next]_vars

\* Every goroutine that can run does run, the flush loop takes what is offered and its
\* ticker fires, a subscription returns once its context is done, and the dispatcher is
\* scheduled as in module Dispatcher.  Nothing makes a log arrive, a deployment go or a
\* context be cancelled.
Fairness ==
  /\ WF_vars(Flush)
  /\ WF_vars(SubscriptionStep)
  /\ WF_vars(SerializerStep)
  /\ WF_vars(RunStep)
  /\ \A w \in Workers : WF_vars(WorkerStep(w))

FairSpec == Spec /\ Fairness

-----------------------------------------------------------------------------
(* What has become of a log.                                               *)

InFlight(l) ==
  \/ l \in buffer \cup pushing \cup payload
  \/ \E k \in DOMAIN track : l \in track[k]
  \/ \E i \in offered : l \in contents[i] /\ D!Pending(i)

Processed(l) == \E i \in offered : l \in contents[i] /\ shipped[i] > 0
Failed(l)    == l \in unserialized \/ \E i \in offered : l \in contents[i] /\ dropped[i] > 0
Lost(l)      == l <= received /\ ~InFlight(l) /\ ~Processed(l) /\ ~Failed(l)

\* A received log is in one place or has one outcome, never two: no log is both
\* processed and failed, or counted while it is still on its way.
OneFate ==
  \A l \in 1 .. received :
    /\ ~(InFlight(l) /\ (Processed(l) \/ Failed(l)))
    /\ ~(Processed(l) /\ Failed(l))
    /\ \A i, j \in offered : l \in contents[i] \cap contents[j] => i = j

\* What counts as processed has been received, and nothing is received more often
\* than it was dispatched, be it in the end processed, failed or lost.
ProcessedWasReceived ==
  \A i \in offered : (shipped[i] > 0 => arrived[i] > 0) /\ arrived[i] <= attempts[i]

\* While the pipeline's context is live, a log is lost only when a buffering
\* subscription fails, or when its deployment goes before the flush loop takes it.
LossHasACause ==
  \A l \in Logs : Lost(l) =>
    \/ pipeDone
    \/ l \in forsaken
    \/ buffered /\ tries + (IF verdict = "exhausted" THEN 1 ELSE 0) > 0

-----------------------------------------------------------------------------
(* The delays of the retry loop, in milliseconds, with the numbers that    *)
(* Run passes to it.                                                       *)

InitialBackoff == 1000
MaxBackoff     == 30000
LastAttempt    == 10
Draws          == 0 .. 99

Nominal(n)     == R!CalculateBackoff(n, InitialBackoff, MaxBackoff, 2)
Delay(n, draw) == R!ApplyJitter(Nominal(n), 50, MaxBackoff, draw)

\* The attempts whose delay is neither above the ceiling, whatever the jitter, nor below
\* half of what it would be without it, nor, with the same draw, longer than the next.
InBounds ==
  {n \in 0 .. LastAttempt : \A draw \in Draws :
     /\ Delay(n, draw) <= MaxBackoff
     /\ 2 * Delay(n, draw) >= Nominal(n)
     /\ Delay(n, draw) <= Delay(n + 1, draw)}

\* From any wait on, every delay is in bounds.
DelayInBounds == phase = "wait" => tries .. LastAttempt \subseteq InBounds

-----------------------------------------------------------------------------
\* After its context is cancelled, Run returns.
RunReturns == ctxDone ~> returned

\* A log that is received, be it still with its handler, is counted in the end, unless
\* its deployment goes first, the pipeline is told to stop or a buffering subscription
\* fails.
LogsAreCounted ==
  \A l \in Logs :
    (l <= received + waiting) ~>
      (Processed(l) \/ Failed(l) \/ l \in forsaken \/ pipeDone \/ (buffered /\ tries > 0))

-----------------------------------------------------------------------------
(* What the process sees of the pipeline.                                  *)

Place ==
  IF returned                              THEN "returned"
  ELSE IF stop \in {"draining", "stopped"} THEN "draining"
  ELSE IF phase = "done"                   THEN "stopping"
  ELSE                                          "running"

Result ==
  IF Place = "running"     THEN "none"
  ELSE IF verdict = "nil"  THEN "nil"
  ELSE                          "error"

Backlog == {i \in offered \ late : D!Pending(i)}

P == INSTANCE PipelinePromise WITH
       Pipelines <- {"Run"}, Patience <- MaxSubscribe, MaxPayloads <- MaxLogs,
       at        <- [p \in {"Run"} |-> Place],
       result    <- [p \in {"Run"} |-> Result],
       failures  <- [p \in {"Run"} |-> tries],
       backlog   <- [p \in {"Run"} |-> Cardinality(Backlog)],
       processed <- [p \in {"Run"} |-> Cardinality({i \in offered : shipped[i] > 0})],
       cancelled <- ctxDone

\* Run keeps to what the process relies on: it ends its retry loop only when its context
\* is done or its patience is, says nil only in the former case, and returns only when
\* all that the dispatcher had before its drain is settled.
ImplementsPromise == P!Spec

-----------------------------------------------------------------------------
\* "Failed counts log entries received from Railway but never shipped": as long
\* as the pipeline runs, a received log is on its way, processed, or failed.
FailedCountsUnshipped == \A l \in Logs : Lost(l) => pipeDone
=============================================================================
