------------------------------ MODULE LogCursor ------------------------------
(***************************************************************************)
(* Which logs of a stream are forwarded: the cursor of                     *)
(* environment_logs.SubscribeToServiceLogs and of http_logs.gethttpLogs.   *)
(* The backend streams the logs whose timestamp is after the position it   *)
(* is asked for; the handler drops what is not after its cursor, advances  *)
(* the cursor and sends the rest to its channel; a stream that ends is     *)
(* resubscribed from the cursor.                                           *)
(*                                                                         *)
(* The backend is external.  Logs are numbered in the order in which it    *)
(* hands them out, also when it hands them out again; their timestamps     *)
(* need not follow that order.                                             *)
(***************************************************************************)
EXTENDS Integers

CONSTANTS
  MaxLogs,    \* bound: logs in the backend
  MaxTime     \* bound: the clock

ASSUME LogCursorAssumption ==
  MaxLogs \in Nat /\ MaxTime \in Nat

Logs == 1 .. MaxLogs

VARIABLES
  http,       \* the HTTP logs of a deployment, not the logs of a service
  now,        \* the clock
  count,      \* logs in the backend
  ts,         \* ts[l]: the timestamp of log l
  noise,      \* container logs and empty logs
  running,    \* the subscribe function runs
  floor,      \* when it started: LogTime at first, initTime
  cursor,     \* LogTime, logTimes
  asked,      \* beforeDate of the current stream
  pos,        \* the last log the current stream has handed out
  sending,    \* logs that wait for room in the channel
  forwarded,  \* logs sent to the channel since the cursor was set up
  skipped,    \* logs dropped by the cursor since it was set up
  sent,       \* sent[l]: how often log l was sent to the channel
  readds      \* how often the deployment has come back

backend == <<http, now, count, ts, noise>>
stream  == <<asked, pos>>
history == <<forwarded, skipped>>
vars == <<backend, running, floor, cursor, stream, sending, history, sent, readds>>

TypeOK ==
  /\ http \in BOOLEAN
  /\ now \in 0 .. MaxTime /\ count \in 0 .. MaxLogs
  /\ ts \in [Logs -> 0 .. MaxTime] /\ noise \subseteq Logs
  /\ running \in BOOLEAN
  /\ floor \in 0 .. MaxTime /\ cursor \in 0 .. MaxTime /\ asked \in 0 .. MaxTime
  /\ pos \in 0 .. count
  /\ sending \subseteq Logs /\ forwarded \subseteq Logs /\ skipped \subseteq Logs
  /\ sent \in [Logs -> 0 .. 2]
  /\ readds \in 0 .. 1

Init ==
  /\ http \in BOOLEAN
  /\ now = 0 /\ count = 0
  /\ ts = [l \in Logs |-> 0] /\ noise = {}
  /\ running = FALSE
  /\ floor = 0 /\ cursor = 0 /\ asked = 0 /\ pos = 0
  /\ sending = {} /\ forwarded = {} /\ skipped = {}
  /\ sent = [l \in Logs |-> 0]
  /\ readds = 0

-----------------------------------------------------------------------------
(* The backend.                                                            *)

Tick ==
  /\ now < MaxTime
  /\ now' = now + 1
  /\ UNCHANGED <<http, count, ts, noise, running, floor, cursor, stream, sending, history, sent, readds>>

Emit ==
  /\ count < MaxLogs /\ now > 0
  /\ count' = count + 1
  /\ \E t \in 1 .. now :
       ts' = [ts EXCEPT ![count + 1] = t]
  /\ \/ UNCHANGED noise
     \/ ~http /\ noise' = noise \cup {count + 1}
  /\ UNCHANGED <<http, now, running, floor, cursor, stream, sending, history, sent, readds>>

-----------------------------------------------------------------------------
(* The subscribe function.                                                 *)

\* The first subscription asks from the start, or from 24 hours before.
StartFrom(time) == IF http THEN 0 ELSE time

SetCursor(c) ==
  /\ cursor' = c
  /\ asked' = c
  /\ pos' = 0
  /\ forwarded' = {} /\ skipped' = {}

\* The pipeline starts the subscription, after a backoff during which time passes.
Subscribe ==
  /\ ~running /\ now < MaxTime
  /\ now' = now + 1
  /\ running' = TRUE
  /\ floor' = now + 1
  /\ SetCursor(StartFrom(now + 1))
  /\ UNCHANGED <<http, count, ts, noise, sending, sent, readds>>

\* The stream has ended: the payload is built anew, from the cursor.
Resubscribe ==
  /\ running /\ sending = {}
  /\ asked' = cursor
  /\ pos' = 0
  /\ UNCHANGED <<backend, running, floor, cursor, sending, history, sent, readds>>

\* Mistake: a batch is compared with the cursor it found.
KeptByBatch(batch) ==
  {l \in batch \ noise : ts[l] > cursor /\ (http => ts[l] >= floor)}

\* What the loop of the handler keeps of a batch: the cursor is the latest of
\* where it stood and of the logs kept before.
Kept(batch) ==
  {l \in batch \ noise :
     /\ ts[l] > cursor
     /\ http => ts[l] >= floor
     /\ \A k \in batch \ noise : k < l => ts[k] < ts[l]}

\* Mistake: the cursor is the time of the read.
AdvancedToNow(kept) == IF kept = {} THEN cursor ELSE now

Advanced(kept) ==
  IF kept = {} THEN cursor
  ELSE CHOOSE t \in {ts[l] : l \in kept} : \A l \in kept : ts[l] <= t

\* A message of the stream: the logs after the position asked for, up to some log.
Batch(last) == {l \in pos + 1 .. last : ts[l] > asked}

Deliver(last) ==
  /\ running /\ sending = {}
  /\ Batch(last) # {}
  /\ pos' = last
  /\ LET kept == Kept(Batch(last))
     IN /\ sending' = kept
        /\ cursor' = Advanced(kept)
        /\ skipped' = skipped \cup (Batch(last) \ (kept \cup noise))
  /\ UNCHANGED <<backend, running, floor, asked, forwarded, sent, readds>>

\* The channel takes the batch.
Push ==
  /\ sending # {}
  /\ sent' = [l \in Logs |-> IF l \in sending THEN sent[l] + 1 ELSE sent[l]]
  /\ forwarded' = forwarded \cup sending
  /\ sending' = {}
  /\ UNCHANGED <<backend, running, floor, cursor, stream, skipped, readds>>

\* The subscribe function returns an error: for the HTTP logs, also that of a log
\* without a timestamp, or of another deployment.
Fail ==
  /\ running
  /\ sending = {} \/ http
  /\ running' = FALSE
  /\ sending' = {}
  /\ UNCHANGED <<backend, floor, cursor, stream, history, sent, readds>>

\* The deployment leaves the tailed ones and comes back: gethttpLogs starts anew,
\* under the initTime of before.
Readd ==
  /\ http /\ running /\ readds = 0
  /\ readds' = 1
  /\ SetCursor(StartFrom(now))
  /\ sending' = {}
  /\ UNCHANGED <<backend, running, floor, sent>>

Next ==
  \/ Tick \/ Emit
  \/ Subscribe \/ Resubscribe \/ Push \/ Fail \/ Readd
  \/ \E last \in pos + 1 .. count : Deliver(last)

Spec == Init /\ [][Next]_vars

\* The backend does not end every stream before it has delivered what it has, and
\* the channel has room in the end.
Fairness ==
  /\ SF_vars(Deliver(count))
  /\ WF_vars(Push)

FairSpec == Spec /\ Fairness

-----------------------------------------------------------------------------
(* Safety, whatever the order of the timestamps.                           *)

\* The channel receives the logs in the order of their timestamps, from one run of the
\* subscribe function to the next, and so none twice, however often the stream or the
\* subscription starts anew; a deployment that comes back gets each log once more at most.
SentInOrder ==
  [][\A l \in Logs :
       sent'[l] > sent[l] =>
         /\ sent[l] <= readds
         /\ readds = 0 =>
              \A k \in Logs : sent[k] > 0 \/ (k < l /\ sent'[k] > sent[k]) => ts[k] < ts[l]]_vars

-----------------------------------------------------------------------------
\* A log emitted while the subscription runs, and younger than all before it, is
\* forwarded, unless the subscription fails.
EveryLogForwarded ==
  \A l \in Logs :
    (/\ running /\ l <= count /\ l \notin noise /\ ts[l] > floor
     /\ \A k \in 1 .. l - 1 : ts[k] < ts[l])
       ~> (sent[l] > 0 \/ ~running)

-----------------------------------------------------------------------------
\* "on first subscription skip logs if they were logged before the first
\* subscription, on resubscription skip logs if they were already processed":
\* there is no other reason to skip a log.
SkippedOnlyIfProcessed ==
  \A l \in skipped : ts[l] <= floor \/ l \in forwarded
=============================================================================
