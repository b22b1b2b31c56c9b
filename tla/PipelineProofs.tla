--------------------------- MODULE PipelineProofs ---------------------------
(***************************************************************************)
(* Safety of the pipeline, for every number of workers, retries and logs   *)
(* and every size of the two channels.                                     *)
(*                                                                         *)
(* The dispatcher keeps the invariant of module DispatcherProofs, whose    *)
(* lemmas are used here step by step.  What the pipeline adds is the order *)
(* of the logs on their way: those behind the serializer are older than    *)
(* its payload, that than the batches in the track channel, and those than *)
(* what the subscription holds (OrderInv).  It keeps the payloads apart    *)
(* from one another and from what the serializer has failed (ContentsInv). *)
(* That a receiver has taken what counts as processed needs to know that a *)
(* dispatch in flight has yet to be answered (ArrivedInv), and that        *)
(* nothing is lost without a cause, how far Run has come (RunInv).         *)
(***************************************************************************)
EXTENDS Pipeline, FiniteSetTheorems, WellFoundedInduction, TLAPS

DP == INSTANCE DispatcherProofs WITH MaxItems <- MaxLogs

-----------------------------------------------------------------------------
(* The inductive invariant.                                                *)

\* The types of what the dispatcher does not own.
OwnTypes ==
  /\ R!TypeOK
  /\ arrived \in [Logs -> Nat]
  /\ buffered \in BOOLEAN
  /\ ctxDone \in BOOLEAN /\ pipeDone \in BOOLEAN /\ returned \in BOOLEAN
  /\ received \in 0 .. MaxLogs /\ waiting \in 0 .. MaxLogs - received
  /\ forsaken \subseteq 1 .. received
  /\ buffered \/ waiting = 0
  /\ buffer \subseteq Logs /\ pushing \subseteq Logs /\ unserialized \subseteq Logs
  /\ track \in Seq(SUBSET Logs) /\ Len(track) <= TrackSize
  /\ serializer \in {"select", "enqueue", "exited"}
  /\ payload \subseteq Logs
  /\ contents \in [Logs -> SUBSET Logs]

\* The log has left the serializer, for the dispatcher or as a failure.
Past(l) == l \in unserialized \/ \E i \in offered : l \in contents[i]

\* The log is with the serializer or before it.
Coming(l) ==
  \/ l \in payload \/ l \in pushing \/ l \in buffer
  \/ \E k \in 1 .. Len(track) : l \in track[k]

Held(l) == l \in pushing \/ l \in buffer

OrderInv ==
  /\ \A l, m \in Logs : Past(l) /\ Coming(m) => l < m
  /\ \A l \in payload : \A k \in 1 .. Len(track) : \A m \in track[k] : l < m
  /\ \A l \in payload : \A m \in Logs : Held(m) => l < m
  /\ \A j, k \in 1 .. Len(track) : j < k => \A l \in track[j], m \in track[k] : l < m
  /\ \A k \in 1 .. Len(track) : \A l \in track[k] : \A m \in Logs : Held(m) => l < m
  /\ pushing = {} \/ buffer = {}
  /\ \A l \in Logs : Past(l) \/ Coming(l) => l <= received

ContentsInv ==
  /\ \A i \in offered : i \in contents[i] /\ contents[i] \cap unserialized = {}
  /\ \A i, j \in offered : i < j => \A l \in contents[i], m \in contents[j] : l < m

SerializerInv ==
  /\ payload # {} <=> serializer = "enqueue"
  /\ \A k \in 1 .. Len(track) : track[k] # {}
  /\ buffered \/ buffer = {}

ArrivedInv ==
  /\ \A i \in Logs : arrived[i] <= attempts[i] /\ (shipped[i] > 0 => arrived[i] > 0)
  /\ \A w \in Workers : pc[w] = "sending" => arrived[held[w]] < attempts[held[w]]
  /\ drainItem # DP!NoItem => arrived[drainItem] < attempts[drainItem]

RunInv ==
  /\ ctxDone \/ cancelled => pipeDone
  /\ pipeDone => ctxDone \/ phase = "done"
  /\ stop # "running" => phase = "done" /\ pipeDone
  /\ returned => stop = "stopped"
  /\ phase = "done" <=> verdict # "none"
  /\ verdict \in {"none", "nil", "cancelled", "exhausted"}
  /\ verdict \in {"nil", "cancelled"} => ctxDone
  /\ verdict = "exhausted" => tries = MaxSubscribe

\* A buffering subscription has failed, or the pipeline is at its end.
Cause == pipeDone \/ (buffered /\ (tries > 0 \/ verdict = "exhausted"))

LossInv == Cause \/ \A l \in 1 .. received : Past(l) \/ Coming(l) \/ l \in forsaken

IInv ==
  /\ DP!IInv
  /\ OwnTypes
  /\ OrderInv
  /\ ContentsInv
  /\ SerializerInv
  /\ ArrivedInv
  /\ RunInv
  /\ LossInv

-----------------------------------------------------------------------------
(* The dispatcher of Pipeline is that of the proofs.                       *)

\* The two instances agree on the state,
LEMMA SameState ==
  /\ D!TypeOK <=> DP!TypeOK
  /\ D!Init <=> DP!Init
  /\ \A i : D!Pending(i) <=> DP!Pending(i)
  /\ D!NoItem = DP!NoItem
<1>1. D!TypeOK <=> DP!TypeOK
  BY DEF D!TypeOK, DP!TypeOK, D!Items, DP!Items, D!NoItem, DP!NoItem
<1>2. D!Init <=> DP!Init
  BY DEF D!Init, DP!Init, D!Items, DP!Items, D!NoItem, DP!NoItem
<1>3. \A i : D!Pending(i) <=> DP!Pending(i)
  BY DEF D!Pending, DP!Pending, D!Queued, DP!Queued, D!HeldBy, DP!HeldBy
<1>4. D!NoItem = DP!NoItem
  BY DEF D!NoItem, DP!NoItem
<1> QED
  BY <1>1, <1>2, <1>3, <1>4

\* on Enqueue,
LEMMA SameEnqueue ==
  ASSUME NEW i
  PROVE  (D!Accept(i) <=> DP!Accept(i)) /\ (D!Reject(i) <=> DP!Reject(i))
  BY DEF D!Accept, D!Reject, D!Handed, D!HasRoom, D!DrainCounted, D!NoCallback, D!OnDrop,
     D!workerVars, D!stopVars, DP!Accept, DP!Reject, DP!Handed, DP!HasRoom,
     DP!DrainCounted, DP!NoCallback, DP!OnDrop, DP!workerVars, DP!stopVars

\* on time,
LEMMA SameTick == D!Tick <=> DP!Tick
  BY DEF D!Tick, D!queueVars, D!workerVars, D!stopVars, D!tallyVars,
     DP!Tick, DP!queueVars, DP!workerVars, DP!stopVars, DP!tallyVars

\* on the two ways to cancel,
LEMMA SameCancel ==
  (D!ParentCancel <=> DP!ParentCancel) /\ (D!StopCancel <=> DP!StopCancel)
<1>1. D!ParentCancel <=> DP!ParentCancel
  BY DEF D!ParentCancel, D!queueVars, D!workerVars, D!stopVars, D!tallyVars,
     DP!ParentCancel, DP!queueVars, DP!workerVars, DP!stopVars, DP!tallyVars
<1>2. D!StopCancel <=> DP!StopCancel
  BY DEF D!StopCancel, D!queueVars, D!workerVars, D!stopVars, D!tallyVars,
     DP!StopCancel, DP!queueVars, DP!workerVars, DP!stopVars, DP!tallyVars
<1> QED
  BY <1>1, <1>2

\* on the steps of a worker,
LEMMA SameWorkerStep == ASSUME NEW w, D!WorkerStep(w) PROVE DP!WorkerStep(w)
  BY DEF D!WorkerStep, D!Take, D!Exit, D!DropExpired, D!Send, D!SendOk, D!SendFail,
     D!DropExhausted, D!BackoffElapsed, D!BackoffCancelled, D!MoveTo, D!Return, D!OnDrop,
     D!OnSuccess, D!CountDispatch, D!NoCallback, D!Expired, D!CanRetry, D!queueVars,
     D!stopVars, D!tallyVars, D!NoItem,
     DP!WorkerStep, DP!Take, DP!Exit, DP!DropExpired, DP!Send, DP!SendOk, DP!SendFail,
     DP!DropExhausted, DP!BackoffElapsed, DP!BackoffCancelled, DP!MoveTo, DP!Return,
     DP!OnDrop, DP!OnSuccess, DP!CountDispatch, DP!NoCallback, DP!Expired, DP!CanRetry,
     DP!queueVars, DP!stopVars, DP!tallyVars, DP!NoItem

\* and on those of Stop.
LEMMA SameStopStep == ASSUME D!StopStep PROVE DP!StopStep
  BY DEF D!StopStep, D!StopWait, D!DrainReceive, D!DrainDropExpired, D!DrainSend,
     D!DrainResult, D!StopReturn, D!AllExited, D!OnDrop, D!OnSuccess, D!CountDispatch,
     D!NoCallback, D!Expired, D!queueVars, D!workerVars, D!tallyVars, D!NoItem,
     DP!StopStep, DP!StopWait, DP!DrainReceive, DP!DrainDropExpired, DP!DrainSend,
     DP!DrainResult, DP!StopReturn, DP!AllExited, DP!OnDrop, DP!OnSuccess,
     DP!CountDispatch, DP!NoCallback, DP!Expired, DP!queueVars, DP!workerVars,
     DP!tallyVars, DP!NoItem

\* What NewDispatcher has validated, and the bounds.
LEMMA Config ==
  /\ DP!ValidConfig
  /\ MaxQueueSize \in Nat /\ MaxRetries \in Nat
  /\ TrackSize \in Nat /\ TrackSize > 0
  /\ MaxSubscribe \in Nat
  /\ MaxLogs \in Nat
  BY PipelineAssumption DEF DP!ValidConfig

-----------------------------------------------------------------------------
(* The dispatcher's steps, inside the pipeline.                            *)

\* The serializer's Enqueue keeps the dispatcher's invariant, with the last log of a
\* payload for its item.
LEMMA EnqueueDispatcher ==
  ASSUME DP!IInv, NEW i \in Logs, D!Enqueue(i)
  PROVE  DP!IInv'
<1>1. i \in DP!Items
  BY DEF DP!Items, Logs
<1>2. DP!Accept(i) \/ DP!Reject(i)
  BY SameEnqueue DEF D!Enqueue
<1> QED
  BY <1>1, <1>2, Config, DP!AcceptIInv, DP!RejectIInv

\* So does the time that passes,
LEMMA TickDispatcher ==
  ASSUME DP!IInv, D!Tick
  PROVE  DP!IInv'
  BY Config, SameTick, DP!TickIInv

\* the end of its context,
LEMMA CancelDispatcher ==
  ASSUME DP!IInv, D!ParentCancel \/ D!StopCancel
  PROVE  DP!IInv'
  BY Config, SameCancel, DP!ParentCancelIInv, DP!StopCancelIInv

\* a step of a worker,
LEMMA WorkerDispatcher ==
  ASSUME DP!IInv, NEW w \in Workers, D!WorkerStep(w)
  PROVE  DP!IInv'
<1>1. DP!WorkerStep(w)
  BY SameWorkerStep
<1> QED
  BY <1>1, Config, DP!NextIInv DEF DP!Next

\* a step of Stop or of the drain,
LEMMA StopDispatcher ==
  ASSUME DP!IInv, D!StopStep
  PROVE  DP!IInv'
<1>1. DP!StopStep
  BY SameStopStep
<1> QED
  BY <1>1, Config, DP!NextIInv DEF DP!Next

\* and whatever leaves the dispatcher alone.
LEMMA StutterDispatcher ==
  ASSUME DP!IInv, UNCHANGED dispatcherVars
  PROVE  DP!IInv'
<1>1. UNCHANGED DP!vars
  BY DEF dispatcherVars, DP!vars, DP!queueVars, DP!workerVars, DP!stopVars, DP!tallyVars
<1> QED
  BY <1>1, Config, DP!StutterIInv

\* The pipeline's items are the dispatcher's.
LEMMA DispatcherTypes ==
  ASSUME DP!IInv
  PROVE  /\ DP!TypeOK
         /\ offered \subseteq Logs
         /\ shipped \in [Logs -> Nat] /\ dropped \in [Logs -> Nat] /\ attempts \in [Logs -> Nat]
         /\ \A w \in Workers : held[w] # DP!NoItem => held[w] \in Logs
         /\ drainItem # DP!NoItem => drainItem \in Logs
  BY DEF DP!IInv, DP!TypeOK, DP!Items, Logs

-----------------------------------------------------------------------------
(* Steps that leave a part of the state alone.                             *)

flowVars == <<offered, contents, unserialized, payload, track, pushing, buffer, received,
              forsaken, serializer, buffered>>

\* A step that moves no log keeps their order, the payloads and where the logs are.
LEMMA FlowStutter ==
  ASSUME IInv, UNCHANGED flowVars
  PROVE  /\ OrderInv' /\ ContentsInv' /\ SerializerInv'
         /\ \A l : (Past(l)' <=> Past(l)) /\ (Coming(l)' <=> Coming(l))
<1>1. \A l : (Past(l)' <=> Past(l)) /\ (Coming(l)' <=> Coming(l)) /\ (Held(l)' <=> Held(l))
  BY DEF flowVars, Past, Coming, Held
<1>2. OrderInv'
  BY <1>1 DEF flowVars, IInv, OrderInv
<1>3. ContentsInv' /\ SerializerInv'
  BY DEF flowVars, IInv, ContentsInv, SerializerInv
<1> QED
  BY <1>1, <1>2, <1>3

\* A step that neither dispatches nor answers keeps what the receiver has.
LEMMA ArrivedStutter ==
  ASSUME IInv, UNCHANGED <<arrived, attempts, shipped, pc, held, drainItem>>
  PROVE  ArrivedInv'
  BY DEF IInv, ArrivedInv, DP!NoItem

\* A step that is not one of Run keeps how far it has come.
LEMMA RunStutter ==
  ASSUME IInv, UNCHANGED <<ctxDone, cancelled, pipeDone, stop, returned, retryVars>>
  PROVE  RunInv'
  BY DEF IInv, RunInv, retryVars

\* A step of the subscription or of the serializer that lets nothing go.
LEMMA NothingLost ==
  ASSUME IInv, UNCHANGED <<pipeDone, buffered, forsaken, received, retryVars>>,
         \A l \in Logs : Past(l) \/ Coming(l) => Past(l)' \/ Coming(l)'
  PROVE  LossInv'
<1>1. Cause' <=> Cause
  BY DEF Cause, retryVars
<1>2. received' = received /\ received \in 0 .. MaxLogs
  BY DEF IInv, OwnTypes
<1>3. \A l \in 1 .. received : l \in Logs
  BY <1>2, Config DEF Logs
<1> QED
  BY <1>1, <1>2, <1>3 DEF IInv, LossInv

-----------------------------------------------------------------------------
(* The subscription.                                                       *)

\* The newest log of all, on its way to the flush loop or to the channel, is behind every
\* other.
LEMMA NewestFlow ==
  ASSUME IInv, pushing = {},
         received + 1 \in Logs, received' = received + 1,
         UNCHANGED <<offered, contents, unserialized, payload, track, serializer, buffered>>,
         \/ buffered /\ buffer' = buffer \cup {received + 1} /\ pushing' = pushing
         \/ ~buffered /\ pushing' = {received + 1} /\ buffer' = buffer
  PROVE  /\ OrderInv' /\ ContentsInv' /\ SerializerInv'
         /\ \A l : Past(l)' <=> Past(l)
         /\ \A l : Coming(l)' <=> Coming(l) \/ l = received + 1
<1>0. OwnTypes /\ OrderInv /\ ContentsInv /\ SerializerInv
  BY DEF IInv
<1> DEFINE new == received + 1
<1>1. new \in Logs /\ new > received /\ received \in Nat
  BY <1>0, Config DEF OwnTypes, Logs
<1>2. /\ \A l : Past(l)' <=> Past(l)
      /\ \A l : Coming(l)' <=> Coming(l) \/ l = new
      /\ \A l : Held(l)' <=> Held(l) \/ l = new
  BY DEF Past, Coming, Held
<1>3. OrderInv'
  <2> HIDE DEF new
  <2>1. \A l \in Logs : Past(l) \/ Coming(l) => l < new
    BY <1>0, <1>1 DEF OrderInv, new, Logs
  <2>2. \A l, m \in Logs : Past(l)' /\ Coming(m)' => l < m
    BY <1>0, <1>2, <2>1 DEF OrderInv
  <2>3. \A l \in payload : \A m \in Logs : Held(m)' => l < m
    BY <1>0, <1>2, <2>1 DEF OrderInv, OwnTypes, Coming
  <2>4. \A k \in 1 .. Len(track) : \A l \in track[k] : \A m \in Logs : Held(m)' => l < m
    <3>1. ASSUME NEW k \in 1 .. Len(track), NEW l \in track[k] PROVE l \in Logs /\ Coming(l)
      BY <1>0, <3>1 DEF OwnTypes, Coming
    <3> QED
      BY <1>0, <1>2, <2>1, <3>1 DEF OrderInv
  <2>5. pushing' = {} \/ buffer' = {}
    BY <1>0 DEF OrderInv, SerializerInv
  <2>6. \A l \in Logs : Past(l)' \/ Coming(l)' => l <= received'
    BY <1>0, <1>1, <1>2 DEF OrderInv, new, Logs
  <2> QED
    BY <1>0, <2>2, <2>3, <2>4, <2>5, <2>6 DEF OrderInv
<1>4. ContentsInv' /\ SerializerInv'
  BY <1>0 DEF ContentsInv, SerializerInv
<1> QED
  BY <1>2, <1>3, <1>4

\* The log waits with its handler, or is on its way at once.
LEMMA ReceiveIInv ==
  ASSUME IInv, Receive
  PROVE  IInv'
<1> USE DEF Receive, serializerVars, otherVars
<1>0. OwnTypes /\ LossInv
  BY DEF IInv
<1>1. received + 1 \in Logs /\ received \in Nat /\ waiting \in Nat
  BY <1>0, Config DEF OwnTypes, Logs
<1>2. DP!IInv' /\ offered' = offered
  BY StutterDispatcher DEF IInv, dispatcherVars
<1>3. OwnTypes'
  <2>1. /\ received' \in 0 .. MaxLogs /\ waiting' \in 0 .. MaxLogs - received'
        /\ 1 .. received \subseteq 1 .. received'
        /\ buffered \/ waiting' = 0
    BY <1>0, <1>1, Config DEF OwnTypes
  <2>2. buffer' \subseteq Logs /\ pushing' \subseteq Logs
    BY <1>0, <1>1 DEF OwnTypes
  <2> QED
    BY <1>0, <2>1, <2>2 DEF OwnTypes, R!TypeOK, retryVars
<1>4. OrderInv' /\ ContentsInv' /\ SerializerInv' /\ LossInv'
  <2>1. CASE buffered
    BY <1>2, <2>1, FlowStutter, NothingLost DEF flowVars
  <2>2. CASE ~buffered
    <3>1. /\ OrderInv' /\ ContentsInv' /\ SerializerInv'
          /\ \A l : Past(l)' <=> Past(l)
          /\ \A l : Coming(l)' <=> Coming(l) \/ l = received + 1
      BY <1>1, <1>2, <2>2, NewestFlow
    <3>2. \A l \in 1 .. received' : l \in 1 .. received \/ l = received + 1
      BY <1>1, <2>2
    <3> QED
      BY <1>0, <3>1, <3>2 DEF LossInv, Cause, retryVars
  <2> QED
    BY <2>1, <2>2
<1>5. ArrivedInv' /\ RunInv'
  BY ArrivedStutter, RunStutter DEF dispatcherVars
<1> QED
  BY <1>2, <1>3, <1>4, <1>5 DEF IInv

\* A handler lets go of one log.
LEMMA LetGoFacts ==
  ASSUME IInv, LetGo
  PROVE  /\ DP!IInv' /\ ArrivedInv' /\ RunInv'
         /\ buffered /\ received + 1 \in Logs /\ received \in Nat
         /\ received' \in 0 .. MaxLogs /\ waiting' \in 0 .. MaxLogs - received'
         /\ UNCHANGED <<offered, contents, unserialized, payload, serializer>>
<1>1. OwnTypes
  BY DEF IInv
<1>2. DP!IInv' /\ ArrivedInv' /\ RunInv'
  BY StutterDispatcher, ArrivedStutter, RunStutter DEF LetGo, IInv, dispatcherVars, otherVars
<1>3. /\ buffered /\ received + 1 \in Logs /\ received \in Nat
      /\ received' \in 0 .. MaxLogs /\ waiting' \in 0 .. MaxLogs - received'
  BY <1>1, Config DEF LetGo, OwnTypes, Logs
<1> QED
  BY <1>2, <1>3 DEF LetGo, dispatcherVars, serializerVars

\* The flush loop takes the log.
LEMMA HandOverIInv ==
  ASSUME IInv, HandOver
  PROVE  IInv'
<1> USE DEF HandOver
<1>0. OwnTypes /\ LossInv
  BY DEF IInv
<1>1. LetGo
  OBVIOUS
<1>2. /\ DP!IInv' /\ ArrivedInv' /\ RunInv'
      /\ buffered /\ received + 1 \in Logs /\ received \in Nat
      /\ received' \in 0 .. MaxLogs /\ waiting' \in 0 .. MaxLogs - received'
      /\ UNCHANGED <<offered, contents, unserialized, payload, serializer>>
  BY <1>1, LetGoFacts
<1>3. /\ UNCHANGED <<retryVars, buffered, ctxDone, pipeDone, pushing, track>>
      /\ UNCHANGED <<returned, arrived>> /\ received' = received + 1
  BY DEF LetGo, otherVars
<1>4. OwnTypes'
  <2>1. buffer' \subseteq Logs /\ 1 .. received \subseteq 1 .. received'
    BY <1>0, <1>2, <1>3 DEF OwnTypes
  <2> QED
    BY <1>0, <1>2, <1>3, <2>1 DEF OwnTypes, R!TypeOK, retryVars
<1>5. /\ OrderInv' /\ ContentsInv' /\ SerializerInv'
      /\ \A l : Past(l)' <=> Past(l)
      /\ \A l : Coming(l)' <=> Coming(l) \/ l = received + 1
  BY <1>2, <1>3, NewestFlow
<1>6. LossInv'
  <2>1. \A l \in 1 .. received' : l \in 1 .. received \/ l = received + 1
    BY <1>2, <1>3
  <2> QED
    BY <1>0, <1>3, <1>5, <2>1 DEF LossInv, Cause, retryVars
<1> QED
  BY <1>2, <1>4, <1>5, <1>6 DEF IInv

\* The handler gives up its log, and nothing else moves.
LEMMA ForsakeIInv ==
  ASSUME IInv, Forsake
  PROVE  IInv'
<1> USE DEF Forsake
<1>0. OwnTypes /\ OrderInv /\ ContentsInv /\ SerializerInv /\ LossInv
  BY DEF IInv
<1>1. LetGo
  OBVIOUS
<1>2. /\ DP!IInv' /\ ArrivedInv' /\ RunInv'
      /\ buffered /\ received + 1 \in Logs /\ received \in Nat
      /\ received' \in 0 .. MaxLogs /\ waiting' \in 0 .. MaxLogs - received'
      /\ UNCHANGED <<offered, contents, unserialized, payload, serializer>>
  BY <1>1, LetGoFacts
<1>3. /\ UNCHANGED <<retryVars, buffered, ctxDone, pipeDone, pushing, track>>
      /\ UNCHANGED <<returned, arrived>> /\ received' = received + 1
  BY DEF LetGo, otherVars
<1>4. OwnTypes'
  <2>1. forsaken' \subseteq 1 .. received'
    BY <1>0, <1>2, <1>3 DEF OwnTypes
  <2> QED
    BY <1>0, <1>2, <1>3, <2>1 DEF OwnTypes, R!TypeOK, retryVars
<1>5. \A l : (Past(l)' <=> Past(l)) /\ (Coming(l)' <=> Coming(l)) /\ (Held(l)' <=> Held(l))
  BY <1>2, <1>3 DEF Past, Coming, Held
<1>6. OrderInv'
  <2>1. \A l \in Logs : l <= received => l <= received'
    BY <1>2, <1>3 DEF Logs
  <2> QED
    BY <1>0, <1>2, <1>3, <1>5, <2>1 DEF OrderInv
<1>7. ContentsInv' /\ SerializerInv'
  BY <1>0, <1>2, <1>3 DEF ContentsInv, SerializerInv
<1>8. LossInv'
  <2>1. \A l \in 1 .. received' : l \in 1 .. received \/ l = received + 1
    BY <1>2, <1>3
  <2> QED
    BY <1>0, <1>3, <1>5, <2>1 DEF LossInv, Cause, retryVars
<1> QED
  BY <1>2, <1>4, <1>6, <1>7, <1>8 DEF IInv

\* The buffer becomes a batch.
LEMMA FlushIInv ==
  ASSUME IInv, Flush
  PROVE  IInv'
<1> USE DEF Flush, serializerVars, otherVars
<1>0. OwnTypes /\ OrderInv /\ ContentsInv /\ SerializerInv
  BY DEF IInv
<1>1. DP!IInv' /\ offered' = offered
  BY StutterDispatcher DEF IInv, dispatcherVars
<1>2. OwnTypes'
  BY <1>0 DEF OwnTypes, R!TypeOK, retryVars
<1>3. \A l : (Past(l)' <=> Past(l)) /\ (Coming(l)' <=> Coming(l)) /\ (Held(l)' <=> Held(l))
  BY <1>1 DEF Past, Coming, Held
<1>4. OrderInv'
  BY <1>0, <1>3 DEF OrderInv
<1>5. ContentsInv' /\ SerializerInv'
  BY <1>0, <1>1 DEF ContentsInv, SerializerInv
<1>6. ArrivedInv' /\ RunInv'
  BY ArrivedStutter, RunStutter DEF dispatcherVars
<1>7. LossInv'
  BY <1>3, NothingLost
<1> QED
  BY <1>1, <1>2, <1>4, <1>5, <1>6, <1>7 DEF IInv

\* The batch that is sent is the newest in the channel.
LEMMA PushIInv ==
  ASSUME IInv, Push
  PROVE  IInv'
<1> USE DEF Push, serializerVars, otherVars
<1>0. OwnTypes /\ OrderInv /\ ContentsInv /\ SerializerInv
  BY DEF IInv
<1>1. DP!IInv' /\ offered' = offered
  BY StutterDispatcher DEF IInv, dispatcherVars
<1>2. /\ Len(track) \in Nat
      /\ track' \in Seq(SUBSET Logs)
      /\ Len(track') = Len(track) + 1
      /\ \A k \in 1 .. Len(track) : track'[k] = track[k]
      /\ track'[Len(track) + 1] = pushing
  <2>1. track \in Seq(SUBSET Logs) /\ pushing \in SUBSET Logs
    BY <1>0 DEF OwnTypes
  <2> QED
    BY <2>1, Config, DP!AppendFacts
<1>3. OwnTypes'
  BY <1>0, <1>2, Config DEF OwnTypes, R!TypeOK, retryVars
<1>4. \A k \in 1 .. Len(track') : k \in 1 .. Len(track) \/ (k = Len(track) + 1 /\ track'[k] = pushing)
  BY <1>2
<1>5. \A l : (Past(l)' <=> Past(l)) /\ (Coming(l)' <=> Coming(l))
  <2>1. \A l : Past(l)' <=> Past(l)
    BY <1>1 DEF Past
  <2>2. ASSUME NEW l, Coming(l)' PROVE Coming(l)
    BY <1>2, <1>4, <2>2 DEF Coming
  <2>3. ASSUME NEW l, Coming(l) PROVE Coming(l)'
    <3>1. CASE l \in pushing
      <4>1. Len(track) + 1 \in 1 .. Len(track')
        BY <1>2
      <4> QED
        BY <1>2, <3>1, <4>1 DEF Coming
    <3>2. CASE \E k \in 1 .. Len(track) : l \in track[k]
      <4>1. \A k \in 1 .. Len(track) : k \in 1 .. Len(track')
        BY <1>2
      <4> QED
        BY <1>2, <3>2, <4>1 DEF Coming
    <3> QED
      BY <2>3, <3>1, <3>2 DEF Coming
  <2> QED
    BY <2>1, <2>2, <2>3
<1>6. OrderInv'
  <2>1. buffer = {} /\ (\A m : ~Held(m)')
    BY <1>0 DEF OrderInv, Held
  <2>2. pushing \subseteq Logs /\ \A m \in pushing : Held(m)
    BY <1>0 DEF OwnTypes, Held
  <2>3. \A l \in payload : \A k \in 1 .. Len(track') : \A m \in track'[k] : l < m
    BY <1>0, <1>2, <1>4, <2>2 DEF OrderInv
  <2>4. \A j, k \in 1 .. Len(track') : j < k => \A l \in track'[j], m \in track'[k] : l < m
    <3> SUFFICES ASSUME NEW j \in 1 .. Len(track'), NEW k \in 1 .. Len(track'), j < k
                 PROVE  \A l \in track'[j], m \in track'[k] : l < m
      OBVIOUS
    <3>1. j \in 1 .. Len(track) /\ track'[j] = track[j]
      BY <1>2
    <3>2. CASE k \in 1 .. Len(track)
      BY <1>0, <1>2, <3>1, <3>2 DEF OrderInv
    <3>3. CASE track'[k] = pushing
      BY <1>0, <2>2, <3>1, <3>3 DEF OrderInv
    <3> QED
      BY <1>4, <3>2, <3>3
  <2>5. \A l, m \in Logs : Past(l)' /\ Coming(m)' => l < m
    BY <1>0, <1>5 DEF OrderInv
  <2>6. \A l \in Logs : Past(l)' \/ Coming(l)' => l <= received'
    BY <1>0, <1>5 DEF OrderInv
  <2> QED
    BY <2>1, <2>3, <2>4, <2>5, <2>6 DEF OrderInv
<1>7. ContentsInv'
  BY <1>0, <1>1 DEF ContentsInv
<1>8. SerializerInv'
  BY <1>0, <1>2, <1>4 DEF SerializerInv
<1>9. ArrivedInv' /\ RunInv'
  BY ArrivedStutter, RunStutter DEF dispatcherVars
<1>10. LossInv'
  BY <1>5, NothingLost
<1> QED
  BY <1>1, <1>3, <1>6, <1>7, <1>8, <1>9, <1>10 DEF IInv

\* What is forgotten was with the subscription: the rest keeps its place.
LEMMA ForgetFlow ==
  ASSUME IInv, Forget, UNCHANGED <<offered, track, serializerVars>>
  PROVE  /\ OrderInv' /\ ContentsInv' /\ SerializerInv'
         /\ \A l : Past(l)' <=> Past(l)
         /\ \A l : Coming(l)' => Coming(l)
         /\ \A l : Coming(l) => Coming(l)' \/ Held(l)
         /\ received' \in 0 .. MaxLogs /\ waiting' \in 0 .. MaxLogs - received'
         /\ forsaken' \subseteq 1 .. received'
<1> USE DEF Forget, serializerVars
<1>0. OwnTypes /\ OrderInv /\ ContentsInv /\ SerializerInv
  BY DEF IInv
<1>1. /\ \A l : Past(l)' <=> Past(l)
      /\ \A l : Coming(l)' => Coming(l)
      /\ \A l : Coming(l) => Coming(l)' \/ Held(l)
      /\ \A l : ~Held(l)'
  BY DEF Past, Coming, Held
<1>2. /\ received \in Nat /\ received' \in Nat /\ received <= received'
      /\ received' \in 0 .. MaxLogs /\ waiting' \in 0 .. MaxLogs - received'
  BY <1>0, Config DEF OwnTypes
<1>3. forsaken' \subseteq 1 .. received'
  BY <1>0, <1>2 DEF OwnTypes
<1>4. OrderInv'
  <2>1. \A l \in Logs : l <= received => l <= received'
    BY <1>2 DEF Logs
  <2> QED
    BY <1>0, <1>1, <2>1 DEF OrderInv
<1>5. ContentsInv' /\ SerializerInv'
  BY <1>0 DEF ContentsInv, SerializerInv
<1> QED
  BY <1>1, <1>2, <1>3, <1>4, <1>5

\* The two ways in which the retry loop takes an error of the subscription.
LEMMA FailFacts ==
  ASSUME IInv, R!FailRetryable
  PROVE  /\ R!TypeOK'
         /\ verdict = "none" /\ phase = "call"
         /\ \/ phase' = "done" /\ verdict' = "exhausted" /\ tries' = tries /\ tries = MaxSubscribe
            \/ phase' = "wait" /\ verdict' = "none" /\ tries' = tries + 1 /\ tries' > 0
<1>1. tries \in 0 .. MaxSubscribe /\ verdict \in R!Verdicts /\ MaxSubscribe \in Nat
  BY Config DEF IInv, OwnTypes, R!TypeOK, R!HighestTry, R!Unlimited
<1>2. verdict = "none" /\ phase = "call"
  BY DEF IInv, RunInv, R!FailRetryable
<1>3. CASE R!Spent /\ R!Finish("exhausted")
  BY <1>1, <1>2, <1>3 DEF R!Spent, R!Finish, R!TypeOK, R!HighestTry, R!Unlimited, R!Verdicts
<1>4. CASE ~R!Spent /\ phase' = "wait" /\ tries' = R!NextTry /\ UNCHANGED verdict
  <2>1. tries' = tries + 1 /\ tries < MaxSubscribe
    BY <1>1, <1>4 DEF R!Spent, R!NextTry, R!Unlimited
  <2> QED
    BY <1>1, <1>2, <1>4, <2>1 DEF R!TypeOK, R!HighestTry, R!Unlimited
<1> QED
  BY <1>3, <1>4 DEF R!FailRetryable

\* A failing subscription loses only what a buffering one holds, and that is a cause.
LEMMA SubscribeFailsIInv ==
  ASSUME IInv, SubscribeFails
  PROVE  IInv'
<1> USE DEF SubscribeFails, Forget, serializerVars, otherVars
<1>0. OwnTypes /\ OrderInv /\ ContentsInv /\ SerializerInv /\ RunInv /\ LossInv
  BY DEF IInv
<1>1. DP!IInv' /\ offered' = offered
  BY StutterDispatcher DEF IInv, dispatcherVars
<1>2. /\ R!TypeOK'
      /\ verdict = "none" /\ phase = "call"
      /\ \/ phase' = "done" /\ verdict' = "exhausted" /\ tries' = tries /\ tries = MaxSubscribe
         \/ phase' = "wait" /\ verdict' = "none" /\ tries' = tries + 1 /\ tries' > 0
  BY FailFacts
<1>3. /\ OrderInv' /\ ContentsInv' /\ SerializerInv'
      /\ \A l : Past(l)' <=> Past(l)
      /\ \A l : Coming(l) => Coming(l)' \/ Held(l)
      /\ received' \in 0 .. MaxLogs /\ waiting' \in 0 .. MaxLogs - received'
      /\ forsaken' \subseteq 1 .. received'
  BY <1>1, ForgetFlow
<1>4. OwnTypes'
  BY <1>0, <1>2, <1>3 DEF OwnTypes
<1>5. ArrivedInv'
  BY ArrivedStutter DEF dispatcherVars
<1>6. RunInv'
  BY <1>0, <1>2 DEF RunInv, dispatcherVars
<1>7. LossInv'
  <2>1. CASE buffered
    BY <1>2, <2>1 DEF LossInv, Cause
  <2>2. CASE ~buffered /\ pushing = {}
    <3>1. \A l : ~Held(l)
      BY <1>0, <2>2 DEF SerializerInv, Held
    <3>2. Cause => Cause'
      BY <2>2 DEF Cause
    <3>3. received' = received
      BY <1>0, <2>2 DEF OwnTypes
    <3> QED
      BY <1>0, <1>3, <3>1, <3>2, <3>3 DEF LossInv
  <2> QED
    BY <2>1, <2>2
<1> QED
  BY <1>1, <1>3, <1>4, <1>5, <1>6, <1>7 DEF IInv

\* The context is done, which is a cause in itself.
LEMMA SubscribeCancelledIInv ==
  ASSUME IInv, SubscribeCancelled
  PROVE  IInv'
<1> USE DEF SubscribeCancelled, Forget, serializerVars, otherVars
<1>0. OwnTypes /\ OrderInv /\ ContentsInv /\ SerializerInv /\ RunInv /\ LossInv
  BY DEF IInv
<1>1. DP!IInv' /\ offered' = offered
  BY StutterDispatcher DEF IInv, dispatcherVars
<1>2. /\ R!TypeOK' /\ phase = "call"
      /\ \/ phase' = "done" /\ verdict' = "nil"
         \/ phase' = "done" /\ verdict' = "exhausted" /\ tries' = tries /\ tries = MaxSubscribe
         \/ phase' = "wait" /\ verdict' = "none"
  <2>1. CASE R!Succeed
    BY <1>0, <2>1 DEF OwnTypes, R!Succeed, R!Finish, R!TypeOK, R!Verdicts, R!HighestTry, R!Unlimited
  <2>2. CASE R!FailRetryable
    BY <2>2, FailFacts
  <2> QED
    BY <2>1, <2>2
<1>3. /\ OrderInv' /\ ContentsInv' /\ SerializerInv'
      /\ received' \in 0 .. MaxLogs /\ waiting' \in 0 .. MaxLogs - received'
      /\ forsaken' \subseteq 1 .. received'
  BY <1>1, ForgetFlow
<1>4. OwnTypes'
  BY <1>0, <1>2, <1>3 DEF OwnTypes
<1>5. ArrivedInv'
  BY ArrivedStutter DEF dispatcherVars
<1>6. RunInv'
  <2>1. ctxDone
    BY <1>0, <1>2 DEF RunInv
  <2> QED
    BY <1>0, <1>2, <2>1 DEF RunInv, dispatcherVars
<1>7. LossInv'
  BY DEF LossInv, Cause
<1> QED
  BY <1>1, <1>3, <1>4, <1>5, <1>6, <1>7 DEF IInv

\* The wait ends, with a call or with the context.
LEMMA WaitEndsIInv ==
  ASSUME IInv, Subscribe \/ RetryInterrupted
  PROVE  IInv'
<1> USE DEF Subscribe, RetryInterrupted, sourceVars, serializerVars, otherVars
<1>0. OwnTypes /\ RunInv /\ LossInv
  BY DEF IInv
<1>1. DP!IInv' /\ offered' = offered
  BY StutterDispatcher DEF IInv, dispatcherVars
<1>2. /\ R!TypeOK' /\ phase = "wait" /\ tries' = tries
      /\ \/ phase' = "call" /\ verdict' = verdict
         \/ phase' = "done" /\ verdict' = "cancelled" /\ pipeDone
  BY <1>0 DEF OwnTypes, R!Elapse, R!Interrupt, R!Finish, R!TypeOK, R!Verdicts, R!HighestTry, R!Unlimited
<1>3. OwnTypes'
  BY <1>0, <1>2 DEF OwnTypes
<1>4. /\ OrderInv' /\ ContentsInv' /\ SerializerInv'
      /\ \A l : (Past(l)' <=> Past(l)) /\ (Coming(l)' <=> Coming(l))
  BY <1>1, FlowStutter DEF flowVars
<1>5. ArrivedInv'
  BY ArrivedStutter DEF dispatcherVars
<1>6. RunInv'
  BY <1>0, <1>2 DEF RunInv, dispatcherVars
<1>7. LossInv'
  <2>1. Cause => Cause'
    BY <1>0, <1>2 DEF RunInv, Cause
  <2> QED
    BY <1>0, <1>4, <2>1 DEF LossInv
<1> QED
  BY <1>1, <1>3, <1>4, <1>5, <1>6, <1>7 DEF IInv

-----------------------------------------------------------------------------
(* The serializer.                                                         *)

\* Receiving from the track channel.
LEMMA TrackFacts ==
  ASSUME IInv, SerializerTake
  PROVE  /\ payload = {} /\ offered' = offered
         /\ Len(track) \in Nat /\ Len(track) > 0
         /\ Head(track) = track[1] /\ track[1] \subseteq Logs /\ track[1] # {}
         /\ track' \in Seq(SUBSET Logs)
         /\ Len(track') = Len(track) - 1
         /\ \A k \in 1 .. Len(track') : k + 1 \in 1 .. Len(track) /\ track'[k] = track[k + 1]
         /\ \A l : (\E k \in 1 .. Len(track) : l \in track[k])
                     <=> l \in track[1] \/ \E k \in 1 .. Len(track') : l \in track'[k]
<1>0. track \in Seq(SUBSET Logs) /\ SerializerInv
  BY DEF IInv, OwnTypes
<1>1. payload = {} /\ offered' = offered /\ track # <<>> /\ track' = Tail(track)
  BY <1>0 DEF SerializerTake, SerializerInv, dispatcherVars
<1>2. /\ Len(track) \in Nat /\ Len(track) > 0
      /\ Head(track) = track[1] /\ Head(track) \in SUBSET Logs
      /\ track' \in Seq(SUBSET Logs)
      /\ Len(track') = Len(track) - 1
      /\ \A k \in 1 .. Len(track) - 1 : track'[k] = track[k + 1]
  BY <1>0, <1>1, Config, DP!TailFacts
<1>3. track[1] # {}
  BY <1>0, <1>2 DEF SerializerInv
<1>4. \A k \in 1 .. Len(track') : k + 1 \in 1 .. Len(track) /\ track'[k] = track[k + 1]
  BY <1>2
<1>5. ASSUME NEW l, NEW k \in 1 .. Len(track), l \in track[k]
      PROVE  l \in track[1] \/ \E n \in 1 .. Len(track') : l \in track'[n]
  <2>1. CASE k = 1
    BY <1>5, <2>1
  <2>2. CASE k # 1
    <3>1. k - 1 \in 1 .. Len(track') /\ track'[k - 1] = track[k]
      BY <1>2, <2>2
    <3> QED
      BY <1>5, <3>1
  <2> QED
    BY <2>1, <2>2
<1>6. ASSUME NEW l, l \in track[1] \/ \E k \in 1 .. Len(track') : l \in track'[k]
      PROVE  \E k \in 1 .. Len(track) : l \in track[k]
  <2>1. 1 \in 1 .. Len(track)
    BY <1>2
  <2> QED
    BY <1>4, <1>6, <2>1
<1> QED
  BY <1>1, <1>2, <1>3, <1>4, <1>5, <1>6

\* The oldest batch becomes the payload.
LEMMA SerializedIInv ==
  ASSUME IInv, Serialized
  PROVE  IInv'
<1> USE DEF Serialized, SerializerTake, otherVars, sourceVars
<1>0. OwnTypes /\ OrderInv /\ ContentsInv /\ SerializerInv
  BY DEF IInv
<1>1. DP!IInv' /\ offered' = offered
  BY StutterDispatcher DEF IInv, dispatcherVars
<1>2. /\ payload = {} /\ payload' = track[1]
      /\ track[1] \subseteq Logs /\ track[1] # {}
      /\ Len(track) \in Nat /\ Len(track) > 0
      /\ track' \in Seq(SUBSET Logs)
      /\ Len(track') = Len(track) - 1
      /\ \A k \in 1 .. Len(track') : k + 1 \in 1 .. Len(track) /\ track'[k] = track[k + 1]
      /\ \A l : (\E k \in 1 .. Len(track) : l \in track[k])
                  <=> l \in track[1] \/ \E k \in 1 .. Len(track') : l \in track'[k]
  BY TrackFacts
<1>3. OwnTypes'
  BY <1>0, <1>2, Config DEF OwnTypes, R!TypeOK, retryVars
<1>4. \A l : (Past(l)' <=> Past(l)) /\ (Coming(l)' <=> Coming(l)) /\ (Held(l)' <=> Held(l))
  BY <1>1, <1>2 DEF Past, Coming, Held
<1>5. OrderInv'
  <2>1. \A l \in payload' : \A k \in 1 .. Len(track') : \A m \in track'[k] : l < m
    <3>1. \A k \in 1 .. Len(track') : 1 < k + 1
      BY <1>2
    <3>2. 1 \in 1 .. Len(track)
      BY <1>2
    <3> QED
      BY <1>0, <1>2, <3>1, <3>2 DEF OrderInv
  <2>2. \A l \in payload' : \A m \in Logs : Held(m)' => l < m
    <3>1. 1 \in 1 .. Len(track)
      BY <1>2
    <3> QED
      BY <1>0, <1>2, <1>4, <3>1 DEF OrderInv
  <2>3. \A j, k \in 1 .. Len(track') : j < k => \A l \in track'[j], m \in track'[k] : l < m
    <3>1. \A j, k \in 1 .. Len(track') : j < k => j + 1 < k + 1
      BY <1>2
    <3> QED
      BY <1>0, <1>2, <3>1 DEF OrderInv
  <2>4. \A k \in 1 .. Len(track') : \A l \in track'[k] : \A m \in Logs : Held(m)' => l < m
    BY <1>0, <1>2, <1>4 DEF OrderInv
  <2> QED
    BY <1>0, <1>4, <2>1, <2>2, <2>3, <2>4 DEF OrderInv
<1>6. ContentsInv' /\ SerializerInv'
  BY <1>0, <1>1, <1>2 DEF ContentsInv, SerializerInv
<1>7. ArrivedInv' /\ RunInv'
  BY ArrivedStutter, RunStutter DEF dispatcherVars
<1>8. LossInv'
  BY <1>4, NothingLost
<1> QED
  BY <1>1, <1>3, <1>5, <1>6, <1>7, <1>8 DEF IInv

\* The oldest batch is failed: its logs are in no payload.
LEMMA SerializeFailedIInv ==
  ASSUME IInv, SerializeFailed
  PROVE  IInv'
<1> USE DEF SerializeFailed, SerializerTake, otherVars, sourceVars
<1>0. OwnTypes /\ OrderInv /\ ContentsInv /\ SerializerInv
  BY DEF IInv
<1>1. DP!IInv' /\ offered' = offered
  BY StutterDispatcher DEF IInv, dispatcherVars
<1>2. /\ payload = {} /\ Head(track) = track[1]
      /\ track[1] \subseteq Logs
      /\ Len(track) \in Nat /\ Len(track) > 0
      /\ track' \in Seq(SUBSET Logs)
      /\ Len(track') = Len(track) - 1
      /\ \A k \in 1 .. Len(track') : k + 1 \in 1 .. Len(track) /\ track'[k] = track[k + 1]
      /\ \A l : (\E k \in 1 .. Len(track) : l \in track[k])
                  <=> l \in track[1] \/ \E k \in 1 .. Len(track') : l \in track'[k]
  BY TrackFacts
<1>3. OwnTypes'
  BY <1>0, <1>2, Config DEF OwnTypes, R!TypeOK, retryVars
<1>4. /\ \A l : Past(l)' <=> Past(l) \/ l \in track[1]
      /\ \A l : Coming(l) <=> Coming(l)' \/ l \in track[1]
      /\ \A l : Held(l)' <=> Held(l)
  BY <1>1, <1>2 DEF Past, Coming, Held
<1>5. 1 \in 1 .. Len(track)
  BY <1>2
<1>6. OrderInv'
  <2>1. \A l, m \in Logs : Past(l)' /\ Coming(m)' => l < m
    <3>1. ASSUME NEW l \in track[1], NEW m \in Logs, Coming(m)' PROVE l < m
      <4>1. CASE Held(m)
        BY <1>0, <1>5, <4>1 DEF OrderInv
      <4>2. ASSUME NEW k \in 1 .. Len(track'), m \in track'[k] PROVE l < m
        <5>1. 1 < k + 1
          OBVIOUS
        <5> QED
          BY <1>0, <1>2, <1>5, <4>2, <5>1 DEF OrderInv
      <4> QED
        BY <1>2, <3>1, <4>1, <4>2 DEF Coming, Held
    <3> QED
      BY <1>0, <1>4, <3>1 DEF OrderInv
  <2>2. \A j, k \in 1 .. Len(track') : j < k => \A l \in track'[j], m \in track'[k] : l < m
    <3>1. \A j, k \in 1 .. Len(track') : j < k => j + 1 < k + 1
      BY <1>2
    <3> QED
      BY <1>0, <1>2, <3>1 DEF OrderInv
  <2>3. \A k \in 1 .. Len(track') : \A l \in track'[k] : \A m \in Logs : Held(m)' => l < m
    BY <1>0, <1>2, <1>4 DEF OrderInv
  <2>4. \A l \in Logs : Past(l)' \/ Coming(l)' => l <= received'
    BY <1>0, <1>4 DEF OrderInv
  <2> QED
    BY <1>0, <1>2, <2>1, <2>2, <2>3, <2>4 DEF OrderInv
<1>7. ContentsInv'
  <2>1. ASSUME NEW i \in offered, NEW l \in contents[i], l \in track[1] PROVE FALSE
    <3>1. l \in Logs /\ Past(l) /\ Coming(l)
      BY <1>2, <1>4, <2>1 DEF Past
    <3>2. l < l
      BY <1>0, <3>1 DEF OrderInv
    <3> QED
      BY <3>1, <3>2, Config DEF Logs
  <2> QED
    BY <1>0, <1>1, <1>2, <2>1 DEF ContentsInv
<1>8. SerializerInv'
  BY <1>0, <1>2 DEF SerializerInv
<1>9. ArrivedInv' /\ RunInv'
  BY ArrivedStutter, RunStutter DEF dispatcherVars
<1>10. LossInv'
  BY <1>4, NothingLost
<1> QED
  BY <1>1, <1>3, <1>6, <1>7, <1>8, <1>9, <1>10 DEF IInv

\* The serializer exits with nothing in its hands.
LEMMA SerializerExitIInv ==
  ASSUME IInv, SerializerExit
  PROVE  IInv'
<1> USE DEF SerializerExit, otherVars, sourceVars
<1>0. OwnTypes /\ OrderInv /\ ContentsInv /\ SerializerInv
  BY DEF IInv
<1>1. DP!IInv' /\ offered' = offered
  BY StutterDispatcher DEF IInv, dispatcherVars
<1>2. OwnTypes'
  BY <1>0 DEF OwnTypes, R!TypeOK, retryVars
<1>3. \A l : (Past(l)' <=> Past(l)) /\ (Coming(l)' <=> Coming(l)) /\ (Held(l)' <=> Held(l))
  BY <1>1 DEF Past, Coming, Held
<1>4. OrderInv'
  BY <1>0, <1>3 DEF OrderInv
<1>5. ContentsInv' /\ SerializerInv'
  BY <1>0, <1>1 DEF ContentsInv, SerializerInv
<1>6. ArrivedInv' /\ RunInv'
  BY ArrivedStutter, RunStutter DEF dispatcherVars
<1>7. LossInv'
  BY <1>3, NothingLost
<1> QED
  BY <1>1, <1>2, <1>4, <1>5, <1>6, <1>7 DEF IInv

\* A bounded set of natural numbers has a greatest element: the last log of a payload.
LEMMA GreatestNat ==
  ASSUME NEW T \in SUBSET Nat, T # {}, NEW n \in Nat, \A t \in T : t <= n
  PROVE  \E x \in T : \A y \in T : y <= x
<1> DEFINE U == {n - t : t \in T}
           Less == OpToRel(<, Nat)
<1>1. U \in SUBSET Nat
  OBVIOUS
<1>2. U # {}
  <2>1. PICK t \in T : TRUE
    OBVIOUS
  <2>2. n - t \in U
    BY <2>1
  <2> QED
    BY <2>2
<1>3. IsWellFoundedOn(Less, Nat)
  BY NatLessThanWellFounded
<1>4. \E u \in U : \A v \in U : <<v, u>> \notin Less
  <2> HIDE DEF U, Less
  <2> QED
    BY <1>1, <1>2, <1>3, WFMin
<1>5. PICK x \in T : \A v \in U : <<v, n - x>> \notin Less
  BY <1>4
<1>6. ASSUME NEW y \in T PROVE y <= x
  <2>1. n - y \in U /\ n - y \in Nat /\ n - x \in Nat
    OBVIOUS
  <2>2. ~(n - y < n - x)
    BY <1>5, <2>1 DEF OpToRel
  <2> QED
    BY <2>2
<1> QED
  BY <1>6

\* A payload has a last log.
LEMMA LastFacts ==
  ASSUME NEW batch \in SUBSET Logs, batch # {}
  PROVE  /\ Last(batch) \in batch
         /\ \A k \in batch : k <= Last(batch)
<1>1. batch \in SUBSET Nat /\ \A k \in batch : k <= MaxLogs
  BY Config DEF Logs
<1>2. \E l \in batch : \A k \in batch : k <= l
  BY <1>1, Config, GreatestNat
<1> QED
  BY <1>2 DEF Last

\* The payload becomes an item that no other shares a log with.
LEMMA EnqueueIInv ==
  ASSUME IInv, Enqueue
  PROVE  IInv'
<1> USE DEF Enqueue, otherVars, sourceVars
<1>0. OwnTypes /\ OrderInv /\ ContentsInv /\ SerializerInv
  BY DEF IInv
<1> DEFINE i == Last(payload)
<1>1. payload # {} /\ payload \subseteq Logs /\ i \in payload /\ i \in Logs
  BY <1>0, LastFacts DEF OwnTypes, SerializerInv
<1>2. DP!IInv'
  <2> HIDE DEF i
  <2>1. D!Enqueue(i)
    BY DEF i
  <2> QED
    BY <1>1, <2>1, EnqueueDispatcher DEF IInv
<1>3. /\ offered' = offered \cup {i}
      /\ \A j \in offered : j < i
      /\ UNCHANGED <<arrived, attempts, shipped, pc, held, drainItem, cancelled, stop>>
  BY DEF D!Enqueue, D!Accept, D!Reject, D!Handed, D!NoCallback, D!OnDrop, D!workerVars, D!stopVars
<1>4. i \notin offered /\ offered \subseteq Logs
  BY <1>1, <1>3, DispatcherTypes, Config DEF IInv, Logs
<1> HIDE DEF i
<1>5. \A j \in Logs : contents'[j] = IF j = i THEN payload ELSE contents[j]
  BY <1>0, <1>1 DEF OwnTypes, i
<1>6. OwnTypes'
  <2>1. contents' \in [Logs -> SUBSET Logs]
    BY <1>0, <1>1 DEF OwnTypes
  <2> QED
    BY <1>0, <2>1 DEF OwnTypes, R!TypeOK, retryVars
<1>7. /\ \A l : Past(l)' <=> Past(l) \/ l \in payload
      /\ \A l : Coming(l) <=> Coming(l)' \/ l \in payload
      /\ \A l : Held(l)' <=> Held(l)
  <2>1. \A l : Past(l)' <=> Past(l) \/ l \in payload
    BY <1>1, <1>3, <1>4, <1>5 DEF Past
  <2> QED
    BY <2>1 DEF Coming, Held
<1>8. OrderInv'
  <2>1. \A l, m \in Logs : Past(l)' /\ Coming(m)' => l < m
    <3>1. ASSUME NEW l \in payload, NEW m \in Logs, Coming(m)' PROVE l < m
      BY <1>0, <3>1 DEF OrderInv, Coming, Held
    <3> QED
      BY <1>0, <1>7, <3>1 DEF OrderInv
  <2>2. \A l \in Logs : Past(l)' \/ Coming(l)' => l <= received'
    BY <1>0, <1>7 DEF OrderInv
  <2> QED
    BY <1>0, <1>7, <2>1, <2>2 DEF OrderInv
<1>9. ContentsInv'
  <2>1. ASSUME NEW l \in payload, Past(l) PROVE FALSE
    <3>1. l \in Logs /\ Coming(l)
      BY <1>1 DEF Coming
    <3>2. l < l
      BY <1>0, <2>1, <3>1 DEF OrderInv
    <3> QED
      BY <3>1, <3>2, Config DEF Logs
  <2>2. payload \cap unserialized = {}
    BY <2>1 DEF Past
  <2>3. \A j \in offered : contents'[j] = contents[j]
    BY <1>4, <1>5
  <2>4. contents'[i] = payload
    BY <1>1, <1>5
  <2>5. \A j \in offered' : j \in contents'[j] /\ contents'[j] \cap unserialized' = {}
    BY <1>0, <1>1, <1>3, <2>2, <2>3, <2>4 DEF ContentsInv
  <2>6. ASSUME NEW j \in offered', NEW k \in offered', j < k
        PROVE  \A l \in contents'[j], m \in contents'[k] : l < m
    <3>1. CASE k \in offered
      <4>1. j \in offered
        BY <1>1, <1>3, <1>4, <2>6, <3>1, Config DEF Logs
      <4> QED
        BY <1>0, <2>3, <2>6, <3>1, <4>1 DEF ContentsInv
    <3>2. CASE k = i
      <4>1. j \in offered
        BY <1>1, <1>3, <2>6, <3>2, Config DEF Logs
      <4>2. \A l \in contents[j] : l \in Logs /\ Past(l)
        BY <1>0, <1>4, <4>1 DEF OwnTypes, Past
      <4>3. \A m \in payload : m \in Logs /\ Coming(m)
        BY <1>1 DEF Coming
      <4> QED
        BY <1>0, <2>3, <2>4, <3>2, <4>1, <4>2, <4>3 DEF OrderInv
    <3> QED
      BY <1>3, <3>1, <3>2
  <2> QED
    BY <2>5, <2>6 DEF ContentsInv
<1>10. SerializerInv'
  BY <1>0 DEF SerializerInv
<1>11. ArrivedInv' /\ RunInv'
  BY <1>3, ArrivedStutter, RunStutter
<1>12. LossInv'
  BY <1>7, NothingLost
<1> QED
  BY <1>2, <1>6, <1>8, <1>9, <1>10, <1>11, <1>12 DEF IInv

-----------------------------------------------------------------------------
(* The contexts, the clock and the end of Run.                             *)

\* A cause that has come to be stays.
LEMMA LossStays ==
  ASSUME IInv, UNCHANGED flowVars, UNCHANGED retryVars, pipeDone => pipeDone'
  PROVE  LossInv'
<1>1. \A l : (Past(l)' <=> Past(l)) /\ (Coming(l)' <=> Coming(l))
  BY FlowStutter
<1>2. Cause => Cause'
  BY DEF Cause, flowVars, retryVars
<1> QED
  BY <1>1, <1>2 DEF IInv, LossInv, flowVars

\* The context given to Run and those below it are cancelled.
LEMMA CancelIInv ==
  ASSUME IInv, Cancel
  PROVE  IInv'
<1> USE DEF Cancel, sourceVars, serializerVars, otherVars
<1>0. OwnTypes /\ RunInv
  BY DEF IInv
<1>1. /\ DP!IInv'
      /\ UNCHANGED <<offered, attempts, shipped, pc, held, drainItem, stop>>
  <2>1. CASE D!ParentCancel
    BY <2>1, CancelDispatcher DEF IInv, D!ParentCancel, D!queueVars, D!workerVars, D!stopVars, D!tallyVars
  <2>2. CASE UNCHANGED dispatcherVars
    BY <2>2, StutterDispatcher DEF IInv, dispatcherVars
  <2> QED
    BY <2>1, <2>2
<1>2. OwnTypes'
  BY <1>0 DEF OwnTypes, R!TypeOK, retryVars
<1>3. OrderInv' /\ ContentsInv' /\ SerializerInv' /\ LossInv'
  BY <1>1, FlowStutter, LossStays DEF flowVars
<1>4. ArrivedInv'
  BY <1>1, ArrivedStutter
<1>5. RunInv'
  BY <1>0, <1>1 DEF RunInv, retryVars
<1> QED
  BY <1>1, <1>2, <1>3, <1>4, <1>5 DEF IInv

\* The retry loop is over, and Run cancels its own context.
LEMMA PipeCancelIInv ==
  ASSUME IInv, PipeCancel
  PROVE  IInv'
<1> USE DEF PipeCancel, sourceVars, serializerVars, otherVars
<1>0. OwnTypes /\ RunInv
  BY DEF IInv
<1>1. DP!IInv'
  BY StutterDispatcher DEF IInv
<1>2. OwnTypes'
  BY <1>0 DEF OwnTypes, R!TypeOK, retryVars
<1>3. OrderInv' /\ ContentsInv' /\ SerializerInv' /\ LossInv'
  BY FlowStutter, LossStays DEF flowVars, dispatcherVars
<1>4. ArrivedInv'
  BY ArrivedStutter DEF dispatcherVars
<1>5. RunInv'
  BY <1>0 DEF RunInv, retryVars, dispatcherVars
<1> QED
  BY <1>1, <1>2, <1>3, <1>4, <1>5 DEF IInv

\* Stop begins when the pipeline's context and the retry loop are done.
LEMMA DispatcherStopIInv ==
  ASSUME IInv, DispatcherStop
  PROVE  IInv'
<1> USE DEF DispatcherStop, Frame, sourceVars, serializerVars, otherVars
<1>0. OwnTypes /\ RunInv
  BY DEF IInv
<1>1. /\ DP!IInv'
      /\ UNCHANGED <<offered, attempts, shipped, pc, held, drainItem>>
      /\ stop = "running" /\ stop' = "waiting" /\ cancelled'
  BY CancelDispatcher DEF IInv, D!StopCancel, D!queueVars, D!workerVars, D!tallyVars
<1>2. OwnTypes'
  BY <1>0 DEF OwnTypes, R!TypeOK, retryVars
<1>3. OrderInv' /\ ContentsInv' /\ SerializerInv' /\ LossInv'
  BY <1>1, FlowStutter, LossStays DEF flowVars
<1>4. ArrivedInv'
  BY <1>1, ArrivedStutter
<1>5. RunInv'
  BY <1>0, <1>1 DEF RunInv, retryVars
<1> QED
  BY <1>1, <1>2, <1>3, <1>4, <1>5 DEF IInv

\* Run returns when Stop has.
LEMMA ReturnIInv ==
  ASSUME IInv, Return
  PROVE  IInv'
<1> USE DEF Return, Frame, sourceVars, serializerVars
<1>0. OwnTypes /\ RunInv
  BY DEF IInv
<1>1. DP!IInv'
  BY StutterDispatcher DEF IInv
<1>2. OwnTypes'
  BY <1>0 DEF OwnTypes, R!TypeOK, retryVars
<1>3. OrderInv' /\ ContentsInv' /\ SerializerInv' /\ LossInv'
  BY FlowStutter, LossStays DEF flowVars, dispatcherVars
<1>4. ArrivedInv'
  BY ArrivedStutter DEF dispatcherVars
<1>5. RunInv'
  BY <1>0 DEF RunInv, retryVars, dispatcherVars
<1> QED
  BY <1>1, <1>2, <1>3, <1>4, <1>5 DEF IInv

\* Items grow old.
LEMMA ExpireIInv ==
  ASSUME IInv, Expire
  PROVE  IInv'
<1> USE DEF Expire, Frame, sourceVars, serializerVars, otherVars
<1>0. OwnTypes
  BY DEF IInv
<1>1. /\ DP!IInv'
      /\ UNCHANGED <<offered, attempts, shipped, pc, held, drainItem, stop, cancelled>>
  BY TickDispatcher DEF IInv, D!Tick, D!queueVars, D!workerVars, D!stopVars, D!tallyVars
<1>2. OwnTypes'
  BY <1>0 DEF OwnTypes, R!TypeOK, retryVars
<1>3. OrderInv' /\ ContentsInv' /\ SerializerInv' /\ LossInv'
  BY <1>1, FlowStutter, LossStays DEF flowVars
<1>4. ArrivedInv' /\ RunInv'
  BY <1>1, ArrivedStutter, RunStutter
<1> QED
  BY <1>1, <1>2, <1>3, <1>4 DEF IInv

-----------------------------------------------------------------------------
(* Dispatches, and the receiver.                                           *)

\* A request delivers its payload at most once, and at least once if it succeeds.
LEMMA DispatchedFacts ==
  ASSUME arrived \in [Logs -> Nat], NEW i \in Logs, NEW c, Dispatched(i, c)
  PROVE  /\ arrived' \in [Logs -> Nat]
         /\ arrived'[i] \in {arrived[i], arrived[i] + 1}
         /\ \A j \in Logs : j # i => arrived'[j] = arrived[j]
         /\ shipped' # shipped => arrived'[i] = arrived[i] + 1
<1>1. PICK code \in W!StatusCodes \cup {W!NoResponse}, took \in BOOLEAN :
        /\ W!Answer(code, took)
        /\ (shipped' # shipped) = W!Success(code)
        /\ arrived' = IF took THEN [arrived EXCEPT ![i] = @ + 1] ELSE arrived
  BY DEF Dispatched, W!SendRawWebhook
<1>2. W!Success(code) => took
  BY <1>1 DEF W!Success, W!Answer, W!AcceptedStatusCodes, W!NoResponse
<1>3. CASE took
  <2>1. arrived' = [arrived EXCEPT ![i] = @ + 1]
    BY <1>1, <1>3
  <2> QED
    BY <2>1
<1>4. CASE ~took
  <2>1. arrived' = arrived
    BY <1>1, <1>4
  <2>2. shipped' = shipped
    BY <1>1, <1>2, <1>4
  <2> QED
    BY <2>1, <2>2
<1> QED
  BY <1>3, <1>4

\* What a worker and an item have to do with each other.
LEMMA WorkerFacts ==
  ASSUME DP!IInv
  PROVE  /\ pc \in [Workers -> {"select", "check", "sending", "backoff", "exited"}]
         /\ held \in [Workers -> Logs \cup {DP!NoItem}]
         /\ \A w \in Workers : held[w] = DP!NoItem <=> pc[w] \in {"select", "exited"}
         /\ \A v, w \in Workers : held[v] = held[w] /\ held[v] # DP!NoItem => v = w
         /\ shipped \in [Logs -> Nat] /\ attempts \in [Logs -> Nat]
         /\ drainItem \in Logs \cup {DP!NoItem}
         /\ drainItem # DP!NoItem => \A w \in Workers : pc[w] = "exited"
  BY DEF DP!IInv, DP!TypeOK, DP!Items, Logs, DP!WorkerInv, DP!HeldInv, DP!StopInv,
     DP!DrainCounted, DP!AllExited

\* A step of a worker without a request, or the beginning of one.
LEMMA WorkerQuiet ==
  ASSUME IInv, NEW w \in Workers,
         D!Take(w) \/ D!Exit(w) \/ D!DropExpired(w) \/ D!Send(w) \/ D!BackoffElapsed(w)
           \/ D!BackoffCancelled(w),
         arrived' = arrived
  PROVE  ArrivedInv'
<1>0. ArrivedInv /\ arrived \in [Logs -> Nat]
  BY DEF IInv, OwnTypes
<1>1. /\ pc \in [Workers -> {"select", "check", "sending", "backoff", "exited"}]
      /\ held \in [Workers -> Logs \cup {DP!NoItem}]
      /\ \A v \in Workers : held[v] = DP!NoItem <=> pc[v] \in {"select", "exited"}
      /\ \A u, v \in Workers : held[u] = held[v] /\ held[u] # DP!NoItem => u = v
      /\ attempts \in [Logs -> Nat]
      /\ drainItem \in Logs \cup {DP!NoItem}
  BY WorkerFacts DEF IInv
<1>2. CASE D!Send(w)
  <2>1. held[w] \in Logs
    BY <1>1, <1>2 DEF D!Send
  <2>2. /\ attempts' = [attempts EXCEPT ![held[w]] = @ + 1]
        /\ pc' = [pc EXCEPT ![w] = "sending"]
        /\ UNCHANGED <<held, shipped, drainItem>>
    BY <1>2 DEF D!Send, D!CountDispatch, D!MoveTo, D!NoCallback, D!stopVars
  <2>3. \A i \in Logs : attempts'[i] \in Nat /\ attempts'[i] >= attempts[i]
    BY <1>1, <2>1, <2>2
  <2>4. attempts'[held[w]] = attempts[held[w]] + 1
    BY <1>1, <2>1, <2>2
  <2>5. \A i \in Logs : arrived'[i] <= attempts'[i] /\ (shipped'[i] > 0 => arrived'[i] > 0)
    BY <1>0, <1>1, <2>2, <2>3 DEF ArrivedInv
  <2>6. ASSUME NEW v \in Workers, pc'[v] = "sending" PROVE arrived'[held'[v]] < attempts'[held'[v]]
    <3>1. CASE v = w
      BY <1>0, <1>1, <2>1, <2>2, <2>4, <3>1 DEF ArrivedInv
    <3>2. CASE v # w
      <4>1. pc[v] = "sending" /\ held[v] \in Logs
        BY <1>1, <2>2, <2>6, <3>2
      <4> QED
        BY <1>0, <1>1, <2>2, <2>3, <4>1 DEF ArrivedInv
    <3> QED
      BY <3>1, <3>2
  <2>7. drainItem' # DP!NoItem => arrived'[drainItem'] < attempts'[drainItem']
    BY <1>0, <1>1, <2>2, <2>3 DEF ArrivedInv
  <2> QED
    BY <2>5, <2>6, <2>7 DEF ArrivedInv, DP!NoItem
<1>3. ASSUME UNCHANGED <<attempts, shipped, drainItem>>,
             \A v \in Workers : pc'[v] = "sending" => pc[v] = "sending" /\ held'[v] = held[v]
      PROVE  ArrivedInv'
  BY <1>0, <1>3 DEF ArrivedInv, DP!NoItem
<1>4. CASE D!Take(w) \/ D!Exit(w) \/ D!BackoffElapsed(w)
  BY <1>1, <1>3, <1>4 DEF D!Take, D!Exit, D!BackoffElapsed, D!MoveTo, D!tallyVars, D!stopVars
<1>5. CASE D!DropExpired(w) \/ D!BackoffCancelled(w)
  BY <1>1, <1>3, <1>5 DEF D!DropExpired, D!BackoffCancelled, D!Return, D!MoveTo, D!OnDrop,
     D!tallyVars, D!stopVars
<1> QED
  BY <1>2, <1>4, <1>5

\* A request of a worker ends.
LEMMA WorkerAnswered ==
  ASSUME IInv, NEW w \in Workers,
         D!SendOk(w) \/ D!SendFail(w) \/ D!DropExhausted(w),
         Dispatched(held[w], live[w])
  PROVE  ArrivedInv'
<1>0. ArrivedInv /\ arrived \in [Logs -> Nat]
  BY DEF IInv, OwnTypes
<1>1. /\ pc \in [Workers -> {"select", "check", "sending", "backoff", "exited"}]
      /\ held \in [Workers -> Logs \cup {DP!NoItem}]
      /\ \A v \in Workers : held[v] = DP!NoItem <=> pc[v] \in {"select", "exited"}
      /\ \A u, v \in Workers : held[u] = held[v] /\ held[u] # DP!NoItem => u = v
      /\ shipped \in [Logs -> Nat] /\ attempts \in [Logs -> Nat]
      /\ drainItem \in Logs \cup {DP!NoItem}
      /\ drainItem # DP!NoItem => \A v \in Workers : pc[v] = "exited"
  BY WorkerFacts DEF IInv
<1>2. pc[w] = "sending"
  BY DEF D!SendOk, D!SendFail, D!DropExhausted
<1>3. held[w] \in Logs /\ held[w] # DP!NoItem
  BY <1>1, <1>2
<1>4. /\ arrived' \in [Logs -> Nat]
      /\ arrived'[held[w]] \in {arrived[held[w]], arrived[held[w]] + 1}
      /\ \A j \in Logs : j # held[w] => arrived'[j] = arrived[j]
      /\ shipped' # shipped => arrived'[held[w]] = arrived[held[w]] + 1
  BY <1>0, <1>3, DispatchedFacts
<1>5. /\ attempts' = attempts /\ drainItem' = drainItem
      /\ \A j \in Logs : j # held[w] => shipped'[j] = shipped[j]
      /\ \A v \in Workers : pc'[v] = "sending" => v # w /\ pc[v] = "sending" /\ held'[v] = held[v]
  <2>1. CASE D!SendOk(w)
    BY <1>1, <1>3, <2>1 DEF D!SendOk, D!Return, D!MoveTo, D!OnSuccess, D!stopVars
  <2>2. CASE D!SendFail(w)
    BY <1>1, <2>2 DEF D!SendFail, D!MoveTo, D!tallyVars, D!stopVars
  <2>3. CASE D!DropExhausted(w)
    BY <1>1, <2>3 DEF D!DropExhausted, D!Return, D!MoveTo, D!OnDrop, D!stopVars
  <2> QED
    BY <2>1, <2>2, <2>3
<1>6. arrived[held[w]] < attempts[held[w]]
  BY <1>0, <1>2 DEF ArrivedInv
<1>7. drainItem' = DP!NoItem
  BY <1>1, <1>2, <1>5
<1>8. ASSUME NEW i \in Logs PROVE arrived'[i] <= attempts'[i] /\ (shipped'[i] > 0 => arrived'[i] > 0)
  <2>1. CASE i # held[w]
    BY <1>0, <1>4, <1>5, <2>1 DEF ArrivedInv
  <2>2. CASE i = held[w]
    <3>1. arrived'[i] <= attempts'[i]
      BY <1>0, <1>1, <1>4, <1>5, <1>6, <2>2
    <3>2. arrived'[i] > 0 \/ shipped' = shipped
      BY <1>0, <1>4, <2>2
    <3>3. arrived'[i] >= arrived[i]
      BY <1>0, <1>4, <2>2
    <3>4. shipped[i] > 0 => arrived[i] > 0
      BY <1>0 DEF ArrivedInv
    <3> QED
      BY <1>0, <1>4, <3>1, <3>2, <3>3, <3>4
  <2> QED
    BY <2>1, <2>2
<1>9. ASSUME NEW v \in Workers, pc'[v] = "sending" PROVE arrived'[held'[v]] < attempts'[held'[v]]
  <2>1. v # w /\ pc[v] = "sending" /\ held'[v] = held[v]
    BY <1>5, <1>9
  <2>2. held[v] \in Logs /\ held[v] # held[w]
    BY <1>1, <1>3, <2>1
  <2> QED
    BY <1>0, <1>4, <1>5, <2>1, <2>2 DEF ArrivedInv
<1> QED
  BY <1>7, <1>8, <1>9 DEF ArrivedInv, DP!NoItem

\* The drain counts, drops, begins a request or has done; or its request ends.
LEMMA DrainArrived ==
  ASSUME IInv, D!StopStep,
         IF drainItem # D!NoItem THEN Dispatched(drainItem, TRUE) ELSE UNCHANGED arrived
  PROVE  ArrivedInv'
<1>0. ArrivedInv /\ arrived \in [Logs -> Nat]
  BY DEF IInv, OwnTypes
<1>1. /\ shipped \in [Logs -> Nat] /\ attempts \in [Logs -> Nat]
      /\ drainItem \in Logs \cup {DP!NoItem}
      /\ drainItem # DP!NoItem => \A w \in Workers : pc[w] = "exited"
  BY WorkerFacts DEF IInv
<1>2. CASE D!DrainSend
  <2> DEFINE i == Head(items)
  <2>1. i \in Logs
    <3>1. items \in Seq(Logs) /\ items # <<>>
      BY <1>2 DEF IInv, DP!IInv, DP!TypeOK, DP!Items, Logs, D!DrainSend, D!DrainReceive
    <3> QED
      BY <3>1
  <2> HIDE DEF i
  <2>2. /\ drainItem' = i
        /\ attempts' = [attempts EXCEPT ![i] = @ + 1]
        /\ UNCHANGED <<shipped, pc, held, arrived>>
    BY <1>2 DEF i, D!DrainSend, D!DrainReceive, D!CountDispatch, D!NoCallback, D!workerVars
  <2>3. \A j \in Logs : attempts'[j] \in Nat /\ attempts'[j] >= attempts[j]
    BY <1>1, <2>1, <2>2
  <2>4. attempts'[i] = attempts[i] + 1
    BY <1>1, <2>1, <2>2
  <2>5. \A j \in Logs : arrived'[j] <= attempts'[j] /\ (shipped'[j] > 0 => arrived'[j] > 0)
    BY <1>0, <1>1, <2>2, <2>3 DEF ArrivedInv
  <2>6. \A w \in Workers : pc'[w] # "sending"
    BY <1>2, <2>2 DEF IInv, DP!IInv, DP!StopInv, DP!DrainCounted, DP!AllExited, D!DrainSend, D!DrainReceive
  <2>7. arrived'[drainItem'] < attempts'[drainItem']
    BY <1>0, <1>1, <2>1, <2>2, <2>4 DEF ArrivedInv
  <2> QED
    BY <2>5, <2>6, <2>7 DEF ArrivedInv
<1>3. CASE D!DrainResult
  <2>1. drainItem \in Logs /\ drainItem # DP!NoItem /\ drainItem # D!NoItem
    BY <1>1, <1>3, SameState DEF D!DrainResult
  <2>2. /\ arrived' \in [Logs -> Nat]
        /\ arrived'[drainItem] \in {arrived[drainItem], arrived[drainItem] + 1}
        /\ \A j \in Logs : j # drainItem => arrived'[j] = arrived[j]
        /\ shipped' # shipped => arrived'[drainItem] = arrived[drainItem] + 1
    BY <1>0, <2>1, DispatchedFacts
  <2>3. /\ drainItem' = DP!NoItem /\ UNCHANGED <<attempts, pc>>
        /\ \A j \in Logs : j # drainItem => shipped'[j] = shipped[j]
    BY <1>1, <1>3, <2>1, SameState DEF D!DrainResult, D!OnSuccess, D!OnDrop, D!workerVars
  <2>4. arrived[drainItem] < attempts[drainItem]
    BY <1>0, <2>1 DEF ArrivedInv
  <2>5. \A w \in Workers : pc'[w] # "sending"
    BY <1>1, <2>1, <2>3
  <2>6. ASSUME NEW i \in Logs PROVE arrived'[i] <= attempts'[i] /\ (shipped'[i] > 0 => arrived'[i] > 0)
    <3>1. CASE i # drainItem
      BY <1>0, <2>2, <2>3, <3>1 DEF ArrivedInv
    <3>2. CASE i = drainItem
      <4>1. arrived'[i] <= attempts'[i]
        BY <1>0, <1>1, <2>2, <2>3, <2>4, <3>2
      <4>2. arrived'[i] > 0 \/ shipped' = shipped
        BY <1>0, <2>2, <3>2
      <4>3. arrived'[i] >= arrived[i]
        BY <1>0, <2>2, <3>2
      <4>4. shipped[i] > 0 => arrived[i] > 0
        BY <1>0 DEF ArrivedInv
      <4> QED
        BY <1>0, <2>2, <4>1, <4>2, <4>3, <4>4
    <3> QED
      BY <3>1, <3>2
  <2> QED
    BY <2>3, <2>5, <2>6 DEF ArrivedInv, DP!NoItem
<1>4. CASE D!StopWait \/ D!DrainDropExpired \/ D!StopReturn
  <2>1. UNCHANGED <<attempts, shipped, pc, held, drainItem>>
    BY <1>4 DEF D!StopWait, D!DrainDropExpired, D!DrainReceive, D!StopReturn, D!OnDrop,
       D!workerVars, D!tallyVars
  <2>2. arrived' = arrived
    <3>1. drainItem = D!NoItem
      BY <1>0, <1>1, <1>4, SameState DEF IInv, DP!IInv, DP!StopInv, D!StopWait,
         D!DrainDropExpired, D!DrainReceive, D!StopReturn
    <3> QED
      BY <3>1
  <2> QED
    BY <2>1, <2>2, ArrivedStutter
<1> QED
  BY <1>2, <1>3, <1>4 DEF D!StopStep

\* Workers and drain leave to the pipeline what is the pipeline's.
LEMMA WorkerFrame ==
  ASSUME NEW w, D!WorkerStep(w)
  PROVE  UNCHANGED <<offered, cancelled, stop>>
  BY DEF D!WorkerStep, D!Take, D!Exit, D!DropExpired, D!Send, D!SendOk, D!SendFail,
     D!DropExhausted, D!BackoffElapsed, D!BackoffCancelled, D!queueVars, D!stopVars

\* A step of Stop accepts nothing, and is taken only between its begin and its end.
LEMMA StopFrame ==
  ASSUME IInv, D!StopStep
  PROVE  /\ UNCHANGED <<offered, cancelled>>
         /\ stop # "running" /\ stop # "stopped"
         /\ stop' # "running"
<1>1. CASE D!DrainResult
  BY <1>1, SameState DEF IInv, DP!IInv, DP!StopInv, D!DrainResult, D!queueVars
<1>2. CASE D!StopWait \/ D!DrainDropExpired \/ D!DrainSend \/ D!StopReturn
  BY <1>2 DEF D!StopWait, D!DrainReceive, D!DrainDropExpired, D!DrainSend, D!StopReturn, D!queueVars
<1> QED
  BY <1>1, <1>2 DEF D!StopStep

\* A worker's step, with the answer to its request.
LEMMA WorkerStepIInv ==
  ASSUME IInv, NEW w \in Workers, WorkerStep(w)
  PROVE  IInv'
<1> USE DEF WorkerStep, Frame, sourceVars, serializerVars
<1>0. OwnTypes /\ RunInv
  BY DEF IInv
<1>1. DP!IInv' /\ UNCHANGED <<offered, cancelled, stop>>
  BY WorkerDispatcher, WorkerFrame DEF IInv
<1>2. ArrivedInv' /\ arrived' \in [Logs -> Nat]
  <2>1. CASE pc[w] = "sending"
    <3>1. Dispatched(held[w], live[w])
      BY <2>1
    <3>2. D!SendOk(w) \/ D!SendFail(w) \/ D!DropExhausted(w)
      BY <2>1 DEF D!WorkerStep, D!Take, D!Exit, D!DropExpired, D!Send, D!BackoffElapsed, D!BackoffCancelled
    <3>3. held[w] \in Logs
      BY <2>1, WorkerFacts DEF IInv
    <3> QED
      BY <1>0, <3>1, <3>2, <3>3, WorkerAnswered, DispatchedFacts DEF OwnTypes
  <2>2. CASE pc[w] # "sending"
    <3>1. D!Take(w) \/ D!Exit(w) \/ D!DropExpired(w) \/ D!Send(w) \/ D!BackoffElapsed(w) \/ D!BackoffCancelled(w)
      BY <2>2 DEF D!WorkerStep, D!SendOk, D!SendFail, D!DropExhausted
    <3> QED
      BY <1>0, <2>2, <3>1, WorkerQuiet DEF OwnTypes
  <2> QED
    BY <2>1, <2>2
<1>3. OwnTypes'
  BY <1>0, <1>2 DEF OwnTypes, R!TypeOK, retryVars
<1>4. OrderInv' /\ ContentsInv' /\ SerializerInv' /\ LossInv'
  BY <1>1, FlowStutter, LossStays DEF flowVars
<1>5. RunInv'
  BY <1>1, RunStutter
<1> QED
  BY <1>1, <1>2, <1>3, <1>4, <1>5 DEF IInv

\* A step of Stop, with the answer to the request of its drain.
LEMMA StopStepIInv ==
  ASSUME IInv, StopStep
  PROVE  IInv'
<1> USE DEF StopStep, Frame, sourceVars, serializerVars
<1>0. OwnTypes /\ RunInv
  BY DEF IInv
<1>1. /\ DP!IInv'
      /\ UNCHANGED <<offered, cancelled>>
      /\ stop # "running" /\ stop # "stopped" /\ stop' # "running"
  BY StopDispatcher, StopFrame DEF IInv
<1>2. ArrivedInv'
  BY DrainArrived
<1>3. arrived' \in [Logs -> Nat]
  <2>1. CASE drainItem # D!NoItem
    <3>1. drainItem \in Logs
      BY <2>1, SameState, WorkerFacts DEF IInv
    <3> QED
      BY <1>0, <2>1, <3>1, DispatchedFacts DEF OwnTypes
  <2>2. CASE drainItem = D!NoItem
    BY <1>0, <2>2 DEF OwnTypes
  <2> QED
    BY <2>1, <2>2
<1>4. OwnTypes'
  BY <1>0, <1>3 DEF OwnTypes, R!TypeOK, retryVars
<1>5. OrderInv' /\ ContentsInv' /\ SerializerInv' /\ LossInv'
  BY <1>1, FlowStutter, LossStays DEF flowVars
<1>6. RunInv'
  BY <1>0, <1>1 DEF RunInv, retryVars
<1> QED
  BY <1>1, <1>2, <1>4, <1>5, <1>6 DEF IInv

-----------------------------------------------------------------------------
(* The invariant holds.                                                    *)

\* Nothing has been received at the start.
LEMMA InitIInv == Init => IInv
<1> SUFFICES ASSUME Init PROVE IInv
  OBVIOUS
<1> USE DEF Init
<1>1. DP!IInv
  BY SameState, Config, DP!InitIInv
<1>2. OwnTypes
  <2>1. R!TypeOK
    BY Config DEF R!Init, R!TypeOK, R!HighestTry, R!Unlimited, R!Verdicts
  <2>2. arrived \in [Logs -> Nat]
    BY DEF W!Init
  <2>3. /\ received \in 0 .. MaxLogs /\ waiting \in 0 .. MaxLogs - received
        /\ forsaken \subseteq 1 .. received
    BY Config
  <2>4. track \in Seq(SUBSET Logs) /\ Len(track) <= TrackSize
    BY Config
  <2> QED
    BY <2>1, <2>2, <2>3, <2>4 DEF OwnTypes
<1>3. offered = {} /\ stop = "running" /\ drainItem = DP!NoItem /\ cancelled = FALSE
      /\ pc = [w \in Workers |-> "select"]
  BY DEF D!Init, D!NoItem, DP!NoItem
<1>4. \A l : ~Past(l) /\ ~Coming(l) /\ ~Held(l)
  BY <1>3 DEF Past, Coming, Held
<1>5. OrderInv /\ ContentsInv /\ SerializerInv
  BY <1>3, <1>4 DEF OrderInv, ContentsInv, SerializerInv
<1>6. ArrivedInv
  <2>1. attempts = [i \in Logs |-> 0] /\ shipped = [i \in Logs |-> 0] /\ arrived = [i \in Logs |-> 0]
    BY DEF D!Init, D!Items, Logs, W!Init
  <2> QED
    BY <1>3, <2>1 DEF ArrivedInv
<1>7. RunInv
  BY <1>3 DEF RunInv, R!Init
<1>8. LossInv
  BY DEF LossInv
<1> QED
  BY <1>1, <1>2, <1>5, <1>6, <1>7, <1>8 DEF IInv

\* A step that changes nothing keeps the invariant.
LEMMA StutterIInv ==
  ASSUME IInv, UNCHANGED vars
  PROVE  IInv'
<1> USE DEF vars, dispatcherVars, retryVars, sourceVars, serializerVars, otherVars
<1>1. DP!IInv'
  BY StutterDispatcher DEF IInv
<1>2. OwnTypes'
  BY DEF IInv, OwnTypes, R!TypeOK
<1>3. OrderInv' /\ ContentsInv' /\ SerializerInv' /\ LossInv'
  BY FlowStutter, LossStays DEF flowVars
<1>4. ArrivedInv' /\ RunInv'
  BY ArrivedStutter, RunStutter
<1> QED
  BY <1>1, <1>2, <1>3, <1>4 DEF IInv

\* Every step of the pipeline keeps the invariant.
LEMMA NextIInv ==
  ASSUME IInv, [Next]_vars
  PROVE  IInv'
<1>1. CASE Receive \/ Forsake \/ Flush \/ SubscribeFails
  BY <1>1, ReceiveIInv, ForsakeIInv, FlushIInv, SubscribeFailsIInv
<1>2. CASE SubscriptionStep
  BY <1>2, HandOverIInv, PushIInv, SubscribeCancelledIInv, WaitEndsIInv DEF SubscriptionStep
<1>3. CASE SerializerStep
  BY <1>3, SerializedIInv, SerializeFailedIInv, EnqueueIInv, SerializerExitIInv DEF SerializerStep
<1>4. ASSUME NEW w \in Workers, WorkerStep(w) PROVE IInv'
  BY <1>4, WorkerStepIInv
<1>5. CASE Expire \/ Cancel
  BY <1>5, ExpireIInv, CancelIInv
<1>6. CASE RunStep
  BY <1>6, PipeCancelIInv, DispatcherStopIInv, StopStepIInv, ReturnIInv DEF RunStep
<1>7. CASE UNCHANGED vars
  BY <1>7, StutterIInv
<1> QED
  BY <1>1, <1>2, <1>3, <1>4, <1>5, <1>6, <1>7 DEF Next

\* The invariant holds in every state of the pipeline.
THEOREM Inductive == Spec => []IInv
  BY InitIInv, NextIInv, PTL DEF Spec

-----------------------------------------------------------------------------
(* What it says of the pipeline.                                           *)

\* Every variable keeps its type; the channels stay within their capacities.
THEOREM TypeCorrect == Spec => []TypeOK
<1>1. IInv => TypeOK
  BY SameState DEF IInv, DP!IInv, OwnTypes, TypeOK
<1> QED
  BY <1>1, Inductive, PTL

\* An item has one outcome at most, and none while it is pending.
LEMMA ItemFate ==
  ASSUME DP!IInv, NEW i \in offered
  PROVE  /\ D!Pending(i) => shipped[i] = 0 /\ dropped[i] = 0
         /\ shipped[i] = 0 \/ dropped[i] = 0
         /\ ~D!Pending(i) /\ shipped[i] = 0 /\ dropped[i] = 0 => cancelled
<1>1. i \in DP!Items /\ i # DP!NoItem
  BY DEF DP!IInv, DP!TypeOK, DP!Items, DP!NoItem
<1>2. shipped[i] \in Nat /\ dropped[i] \in Nat
  BY <1>1 DEF DP!IInv, DP!TypeOK
<1>3. ASSUME D!Pending(i) PROVE shipped[i] = 0 /\ dropped[i] = 0
  <2>1. DP!Queued(i) \/ (\E w \in Workers : DP!HeldBy(w, i)) \/ drainItem = i
    BY <1>3, SameState DEF DP!Pending
  <2>2. CASE DP!Queued(i)
    <3>1. items \in Seq(DP!Items)
      BY DEF DP!IInv, DP!TypeOK
    <3>2. PICK k \in 1 .. Len(items) : items[k] = i
      BY <2>2, <3>1 DEF DP!Queued
    <3> QED
      BY <3>2 DEF DP!IInv, DP!QueueInv
  <2>3. CASE \E w \in Workers : DP!HeldBy(w, i)
    BY <1>1, <2>3 DEF DP!HeldBy, DP!IInv, DP!HeldInv
  <2>4. CASE drainItem = i
    BY <1>1, <2>4 DEF DP!IInv, DP!StopInv
  <2> QED
    BY <2>1, <2>2, <2>3, <2>4
<1>4. shipped[i] = 0 \/ dropped[i] = 0
  BY <1>1, <1>2 DEF DP!IInv, DP!TallyInv
<1>5. ~D!Pending(i) /\ shipped[i] = 0 /\ dropped[i] = 0 => cancelled
  BY <1>1, SameState DEF DP!IInv, DP!AbandonedWasTried, DP!Abandoned, DP!Settled
<1> QED
  BY <1>3, <1>4, <1>5

\* A log that is with the serializer or before it is in no item and has not failed, and
\* no two items share one.
LEMMA OneItem ==
  ASSUME IInv, NEW l \in Logs
  PROVE  /\ Coming(l) => ~Past(l)
         /\ l \in unserialized => \A i \in offered : l \notin contents[i]
         /\ \A i, j \in offered : l \in contents[i] /\ l \in contents[j] => i = j
<1>0. OrderInv /\ ContentsInv /\ MaxLogs \in Nat /\ offered \subseteq Logs
  BY Config, DispatcherTypes DEF IInv
<1>1. Coming(l) => ~Past(l)
  <2>1. Coming(l) /\ Past(l) => l < l
    BY <1>0 DEF OrderInv
  <2> QED
    BY <1>0, <2>1 DEF Logs
<1>2. l \in unserialized => \A i \in offered : l \notin contents[i]
  BY <1>0 DEF ContentsInv
<1>3. ASSUME NEW i \in offered, NEW j \in offered, l \in contents[i], l \in contents[j]
      PROVE  i = j
  <2>1. ~(i < j) /\ ~(j < i)
    BY <1>0, <1>3 DEF ContentsInv, Logs
  <2>2. i \in Int /\ j \in Int
    BY <1>0 DEF Logs
  <2> QED
    BY <2>1, <2>2
<1> QED
  BY <1>1, <1>2, <1>3

\* A log is on its way, as far as the dispatcher or before it.
LEMMA Flight ==
  ASSUME IInv, NEW l
  PROVE  InFlight(l) <=> Coming(l) \/ \E i \in offered : l \in contents[i] /\ D!Pending(i)
<1>1. DOMAIN track = 1 .. Len(track)
  BY DEF IInv, OwnTypes
<1> QED
  BY <1>1 DEF InFlight, Coming

\* A log is in one place, or has been counted once, as one thing.
LEMMA OneFateHolds == IInv => OneFate
<1> SUFFICES ASSUME IInv, NEW l \in 1 .. received
             PROVE  /\ ~(InFlight(l) /\ (Processed(l) \/ Failed(l)))
                    /\ ~(Processed(l) /\ Failed(l))
                    /\ \A i, j \in offered : l \in contents[i] \cap contents[j] => i = j
  BY DEF OneFate
<1>1. l \in Logs
  BY Config DEF IInv, OwnTypes, Logs
<1>2. /\ Coming(l) => ~Past(l)
      /\ l \in unserialized => \A i \in offered : l \notin contents[i]
      /\ \A i, j \in offered : l \in contents[i] /\ l \in contents[j] => i = j
  BY <1>1, OneItem
<1>3. \A i \in offered : /\ shipped[i] \in Nat /\ dropped[i] \in Nat
                         /\ D!Pending(i) => shipped[i] = 0 /\ dropped[i] = 0
                         /\ shipped[i] = 0 \/ dropped[i] = 0
  BY ItemFate, DispatcherTypes DEF IInv
<1>4. Processed(l) => Past(l)
  BY DEF Processed, Past
<1>5. Failed(l) => Past(l)
  BY DEF Failed, Past
<1>6. ASSUME NEW i \in offered, l \in contents[i], D!Pending(i)
      PROVE  ~Processed(l) /\ ~Failed(l)
  BY <1>2, <1>3, <1>6 DEF Processed, Failed
<1>7. ~(Processed(l) /\ Failed(l))
  BY <1>2, <1>3 DEF Processed, Failed
<1> QED
  BY <1>2, <1>4, <1>5, <1>6, <1>7, Flight

\* No log is processed and failed, or counted while it is on its way, and none is in two
\* payloads, whatever the interleaving of subscription, serializer, workers and Stop.
THEOREM LogsHaveOneFate == Spec => []OneFate
  BY OneFateHolds, Inductive, PTL

\* What is counted as processed has reached the receiver, and no payload reaches it more
\* often than it was dispatched.
THEOREM ProcessedReachedReceiver == Spec => []ProcessedWasReceived
<1>1. IInv => ProcessedWasReceived
  BY DispatcherTypes DEF IInv, ArrivedInv, ProcessedWasReceived
<1> QED
  BY <1>1, Inductive, PTL

\* A log that is nowhere was with a subscription that has failed, or with a handler whose
\* deployment has gone.
LEMMA LossHasACauseHolds == IInv => LossHasACause
<1> SUFFICES ASSUME IInv, NEW l \in Logs, Lost(l), ~pipeDone, l \notin forsaken
             PROVE  buffered /\ tries + (IF verdict = "exhausted" THEN 1 ELSE 0) > 0
  BY DEF LossHasACause
<1>0. tries \in Nat /\ l \in 1 .. received
  BY Config DEF IInv, OwnTypes, R!TypeOK, R!HighestTry, R!Unlimited, Logs, Lost
<1>1. Cause \/ Past(l) \/ Coming(l)
  BY <1>0 DEF IInv, LossInv
<1>2. ~Coming(l) /\ ~Processed(l) /\ ~Failed(l)
  BY Flight DEF Lost
<1>3. ~Past(l)
  <2> SUFFICES ASSUME Past(l) PROVE FALSE
    OBVIOUS
  <2>1. PICK i \in offered : l \in contents[i]
    BY <1>2 DEF Past, Failed
  <2>2. shipped[i] \in Nat /\ dropped[i] \in Nat
    BY DispatcherTypes DEF IInv
  <2>3. ~D!Pending(i) /\ shipped[i] = 0 /\ dropped[i] = 0
    BY <1>2, <2>1, <2>2, Flight DEF Lost, Processed, Failed
  <2>4. cancelled
    BY <2>3, ItemFate DEF IInv
  <2> QED
    BY <2>4 DEF IInv, RunInv
<1>4. buffered /\ (tries > 0 \/ verdict = "exhausted")
  BY <1>1, <1>2, <1>3 DEF Cause
<1> QED
  BY <1>0, <1>4

\* While the pipeline's context is live no log disappears uncounted, but those that a
\* failing HTTP subscription holds, in its buffer, its batch or its handlers, and those
\* that the handler of a deployment holds when the deployment goes
\* (http_logs/subscribe.go:301).
THEOREM NothingLostUncaused == Spec => []LossHasACause
  BY LossHasACauseHolds, Inductive, PTL

\* The queue carries the logs in the order in which they were received: everything in an
\* older item precedes everything in a newer one, and all of it what is yet to be enqueued.
\* A payload is numbered above every item before it, as the dispatcher's model asks of its
\* caller, so that no Enqueue is ever kept waiting by the numbering.
QueueInOrder ==
  /\ \A j, k \in 1 .. Len(items) :
       j < k => \A l \in contents[items[j]], m \in contents[items[k]] : l < m
  /\ \A k \in 1 .. Len(items) : \A l \in contents[items[k]], m \in payload : l < m
  /\ serializer = "enqueue" => \A i \in offered : i < Last(payload)

\* Batches are never reordered between the subscription and the channel of the dispatcher.
THEOREM LogsQueuedInOrder == Spec => []QueueInOrder
<1>1. ASSUME IInv PROVE QueueInOrder
  <2>1. \A k \in 1 .. Len(items) : items[k] \in offered /\ items[k] \in Logs
    BY <1>1, DispatcherTypes DEF IInv, DP!IInv, DP!QueueInv
  <2>2. \A j, k \in 1 .. Len(items) : j < k => items[j] < items[k]
    BY <1>1 DEF IInv, DP!IInv, DP!QueueInv
  <2>3. \A k \in 1 .. Len(items) : \A l \in contents[items[k]] : l \in Logs /\ Past(l)
    BY <1>1, <2>1 DEF IInv, OwnTypes, Past
  <2>4. \A m \in payload : m \in Logs /\ Coming(m)
    BY <1>1 DEF IInv, OwnTypes, Coming
  <2>5. \A j, k \in 1 .. Len(items) :
          j < k => \A l \in contents[items[j]], m \in contents[items[k]] : l < m
    BY <1>1, <2>1, <2>2 DEF IInv, ContentsInv
  <2>6. \A k \in 1 .. Len(items) : \A l \in contents[items[k]], m \in payload : l < m
    BY <1>1, <2>3, <2>4 DEF IInv, OrderInv
  <2>7. ASSUME serializer = "enqueue", NEW i \in offered PROVE i < Last(payload)
    <3>1. Last(payload) \in payload
      BY <1>1, <2>7, LastFacts DEF IInv, OwnTypes, SerializerInv
    <3>2. i \in Logs /\ Past(i)
      BY <1>1, <2>7, DispatcherTypes DEF IInv, ContentsInv, Past
    <3> QED
      BY <1>1, <2>4, <3>1, <3>2 DEF IInv, OrderInv
  <2> QED
    BY <2>5, <2>6, <2>7 DEF QueueInOrder
<1> QED
  BY <1>1, Inductive, PTL

-----------------------------------------------------------------------------
(* The pipeline implements its promise.  The payloads that the process     *)
(* sees are the items of the dispatcher that are not late, and what        *)
(* becomes of an item is what becomes of it in the outbox that the         *)
(* dispatcher implements.                                                  *)

Shipped == {i \in offered : shipped[i] > 0}

\* The two sets in terms of the outbox.
StatusInv ==
  \A i : /\ i \in Backlog <=> i \in Logs \ late /\ DP!StatusOf(i) = "pending"
         /\ i \in Shipped <=> i \in Logs /\ DP!StatusOf(i) = "shipped"

\* The two sets say what the outbox does, in a state with the invariant,
LEMMA StatusFacts == DP!IInv => StatusInv
<1> SUFFICES ASSUME DP!IInv, NEW i
             PROVE  /\ i \in Backlog <=> i \in Logs \ late /\ DP!StatusOf(i) = "pending"
                    /\ i \in Shipped <=> i \in Logs /\ DP!StatusOf(i) = "shipped"
  BY DEF StatusInv
<1>1. offered \subseteq Logs /\ shipped \in [Logs -> Nat] /\ dropped \in [Logs -> Nat]
  BY DispatcherTypes
<1>2. CASE i \in offered
  <2>1. D!Pending(i) => shipped[i] = 0 /\ dropped[i] = 0
    BY <1>2, ItemFate
  <2>2. D!Pending(i) <=> DP!Pending(i)
    BY SameState
  <2>3. shipped[i] \in Nat /\ dropped[i] \in Nat
    BY <1>1, <1>2
  <2>4. DP!StatusOf(i) = "shipped" <=> shipped[i] > 0
    BY <1>2 DEF DP!StatusOf
  <2>5. DP!StatusOf(i) = "pending" <=> DP!Pending(i)
    BY <1>2, <2>1, <2>2, <2>3 DEF DP!StatusOf
  <2> QED
    BY <1>1, <1>2, <2>2, <2>4, <2>5 DEF Backlog, Shipped
<1>3. CASE i \notin offered
  BY <1>3 DEF Backlog, Shipped, DP!StatusOf
<1> QED
  BY <1>2, <1>3

\* and in the next.
LEMMA StatusFactsNext ==
  ASSUME DP!IInv'
  PROVE  StatusInv'
<1>1. (DP!IInv => StatusInv)'
  BY StatusFacts, PTL
<1> QED
  BY <1>1

\* The sets are finite, and together have no more elements than there are logs.
LEMMA Counts ==
  ASSUME DP!IInv
  PROVE  /\ offered \subseteq Logs
         /\ IsFiniteSet(Backlog) /\ IsFiniteSet(Shipped)
         /\ Cardinality(Backlog) \in Nat /\ Cardinality(Shipped) \in Nat
         /\ \A i \in Logs \ offered : Cardinality(Shipped) + Cardinality(Backlog) < MaxLogs
<1>1. IsFiniteSet(Logs) /\ Cardinality(Logs) = MaxLogs
  BY FS_Interval, Config DEF Logs
<1>2. offered \subseteq Logs /\ Backlog \subseteq offered /\ Shipped \subseteq offered
  BY DispatcherTypes DEF Backlog, Shipped
<1>3. IsFiniteSet(Backlog) /\ IsFiniteSet(Shipped)
  BY <1>1, <1>2, FS_Subset
<1>4. Cardinality(Backlog) \in Nat /\ Cardinality(Shipped) \in Nat
  BY <1>3, FS_CardinalityType
<1>5. ASSUME NEW i \in Logs \ offered
      PROVE  Cardinality(Shipped) + Cardinality(Backlog) < MaxLogs
  <2>1. Shipped \cap Backlog = {}
    BY StatusFacts DEF StatusInv
  <2>2. Cardinality(Shipped \cup Backlog) = Cardinality(Shipped) + Cardinality(Backlog)
    BY <1>3, <1>4, <2>1, FS_Union, FS_EmptySet
  <2>3. IsFiniteSet(Logs \ {i}) /\ Cardinality(Logs \ {i}) = MaxLogs - 1
    BY <1>1, <1>5, FS_RemoveElement
  <2>4. Shipped \cup Backlog \subseteq Logs \ {i}
    BY <1>2, <1>5
  <2>5. Cardinality(Shipped \cup Backlog) <= MaxLogs - 1
    BY <2>3, <2>4, FS_Subset
  <2> QED
    BY <1>4, <2>2, <2>5, Config
<1> QED
  BY <1>2, <1>3, <1>4, <1>5

\* Nothing that the process sees has changed.
LEMMA PromiseStutter ==
  ASSUME UNCHANGED <<Place, Result, tries, Backlog, Shipped, ctxDone>>
  PROVE  UNCHANGED P!vars
  BY DEF P!vars, P!workVars, Shipped

\* The outbox moves no item, or one that is late.
LEMMA SetsStutter ==
  ASSUME StatusInv, StatusInv',
         \A i \in Logs : DP!StatusOf(i)' = DP!StatusOf(i) /\ (i \in late' <=> i \in late)
  PROVE  UNCHANGED <<Backlog, Shipped>>
<1>1. \A i : i \in Backlog' <=> i \in Backlog
  BY DEF StatusInv
<1>2. \A i : i \in Shipped' <=> i \in Shipped
  BY DEF StatusInv
<1> QED
  BY <1>1, <1>2 DEF Backlog, Shipped

\* A step that the outbox does not see changes no status.
LEMMA BoxStutter ==
  ASSUME UNCHANGED DP!Box!vars
  PROVE  \A i \in Logs : DP!StatusOf(i)' = DP!StatusOf(i)
<1>1. \A i \in Logs : DP!StatusMap[i] = DP!StatusOf(i) /\ DP!StatusMap'[i] = DP!StatusOf(i)'
  BY DEF DP!StatusMap, DP!Items, Logs
<1> QED
  BY <1>1 DEF DP!Box!vars

\* One that moves an item changes its status and no other.
LEMMA BoxMove ==
  ASSUME NEW i \in Logs, NEW from, NEW to, DP!Box!Move(i, from, to)
  PROVE  /\ DP!StatusOf(i) = from /\ DP!StatusOf(i)' = to
         /\ \A j \in Logs : j # i => DP!StatusOf(j)' = DP!StatusOf(j)
<1>1. \A j \in Logs : DP!StatusMap[j] = DP!StatusOf(j) /\ DP!StatusMap'[j] = DP!StatusOf(j)'
  BY DEF DP!StatusMap, DP!Items, Logs
<1>2. DP!StatusMap' = [DP!StatusMap EXCEPT ![i] = to] /\ DP!StatusMap[i] = from
  BY DEF DP!Box!Move
<1>3. DP!StatusMap \in [Logs -> {DP!StatusOf(j) : j \in Logs}]
  BY DEF DP!StatusMap, DP!Items, Logs
<1> QED
  BY <1>1, <1>2, <1>3

\* What a step that settles an item does, whether it ships, drops or abandons it.
LEMMA SettleStep ==
  ASSUME DP!IInv, DP!IInv',
         NEW i \in Logs, NEW to \in {"shipped", "dropped", "abandoned"},
         DP!Box!Move(i, "pending", to),
         i \notin late, UNCHANGED <<late, Place, Result, tries, ctxDone>>
  PROVE  P!Settle("Run")
<1>1. StatusInv /\ StatusInv'
  BY StatusFacts, StatusFactsNext
<1>2. /\ DP!StatusOf(i) = "pending" /\ DP!StatusOf(i)' = to
      /\ \A j \in Logs : j # i => DP!StatusOf(j)' = DP!StatusOf(j)
  BY BoxMove
<1>3. i \in Backlog /\ Backlog' = Backlog \ {i}
  <2>1. i \in Backlog
    BY <1>1, <1>2 DEF StatusInv
  <2>2. \A j : j \in Backlog' <=> j \in Backlog /\ j # i
    BY <1>1, <1>2 DEF StatusInv
  <2> QED
    BY <2>1, <2>2
<1>4. i \notin Shipped /\ (Shipped' = Shipped \/ Shipped' = Shipped \cup {i})
  <2>1. i \notin Shipped
    BY <1>1, <1>2 DEF StatusInv
  <2>2. CASE to = "shipped"
    <3>1. \A j : j \in Shipped' <=> j \in Shipped \/ j = i
      BY <1>1, <1>2, <2>2 DEF StatusInv
    <3> QED
      BY <2>1, <3>1
  <2>3. CASE to # "shipped"
    <3>1. \A j : j \in Shipped' <=> j \in Shipped
      BY <1>1, <1>2, <2>3 DEF StatusInv
    <3> QED
      BY <2>1, <3>1
  <2> QED
    BY <2>2, <2>3
<1>5. /\ IsFiniteSet(Backlog) /\ IsFiniteSet(Shipped)
      /\ Cardinality(Backlog) \in Nat /\ Cardinality(Shipped) \in Nat
  BY Counts
<1>6. Cardinality(Backlog') = Cardinality(Backlog) - 1 /\ Cardinality(Backlog) > 0
  <2>1. Cardinality(Backlog) # 0
    BY <1>3, <1>5, FS_EmptySet
  <2>2. Cardinality(Backlog \ {i}) = Cardinality(Backlog) - 1
    BY <1>3, <1>5, FS_RemoveElement
  <2> QED
    BY <1>3, <1>5, <2>1, <2>2
<1>7. Cardinality(Shipped') = Cardinality(Shipped) \/ Cardinality(Shipped') = Cardinality(Shipped) + 1
  BY <1>4, <1>5, FS_AddElement
<1> QED
  BY <1>6, <1>7 DEF P!Settle, Shipped

\* A worker's step settles one payload or none; while a worker is at work none is late.
LEMMA WorkerPromise ==
  ASSUME IInv, IInv', NEW w \in Workers, WorkerStep(w)
  PROVE  P!Settle("Run") \/ UNCHANGED P!vars
<1>0. DP!IInv /\ DP!IInv' /\ StatusInv /\ StatusInv'
  BY StatusFacts, StatusFactsNext DEF IInv
<1>1. DP!WorkerStep(w)
  BY SameWorkerStep DEF WorkerStep
<1>2. late = {}
  <2>1. pc[w] # "exited"
    BY <1>1 DEF DP!WorkerStep, DP!Take, DP!Exit, DP!DropExpired, DP!Send, DP!SendOk,
       DP!SendFail, DP!DropExhausted, DP!BackoffElapsed, DP!BackoffCancelled
  <2> QED
    BY <1>0, <2>1 DEF DP!IInv, DP!StopInv, DP!AllExited
<1>3. late' = late /\ stop' = stop
  BY <1>1 DEF DP!WorkerStep, DP!Take, DP!Exit, DP!DropExpired, DP!Send, DP!SendOk,
     DP!SendFail, DP!DropExhausted, DP!BackoffElapsed, DP!BackoffCancelled, DP!queueVars, DP!stopVars
<1>4. UNCHANGED <<Place, Result, tries, ctxDone>>
  BY <1>3 DEF WorkerStep, Frame, retryVars, Place, Result
<1>5. ASSUME UNCHANGED DP!Box!vars PROVE UNCHANGED P!vars
  BY <1>0, <1>3, <1>4, <1>5, BoxStutter, SetsStutter, PromiseStutter
<1>6. ASSUME NEW i \in DP!Items, DP!Box!Ship(i) \/ DP!Box!Drop(i) \/ DP!Box!Abandon(i)
      PROVE  P!Settle("Run")
  <2>1. i \in Logs
    BY DEF DP!Items, Logs
  <2>2. PICK to \in {"shipped", "dropped", "abandoned"} : DP!Box!Move(i, "pending", to)
    BY <1>6 DEF DP!Box!Ship, DP!Box!Drop, DP!Box!Abandon
  <2> QED
    BY <1>0, <1>2, <1>3, <1>4, <2>1, <2>2, SettleStep
<1>7. CASE DP!Take(w) \/ DP!Exit(w) \/ DP!Send(w) \/ DP!SendFail(w) \/ DP!BackoffElapsed(w)
  BY <1>0, Config, <1>5, <1>7, DP!TakeBox, DP!ExitBox, DP!SendBox, DP!SendFailBox, DP!BackoffElapsedBox
<1>8. CASE DP!DropExpired(w) \/ DP!SendOk(w) \/ DP!DropExhausted(w) \/ DP!BackoffCancelled(w)
  BY <1>0, Config, <1>6, <1>8, DP!DropExpiredBox, DP!SendOkBox, DP!DropExhaustedBox, DP!BackoffCancelledBox
<1> QED
  BY <1>1, <1>7, <1>8 DEF DP!WorkerStep

\* Stop begins to drain, and its drain settles what was there when it began.
LEMMA StopPromise ==
  ASSUME IInv, IInv', StopStep
  PROVE  P!Drain("Run") \/ P!Settle("Run") \/ UNCHANGED P!vars
<1>0. DP!IInv /\ DP!IInv' /\ StatusInv /\ StatusInv'
  BY StatusFacts, StatusFactsNext DEF IInv
<1>1. DP!StopStep
  BY SameStopStep DEF StopStep
<1>2. late' = late
  BY <1>1 DEF DP!StopStep, DP!StopWait, DP!DrainReceive, DP!DrainDropExpired, DP!DrainSend,
     DP!DrainResult, DP!StopReturn, DP!queueVars
<1>3. UNCHANGED <<phase, tries, verdict, ctxDone, returned>>
  BY DEF StopStep, Frame, retryVars
<1>4. phase = "done" /\ ~returned /\ DP!TypeOK
  BY <1>0, StopFrame DEF StopStep, IInv, RunInv, DP!IInv
<1>5. CASE DP!StopWait
  <2>1. UNCHANGED DP!Box!vars
    BY <1>5, Config, DP!StopWaitBox
  <2>2. UNCHANGED <<Backlog, Shipped>>
    BY <1>0, <1>2, <2>1, BoxStutter, SetsStutter
  <2>3. Place = "stopping" /\ Place' = "draining" /\ Result' = Result
    BY <1>3, <1>4, <1>5 DEF DP!StopWait, Place, Result
  <2> QED
    BY <1>3, <2>2, <2>3 DEF P!Drain, P!GoTo, P!workVars, Shipped
<1>6. ASSUME ~DP!StopWait PROVE UNCHANGED <<Place, Result>>
  <2>1. stop = "draining"
    BY <1>0, <1>1, <1>6 DEF DP!IInv, DP!StopInv, DP!StopStep, DP!DrainReceive,
       DP!DrainDropExpired, DP!DrainSend, DP!DrainResult, DP!StopReturn
  <2>2. stop' \in {"draining", "stopped"}
    BY <1>1, <1>6, <2>1 DEF DP!StopStep, DP!DrainReceive, DP!DrainDropExpired, DP!DrainSend,
       DP!DrainResult, DP!StopReturn
  <2> QED
    BY <1>3, <1>4, <2>1, <2>2 DEF Place, Result
<1>7. CASE (DP!DrainSend \/ DP!StopReturn) /\ ~DP!StopWait
  <2>1. UNCHANGED DP!Box!vars
    BY <1>0, <1>7, Config, DP!DrainSendBox, DP!StopReturnBox
  <2> QED
    BY <1>0, <1>2, <1>3, <1>6, <1>7, <2>1, BoxStutter, SetsStutter, PromiseStutter
<1>8. CASE DP!DrainDropExpired /\ ~DP!StopWait
  <2>1. PICK i \in DP!Items : DP!Box!Drop(i)
    BY <1>0, <1>8, Config, DP!DrainDropExpiredBox
  <2>2. i \in Logs /\ DP!Box!Move(i, "pending", "dropped")
    BY <2>1 DEF DP!Items, Logs, DP!Box!Drop
  <2>3. dropped'[i] # dropped[i]
    BY <2>2, BoxMove DEF DP!StatusOf
  <2>4. i = Head(items)
    BY <1>4, <1>8, <2>1, <2>3 DEF DP!TypeOK, DP!DrainDropExpired, DP!OnDrop
  <2>5. Head(items) \notin late
    <3>1. /\ stop = "draining" /\ drainLeft > 0 /\ drainLeft \in Nat
          /\ items \in Seq(DP!Items) /\ items # <<>>
      BY <1>4, <1>8 DEF DP!TypeOK, DP!DrainDropExpired, DP!DrainReceive
    <3>2. Head(items) = items[1] /\ 1 \in 1 .. Len(items)
      BY <3>1
    <3> QED
      BY <1>0, <3>1, <3>2 DEF DP!IInv, DP!DrainInv
  <2> QED
    BY <1>0, <1>2, <1>3, <1>6, <1>8, <2>2, <2>4, <2>5, SettleStep
<1>9. CASE DP!DrainResult /\ ~DP!StopWait
  <2>1. PICK i \in DP!Items : DP!Box!Ship(i) \/ DP!Box!Drop(i)
    BY <1>0, <1>9, Config, DP!DrainResultBox
  <2>2. PICK to \in {"shipped", "dropped"} : DP!Box!Move(i, "pending", to)
    BY <2>1 DEF DP!Box!Ship, DP!Box!Drop
  <2>3. i \in Logs
    BY DEF DP!Items, Logs
  <2>4. dropped'[i] # dropped[i] \/ shipped'[i] # shipped[i]
    BY <2>2, <2>3, BoxMove DEF DP!StatusOf
  <2>5. i = drainItem
    BY <1>4, <1>9, <2>1, <2>4 DEF DP!TypeOK, DP!DrainResult, DP!OnDrop, DP!OnSuccess
  <2>6. drainItem \notin late
    BY <1>0, <1>9 DEF DP!IInv, DP!StopInv, DP!DrainInv, DP!DrainResult
  <2> QED
    BY <1>0, <1>2, <1>3, <1>6, <1>9, <2>2, <2>3, <2>5, <2>6, SettleStep
<1> QED
  BY <1>1, <1>5, <1>7, <1>8, <1>9 DEF DP!StopStep

\* A payload that comes before the drain has counted is accepted; one that comes after it,
\* or finds the channel full, is not seen.
LEMMA EnqueuePromise ==
  ASSUME IInv, IInv', Enqueue
  PROVE  P!Accept("Run") \/ UNCHANGED P!vars
<1>0. DP!IInv /\ DP!IInv' /\ StatusInv /\ StatusInv'
  BY StatusFacts, StatusFactsNext DEF IInv
<1>1. PICK i \in Logs : i = Last(payload)
  BY LastFacts DEF IInv, OwnTypes, SerializerInv, Enqueue
<1>2. i \in DP!Items
  BY DEF DP!Items, Logs
<1>3. DP!Accept(i) \/ DP!Reject(i)
  BY <1>1, SameEnqueue DEF Enqueue, D!Enqueue
<1>4. UNCHANGED <<tries, ctxDone, Place, Result>>
  BY <1>3 DEF Enqueue, DP!Accept, DP!Reject, DP!Handed, DP!stopVars, retryVars, otherVars, Place, Result
<1>5. i \notin offered
  BY <1>1, <1>3, Config DEF DP!Accept, DP!Reject, DP!Handed, Logs
<1>6. CASE DP!Reject(i)
  <2>1. DP!Box!Move(i, "new", "dropped") /\ late' = late
    BY <1>0, <1>2, <1>6, Config, DP!RejectBox DEF DP!Box!Reject, DP!Reject
  <2>2. /\ DP!StatusOf(i) = "new" /\ DP!StatusOf(i)' = "dropped"
        /\ \A j \in Logs : j # i => DP!StatusOf(j)' = DP!StatusOf(j)
    BY <1>1, <2>1, BoxMove
  <2>3. (\A j : j \in Backlog' <=> j \in Backlog) /\ (\A j : j \in Shipped' <=> j \in Shipped)
    BY <1>0, <2>1, <2>2 DEF StatusInv
  <2>4. UNCHANGED <<Backlog, Shipped>>
    BY <2>3 DEF Backlog, Shipped
  <2> QED
    BY <1>4, <2>4, PromiseStutter
<1>7. CASE DP!Accept(i)
  <2>1. DP!Box!Move(i, "new", "pending") /\ late' = IF DP!DrainCounted THEN late \cup {i} ELSE late
    BY <1>0, <1>2, <1>7, Config, DP!AcceptBox DEF DP!Box!Accept, DP!Accept
  <2>2. /\ DP!StatusOf(i) = "new" /\ DP!StatusOf(i)' = "pending"
        /\ \A j \in Logs : j # i => DP!StatusOf(j)' = DP!StatusOf(j)
    BY <1>1, <2>1, BoxMove
  <2>3. \A j : j \in Shipped' <=> j \in Shipped
    BY <1>0, <2>2 DEF StatusInv
  <2>4. Shipped' = Shipped
    BY <2>3 DEF Shipped
  <2>5. CASE DP!DrainCounted
    <3>1. \A j : j \in Backlog' <=> j \in Backlog
      BY <1>0, <2>1, <2>2, <2>5 DEF StatusInv
    <3>2. Backlog' = Backlog
      BY <3>1 DEF Backlog
    <3> QED
      BY <1>4, <2>4, <3>2, PromiseStutter
  <2>6. CASE ~DP!DrainCounted
    <3>1. late = {} /\ late' = {}
      BY <1>0, <2>1, <2>6 DEF DP!IInv, DP!StopInv
    <3>2. i \notin Backlog /\ \A j : j \in Backlog' <=> j \in Backlog \/ j = i
      BY <1>0, <1>1, <2>2, <3>1 DEF StatusInv
    <3>3. Backlog' = Backlog \cup {i}
      BY <3>2
    <3>4. /\ IsFiniteSet(Backlog) /\ Cardinality(Backlog) \in Nat
          /\ Cardinality(Shipped) + Cardinality(Backlog) < MaxLogs
      BY <1>0, <1>1, <1>5, Counts
    <3>5. Cardinality(Backlog \cup {i}) = Cardinality(Backlog) + 1
      BY <3>2, <3>4, FS_AddElement
    <3>6. Place \in {"running", "stopping"}
      BY <2>6 DEF Place, DP!DrainCounted, IInv, RunInv
    <3> QED
      BY <1>4, <2>4, <3>3, <3>4, <3>5, <3>6 DEF P!Accept, Shipped
  <2> QED
    BY <2>5, <2>6
<1> QED
  BY <1>3, <1>6, <1>7

\* What the dispatcher does not do leaves its items where they are.
LEMMA SetsFrame ==
  ASSUME UNCHANGED <<items, held, drainItem, offered, late, shipped>>
  PROVE  UNCHANGED <<Backlog, Shipped>>
<1>1. \A i : D!Pending(i)' <=> D!Pending(i)
  BY DEF D!Pending, D!Queued, D!HeldBy
<1> QED
  BY <1>1 DEF Backlog, Shipped

\* The steps of the retry loop: a failure that is borne, or the end of the loop.
LEMMA LoopPromise ==
  ASSUME IInv, IInv', SubscribeFails \/ SubscribeCancelled \/ Subscribe \/ RetryInterrupted
  PROVE  P!Fail("Run") \/ P!LoopEnds("Run") \/ UNCHANGED P!vars
<1>0. RunInv /\ tries \in 0 .. MaxSubscribe /\ MaxSubscribe \in Nat
  BY Config DEF IInv, OwnTypes, R!TypeOK, R!HighestTry, R!Unlimited
<1>1. UNCHANGED <<dispatcherVars, ctxDone, pipeDone, returned>>
  BY DEF SubscribeFails, SubscribeCancelled, Subscribe, RetryInterrupted, otherVars
<1>2. UNCHANGED <<Backlog, Shipped>>
  BY <1>1, SetsFrame DEF dispatcherVars
<1>3. ASSUME phase # "done"
      PROVE  Place = "running" /\ Result = "none" /\ stop = "running" /\ ~returned
  BY <1>0, <1>3 DEF RunInv, Place, Result
<1>4. ASSUME phase # "done", phase' = "done", tries' = tries, verdict' = "nil",
             ctxDone
      PROVE  P!LoopEnds("Run")
  <2>1. Place' = "stopping" /\ Result' = "nil"
    BY <1>1, <1>3, <1>4 DEF dispatcherVars, Place, Result
  <2> QED
    BY <1>1, <1>2, <1>3, <1>4, <2>1 DEF P!LoopEnds, P!GoTo, P!workVars, Shipped
<1>5. ASSUME phase # "done", phase' = "done", tries' = tries,
             \/ verdict' = "cancelled" /\ ctxDone
             \/ verdict' = "exhausted" /\ tries = MaxSubscribe
      PROVE  P!LoopEnds("Run")
  <2>1. Place' = "stopping" /\ Result' = "error"
    BY <1>1, <1>3, <1>5 DEF dispatcherVars, Place, Result
  <2> QED
    BY <1>1, <1>2, <1>3, <1>5, <2>1 DEF P!LoopEnds, P!GoTo, P!workVars, Shipped
<1>6. CASE R!FailRetryable
  <2>1. /\ phase = "call"
        /\ \/ phase' = "done" /\ verdict' = "exhausted" /\ tries' = tries /\ tries = MaxSubscribe
           \/ phase' = "wait" /\ tries' = tries + 1
    BY <1>6, FailFacts
  <2>2. CASE phase' = "done"
    BY <1>5, <2>1, <2>2
  <2>3. CASE phase' = "wait" /\ tries' = tries + 1
    <3>1. tries < MaxSubscribe
      BY <1>0, <2>3 DEF IInv, OwnTypes, R!TypeOK, R!HighestTry, R!Unlimited
    <3>2. Place' = "running" /\ Result' = "none"
      BY <1>1, <1>3, <2>1, <2>3 DEF dispatcherVars, Place, Result
    <3> QED
      BY <1>1, <1>2, <1>3, <2>1, <2>3, <3>1, <3>2 DEF P!Fail, P!workVars, Shipped
  <2> QED
    BY <2>1, <2>2, <2>3
<1>7. CASE R!Succeed /\ pipeDone
  <2>1. phase = "call" /\ phase' = "done" /\ tries' = tries /\ verdict' = "nil" /\ ctxDone
    BY <1>0, <1>7 DEF R!Succeed, R!Finish, RunInv
  <2> QED
    BY <1>4, <2>1
<1>8. CASE R!Interrupt /\ pipeDone
  <2>1. phase = "wait" /\ phase' = "done" /\ tries' = tries /\ verdict' = "cancelled" /\ ctxDone
    BY <1>0, <1>8 DEF R!Interrupt, R!Finish, RunInv
  <2> QED
    BY <1>5, <2>1
<1>9. CASE R!Elapse
  <2>1. UNCHANGED <<Place, Result, tries>>
    BY <1>1, <1>9 DEF R!Elapse, dispatcherVars, Place, Result
  <2> QED
    BY <1>1, <1>2, <2>1, PromiseStutter
<1> QED
  BY <1>6, <1>7, <1>8, <1>9 DEF SubscribeFails, SubscribeCancelled, Subscribe, RetryInterrupted

\* The context is cancelled.
LEMMA CancelPromise ==
  ASSUME Cancel
  PROVE  P!Cancel
<1>1. UNCHANGED <<items, held, drainItem, offered, late, shipped, stop>>
  BY DEF Cancel, D!ParentCancel, D!queueVars, D!workerVars, D!stopVars, D!tallyVars, dispatcherVars
<1>2. UNCHANGED <<Backlog, Shipped>>
  BY <1>1, SetsFrame
<1>3. UNCHANGED <<Place, Result, tries>> /\ ctxDone' = TRUE
  BY <1>1 DEF Cancel, retryVars, otherVars, Place, Result
<1> QED
  BY <1>2, <1>3 DEF P!Cancel, P!workVars, Shipped

\* Run returns, and the drain has left nothing but what is late.
LEMMA ReturnPromise ==
  ASSUME IInv, Return
  PROVE  P!Stopped("Run")
<1>0. DP!IInv /\ ~returned /\ stop = "stopped"
  BY DEF IInv, Return
<1>1. UNCHANGED <<dispatcherVars, retryVars, ctxDone>> /\ returned'
  BY DEF Return, Frame
<1>2. Backlog = {}
  <2> SUFFICES ASSUME NEW i \in offered, i \notin late, D!Pending(i) PROVE FALSE
    BY DEF Backlog
  <2>1. i # DP!NoItem
    BY <1>0 DEF DP!IInv, DP!TypeOK, DP!Items, DP!NoItem
  <2>2. drainItem # i
    BY <1>0, <2>1 DEF DP!IInv, DP!StopInv
  <2>3. \A w \in Workers : held[w] # i
    BY <1>0, <2>1 DEF DP!IInv, DP!StopInv, DP!WorkerInv, DP!DrainCounted, DP!AllExited
  <2>4. PICK k \in DOMAIN items : items[k] = i
    BY <2>2, <2>3 DEF D!Pending, D!HeldBy, D!Queued
  <2>5. k \in 1 .. Len(items)
    <3>1. items \in Seq(DP!Items)
      BY <1>0 DEF DP!IInv, DP!TypeOK
    <3> QED
      BY <3>1
  <2> QED
    BY <1>0, <2>4, <2>5 DEF DP!IInv, DP!DrainInv
<1>3. Cardinality(Backlog) = 0
  BY <1>2, FS_EmptySet
<1>4. UNCHANGED <<Backlog, Shipped>>
  BY <1>1, SetsFrame DEF dispatcherVars
<1>5. Place = "draining" /\ Place' = "returned" /\ Result' = Result /\ tries' = tries
  BY <1>0, <1>1 DEF dispatcherVars, retryVars, Place, Result
<1> QED
  BY <1>1, <1>3, <1>4, <1>5 DEF P!Stopped, P!GoTo, P!workVars, Shipped

\* The rest, which the process does not see.
LEMMA UnseenPromise ==
  ASSUME IInv,
         Receive \/ LetGo \/ Flush \/ Push \/ Serialized \/ SerializeFailed \/ SerializerExit
           \/ Expire \/ PipeCancel \/ DispatcherStop \/ UNCHANGED vars
  PROVE  UNCHANGED P!vars
<1>1. /\ UNCHANGED <<items, held, drainItem, offered, late, shipped>>
      /\ UNCHANGED <<phase, tries, verdict, ctxDone, returned>>
  <2>1. CASE \/ Receive \/ LetGo \/ Flush \/ Push
             \/ Serialized \/ SerializeFailed \/ SerializerExit \/ PipeCancel
    BY <2>1 DEF Receive, LetGo, Flush, Push, Serialized, SerializeFailed, SerializerTake, SerializerExit,
       PipeCancel, dispatcherVars, retryVars, otherVars
  <2>2. CASE Expire
    BY <2>2 DEF Expire, Frame, D!Tick, D!queueVars, D!workerVars, D!stopVars, D!tallyVars,
       retryVars, otherVars
  <2>3. CASE DispatcherStop
    BY <2>3 DEF DispatcherStop, Frame, D!StopCancel, D!queueVars, D!workerVars, D!tallyVars,
       retryVars, otherVars
  <2>4. CASE UNCHANGED vars
    BY <2>4 DEF vars, dispatcherVars, retryVars, otherVars
  <2> QED
    BY <2>1, <2>2, <2>3, <2>4
<1>2. stop' = stop \/ (stop = "running" /\ stop' = "waiting" /\ phase = "done")
  BY DEF Receive, LetGo, Flush, Push, Serialized, SerializeFailed, SerializerTake, SerializerExit,
     PipeCancel, Expire, DispatcherStop, D!Tick, D!stopVars, D!StopCancel, vars, dispatcherVars
<1>3. UNCHANGED <<Place, Result>>
  BY <1>1, <1>2 DEF Place, Result
<1> QED
  BY <1>1, <1>3, SetsFrame, PromiseStutter

\* The pipeline starts as one that runs, with nothing in hand.
LEMMA InitPromise == Init => P!Init
<1> SUFFICES ASSUME Init PROVE P!Init
  OBVIOUS
<1>1. Backlog = {} /\ Shipped = {}
  BY DEF Init, D!Init, Backlog, Shipped
<1>2. Cardinality(Backlog) = 0 /\ Cardinality(Shipped) = 0
  BY <1>1, FS_EmptySet
<1>3. Place = "running" /\ Result = "none" /\ tries = 0 /\ ctxDone = FALSE
  BY DEF Init, D!Init, R!Init, Place, Result
<1> QED
  BY <1>2, <1>3 DEF P!Init, Shipped

\* Every step of the pipeline is one of the promise, or not seen by it.
LEMMA NextPromise ==
  ASSUME IInv, IInv', [Next]_vars
  PROVE  [P!Next]_P!vars
<1>1. CASE Receive \/ Forsake \/ Flush \/ SubscribeFails \/ SubscriptionStep
  BY <1>1, LoopPromise, UnseenPromise DEF Forsake, HandOver, SubscriptionStep, P!Next
<1>2. CASE SerializerStep
  BY <1>2, EnqueuePromise, UnseenPromise DEF SerializerStep, P!Next
<1>3. ASSUME NEW w \in Workers, WorkerStep(w) PROVE [P!Next]_P!vars
  BY <1>3, WorkerPromise DEF P!Next
<1>4. CASE Expire \/ Cancel
  BY <1>4, CancelPromise, UnseenPromise DEF P!Next
<1>5. CASE RunStep
  BY <1>5, StopPromise, ReturnPromise, UnseenPromise DEF RunStep, P!Next
<1>6. CASE UNCHANGED vars
  BY <1>6, UnseenPromise
<1> QED
  BY <1>1, <1>2, <1>3, <1>4, <1>5, <1>6 DEF Next

\* Every behaviour of the pipeline is one that the process relies on: Run ends its retry
\* loop only with its context or its patience, says nil only with the former, and returns
\* only when everything that came before its drain is settled.
THEOREM Refinement == Spec => ImplementsPromise
<1>1. Spec => []IInv
  BY Inductive
<1>2. IInv /\ IInv' /\ [Next]_vars => [P!Next]_P!vars
  BY NextPromise
<1> QED
  BY <1>1, <1>2, InitPromise, PTL DEF Spec, ImplementsPromise, P!Spec

-----------------------------------------------------------------------------
(* The same promise in terms of the pipeline, for the module that runs two *)
(* of them.                                                                *)

BacklogSize  == Cardinality(Backlog)
ShippedCount == Cardinality(Shipped)

AcceptSeen ==
  /\ Place \in {"running", "stopping"}
  /\ ShippedCount + BacklogSize < MaxLogs
  /\ BacklogSize' = BacklogSize + 1
  /\ UNCHANGED <<Place, Result, tries, ShippedCount>>

SettleSeen ==
  /\ BacklogSize > 0
  /\ BacklogSize' = BacklogSize - 1
  /\ ShippedCount' = ShippedCount + 1 \/ UNCHANGED ShippedCount
  /\ UNCHANGED <<Place, Result, tries>>

FailSeen ==
  /\ Place = "running" /\ tries < MaxSubscribe
  /\ tries' = tries + 1
  /\ UNCHANGED <<Place, Result, BacklogSize, ShippedCount>>

LoopEndsSeen ==
  /\ Place = "running" /\ Place' = "stopping"
  /\ Result' \in {"nil", "error"}
  /\ ctxDone \/ (Result' = "error" /\ tries = MaxSubscribe)
  /\ UNCHANGED <<tries, BacklogSize, ShippedCount>>

DrainSeen ==
  /\ Place = "stopping" /\ Place' = "draining"
  /\ UNCHANGED <<Result, tries, BacklogSize, ShippedCount>>

StoppedSeen ==
  /\ Place = "draining" /\ BacklogSize = 0 /\ Place' = "returned"
  /\ UNCHANGED <<Result, tries, BacklogSize, ShippedCount>>

NothingSeen == UNCHANGED <<Place, Result, tries, BacklogSize, ShippedCount>>

\* Where nothing is counted, nothing is left.
LEMMA NoBacklog == ASSUME DP!IInv, BacklogSize = 0 PROVE Backlog = {}
  BY Counts, FS_EmptySet DEF BacklogSize

\* What a pipeline has seen of it before its first step.
LEMMA InitSeen ==
  ASSUME Init
  PROVE  Place = "running" /\ Result = "none" /\ tries = 0 /\ BacklogSize = 0 /\ ShippedCount = 0
<1> DEFINE one == {"Run"}
<1>1. /\ [p \in one |-> Place] = [p \in one |-> "running"]
      /\ [p \in one |-> Result] = [p \in one |-> "none"]
      /\ [p \in one |-> tries] = [p \in one |-> 0]
      /\ [p \in one |-> BacklogSize] = [p \in one |-> 0]
      /\ [p \in one |-> ShippedCount] = [p \in one |-> 0]
  BY InitPromise DEF P!Init, BacklogSize, ShippedCount, Shipped
<1>2. \A x, y : [p \in one |-> x] = [p \in one |-> y] => x = y
  <2> SUFFICES ASSUME NEW x, NEW y, [p \in one |-> x] = [p \in one |-> y] PROVE x = y
    OBVIOUS
  <2>1. [p \in one |-> x]["Run"] = [p \in one |-> y]["Run"]
    OBVIOUS
  <2> QED
    BY <2>1
<1> QED
  BY <1>1, <1>2

\* Of a cancellation it sees nothing, and of a step that changes nothing neither.
LEMMA UnseenSteps ==
  ASSUME Cancel \/ UNCHANGED vars
  PROVE  NothingSeen
<1>1. UNCHANGED <<items, held, drainItem, offered, late, shipped, stop>>
  BY DEF Cancel, D!ParentCancel, D!queueVars, D!workerVars, D!stopVars, D!tallyVars,
         dispatcherVars, vars
<1>2. UNCHANGED <<Backlog, Shipped>>
  BY <1>1, SetsFrame
<1>3. UNCHANGED <<Place, Result, tries>>
  BY <1>1 DEF Cancel, vars, retryVars, otherVars, Place, Result
<1> QED
  BY <1>2, <1>3 DEF NothingSeen, BacklogSize, ShippedCount

\* What the process sees of a step is one of these.
LEMMA StepSeen ==
  ASSUME IInv, [Next]_vars
  PROVE  \/ NothingSeen \/ AcceptSeen \/ SettleSeen \/ FailSeen
         \/ LoopEndsSeen \/ DrainSeen \/ StoppedSeen
<1> DEFINE one == {"Run"}
           f(x) == [p \in one |-> x]
<1>1. [P!Next]_P!vars
  BY NextIInv, NextPromise
<1>2. \A x, y : f(x) = f(y) => x = y
  <2> SUFFICES ASSUME NEW x, NEW y, f(x) = f(y) PROVE x = y
    OBVIOUS
  <2>1. f(x)["Run"] = f(y)["Run"]
    OBVIOUS
  <2> QED
    BY <2>1
<1>3. \A x, y : [f(x) EXCEPT !["Run"] = y] = f(y)
  OBVIOUS
<1>4. \A x : f(x)["Run"] = x
  OBVIOUS
<1>5. CASE UNCHANGED P!vars \/ P!Cancel
  BY <1>2, <1>5 DEF P!vars, P!workVars, P!Cancel, NothingSeen, BacklogSize, ShippedCount, Shipped
<1>6. CASE P!Accept("Run")
  BY <1>2, <1>3, <1>4, <1>6 DEF P!Accept, AcceptSeen, BacklogSize, ShippedCount, Shipped
<1>7. CASE P!Settle("Run")
  BY <1>2, <1>3, <1>4, <1>7 DEF P!Settle, SettleSeen, BacklogSize, ShippedCount, Shipped
<1>8. CASE P!Fail("Run")
  BY <1>2, <1>3, <1>4, <1>8 DEF P!Fail, P!workVars, FailSeen, BacklogSize, ShippedCount, Shipped
<1>9. CASE P!LoopEnds("Run")
  BY <1>2, <1>3, <1>4, <1>9
     DEF P!LoopEnds, P!GoTo, P!workVars, LoopEndsSeen, BacklogSize, ShippedCount, Shipped
<1>10. CASE P!Drain("Run")
  BY <1>2, <1>3, <1>4, <1>10
     DEF P!Drain, P!GoTo, P!workVars, DrainSeen, BacklogSize, ShippedCount, Shipped
<1>11. CASE P!Stopped("Run")
  BY <1>2, <1>3, <1>4, <1>11
     DEF P!Stopped, P!GoTo, P!workVars, StoppedSeen, BacklogSize, ShippedCount, Shipped
<1> QED
  BY <1>1, <1>5, <1>6, <1>7, <1>8, <1>9, <1>10, <1>11 DEF P!Next

-----------------------------------------------------------------------------
(* Outcomes, step by step.                                                 *)

\* What is counted of an item never falls, and its logs stay what they are.
Kept ==
  /\ offered \subseteq offered' /\ unserialized \subseteq unserialized'
  /\ \A i \in offered : /\ contents'[i] = contents[i]
                        /\ shipped[i] <= shipped'[i] /\ dropped[i] <= dropped'[i]

\* No callback of the dispatcher lowers a count.
LEMMA CallbackCounts ==
  ASSUME shipped \in [Logs -> Nat], dropped \in [Logs -> Nat],
         D!NoCallback \/ \E n : D!OnSuccess(n) \/ D!OnDrop(n)
  PROVE  \A i \in Logs : shipped[i] <= shipped'[i] /\ dropped[i] <= dropped'[i]
  BY DEF D!NoCallback, D!OnSuccess, D!OnDrop

\* Nor does a step of a worker or of Stop, and it takes no item back.
LEMMA DispatcherKeeps ==
  ASSUME IInv, D!StopStep \/ \E w \in Workers : D!WorkerStep(w)
  PROVE  /\ offered' = offered
         /\ \A i \in Logs : shipped[i] <= shipped'[i] /\ dropped[i] <= dropped'[i]
<1>1. shipped \in [Logs -> Nat] /\ dropped \in [Logs -> Nat]
  BY DispatcherTypes DEF IInv
<1>2. offered' = offered /\ (D!NoCallback \/ \E n : D!OnSuccess(n) \/ D!OnDrop(n))
  <2>1. ASSUME NEW w, D!WorkerStep(w)
        PROVE  offered' = offered /\ (D!NoCallback \/ \E n : D!OnSuccess(n) \/ D!OnDrop(n))
    BY <2>1 DEF D!WorkerStep, D!Take, D!Exit, D!DropExpired, D!Send, D!SendOk, D!SendFail,
       D!DropExhausted, D!BackoffElapsed, D!BackoffCancelled, D!queueVars, D!tallyVars,
       D!NoCallback
  <2>2. ASSUME D!StopStep
        PROVE  offered' = offered /\ (D!NoCallback \/ \E n : D!OnSuccess(n) \/ D!OnDrop(n))
    BY <2>2 DEF D!StopStep, D!StopWait, D!DrainReceive, D!DrainDropExpired, D!DrainSend,
       D!DrainResult, D!StopReturn, D!queueVars, D!tallyVars, D!NoCallback
  <2> QED
    BY <2>1, <2>2
<1> QED
  BY <1>1, <1>2, CallbackCounts

\* A new payload takes the place of no other: its last log is in no item yet.
LEMMA EnqueueKeeps == ASSUME IInv, Enqueue PROVE Kept
<1>0. payload # {} /\ payload \subseteq Logs
  BY DEF Enqueue, IInv, SerializerInv, OwnTypes
<1> DEFINE last == Last(payload)
<1>1. last \in payload /\ last \in Logs
  BY <1>0, LastFacts
<1>2. last \notin offered
  <2>1. Coming(last)
    BY <1>1 DEF Coming
  <2>2. last \in offered => Past(last)
    BY DEF IInv, ContentsInv, Past
  <2> QED
    BY <1>1, <2>1, <2>2, OneItem
<1> HIDE DEF last
<1>3. /\ offered \subseteq offered'
      /\ D!NoCallback \/ \E n : D!OnSuccess(n) \/ D!OnDrop(n)
  BY DEF Enqueue, D!Enqueue, D!Accept, D!Reject, D!Handed
<1>4. \A i \in Logs : shipped[i] <= shipped'[i] /\ dropped[i] <= dropped'[i]
  BY <1>3, CallbackCounts, DispatcherTypes DEF IInv
<1>5. \A i \in offered : i # last => contents'[i] = contents[i]
  BY DispatcherTypes DEF Enqueue, IInv, OwnTypes, last
<1> QED
  BY <1>2, <1>3, <1>4, <1>5, DispatcherTypes DEF Enqueue, Kept, IInv

\* Every step of the pipeline keeps the counts.
LEMMA NextKeeps == ASSUME IInv, [Next]_vars PROVE Kept
<1>0. shipped \in [Logs -> Nat] /\ dropped \in [Logs -> Nat] /\ offered \subseteq Logs
  BY DispatcherTypes DEF IInv
<1>1. UNCHANGED <<offered, unserialized, contents, shipped, dropped>> => Kept
  BY <1>0 DEF Kept
<1>2. CASE Receive \/ Forsake \/ Flush \/ SubscribeFails \/ SubscriptionStep
  BY <1>1, <1>2 DEF Receive, Forsake, HandOver, LetGo, Flush, SubscribeFails, SubscriptionStep, Push,
     SubscribeCancelled, Subscribe, RetryInterrupted, dispatcherVars, serializerVars
<1>3. CASE SerializerStep
  <2>1. CASE Serialized \/ SerializerExit
    BY <1>1, <2>1 DEF Serialized, SerializerTake, SerializerExit, dispatcherVars
  <2>2. CASE SerializeFailed
    BY <1>0, <2>2 DEF SerializeFailed, SerializerTake, dispatcherVars, Kept
  <2> QED
    BY <1>3, <2>1, <2>2, EnqueueKeeps DEF SerializerStep
<1>4. ASSUME StopStep \/ \E w \in Workers : WorkerStep(w) PROVE Kept
  <2>1. UNCHANGED <<unserialized, contents>> /\ (D!StopStep \/ \E w \in Workers : D!WorkerStep(w))
    BY <1>4 DEF StopStep, WorkerStep, Frame, serializerVars
  <2> QED
    BY <1>0, <2>1, DispatcherKeeps DEF Kept
<1>5. CASE Expire \/ Cancel
  BY <1>1, <1>5 DEF Expire, Cancel, Frame, D!Tick, D!ParentCancel, D!queueVars, D!tallyVars,
     dispatcherVars, serializerVars
<1>6. CASE PipeCancel \/ DispatcherStop \/ Return
  BY <1>1, <1>6 DEF PipeCancel, DispatcherStop, Return, Frame, D!StopCancel, D!queueVars,
     D!tallyVars, dispatcherVars, serializerVars
<1>7. CASE UNCHANGED vars
  BY <1>1, <1>7 DEF vars, dispatcherVars, serializerVars
<1> QED
  BY <1>2, <1>3, <1>4, <1>5, <1>6, <1>7 DEF Next, RunStep

\* Once a log is counted, as processed or as failed, it stays so.
FateIsFinal ==
  [][\A l \in Logs : (Processed(l) => Processed(l)') /\ (Failed(l) => Failed(l)')]_vars

\* The counters of a pipeline (pipeline.go:152, 156, 176) never take a log back: no later
\* payload, retry or drain changes what has been counted, and since a log never has two
\* fates (LogsHaveOneFate) none is counted a second time as the other thing.
THEOREM FatesAreFinal == Spec => FateIsFinal
<1>1. ASSUME IInv, [Next]_vars
      PROVE  \A l \in Logs : (Processed(l) => Processed(l)') /\ (Failed(l) => Failed(l)')
  <2>1. Kept
    BY <1>1, NextKeeps
  <2>2. offered \subseteq Logs /\ shipped \in [Logs -> Nat] /\ dropped \in [Logs -> Nat]
    BY <1>1, DispatcherTypes DEF IInv
  <2>3. shipped' \in [Logs -> Nat] /\ dropped' \in [Logs -> Nat]
    <3>1. DP!IInv'
      BY <1>1, NextIInv DEF IInv
    <3> QED
      BY <3>1 DEF DP!IInv, DP!TypeOK, DP!Items, Logs
  <2> QED
    BY <2>1, <2>2, <2>3 DEF Kept, Processed, Failed
<1> QED
  BY <1>1, Inductive, PTL DEF Spec, FateIsFinal

-----------------------------------------------------------------------------
(* The delays of the retry loop.                                           *)

\* Multiplying by one number keeps the order of two.
LEMMA ProductMonotone ==
  ASSUME NEW a \in Nat, NEW b \in Nat, NEW f \in Nat, a <= b
  PROVE  a * f \in Nat /\ a * f <= b * f
<1>1. PICK c \in Nat : b = a + c
  <2>1. b - a \in Nat /\ b = a + (b - a)
    OBVIOUS
  <2> QED
    BY <2>1
<1>2. b * f = a * f + c * f /\ c * f \in Nat /\ a * f \in Nat
  BY <1>1
<1> QED
  BY <1>2

\* So does the division by which a percentage is applied.
LEMMA QuotientMonotone ==
  ASSUME NEW x \in Nat, NEW y \in Nat, x <= y
  PROVE  x \div 10000 \in Nat /\ x \div 10000 <= y \div 10000
  OBVIOUS

\* Whatever the ceiling, the percentage, the draw and the delay: a delay with jitter is
\* below the ceiling and not below what the percentage leaves of it, and with one draw
\* a longer delay stays the longer.
THEOREM JitterInBounds ==
  ASSUME NEW max \in Nat, NEW jitter \in 0 .. 100, NEW draw \in 0 .. 99,
         NEW d \in 0 .. max, NEW e \in d .. max
  PROVE  /\ R!ApplyJitter(d, jitter, max, draw) \in 0 .. max
         /\ R!ApplyJitter(d, jitter, max, draw) >= (d * (100 - jitter)) \div 100
         /\ R!ApplyJitter(d, jitter, max, draw) <= R!ApplyJitter(e, jitter, max, draw)
<1> DEFINE f == 10000 + jitter * (2 * draw - 100)
           least == 10000 - 100 * jitter
           q(x) == (x * f) \div 10000
<1>1. f \in Nat /\ least \in Nat /\ least <= f
  <2>1. jitter * (2 * draw - 100) = 2 * (jitter * draw) - 100 * jitter
    OBVIOUS
  <2>2. jitter * draw \in Nat
    OBVIOUS
  <2> QED
    BY <2>1, <2>2
<1>2. R!AtMost(jitter, 100) = jitter
  BY DEF R!AtMost
<1>3. d \in Nat /\ e \in Nat /\ d <= e
  OBVIOUS
<1> HIDE DEF f, least
<1>4. q(d) \in Nat /\ q(e) \in Nat /\ q(d) <= q(e)
  <2>1. d * f \in Nat /\ e * f \in Nat /\ d * f <= e * f
    BY <1>1, <1>3, ProductMonotone
  <2> QED
    BY <2>1, QuotientMonotone
<1>5. (d * least) \div 10000 <= q(d) /\ (d * least) \div 10000 <= d /\ (d * least) \div 10000 \in Nat
  <2>1. least * d \in Nat /\ least * d <= f * d /\ least * d <= 10000 * d
    <3>1. least <= 10000
      BY DEF least
    <3> QED
      BY <1>1, <1>3, <3>1, ProductMonotone
  <2>2. d * least = least * d /\ d * f = f * d /\ f * d \in Nat
    BY <1>1, <1>3
  <2>3. 10000 * d \in Nat /\ (10000 * d) \div 10000 = d
    BY <1>3
  <2> QED
    BY <2>1, <2>2, <2>3, QuotientMonotone
<1>6. \A x : R!ApplyJitter(x, jitter, max, draw) = R!AtMost(IF jitter > 0 THEN q(x) ELSE x, max)
  BY <1>2 DEF R!ApplyJitter, f
<1> HIDE DEF q
<1>7. (d * least) \div 10000 = (d * (100 - jitter)) \div 100
  <2>1. d * least = 100 * (d * (100 - jitter)) /\ d * (100 - jitter) \in Nat
    BY <1>3 DEF least
  <2>2. \A x \in Nat : (100 * x) \div 10000 = x \div 100
    OBVIOUS
  <2> QED
    BY <2>1, <2>2
<1> QED
  BY <1>3, <1>4, <1>5, <1>6, <1>7 DEF R!AtMost

\* The delay doubles from one attempt to the next until it reaches the ceiling.
LEMMA NominalDelays ==
  /\ Nominal(0) = 1000 /\ Nominal(1) = 2000 /\ Nominal(2) = 4000
  /\ Nominal(3) = 8000 /\ Nominal(4) = 16000
  /\ \A n \in {5, 6, 7, 8, 9, 10, 11} : Nominal(n) = MaxBackoff
<1>1. /\ 2 ^ 0 = 1 /\ 2 ^ 1 = 2 /\ 2 ^ 2 = 4 /\ 2 ^ 3 = 8 /\ 2 ^ 4 = 16 /\ 2 ^ 5 = 32
      /\ 2 ^ 6 = 64 /\ 2 ^ 7 = 128 /\ 2 ^ 8 = 256 /\ 2 ^ 9 = 512 /\ 2 ^ 10 = 1024
      /\ 2 ^ 11 = 2048
  OBVIOUS
<1> QED
  BY <1>1 DEF Nominal, InitialBackoff, MaxBackoff, R!CalculateBackoff, R!AtMost

\* No delay without jitter is longer than the next, or than the ceiling, and all can be halved.
LEMMA NominalInOrder ==
  ASSUME NEW n \in 0 .. LastAttempt
  PROVE  \E h \in Nat : Nominal(n) = 2 * h /\ Nominal(n + 1) \in 2 * h .. MaxBackoff
<1>1. n \in {0, 1, 2, 3} \/ n = 4 \/ n \in {5, 6, 7, 8, 9, 10}
  BY DEF LastAttempt
<1>2. CASE n \in {0, 1, 2, 3}
  <2>1. /\ n + 1 \in {1, 2, 3, 4}
        /\ \E h \in Nat : Nominal(n) = 2 * h /\ Nominal(n + 1) = 4 * h /\ 4 * h <= 16000
    <3>1. CASE n = 0
      BY <3>1, NominalDelays, 1000 = 2 * 500 /\ 2000 = 4 * 500
    <3>2. CASE n = 1
      BY <3>2, NominalDelays, 2000 = 2 * 1000 /\ 4000 = 4 * 1000
    <3>3. CASE n = 2
      BY <3>3, NominalDelays, 4000 = 2 * 2000 /\ 8000 = 4 * 2000
    <3>4. CASE n = 3
      BY <3>4, NominalDelays, 8000 = 2 * 4000 /\ 16000 = 4 * 4000
    <3> QED
      BY <1>2, <3>1, <3>2, <3>3, <3>4
  <2> QED
    BY <2>1 DEF MaxBackoff
<1>3. CASE n = 4
  BY <1>3, NominalDelays, 16000 = 2 * 8000 DEF MaxBackoff
<1>4. CASE n \in {5, 6, 7, 8, 9, 10}
  <2>1. n + 1 \in {5, 6, 7, 8, 9, 10, 11}
    BY <1>4
  <2>2. Nominal(n) = MaxBackoff /\ Nominal(n + 1) = MaxBackoff
    BY <1>4, <2>1, NominalDelays
  <2> QED
    BY <2>2, 30000 = 2 * 15000 DEF MaxBackoff
<1> QED
  BY <1>1, <1>2, <1>3, <1>4

\* Half the delay is what a jitter of 50% leaves at the least.
LEMMA HalfJitter ==
  ASSUME NEW max \in Nat, NEW draw \in 0 .. 99, NEW h \in Nat, 2 * h <= max, NEW e \in 2 * h .. max
  PROVE  /\ R!ApplyJitter(2 * h, 50, max, draw) \in h .. max
         /\ R!ApplyJitter(2 * h, 50, max, draw) <= R!ApplyJitter(e, 50, max, draw)
<1> DEFINE d == 2 * h  j == 50
<1>1. j \in 0 .. 100 /\ d \in 0 .. max /\ e \in d .. max
  OBVIOUS
<1>2. (d * (100 - j)) \div 100 = h
  <2>1. d * (100 - j) = 100 * h
    OBVIOUS
  <2> QED
    BY <2>1
<1> HIDE DEF d, j
<1>3. /\ R!ApplyJitter(d, j, max, draw) \in 0 .. max
      /\ R!ApplyJitter(d, j, max, draw) >= h
      /\ R!ApplyJitter(d, j, max, draw) <= R!ApplyJitter(e, j, max, draw)
  BY <1>1, <1>2, JitterInBounds
<1>4. R!ApplyJitter(d, j, max, draw) \in h .. max
  BY <1>3
<1> QED
  BY <1>3, <1>4 DEF d, j

\* From every wait on, whatever random numbers are drawn, the delays of Run's retry
\* loop (pipeline.go:188) are below their ceiling, at least half of what they are
\* without jitter, and in order.
THEOREM DelaysInBounds == Spec => []DelayInBounds
<1>1. ASSUME NEW n \in 0 .. LastAttempt, NEW draw \in Draws
      PROVE  /\ Delay(n, draw) <= MaxBackoff
             /\ 2 * Delay(n, draw) >= Nominal(n)
             /\ Delay(n, draw) <= Delay(n + 1, draw)
  <2> DEFINE d == Nominal(n)  e == Nominal(n + 1)
  <2>1. PICK h \in Nat : d = 2 * h /\ e \in 2 * h .. MaxBackoff
    BY NominalInOrder
  <2>2. MaxBackoff \in Nat /\ draw \in 0 .. 99
    BY DEF MaxBackoff, Draws
  <2> HIDE DEF d, e
  <2>3. 2 * h <= MaxBackoff
    BY <2>1, <2>2
  <2>4. /\ R!ApplyJitter(d, 50, MaxBackoff, draw) \in h .. MaxBackoff
        /\ R!ApplyJitter(d, 50, MaxBackoff, draw) <= R!ApplyJitter(e, 50, MaxBackoff, draw)
    BY <2>1, <2>2, <2>3, HalfJitter
  <2>5. Delay(n, draw) \in h .. MaxBackoff /\ Delay(n, draw) <= Delay(n + 1, draw)
    BY <2>4 DEF Delay, d, e
  <2>6. Nominal(n) = 2 * h
    BY <2>1 DEF d
  <2> QED
    BY <2>2, <2>5, <2>6
<1>2. tries \in Nat => tries .. LastAttempt \subseteq InBounds
  BY <1>1 DEF InBounds, LastAttempt
<1>3. IInv => DelayInBounds
  BY <1>2 DEF IInv, OwnTypes, R!TypeOK, DelayInBounds
<1> QED
  BY Inductive, <1>3, PTL
=============================================================================
