------------------------------ MODULE Process ------------------------------
(***************************************************************************)
(* The process with its pipelines in full: what Locomotive has in place of *)
(* a pipeline are here the two calls of LogPipeline.Run, one that pushes   *)
(* logs as they come and one that batches them, each with its channels,    *)
(* serializer, dispatcher and retry loop (module Pipeline).                *)
(*                                                                         *)
(* The variables at, result, failures, backlog and processed of Locomotive *)
(* are what the process sees of a call: they follow its state, and no step *)
(* depends on them beyond what main, the group and the reporter read.      *)
(***************************************************************************)
EXTENDS Locomotive

CONSTANTS
  Workers, MaxQueueSize, MaxRetries,  \* of the dispatchers
  TrackSize                           \* capacity of the track channels

\* The settings that NewDispatcher lets pass.  Theorems about Process assume them.
ProcessAssumption ==
  /\ Workers # {}
  /\ MaxQueueSize \in Nat \ {0}
  /\ MaxRetries \in Nat
  /\ TrackSize \in Nat \ {0}

VARIABLES
  enabled,       \* the pipelines that the configuration enables
  deploy, http   \* the state of each call, a field for each variable of Pipeline

runVars == <<enabled, deploy, http>>

\* The context given to both calls is that of the group.  The definitions are those of
\* Pipeline; its proofs come along for those of this module.
DeployRun == INSTANCE PipelineProofs WITH
       MaxSubscribe <- Patience, MaxLogs <- MaxPayloads, ctxDone <- groupDone,
       items <- deploy.items, offered <- deploy.offered, late <- deploy.late,
       stale <- deploy.stale, pc <- deploy.pc, held <- deploy.held,
       attempt <- deploy.attempt, live <- deploy.live, cancelled <- deploy.cancelled,
       stop <- deploy.stop, drainLeft <- deploy.drainLeft, drainItem <- deploy.drainItem,
       shipped <- deploy.shipped, dropped <- deploy.dropped, attempts <- deploy.attempts,
       phase <- deploy.phase, tries <- deploy.tries, verdict <- deploy.verdict,
       buffered <- deploy.buffered, pipeDone <- deploy.pipeDone,
       waiting <- deploy.waiting, forsaken <- deploy.forsaken,
       received <- deploy.received, buffer <- deploy.buffer, pushing <- deploy.pushing,
       track <- deploy.track, serializer <- deploy.serializer, payload <- deploy.payload,
       contents <- deploy.contents, unserialized <- deploy.unserialized,
       returned <- deploy.returned, arrived <- deploy.arrived

HttpRun == INSTANCE PipelineProofs WITH
       MaxSubscribe <- Patience, MaxLogs <- MaxPayloads, ctxDone <- groupDone,
       items <- http.items, offered <- http.offered, late <- http.late, stale <- http.stale,
       pc <- http.pc, held <- http.held, attempt <- http.attempt, live <- http.live,
       cancelled <- http.cancelled, stop <- http.stop, drainLeft <- http.drainLeft,
       drainItem <- http.drainItem, shipped <- http.shipped, dropped <- http.dropped,
       attempts <- http.attempts, phase <- http.phase, tries <- http.tries,
       verdict <- http.verdict, buffered <- http.buffered, pipeDone <- http.pipeDone,
       waiting <- http.waiting, forsaken <- http.forsaken,
       received <- http.received, buffer <- http.buffer, pushing <- http.pushing,
       track <- http.track, serializer <- http.serializer, payload <- http.payload,
       contents <- http.contents, unserialized <- http.unserialized,
       returned <- http.returned, arrived <- http.arrived

-----------------------------------------------------------------------------
(* What the process sees of a call.                                        *)

PlaceOf(p)   == IF p = Deploy THEN DeployRun!Place        ELSE HttpRun!Place
ResultOf(p)  == IF p = Deploy THEN DeployRun!Result       ELSE HttpRun!Result
TriesOf(p)   == IF p = Deploy THEN deploy.tries           ELSE http.tries
BacklogOf(p) == IF p = Deploy THEN DeployRun!BacklogSize  ELSE HttpRun!BacklogSize
ShippedOf(p) == IF p = Deploy THEN DeployRun!ShippedCount ELSE HttpRun!ShippedCount
LeftOf(p)    == IF p = Deploy THEN DeployRun!Backlog      ELSE HttpRun!Backlog

InGroup == {"posting", "finished"}   \* Run has returned to the function that Go starts

-----------------------------------------------------------------------------
(* The steps.                                                              *)

ProcessInit ==
  /\ Init
  /\ enabled = {}
  /\ DeployRun!Init /\ ~deploy.buffered
  /\ HttpRun!Init /\ http.buffered

\* A goroutine of one call takes a step, also once Run has returned, for nobody waits for
\* the serializer.
PipelineStep(p) ==
  /\ Alive /\ p \in enabled
  /\ IF p = Deploy THEN DeployRun!Next /\ UNCHANGED http ELSE HttpRun!Next /\ UNCHANGED deploy
  /\ at'        = [at EXCEPT ![p] = IF @ \in InGroup THEN @ ELSE PlaceOf(p)']
  /\ result'    = [result EXCEPT ![p] = ResultOf(p)']
  /\ failures'  = [failures EXCEPT ![p] = TriesOf(p)']
  /\ backlog'   = [backlog EXCEPT ![p] = BacklogOf(p)']
  /\ processed' = [processed EXCEPT ![p] = ShippedOf(p)']
  /\ UNCHANGED <<enabled, signalled, groupVars, main, statusVars>>

\* When the context of the group is cancelled, so are those that Run derives from it, and
\* the dispatcher's, within the same call of cancel.
ContextsFollow ==
  IF groupDone' = groupDone THEN UNCHANGED <<deploy, http>>
  ELSE /\ IF Deploy   \in enabled THEN DeployRun!Cancel ELSE UNCHANGED deploy
       /\ IF HttpLogs \in enabled THEN HttpRun!Cancel   ELSE UNCHANGED http

\* A step of main, the group or the reporter is one of Locomotive.
Begin ==
  /\ VerificationFails \/ Start
  /\ enabled' = {p \in Pipelines : at'[p] = "running"}
  /\ UNCHANGED <<deploy, http>>

GroupStep ==
  /\ \/ \E p \in Pipelines : FinishNil(p) \/ CancelGroup(p) \/ Post(p)
     \/ Close \/ Exit \/ Signal \/ LoadDeploy \/ Report
  /\ UNCHANGED enabled
  /\ ContextsFollow

ProcessNext == Begin \/ GroupStep \/ \E p \in Pipelines : PipelineStep(p)

ProcessSpec == ProcessInit /\ [][ProcessNext]_<<vars, runVars>>

-----------------------------------------------------------------------------
\* Exit code 0 means that both calls, as far as they are enabled, have returned nil, and
\* that no dispatcher has a payload left that came before its drain: none in the queue,
\* with a worker or in a retry.
ExitZeroLeavesNothing ==
  main = "exit0" =>
    \A p \in enabled : PlaceOf(p) = "returned" /\ ResultOf(p) = "nil" /\ LeftOf(p) = {}
=============================================================================
