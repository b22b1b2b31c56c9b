------------------------------ MODULE HttpLogs ------------------------------
(***************************************************************************)
(* Which deployments are tailed for HTTP logs, and by whom:                *)
(*   http_logs.SubscribeToHttpLogs, the main loop and one goroutine per    *)
(*     deployment (src/internal/railway/subscribe/http_logs/subscribe.go); *)
(*   deployment_changes.SubscribeToDeploymentIdChanges, the watcher;       *)
(*   environment_invalidation.SubscribeToInvalidationRequests.             *)
(* The logs themselves, and the flush loop, are in modules LogCursor and   *)
(* Pipeline; the websocket under each subscription is in Subscription.     *)
(*                                                                         *)
(* The environment is external: `actual' is the set of deployments that    *)
(* findSuccessfulDeploymentsIdsForWantedServiceIds would find in it now,   *)
(* and every change of the environment has a new invalidation id.          *)
(***************************************************************************)
EXTENDS Integers, Sequences, FiniteSets

CONSTANTS
  Ids,          \* deployments
  DoneSize,     \* capacity of the done channel
  MayReturn,    \* whether a deployment that left the environment may come back
  MaxVersion    \* bound: states of the environment

ASSUME HttpLogsAssumption ==
  DoneSize \in Nat \ {0} /\ MayReturn \in BOOLEAN /\ MaxVersion \in Nat \ {0}

VARIABLES
  actual, version, gone,  \* the environment, its invalidation id, what has left it
  inv, lastHash,          \* the invalidation goroutine and its baseline (0 is "")
  watcher,                \* where the watcher goroutine stands
  latest,                 \* the deployments it has fetched
  changed,                \* deploymentsChanged
  tracked,                \* deploymentIdSlice
  main,                   \* where SubscribeToHttpLogs stands
  running, stopped,       \* keys of `running', and those whose cancel was called
  dep,                    \* dep[d]: the goroutine that tails deployment d
  done,                   \* the done channel
  errors,                 \* how many errors wait in errorChan, of capacity 1
  ctxDone                 \* the context of SubscribeToHttpLogs is done

envVars     == <<actual, version, gone>>
invVars     == <<inv, lastHash>>
watcherVars == <<watcher, latest, changed, tracked>>
mainVars    == <<main, running, stopped>>
depVars     == <<dep, done>>
vars == <<envVars, invVars, watcherVars, mainVars, depVars, errors, ctxDone>>

InDone == {done[k] : k \in DOMAIN done}

TypeOK ==
  /\ actual \subseteq Ids /\ gone \subseteq Ids /\ version \in 1 .. MaxVersion
  /\ inv \in {"off", "read", "forward", "exited"} /\ lastHash \in 0 .. MaxVersion
  /\ watcher \in {"fetch", "update", "signal", "idle", "posting", "exited"}
  /\ latest \subseteq Ids /\ tracked \subseteq Ids /\ changed \in BOOLEAN
  /\ main \in {"wait", "sync", "loop", "returned"}
  /\ stopped \subseteq running /\ running \subseteq Ids
  /\ dep \in [Ids -> {"none", "tailing", "exiting"}]
  /\ done \in Seq(Ids) /\ Len(done) <= DoneSize
  /\ errors \in 0 .. 1
  /\ ctxDone \in BOOLEAN

Init ==
  /\ actual \in SUBSET Ids /\ gone = {} /\ version = 1
  /\ inv = "off" /\ lastHash = 0
  /\ watcher = "fetch" /\ latest = {} /\ changed = FALSE /\ tracked = {}
  /\ main = "wait" /\ running = {} /\ stopped = {}
  /\ dep = [d \in Ids |-> "none"]
  /\ done = <<>>
  /\ errors = 0
  /\ ctxDone = FALSE

-----------------------------------------------------------------------------
(* The environment and the invalidation subscription.                      *)

Change ==
  /\ version < MaxVersion
  /\ version' = version + 1
  /\ actual' \in (SUBSET Ids) \ {actual}
  /\ gone' = gone \cup (actual \ actual')
  /\ MayReturn \/ actual' \cap gone = {}
  /\ UNCHANGED <<invVars, watcherVars, mainVars, depVars, errors, ctxDone>>

\* The first message seeds the baseline, and a repeated id is ignored.
Seed ==
  /\ inv = "read" /\ lastHash = 0
  /\ lastHash' = version
  /\ UNCHANGED <<envVars, inv, watcherVars, mainVars, depVars, errors, ctxDone>>

\* Mistake: the id is dropped when the watcher is busy.
NewHashDropped ==
  /\ inv = "read" /\ lastHash # 0 /\ lastHash # version
  /\ lastHash' = version
  /\ inv' = IF watcher = "idle" THEN "forward" ELSE "read"
  /\ UNCHANGED <<envVars, watcherVars, mainVars, depVars, errors, ctxDone>>

NewHash ==
  /\ inv = "read" /\ lastHash # 0 /\ lastHash # version
  /\ lastHash' = version
  /\ inv' = "forward"
  /\ UNCHANGED <<envVars, watcherVars, mainVars, depVars, errors, ctxDone>>

\* environmentHashTrack is not buffered: the watcher receives the id itself.
Forward ==
  /\ inv = "forward" /\ watcher = "idle"
  /\ inv' = "read"
  /\ watcher' = "fetch"
  /\ UNCHANGED <<envVars, lastHash, latest, changed, tracked, mainVars, depVars, errors, ctxDone>>

InvExit ==
  /\ inv \in {"read", "forward"} /\ ctxDone
  /\ inv' = "exited"
  /\ UNCHANGED <<envVars, lastHash, watcherVars, mainVars, depVars, errors, ctxDone>>

InvStep == Seed \/ NewHash \/ InvExit

-----------------------------------------------------------------------------
(* The watcher.                                                            *)

FirstFetch == inv = "off"

\* The first fetch fills the slice at once; a later one is compared with it, and
\* ignored if it finds nothing.
Fetched ==
  /\ watcher = "fetch"
  /\ latest' = actual
  /\ IF FirstFetch
     THEN tracked' = actual /\ watcher' = "signal"
     ELSE /\ UNCHANGED tracked
          /\ watcher' = IF actual = {} THEN "idle" ELSE "update"
  /\ UNCHANGED <<envVars, invVars, changed, mainVars, depVars, errors, ctxDone>>

\* Each Append and each Delete locks the slice on its own; all of the former come
\* before the first of the latter.
Missing == latest \ tracked
Surplus == tracked \ latest

SliceAppend(d) == tracked' = tracked \cup {d}
SliceDelete(d) == tracked' = tracked \ {d}

\* Mistake: an append does not count as a change.
AppendOneUnmarked ==
  /\ watcher = "update"
  /\ \E d \in Missing : SliceAppend(d)
  /\ UNCHANGED <<envVars, invVars, watcher, latest, changed, mainVars, depVars, errors, ctxDone>>

AppendOne ==
  /\ watcher = "update"
  /\ \E d \in Missing : SliceAppend(d)
  /\ changed' = TRUE
  /\ UNCHANGED <<envVars, invVars, watcher, latest, mainVars, depVars, errors, ctxDone>>

\* Mistake: the deletes come first.
DeleteFirst == TRUE

MayDelete == Missing = {}

\* Mistake: a delete does not count as a change.
DeleteOneUnmarked ==
  /\ watcher = "update"
  /\ MayDelete
  /\ \E d \in Surplus : SliceDelete(d)
  /\ UNCHANGED <<envVars, invVars, watcher, latest, changed, mainVars, depVars, errors, ctxDone>>

DeleteOne ==
  /\ watcher = "update"
  /\ MayDelete
  /\ \E d \in Surplus : SliceDelete(d)
  /\ changed' = TRUE
  /\ UNCHANGED <<envVars, invVars, watcher, latest, mainVars, depVars, errors, ctxDone>>

Updated ==
  /\ watcher = "update"
  /\ Missing = {} /\ Surplus = {}
  /\ watcher' = IF changed THEN "signal" ELSE "idle"
  /\ changed' = FALSE
  /\ UNCHANGED <<envVars, invVars, latest, tracked, mainVars, depVars, errors, ctxDone>>

\* changeDetected is not buffered: the main loop receives the signal itself.  The
\* first signal lets the watcher start the invalidation goroutine.
Signal ==
  /\ watcher = "signal" /\ main \in {"wait", "loop"}
  /\ watcher' = "idle"
  /\ main' = "sync"
  /\ inv' = IF inv = "off" THEN "read" ELSE inv
  /\ UNCHANGED <<envVars, lastHash, latest, changed, tracked, running, stopped, depVars, errors, ctxDone>>

\* The fetch gives up, or the context is done: the watcher has an error to post.
WatcherFails ==
  /\ \/ watcher = "fetch"
     \/ watcher \in {"signal", "idle"} /\ ctxDone
  /\ watcher' = "posting"
  /\ UNCHANGED <<envVars, invVars, latest, changed, tracked, mainVars, depVars, errors, ctxDone>>

\* A blocking send to errorChan.
WatcherPosts ==
  /\ watcher = "posting" /\ errors = 0
  /\ errors' = 1
  /\ watcher' = "exited"
  /\ UNCHANGED <<envVars, invVars, latest, changed, tracked, mainVars, depVars, ctxDone>>

WatcherStep == Fetched \/ AppendOne \/ DeleteOne \/ Updated \/ WatcherPosts

-----------------------------------------------------------------------------
(* SubscribeToHttpLogs.                                                    *)

NewIds == tracked \ running

SyncWith(nowRunning, nowStopped) ==
  /\ main = "sync"
  /\ dep' = [d \in Ids |-> IF d \in NewIds THEN "tailing" ELSE dep[d]]
  /\ running' = nowRunning
  /\ stopped' = nowStopped
  /\ main' = "loop"
  /\ UNCHANGED <<envVars, invVars, watcherVars, done, errors, ctxDone>>

\* Mistake: the entry goes with the cancel.
SyncForgets == SyncWith(tracked, stopped \cap tracked)

\* syncDeployments, on what the slice holds when it is read.
Sync == SyncWith(running \cup NewIds, stopped \cup (running \ tracked))

ReceiveDone ==
  /\ main = "loop" /\ done # <<>>
  /\ running' = running \ {Head(done)}
  /\ stopped' = stopped \ {Head(done)}
  /\ done' = Tail(done)
  /\ UNCHANGED <<envVars, invVars, watcherVars, main, dep, errors, ctxDone>>

\* An error arrives or the context is done; the deferred cancel runs.
Return ==
  /\ main \in {"wait", "loop"}
  /\ \/ errors = 1 /\ errors' = 0
     \/ ctxDone /\ UNCHANGED errors
  /\ main' = "returned"
  /\ ctxDone' = TRUE
  /\ UNCHANGED <<envVars, invVars, watcherVars, running, stopped, depVars>>

MainStep == Signal \/ Sync \/ ReceiveDone \/ Return

\* The caller cancels.
Cancel ==
  /\ ~ctxDone
  /\ ctxDone' = TRUE
  /\ UNCHANGED <<envVars, invVars, watcherVars, mainVars, depVars, errors>>

-----------------------------------------------------------------------------
(* The goroutine of a deployment.                                          *)

DepMove(d, to) == dep' = [dep EXCEPT ![d] = to]

\* getHttpLogs fails; the send to errorChan does not block.
DepFails(d) ==
  /\ dep[d] = "tailing"
  /\ DepMove(d, "exiting")
  /\ errors' = 1
  /\ UNCHANGED <<envVars, invVars, watcherVars, mainVars, done, ctxDone>>

DepCancelled(d) ==
  /\ dep[d] = "tailing" /\ (d \in stopped \/ ctxDone)
  /\ DepMove(d, "exiting")
  /\ UNCHANGED <<envVars, invVars, watcherVars, mainVars, done, errors, ctxDone>>

DepReports(d) ==
  /\ dep[d] = "exiting" /\ Len(done) < DoneSize
  /\ done' = Append(done, d)
  /\ DepMove(d, "none")
  /\ UNCHANGED <<envVars, invVars, watcherVars, mainVars, errors, ctxDone>>

\* Mistake: the report on done is waited for, whatever the context says.
DepStays(d) == dep[d] = "exiting" /\ FALSE

DepLeaves(d) ==
  /\ dep[d] = "exiting" /\ ctxDone
  /\ DepMove(d, "none")
  /\ UNCHANGED <<envVars, invVars, watcherVars, mainVars, done, errors, ctxDone>>

DepStep(d) == DepCancelled(d) \/ DepReports(d) \/ DepLeaves(d)

-----------------------------------------------------------------------------
Next ==
  \/ Change
  \/ InvStep \/ Forward
  \/ WatcherStep \/ WatcherFails
  \/ MainStep
  \/ \E d \in Ids : DepStep(d) \/ DepFails(d)
  \/ Cancel

Spec == Init /\ [][Next]_vars

\* Goroutines that can run do run, a rendezvous whose two sides wait happens, a
\* fetch ends, and the backend delivers the current invalidation id.  Nothing
\* makes the environment change, a goroutine fail or the caller cancel.
Fairness ==
  /\ WF_vars(InvStep) /\ WF_vars(Forward)
  /\ WF_vars(WatcherStep)
  /\ WF_vars(WatcherFails /\ ctxDone)
  /\ WF_vars(Signal) /\ WF_vars(Sync) /\ WF_vars(ReceiveDone) /\ WF_vars(Return)
  /\ \A d \in Ids : WF_vars(DepStep(d))

FairSpec == Spec /\ Fairness

-----------------------------------------------------------------------------
(* Safety.                                                                 *)

\* `running' has an entry for exactly the goroutines that live or have reported
\* and not been reclaimed: so no deployment is ever tailed twice, and no
\* goroutine is out of reach of its cancel function.
RunningIsExact ==
  /\ \A d \in Ids : dep[d] # "none" => d \in running /\ d \notin InDone
  /\ Cardinality(InDone) = Len(done)
  /\ InDone \subseteq running
  /\ ~ctxDone => running = InDone \cup {d \in Ids : dep[d] # "none"}

\* "Don't tear down everything if the environment momentarily reports none": a
\* slice that names a deployment always names one, also between the single
\* appends and deletes of an update.
NeverAllGone == [][tracked # {} => tracked' # {}]_vars

-----------------------------------------------------------------------------
(* Liveness.                                                               *)

\* A deployment that leaves the slice is not tailed for ever.
UnwantedStops ==
  \A d \in Ids : (d \in running \ tracked) ~> (d \notin running \/ d \in tracked \/ ctxDone)

\* A deployment in the slice that has never left the environment does not stay
\* without a goroutine.
FirstComersAreTailed ==
  \A d \in Ids :
    (d \in (tracked \ running) \ gone) ~> (d \in running \/ d \notin tracked \/ ctxDone)

\* Once the baseline is seeded, what a change of the environment brings is
\* noticed.
ChangesAreNoticed ==
  \A d \in Ids :
    (lastHash \notin {0, version} /\ d \in actual) ~> (d \in tracked \/ d \notin actual \/ ctxDone)

\* SubscribeToHttpLogs returns when its context is done, and no goroutine of a
\* deployment outlives it for long.
Returns == ctxDone ~> (main = "returned" /\ \A d \in Ids : dep[d] = "none")

-----------------------------------------------------------------------------
\* "syncDeployments starts goroutines for newly-wanted deployments": no deployment
\* in the slice stays without one, also when it comes back.
WantedIsTailed ==
  \A d \in Ids : (d \in tracked \ running) ~> (d \in running \/ d \notin tracked \/ ctxDone)

\* "Newly deployed services are picked up automatically, since deploying is
\* itself an environment change."
NewDeploymentsPickedUp ==
  \A d \in Ids : (d \in actual) ~> (d \in tracked \/ d \notin actual \/ ctxDone)
=============================================================================
