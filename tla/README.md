# A verification development of locomotive

Locomotive streams the logs of Railway services to a webhook. It is a concurrent
Go program of about five thousand lines and has no tests. This directory holds
TLA+ models of the parts where its behaviour is decided, the TLC configurations
that check them, and TLAPS proofs about eight modules: the dispatcher, on which every
log depends, the pipeline around it, the sockets, the tailing of deployments, the
cursors, the metadata, the configuration and the serializer, and the process, whose
exit is proved of the composition of `main.go`, `pipeline.go` and `queue.go`.

`tlc -config X.cfg M` runs a configuration; `tlapm M.tla`, for each module `M` whose
name ends in `Proofs`, checks its proofs (a few minutes each from nothing).
`PROJECT.json` lists the components, runs, mutants, findings, hazards and theorems, and
maps each definition to the lines of the source it stands for.

## The system

```
 signal ─► run (main.go) ── ErrGroup ──┬── LogPipeline (deploy logs) ─┐
              │                        └── LogPipeline (HTTP logs) ───┤
              └─ reportStatusAsync ◄── processed / failed counters ───┘

 LogPipeline.Run:
   RetryBackoff ► subscribe ──batches──► track (100) ► serializer ► Dispatcher (1000, 4 workers) ► webhook
                     │
   deploy logs:  SubscribeToServiceLogs ── one Subscription
   HTTP logs:    SubscribeToHttpLogs ──┬── one goroutine + Subscription per deployment ► flush loop
                                       └── watcher ── invalidation Subscription
   Subscription: RetryBackoff ► connect ► consume; Conn: websocket + ping loop; 3 open slots for all
```

### Inventory

| Component | State | Operations | What is hard | What makes it correct |
|---|---|---|---|---|
| `queue.Dispatcher` | items channel, workers, context | Start, Enqueue, worker/processItem, Stop, drain | cancellation in every phase of a worker, a drain that counts once, late producers, TTL, limits | an item is in one place, is settled once at most, is tried no more than the limit, and is lost only in the one way the code leaves |
| `queue.RetryBackoff` | attempt counter | wait, call, give up | off by one at the limit, jitter at the ceiling, cancelled waits | gives up after exactly the calls allowed; delays stay in bounds; returns |
| `pipeline.LogPipeline` | track channel, serializer goroutine, dispatcher, two contexts | Run | order of the deferred calls, a goroutine nobody waits for, a subscription that fails with logs in hand | a received log has one fate; Run returns for a reason, and the counts are final when it has |
| `http_logs.SubscribeToHttpLogs` | `running`, `done`, `errorChan`, flush buffer | start, stop and reclaim goroutines | cancelled but unreclaimed goroutines, full channels, return while others send | one goroutine per wanted deployment, none out of reach, none left over |
| `deployment_changes`, `environment_invalidation`, `slice.Sync` | tracked deployments, last invalidation id | fetch, compare, append, delete, signal | slice changed piecemeal while read; baseline taken late | changes are noticed; nothing is torn down without cause |
| log handlers | cursor, floor | filter, advance, forward, resubscribe | ties, late logs, failures between advancing and sending | nothing is sent twice or out of order; nothing is skipped without need |
| `subscribe.Subscription`, `subscribe.Conn` | socket, `broken`, ping loop, open slots | connect, consume, Run, Close, pingLoop, AcquireOpenSlot, dial | silent peers, a socket closed by another goroutine, shared slots on failing paths | slots and sockets never leak; dead links are left; fruitless streams back off; cancel ends it |
| `ErrGroup`, `run` | group context, error channel | Go, Wait, exit | an exit while another pipeline drains; error against close | exit 0 is a clean end; failure ends the process |
| `reportStatusAsync` | previous counts | load, print | counters loaded one by one | the line catches up |
| metadata caches | name maps with an expiry | get, set, clone, mark, delete | an entry set by one goroutine and deleted by another; a map that is written to while others hold it | names are no older than an entry lives; nobody writes to a map that another reads |
| `logline` (reconstructors, serializer) | none | a batch to a payload, in eleven modes | fields that meet under one name, types found from texts, grouping by a text | a payload has each log once, under its own metadata, and no field is lost without a reason |
| `config` | mode, headers, enabled pipelines | parse, set the mode, warn, exit | a loop over a Go map that breaks | no start with an error, and warnings that do not depend on the order of the loop |
| `webhook` | one HTTP client | send a payload | a response that never comes, a redirect | success only if the receiver has taken the payload |
| `railway` client, `logger`, `util` | HTTP clients | request, print | I/O | *not modelled*, see the end |

## The modules

| Module | Models | Composes |
|---|---|---|
| `Outbox` | what a dispatcher promises its caller | |
| `Dispatcher` | `queue/queue.go` | refines `Outbox` |
| `DispatcherProofs` | proofs about `Dispatcher` | `Dispatcher`, `TLAPS` |
| `Retry` | `queue/retry.go`, the delays of `queue.go` | |
| `Webhook` | `webhook`: a request, and the receiver behind it | |
| `PipelinePromise` | what a pipeline promises the process | |
| `Pipeline` | `pipeline/pipeline.go`; of `http_logs/subscribe.go`, the flush loop and what the handlers hand over to it | `Dispatcher`, `Retry`, `Webhook`; refines `PipelinePromise` |
| `PipelineProofs` | proofs about `Pipeline` and the delays of `Retry` | `Pipeline`, `DispatcherProofs`, `TLAPS` |
| `HttpLogs` | `http_logs/subscribe.go`, `deployment_changes`, `environment_invalidation`, `slice` | |
| `HttpLogsProofs` | proofs about `HttpLogs` | `HttpLogs`, `TLAPS` |
| `LogCursor` | the handlers of `environment_logs/subscribe.go` and `http_logs/subscribe.go` | |
| `LogCursorProofs` | proofs about `LogCursor` | `LogCursor`, `TLAPS` |
| `Subscription` | `subscribe/helpers.go`, `railway/subscribe.go` | |
| `SubscriptionProofs` | proofs about `Subscription` | `Subscription`, `TLAPS` |
| `Metadata` | the two caches of `environment_logs/methods.go` and `http_logs/methods.go`, and who holds their maps | |
| `MetadataProofs` | proofs about `Metadata` | `Metadata`, `TLAPS` |
| `Config` | `config`: `init` | |
| `Reconstruct` | `logline/reconstructor`: one log in each mode, as operators | |
| `Flattening` | how a nested value is flattened, and one read into Go and written again; recursive, so a module of its own that only TLC uses | `Reconstruct` |
| `Serializer` | `logline`: a batch in the mode that the configuration has set | `Config`, `Reconstruct` |
| `SerializerProofs` | proofs about `Serializer` and `Config` | `Serializer`, `TLAPS` |
| `Locomotive` | `main.go`, `errgroup.go`, `status.go`, the verification of the services | `PipelinePromise`, twice |
| `Process` | `main.go` over the two pipelines in full | `Locomotive`; `Pipeline`, twice |
| `LocomotiveProofs` | proofs about `Locomotive` and `Process` | `Process`, `TLAPS` |
| `MC...` | instances for TLC | |

Names follow the source. An action is a step of a goroutine between two points at
which another goroutine can be seen: a channel operation, a lock, a request, a
callback, a timer. A `select` with several ready cases is a disjunction, as Go
picks any of them. Definitions that begin with the comment *Mistake* are not
part of the models: each is a plausible error in the definition that follows it, and replacing that definition by it must break a
property.

**Outbox.** A map from item to status. `Accept`, `Reject`, `Ship`, `Drop`,
`Abandon` and `Close` say all a caller can see of a dispatcher.

**Dispatcher.** `items` is the channel, `pc[w]`, `held[w]`, `attempt[w]` a worker
and its `processItem`, `stop`, `drainLeft`, `drainItem` the goroutine in `Stop`.
Time is one number, `stale`: the items enqueued first age first, so those beyond
their TTL are always an initial part of those offered. A dispatch takes two steps
(`Send`, then a result) so that everything else can happen in between; `live[w]`
keeps whether its context was done at the start, in which case `http.Client.Do`
fails. `shipped`, `dropped` and `attempts` count callbacks and dispatches; `late`
marks what is accepted after the drain has counted.

**Retry.** `phase` is where the loop stands and `verdict` what it has returned.
`CalculateBackoff` and `ApplyJitter` are the delays, with percentages for the
fractions of the code.

**Pipeline.** The subscription receives logs one by one, and `buffered`, chosen at the
start, tells which of the two is meant. That of the deploy logs sends a log to `track`
itself (`pushing`). In that of the HTTP logs a log is first with the handler of its
deployment, which has moved its cursor past it and waits in a `select`
(`http_logs/subscribe.go:299`): `waiting` counts these logs. Either the flush loop takes
one into its `buffer` (`HandOver`), but not while it sends a batch itself, or the
deployment is no longer wanted, and the handler returns with it (`Forsake`), which is a
clean end and fails nothing. A log gets its number when its handler lets go of it, so the
numbers are the order of what goes on; `forsaken` has those that do not. Which deployments are
wanted is not part of this module: any handler may have to give up. `track` is the channel, `serializer` and
`payload` the goroutine between `track` and the dispatcher. The dispatcher is
module `Dispatcher` with one item per batch, `contents` says which logs the item
carries. `SubscribeCancelled` has two outcomes: an error that is
`context.Canceled` becomes nil, but a `Subscription` interrupted in its backoff
wraps `context.Cause(ctx)`, which `signal.NotifyContext` sets to an error of its
own.

**PipelinePromise** is a pipeline as `run` sees it: payloads that wait and payloads
that are counted, the failures of the subscription, the end of the loop, the drain and
the return. `ImplementsPromise` maps `Pipeline` to it: `Place` is how far `Run` has
come, `Backlog` the items of the dispatcher that are neither settled nor late. The
steps of a pipeline in `Locomotive` are those of the promise, so that what is
checked and proved of the process rests on what `pipeline.go` does.

**Webhook.** A request has a status or no response, which is an error, a timeout or
a cancelled context, and `arrived` counts how often the receiver has taken the
payload: whatever comes back, it may have, except after a status that is not
accepted. `Pipeline` takes every dispatch through it, so that a result of
`Dispatcher` is what the status makes of it.

**HttpLogs.** Four kinds of goroutine: the main loop (`main`, `running`,
`stopped`), one per deployment (`dep`), the watcher (`watcher`, `latest`,
`changed`, `tracked`) and the invalidation subscription (`inv`, `lastHash`). The
environment is external: `actual` is what the code would find in it, `version`
its invalidation id. Unbuffered channels are joint steps (`Forward`, `Signal`);
`done` and `errorChan` have their capacities. The watcher changes `tracked` one
deployment at a time, as the code takes the lock for each.

**LogCursor.** One stream, of a service or of a deployment (`http`). A log has a
number, the order in which the backend hands logs out, and a timestamp that need
not follow it. `Deliver` is one message and everything the handler does with it
up to the send, `Push` the send, `Resubscribe` a new stream from the cursor,
`Subscribe` and `Fail` a new run of the function, `Readd` a deployment that
leaves and comes back.

**Subscription.** Several subscriptions share the open slots; each has one socket
at a time. `link` is the truth about a socket, `ping` its ping loop, `broken`
what its owner knows. A dead link swallows or blocks writes and blocks reads, and
the ping loop, whose pong is seen only while somebody reads, closes it. The loop
counter of `RetryBackoff` is `tries`; `fruitless` counts what it is meant to
count.

**Metadata.** A reader is one call of a function that asks a cache for the names of
one id. `map[r]` is the Go map it got, known by the reader that made it; `version`
is what it says, `maker` and `expires` the cache's entry, `batch` the logs that wait
for the serializer with the map they refer to. The environment's map is shared by
all calls and only read; the deployment's is cloned when it comes from the cache and
written to (`Mark`). Calls for one environment follow each other. A deployment's may
overlap with one that was cancelled before, but not within the few instructions
between `Store` and `Mark`, since half a second of backoff lies between them.

**Config, Reconstruct, Serializer.** A host is the set of the known words in it and a
header its name. `VisitOwn` and `VisitOther` are the two branches of the loop over the
modes, taken in any order. When it is `ready` the process goes on (`GoOn`) with its mode alone
and serializes batches, one log a step. `Reconstruct` says what becomes of a log:
a JSON value is a leaf with a type and a text or a node with members, `Put` is what
`sjson.Set` does to a key, and each mode an operator for either kind of log. `Own` marks
what the forwarder has put there. The three ways to flatten a nested value are the
parameter `Flatten`, an operator that the configuration of TLC sets to `LeavesUnder` of
`Flattening`: that one is recursive, and what is proved of `Serializer` holds for any. So is
`Reread`, a value that goes through Go (`ReadAndWritten`). The text of a number is kept as it
is until the code parses it: then it is what the tables `Int64` and `Float64` say, which have
numbers that only one of the two holds, or neither, and one with leading zeros. `Json` has the
texts that are JSON themselves, which Sentry's mode takes apart (`ApplyStringAttribute`).

**Locomotive.** Two pipelines that take the steps of `PipelinePromise`;
the group's context, its error channel of capacity one, the goroutine that closes
it, and the reporter that loads one counter after the other. `Start`
chooses which of the two are enabled, unless the verification of the services fails.
After `Exit` nothing moves.

**Process.** `Locomotive` with its pipelines in full: `deploy` and `http` have a field for
each variable of `Pipeline`, the first pushes logs as they come, the second batches them, and
the context of both is the group's. `PipelineStep` is a step of one of their goroutines,
seen by the process as far as `main`, the group and the reporter read it. All else are
steps of `Locomotive`; one that cancels the group cancels the contexts below it
(`ContextsFollow`). No run checks `Process` as a whole: TLC cannot assign the fields of a
record through the primed variables of an instance, and two full pipelines are beyond it anyway.
Its parts are those that runs `pipeline` and `locomotive` check, and the proofs put them together.

## The runs

Deadlock is not checked anywhere: every instance is finite, and in each the
system may come to rest (everything has been received, or the process has
stopped or exited). Progress is stated by the liveness properties instead.

| Run | Shows | Bounds |
|---|---|---|
| `dispatcher` | places, callbacks, attempts, losses, what Stop leaves; items settle, Stop returns, `Outbox` is implemented | 2 workers, queue of 2, 1 retry, 3 items |
| `pipeline` | one fate per log, causes of loss, what is counted as processed was received, Run returns, logs are counted, `PipelinePromise` is implemented; the delays between subscriptions | either subscription, 1 worker, queue of 1, track of 1, 1 retry each, 2 logs; delays with the numbers of `Run` and all random draws |
| `pipeline_lost` | finding 1 | no retry of a dispatch |
| `http_logs` | `running` and the slice; deployments are tailed and stopped, changes noticed, return | 2 deployments that may return, done of 1, 3 states of the environment |
| `http_logs_return`, `_baseline` | findings 2, 3 | 3 and 2 states |
| `subscription` | slots, sockets, the backoff's counter; openers are served, dead links are left, cancel ends Run | 2 subscriptions, 2 sockets, 1 slot, counter to 1 |
| `cursor` | what is sent is in order, and so nothing twice; what is forwarded | either cursor, 3 logs, clock to 5, any timestamps, one return of the deployment |
| `cursor_ties` | finding 4 | 2 logs, clock to 3 |
| `locomotive` | exit codes, cut drains, the end of the process, the status line | one or both pipelines, 2 payloads each, which bear 1 failure |
| `metadata` | the age of names, who writes to which map | 3 calls, 1 rename, an entry of 2 ticks in a time of 3, 2 logs that wait |
| `serializer` | warnings; a payload has the logs, and a log its fields | 9 modes and an unknown one's default, 5 hosts, 3 sets of headers; batches of 3 logs with any of 4 metadata, single logs with any severity or status and with up to 2 attributes out of names and types that meet |

Each passing run checks its properties over the same instance, from 40 to 800
thousand states, in less than two minutes. `TypeOK` is stated in every module with
state; the runs leave it out where it takes no part in an argument about a hazard.

Why the bounds are enough. Two workers and a queue of two give a full queue, a
worker that exits while the other takes another item, and a drain of more than
one item while late ones come in; one retry has both a retry and an exhausted
limit. In `Pipeline` every
channel can be full with one item in it, and two logs give a batch of two, one
that waits behind another in any of the channels, and one that is late. Two
deployments let one be appended while the other is deleted, and a `done` of one
is full when both exit; three states of the environment let one leave and come
back. Three logs give a tie, a late log, and one that follows. Two subscriptions
and one slot make each wait for the other. Each has a socket of its own and redials
only when the ping loop of the last has ended. Three calls with one entry let an old goroutine
delete what a newer one has set, which a third would have found, and a time of three
with a life of two lets an entry be fresh, expire, and be set again. The metadata of
`serializer` differ in one name, or only in where a separator stands; its attributes
have the names that the modes reserve, the ones they become when moved or flattened
(`_host`, `_metadata`, `a__b`, `a__c_0`), names that stand for times, and texts that more than one
parser takes; its values also integers beyond 2^53 and beyond int64, a decimal with more
digits than a float64 holds, texts that are JSON, and objects and arrays that are empty or
hold only such. The proofs remove the bounds for the safety properties but one; liveness, and
what `FieldsSurvive` says of the fields of a log, hold within them only. The counters that are cut off
(`tries`, `fruitless`, `CountTo`) only tell zero from more where a bound is hit.

### Fairness

Weak fairness of a goroutine's steps is the Go scheduler: a goroutine that can
run does. A dispatch ends because the HTTP client has a timeout of 20 seconds
(`webhook/client.go`), a dial because the handshake has one of 10, a ping
likewise; a timer fires. Nothing ever makes a log arrive, a context be cancelled,
the environment change, a link fail or heal, or the backend send a message.

Strong fairness is used in three places. `Subscription` has it for `Acquire`,
because Go serves the senders blocked on a channel in order, and for a cancelled
Run (`ReadCancelled`, `Interrupt`), because a done context closes the websocket
under the read, and in the backoff its rival is a timer of half a second or more.
`LogCursor` has it for `Deliver`: a backend that ends each stream before it has
sent what it has is not one that anybody can tail.

### Findings

1. `FailedCountsUnshipped` (`http_logs/subscribe.go:302`, `:84`): what the handler of a
   deployment holds when the deployment goes, and what waits for the flush when the HTTP
   subscription fails, is not counted as failed. Nothing else is missed:
   `LossHasACause`, proved.
2. `WantedIsTailed` (`http_logs/subscribe.go:146`): a deployment that comes back
   too soon (its service's last domain removed and added again) is not tailed. One
   that has never left always is: `FirstComersAreTailed`.
3. `NewDeploymentsPickedUp` (`environment_invalidation/subscribe.go:42`): a change
   between the first fetch and the first message is taken for the baseline.
4. `SkippedOnlyIfProcessed` (`environment_logs/subscribe.go:76`): ties and late
   logs are skipped. One younger than all before it is not: `EveryLogForwarded`. How much
   is skipped, for any logs: only what is older than the run, or no younger than another log
   of it that is forwarded (`SkipsHaveACause`, proved).

What the passing properties allow, because the code does it:

- An item whose backoff is cancelled is lost with no callback (`queue.go:285`),
  though the comment at `queue.go:101` has `OnDrop` called whenever an item is dropped.
  It is the only such loss: `AbandonedWasTried`, proved.
- After the cancel of `Stop`, a worker's select may still take an item
  (`queue.go:195`) that the comment at `queue.go:183` leaves to the drain. It is tried
  under a context that is done, and then lost as above.
- When `SubscribeToHttpLogs` has returned with an error still in `errorChan`, the
  watcher's goroutine waits on its send for ever (`http_logs/subscribe.go:65`).
  `Returns` therefore speaks of the goroutines of the deployments.
- A subscription that runs keeps its names, however old: `src/README.md:31` speaks of a
  refresh every 10 to 20 minutes. `NamesWereRecent` is about the moment it gets them.
- The failures of a pipeline's subscription are never forgotten: eleven in its whole
  life end it, however much it has streamed between them (`pipeline.go:188`; `Fail` of
  `PipelinePromise`).
- A payload that the serializer enqueues when the drain has counted is accepted and
  never shipped, also before an exit with code 0 (`late` of `Dispatcher`; the promise
  does not see it).
- The JSON modes let an attribute named `message` or `severity` take the place of the
  forwarder's own, and likewise `_metadata` (`reconstruct_json/environment.go:74`);
  `FieldsSurvive` excepts it.
- Numbers are rounded to a float64, so that an integer above 2^53 may become another: in
  Sentry's mode in an HTTP log, under an object or an array, and beyond what an int64 holds
  (`reconstruct_sentry/helpers.go:80`, `:136`); in a field of an HTTP log that Datadog's
  mode moves away (`reconstruct_json/http.go:75`); and, for decimals, in Loki's mode and in
  OTLP's for HTTP logs, by gjson's `String`. `Rounds` says where, and `FieldsSurvive` lets a
  number change there only, to what a float64 makes of it.
- Sentry's mode goes by the text of an attribute, a string's as well: `"007"` becomes the number
  7, `"t"` a boolean, and a string that is itself JSON the attributes of what it says
  (`reconstruct_sentry/helpers.go:94`). An empty object or array is nowhere in what Sentry,
  Loki and OTLP (for HTTP logs) get, nor in Sentry's mode a string that says one (`Hollow`).
- OTLP's and Sentry's modes drop every attribute whose name stands for a time, such as
  `at`, also when it is not one and no time was taken from it, though
  `reconstruct_sentry/environment.go:43` says it has been. `LeftOut` says which.
- Sentry's mode counts `critical` as information (`reconstruct_sentry/helpers.go:36`),
  OTLP's and Papertrail's as fatal; a status of 600 or more is an error for OTLP alone.

## The proofs

`DispatcherProofs` proves, for every set of workers, queue size, number of retries
and number of items, under `DispatcherAssumption` (which `config.validate`
enforces: there is a worker, the queue has room for one, the retries are a natural
number):

- `TypeCorrect`, `OnePlaceHolds`, `SettledOnceHolds`, `AttemptsBoundedHolds`,
  `AbandonedWasTriedHolds`, `StopAccountsHolds`, `DrainNeverDryHolds`: the
  invariants of run `dispatcher`. `AttemptsBounded` says that the limit is met exactly: no
  dispatch too many, and no drop before the last (`DroppedWhenDue`, inductive beside `IInv`);
- `Refinement`: `Spec => Box!Spec`, the dispatcher implements the outbox;
- `OutcomesAreFinal`: hence no outcome of an item is ever changed.

None of the invariants is inductive. `IInv` adds what they rest on:

- `QueueInv`: the channel is in strictly increasing order, which makes its
  elements distinct without a quantifier over pairs, and has only offered items;
- `WorkerInv` and `HeldInv`: which program points hold an item, that a held item
  is offered, held once and not in the channel, and how often it has been tried:
  the attempt counter, plus one once the dispatch has been made;
- `StopInv` and `DrainInv`: after the drain has begun all workers have exited and
  the context is done, and the late items are exactly those of the channel behind
  the first `drainLeft`;
- `TallyInv`: a callback is counted at most once, and none for an item that is not
  offered or is still on its way;
- `AbandonedWasTried` itself.

One lemma per action shows that it preserves `IInv`, with a step per conjunct that
the action can disturb; `Receive` and `Released` are the facts shared by the
actions that take an item and those that let go of one. The refinement has one
lemma per action as well: `Accept`, `Reject`, the results, the cancelled backoff
and the two ways to cancel are steps of `Outbox`, all others stutter.

`LocomotiveProofs` proves, for any number of payloads (under `LocomotiveAssumption`:
it is a natural number, and there are two pipelines), `TypeCorrect`, `ExitZeroIsCleanHolds` and
`DrainIsCutOnlyByFailureHolds`: the invariants of run `locomotive`. That the process gives up on
its own only after all the failures that a pipeline bears is part of the latter. What
an exit says rests on what the goroutines have done before it, so `IInv` adds:

- `PlacesInv`: a pipeline has a result exactly when its function has returned, it is
  on its way to the error channel only with an error, and it has left nothing in its
  queue by then; an error without a cancelled group means that its patience is spent;
- `CountsInv`: payloads shipped and waiting stay within their bound;
- `GroupInv`: the group's context is done only by a signal or by a pipeline that has
  given up (`GivenUp`), and while `run` waits, the channel (of capacity 1) holds an error exactly
  if a pipeline has finished with one;
- `CloseInv`: the channel is closed when all have finished, so the nil that `run`
  receives from it speaks for both pipelines.

`LinesAreTrue` is about the status reporter: its two loads may be of different moments, and
still no line is ahead of a counter, and none goes back.

The same module proves, of `Process`, that `main.go` over the two real pipelines implements
`Locomotive`: `ProcessRefinement`, for every set of workers, every size of the channels and
any number of retries and logs (`ProcessAssumption`: what `NewDispatcher` lets pass). So what is
proved of exits is not about a promise of the pipelines but about their code, down to the
dispatcher: `ExitZeroLeavesNothingHolds` says that on exit 0 both calls of `Run` have returned
nil and no dispatcher has an item in its queue, with a worker or in a retry, other than the late
ones of the findings. `ProcessInductive` is the invariant: that of `Locomotive`, that of each
pipeline (`RunsInv`), and that what the process sees of a pipeline is so (`ViewInv`). A step of a
pipeline is one of `PipelinePromise` (lemma `StepSeen` of `PipelineProofs`) and hence one of
`Locomotive` or a stutter (`CallIsStep`); when the group is cancelled, the contexts below
it are, which the promise does not see (`GroupKept`). After a pipeline has returned its
serializer may go on, and changes nothing that is seen (`StillQuiet`).

`MetadataProofs` proves, for any number of calls, renames and waiting logs, any time
and any life of an entry (`MetadataAssumption`), `TypeCorrect`,
`WritesArePrivateHolds` and `NamesWereRecentHolds`, all that run `metadata` checks.
`IInv` adds:

- `OrderInv`: a call starts only when those before it have their map or have ended,
  and Railway's names have only been replaced since;
- `MapInv`: who holds a map, that the log type is only ever written for a deployment,
  and that there nobody holds a map but the one made for it;
- `BatchInv`: a waiting log of a deployment has the map of a call that is past its
  write;
- `CacheInv`: the names in an entry were replaced, if at all, no earlier than the
  entry was set, and the entry of a deployment is that of a goroutine that still runs.

The deletion of the entry by whichever goroutine ends (`Leave`) is what makes the last
part hold, and with it that a deployment subscribed to alone gets names of its own.

`PipelineProofs` proves, for every set of workers, every size of the two channels and
any number of retries, subscriptions and logs, under `PipelineAssumption` (what
`NewDispatcher` validates and the constants of `pipeline.go`; `MaxLogs` is the bound of
the model):

- `TypeCorrect`, `LogsHaveOneFate`, `ProcessedReachedReceiver`, `NothingLostUncaused`: the
  invariants of run `pipeline` but for the delays, which come last;
- `LogsQueuedInOrder`: logs reach the dispatcher's channel in the order they came in;
- `Refinement`: `Spec => P!Spec`, the pipeline implements `PipelinePromise`, which is what
  `Locomotive`, and so every theorem about the process, is built from;
- `FatesAreFinal`: what is counted, as processed or as failed, stays so; with
  `LogsHaveOneFate`, nothing is ever counted a second time as the other;
- `DelaysInBounds`: the delays of `Run`'s retry loop, which rests on `JitterInBounds`: for
  every delay, percentage, ceiling and draw, `ApplyJitter` stays below the ceiling, takes
  off no more than the percentage, and keeps the order of delays.

`DP` is the dispatcher of `DispatcherProofs` over the pipeline's variables; the lemmas
`Same...` say that it is the one `Pipeline` composes, so that each step of it keeps
`DP!IInv` by a lemma that is there already. To that `IInv` adds:

- `OrderInv`: a log that has left the serializer is older than all others, the
  serializer's payload is older than what is in `track`, and that, batch by batch, than what the
  subscription holds. `OneFate` needs it, for without an order a payload could carry a
  log that another has, and the number of its item, its last log, could be taken;
- `ContentsInv` and `SerializerInv`: payloads are disjoint, in order, and hold the log
  that names their item;
- `ArrivedInv`: the receiver has no payload more often than it was dispatched, and less
  often while a dispatch is under way, so that an answer may still add one;
- `RunInv`: which of the contexts, the retry loop's end and the calls of `Stop` imply
  which others, and what the loop's verdict says of its attempts;
- `LossInv`: as long as no buffering subscription has failed and the pipeline's context is
  live, every log that has left its handler is somewhere on its way, past the serializer, or
  was given up with its deployment.

The refinement maps the dispatcher to the outbox first: what is settled, rejected or lost
is read off `DP!StatusOf`, and a step of the outbox changes one status. The numbers of the
promise count the items with a status, so each step of it is a step of
one item by the facts about cardinalities, and a drain counts down what the promise
has as backlog.

`SubscriptionProofs` proves, for any finite set of subscriptions and any sockets, slots and
attempts (`SubscriptionAssumption`), `SlotsExact`, `SocketsDoNotLeak` and `BackoffCountsFruitless`, the invariants of
run `subscription`; `OpensAreBounded`, what the comment at `subscribe/helpers.go:72`
says of the limiter; and `SocketsHaveOneOwner`. Slots need only their own invariant and a step of
arithmetic on cardinalities. Sockets need more: `PlaceInv` (which place of `Run` has a
connection or a handshake), `OwnerInv` (no two subscriptions share a socket, so that closing
one's own closes nobody else's), and `SocketInv` (a socket in its handshake has no ping loop, so that
closing it leaves none behind).

`HttpLogsProofs` proves, for any set of deployments, any capacity of `done` and any number
of changes (`HttpLogsAssumption`; `MaxVersion` bounds the model), `RunningExact` and
`SliceNeverEmptied`, and `NoneTailedTwice`: a goroutine is started only for a deployment
that has none. `RunningIsExact` alone is not inductive: a deployment that were in `done`
twice would be reclaimed twice, the second time with its next goroutine alive, which
`DoneInv` excludes. `WatcherInv` says that an update works towards a set that is not empty.

`LogCursorProofs` proves, for any number of logs with any timestamps
(`LogCursorAssumption`), `SentOncePerReturn`, which is an invariant, and `LogsSentInOrder`, the action property of run
`cursor`. `SentInv` is the reason: what has been sent as often as it may be is behind the
cursor, or before the start of the run; and `SendingInv` puts what is about to be sent ahead of
all that, in order.

That is what the cursor excludes; three more theorems say what it keeps. `LogsAreAccounted`:
a log that the stream has handed out, ahead of where it began, is forwarded or about to be,
or it is skipped, and not both. `SkipsHaveACause`: it is skipped only if it was logged
before the run began, or another one, no older, is forwarded. `CursorNeverBack`: only a new
run or a returning deployment sets the cursor back. `PassedInv` relates the cursor to the log
that it was taken from, and what has been skipped to the cursor; the step that needs most is
`Deliver`, where a log of the batch may lose against another of the same batch
(`LostToAnother`, for which the first such log is picked by well-foundedness).

`SerializerProofs` proves, for every environment, `WarningsFitHolds`: `LoopInv` and
`EndedInv` say what the loop over the hosts knows: whichever modes it has seen, it has
broken out only at one that fits the host, which alone is reason enough to warn, and
otherwise it has seen all. And it proves, for all batches, modes and ways to flatten,
`RecordsAreTheLogsHolds`: a payload has each log once and in its place. `PlainInv` says so of
the logs added so far; `OtelInv`, for OTLP, that there is one group for each of their
metadata, that no two groups have the same key, and that each has its logs in order, which
is preserved whether the next log makes a group (`AddGroup`) or joins one (`AddToGroup`).
The theorem has a hypothesis, `KeysTellApart`: metadata with the same key are the same. The
key writes the length of each name before it, so it is true, but it is a fact about texts
that no prover here can take apart. Run `serializer` checks `RecordsAreTheLogs` with metadata that
would be taken for each other without the lengths (and are, by its mutant).

What is only model-checked:

- liveness: TLAPS cannot reason about fairness here (`ItemsSettle`, `StopReturns`,
  `RunReturns`, `LogsAreCounted`, `UnwantedStops`, `FirstComersAreTailed`,
  `ChangesAreNoticed`, `Returns`, `OpenersAreServed`, `DeadLinkIsLeft`, `CancelReturns`,
  `EveryLogForwarded`, `SignalOrFailureEnds`, `StatusCatchesUp`);
- `FieldsSurvive`, about folds over the fields of a log and what is nested in them: what a
  fold computes for every input needs induction over data.

## What is not modelled, and why

- The `railway` client, authentication and queries: requests, which appear as
  outcomes, and data types.
- `logger`, `util`: output.
- Of reconstruction: the wording of times, colours and host names, and that of a number once it
  is a float64 (how many digits, an exponent), beyond the numbers of the tables; keys
  with a dot or another character that has a meaning in a path of sjson, which would
  name a member of a nested object; a text such as `NaN`, which Sentry's mode writes
  into the JSON as it is (`reconstruct_sentry/helpers.go:80`).
- Of configuration: how the text of a UUID, a URL or a boolean is parsed, and `.env`.
- Duplicates at the receiver: a payload whose response is lost is sent again, and
  `arrived` counts it. Nothing promises that it arrives once, and no property does.
- A signal before `run` has called `NotifyContext` ends the process as it would any.
- Lengths of delays, except those of `Retry`; the start stagger of the deployments.
- `subscribe` limits a stream to nothing (`SetReadLimit(-1)`); memory is not
  modelled.

## Plan

1. *Done*: `Outbox`, `Dispatcher`, its proofs; `Retry`; `Webhook`; `PipelinePromise`, `Pipeline`;
   `HttpLogs`; `Subscription`; `LogCursor`; `Metadata`; `Config`, `Reconstruct`,
   `Serializer`; `Locomotive`.
2. *Done*: proofs of every safety invariant that the runs check, but for those named
   above; the dispatcher proved to implement `Outbox`, and `Pipeline` `PipelinePromise`.
3. *Done*: the process over two pipelines in one specification, proved to implement
   `Locomotive`, so that the theorems about exits are theorems about `pipeline.go` and
   `main.go` together; proofs of the payloads and of the delays.
4. *Done*: action properties: what has been counted stays counted, and a cursor only
   moves forward within a run.
5. Left to TLC: liveness and `FieldsSurvive`.
