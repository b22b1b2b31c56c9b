----------------------------- MODULE Dispatcher -----------------------------
(***************************************************************************)
(* queue.Dispatcher (src/internal/queue/queue.go): a bounded channel, a    *)
(* pool of workers that dispatch each item with retries, backoff and a     *)
(* TTL, and a Stop that cancels the workers, waits for them and drains     *)
(* what is left.                                                           *)
(*                                                                         *)
(* Items are numbered in the order in which Enqueue is called.  The clock  *)
(* is abstracted to one number: the items up to `stale' are older than the *)
(* TTL.  A dispatch may fail for any reason, and must fail when it starts  *)
(* under a cancelled context.                                              *)
(***************************************************************************)
EXTENDS Integers, Sequences, FiniteSets

CONSTANTS
  Workers,        \* the goroutines that Start launches
  MaxQueueSize,   \* capacity of the items channel
  MaxRetries,     \* dispatches after the first one
  MaxItems        \* bound: how many items are ever handed to Enqueue

\* config.validate; the settings that are only delays have no part here.
ValidConfig ==
  /\ Workers # {}
  /\ MaxQueueSize \in Nat \ {0}
  /\ MaxRetries \in Nat

ASSUME DispatcherAssumption == ValidConfig /\ MaxItems \in Nat

Items  == 1 .. MaxItems
NoItem == 0

VARIABLES
  items,      \* the channel: items waiting, oldest first
  offered,    \* items that have been passed to Enqueue
  late,       \* items accepted after the drain has counted what it will drain
  stale,      \* items up to this number have outlived the TTL
  pc,         \* pc[w]: where worker w stands
  held,       \* held[w]: the item processItem works on
  attempt,    \* attempt[w]: the loop counter of processItem
  live,       \* live[w]: the dispatch in flight started under a live context
  cancelled,  \* d.ctx is done
  stop,       \* how far Stop has come
  drainLeft,  \* iterations the drain loop has left
  drainItem,  \* the item the drain is dispatching
  shipped,    \* shipped[i]: calls of OnSuccess for item i
  dropped,    \* dropped[i]: calls of OnDrop for item i
  attempts    \* attempts[i]: dispatches of item i

queueVars  == <<items, offered, late>>
workerVars == <<pc, held, attempt, live>>
stopVars   == <<stop, drainLeft, drainItem>>
tallyVars  == <<shipped, dropped, attempts>>
vars == <<queueVars, stale, workerVars, cancelled, stopVars, tallyVars>>

TypeOK ==
  /\ items \in Seq(Items) /\ Len(items) <= MaxQueueSize
  /\ offered \subseteq Items
  /\ late \subseteq Items
  /\ stale \in 0 .. MaxItems
  /\ pc \in [Workers -> {"select", "check", "sending", "backoff", "exited"}]
  /\ held \in [Workers -> Items \cup {NoItem}]
  /\ attempt \in [Workers -> 0 .. MaxRetries]
  /\ live \in [Workers -> BOOLEAN]
  /\ cancelled \in BOOLEAN
  /\ stop \in {"running", "waiting", "draining", "stopped"}
  /\ drainLeft \in 0 .. MaxQueueSize
  /\ drainItem \in Items \cup {NoItem}
  /\ shipped \in [Items -> Nat]
  /\ dropped \in [Items -> Nat]
  /\ attempts \in [Items -> Nat]

\* NewDispatcher and Start.
Init ==
  /\ items = <<>>
  /\ offered = {}
  /\ late = {}
  /\ stale = 0
  /\ pc = [w \in Workers |-> "select"]
  /\ held = [w \in Workers |-> NoItem]
  /\ attempt = [w \in Workers |-> 0]
  /\ live = [w \in Workers |-> TRUE]
  /\ cancelled = FALSE
  /\ stop = "running"
  /\ drainLeft = 0
  /\ drainItem = NoItem
  /\ shipped = [i \in Items |-> 0]
  /\ dropped = [i \in Items |-> 0]
  /\ attempts = [i \in Items |-> 0]

-----------------------------------------------------------------------------
(* Where an item is.                                                       *)

Queued(i)   == \E k \in DOMAIN items : items[k] = i
HeldBy(w,i) == held[w] = i
Pending(i)  == Queued(i) \/ (\E w \in Workers : HeldBy(w, i)) \/ drainItem = i
Settled(i)  == shipped[i] + dropped[i] > 0
Expired(i)  == i <= stale

\* The two callbacks.
OnSuccess(i) ==
  /\ shipped' = [shipped EXCEPT ![i] = @ + 1]
  /\ UNCHANGED dropped

OnDrop(i) ==
  /\ dropped' = [dropped EXCEPT ![i] = @ + 1]
  /\ UNCHANGED shipped

NoCallback == UNCHANGED <<shipped, dropped>>

CountDispatch(i) == attempts' = [attempts EXCEPT ![i] = @ + 1]

-----------------------------------------------------------------------------
(* Enqueue, the clock and the contexts.                                    *)

\* The non-blocking send: there is room in the channel, or the item is dropped.
HasRoom == Len(items) < MaxQueueSize

\* The drain fixes its number of iterations when it starts: what comes in
\* afterwards is late.
DrainCounted == stop \in {"draining", "stopped"}

Handed(i) ==
  /\ \A j \in offered : j < i
  /\ offered' = offered \cup {i}
  /\ UNCHANGED <<stale, workerVars, cancelled, stopVars, attempts>>

Accept(i) ==
  /\ Handed(i)
  /\ HasRoom
  /\ items' = Append(items, i)
  /\ late' = IF DrainCounted THEN late \cup {i} ELSE late
  /\ NoCallback

Reject(i) ==
  /\ Handed(i)
  /\ ~HasRoom
  /\ OnDrop(i)
  /\ UNCHANGED <<items, late>>

Enqueue(i) == Accept(i) \/ Reject(i)

\* Time passes: some item that has been enqueued outlives its TTL, and with it
\* every item enqueued before.
Tick ==
  /\ \E i \in offered : i > stale /\ stale' = i
  /\ UNCHANGED <<queueVars, workerVars, cancelled, stopVars, tallyVars>>

\* The context given to Start is cancelled from outside.
ParentCancel ==
  /\ ~cancelled
  /\ cancelled' = TRUE
  /\ UNCHANGED <<queueVars, stale, workerVars, stopVars, tallyVars>>

-----------------------------------------------------------------------------
(* worker and processItem.                                                 *)

MoveTo(w, to) == pc' = [pc EXCEPT ![w] = to]

\* processItem returns: the worker goes back to its select.
Return(w) ==
  /\ MoveTo(w, "select")
  /\ held' = [held EXCEPT ![w] = NoItem]
  /\ attempt' = [attempt EXCEPT ![w] = 0]
  /\ live' = [live EXCEPT ![w] = TRUE]

\* The select of worker may pick the channel even when the context is done.
Take(w) ==
  /\ pc[w] = "select"
  /\ items # <<>>
  /\ items' = Tail(items)
  /\ held' = [held EXCEPT ![w] = Head(items)]
  /\ MoveTo(w, "check")
  /\ UNCHANGED <<offered, late, stale, attempt, live, cancelled, stopVars, tallyVars>>

Exit(w) ==
  /\ pc[w] = "select"
  /\ cancelled
  /\ MoveTo(w, "exited")
  /\ UNCHANGED <<queueVars, stale, held, attempt, live, cancelled, stopVars, tallyVars>>

\* Mistake: no return after the drop.
DropExpiredGoesOn(w) ==
  /\ pc[w] = "check"
  /\ Expired(held[w])
  /\ OnDrop(held[w])
  /\ MoveTo(w, "sending")
  /\ UNCHANGED <<queueVars, stale, held, attempt, live, cancelled, stopVars, attempts>>

\* The age check that precedes the first dispatch and every retry.
DropExpired(w) ==
  /\ pc[w] = "check"
  /\ Expired(held[w])
  /\ OnDrop(held[w])
  /\ Return(w)
  /\ UNCHANGED <<queueVars, stale, cancelled, stopVars, attempts>>

\* Mistake: the context is looked at first, and the item let go of.
SendUnlessCancelled(w) ==
  /\ pc[w] = "check"
  /\ ~Expired(held[w])
  /\ IF cancelled
     THEN Return(w) /\ UNCHANGED attempts
     ELSE /\ CountDispatch(held[w])
          /\ MoveTo(w, "sending")
          /\ UNCHANGED <<held, attempt, live>>
  /\ NoCallback
  /\ UNCHANGED <<queueVars, stale, cancelled, stopVars>>

\* d.dispatch(d.ctx, item.payload) begins.
Send(w) ==
  /\ pc[w] = "check"
  /\ ~Expired(held[w])
  /\ CountDispatch(held[w])
  /\ live' = [live EXCEPT ![w] = ~cancelled]
  /\ MoveTo(w, "sending")
  /\ NoCallback
  /\ UNCHANGED <<queueVars, stale, held, attempt, cancelled, stopVars>>

\* A request can succeed only if its context was live when it started.
SendOk(w) ==
  /\ pc[w] = "sending"
  /\ live[w]
  /\ OnSuccess(held[w])
  /\ Return(w)
  /\ UNCHANGED <<queueVars, stale, cancelled, stopVars, attempts>>

\* Mistake: one retry too many.
CanRetryOnceMore(w) == attempt[w] <= MaxRetries

CanRetry(w) == attempt[w] < MaxRetries

\* Mistake: the item goes back to the channel and into the backoff.
SendFailRequeues(w) ==
  /\ pc[w] = "sending"
  /\ CanRetry(w)
  /\ HasRoom
  /\ items' = Append(items, held[w])
  /\ MoveTo(w, "backoff")
  /\ UNCHANGED <<offered, late, stale, held, attempt, live, cancelled, stopVars, tallyVars>>

\* Mistake: the worker returns at the first error.
SendFailForgets(w) ==
  /\ pc[w] = "sending"
  /\ CanRetry(w)
  /\ Return(w)
  /\ UNCHANGED <<queueVars, stale, cancelled, stopVars, tallyVars>>

SendFail(w) ==
  /\ pc[w] = "sending"
  /\ CanRetry(w)
  /\ MoveTo(w, "backoff")
  /\ UNCHANGED <<queueVars, stale, held, attempt, live, cancelled, stopVars, tallyVars>>

\* Mistake: no OnDrop for an item whose retries are used up.
DropExhaustedSilently(w) ==
  /\ pc[w] = "sending"
  /\ ~CanRetry(w)
  /\ Return(w)
  /\ UNCHANGED <<queueVars, stale, cancelled, stopVars, tallyVars>>

DropExhausted(w) ==
  /\ pc[w] = "sending"
  /\ ~CanRetry(w)
  /\ OnDrop(held[w])
  /\ Return(w)
  /\ UNCHANGED <<queueVars, stale, cancelled, stopVars, attempts>>

BackoffElapsed(w) ==
  /\ pc[w] = "backoff"
  /\ attempt' = [attempt EXCEPT ![w] = @ + 1]
  /\ MoveTo(w, "check")
  /\ UNCHANGED <<queueVars, stale, held, live, cancelled, stopVars, tallyVars>>

\* The context is done during a backoff: processItem returns, and neither
\* callback is called.
BackoffCancelled(w) ==
  /\ pc[w] = "backoff"
  /\ cancelled
  /\ Return(w)
  /\ UNCHANGED <<queueVars, stale, cancelled, stopVars, tallyVars>>

WorkerStep(w) ==
  \/ Take(w)
  \/ Exit(w)
  \/ DropExpired(w)
  \/ Send(w)
  \/ SendOk(w)
  \/ SendFail(w)
  \/ DropExhausted(w)
  \/ BackoffElapsed(w)
  \/ BackoffCancelled(w)

-----------------------------------------------------------------------------
(* Stop and drain.                                                         *)

\* Mistake: Stop waits without cancelling.
StopWithoutCancel ==
  /\ stop = "running"
  /\ stop' = "waiting"
  /\ UNCHANGED <<queueVars, stale, workerVars, cancelled, drainLeft, drainItem, tallyVars>>

StopCancel ==
  /\ stop = "running"
  /\ stop' = "waiting"
  /\ cancelled' = TRUE
  /\ UNCHANGED <<queueVars, stale, workerVars, drainLeft, drainItem, tallyVars>>

\* d.wg.Wait() returns, and the drain counts what it finds.
AllExited == \A w \in Workers : pc[w] = "exited"

\* Mistake: Stop does not wait for the workers.
StopWithoutWait ==
  /\ stop = "waiting"
  /\ stop' = "draining"
  /\ drainLeft' = Len(items)
  /\ UNCHANGED <<queueVars, stale, workerVars, cancelled, drainItem, tallyVars>>

StopWait ==
  /\ stop = "waiting"
  /\ AllExited
  /\ stop' = "draining"
  /\ drainLeft' = Len(items)
  /\ UNCHANGED <<queueVars, stale, workerVars, cancelled, drainItem, tallyVars>>

DrainReceive ==
  /\ stop = "draining"
  /\ drainItem = NoItem
  /\ drainLeft > 0
  /\ items # <<>>
  /\ items' = Tail(items)
  /\ drainLeft' = drainLeft - 1
  /\ UNCHANGED <<offered, late, stale, workerVars, cancelled, stop>>

DrainDropExpired ==
  /\ DrainReceive
  /\ Expired(Head(items))
  /\ OnDrop(Head(items))
  /\ UNCHANGED <<drainItem, attempts>>

\* The drain dispatches under context.Background(), once, with no retry.
DrainSend ==
  /\ DrainReceive
  /\ ~Expired(Head(items))
  /\ drainItem' = Head(items)
  /\ CountDispatch(Head(items))
  /\ NoCallback

DrainResult ==
  /\ drainItem # NoItem
  /\ OnSuccess(drainItem) \/ OnDrop(drainItem)
  /\ drainItem' = NoItem
  /\ UNCHANGED <<queueVars, stale, workerVars, cancelled, stop, drainLeft, attempts>>

StopReturn ==
  /\ stop = "draining"
  /\ drainItem = NoItem
  /\ drainLeft = 0
  /\ stop' = "stopped"
  /\ UNCHANGED <<queueVars, stale, workerVars, cancelled, drainLeft, drainItem, tallyVars>>

StopStep ==
  \/ StopWait
  \/ DrainDropExpired
  \/ DrainSend
  \/ DrainResult
  \/ StopReturn

-----------------------------------------------------------------------------
\* The caller hands over its items in order, at any time, also after Stop: the
\* goroutine that calls Enqueue is not the one that calls Stop.
Offer == \E i \in Items : (1 .. i - 1) \subseteq offered /\ Enqueue(i)

Next ==
  \/ Offer
  \/ Tick
  \/ ParentCancel
  \/ \E w \in Workers : WorkerStep(w)
  \/ StopCancel
  \/ StopStep

Spec == Init /\ [][Next]_vars

\* The Go scheduler runs every goroutine that can run, a dispatch ends (the
\* HTTP client has a timeout) and a backoff timer fires.  Nothing makes the
\* caller enqueue, cancel or stop.
Fairness ==
  /\ \A w \in Workers : WF_vars(WorkerStep(w))
  /\ WF_vars(StopStep)

FairSpec == Spec /\ Fairness

-----------------------------------------------------------------------------
(* Safety.                                                                 *)

\* An item is in at most one place: once in the channel, or in the hands of one
\* worker, or in those of the drain.
OnePlace ==
  /\ \A j, k \in DOMAIN items : items[j] = items[k] => j = k
  /\ \A v, w \in Workers : held[v] = held[w] /\ held[v] # NoItem => v = w
  /\ \A w \in Workers, k \in DOMAIN items : held[w] # items[k]
  /\ drainItem # NoItem =>
       ~Queued(drainItem) /\ \A w \in Workers : held[w] # drainItem

\* One callback at most is ever called for an item, and none while it is still
\* on its way: the processed and failed counts never count a log twice.
SettledOnce ==
  \A i \in Items :
    /\ shipped[i] + dropped[i] <= 1
    /\ Pending(i) => ~Settled(i)

\* A drop before the TTL is due: the queue was full, the tries are used up, or the one
\* try of the drain has failed.
DroppedWhenDue ==
  \A i \in Items : dropped[i] > 0 /\ ~Expired(i) =>
    attempts[i] \in {0, MaxRetries + 1} \/ (DrainCounted /\ attempts[i] = 1)

\* No item is dispatched more often than the retries allow, whoever dispatches it, nor
\* given up before they are used up; and an item that a worker has tried is never tried
\* again by the drain.
AttemptsBounded ==
  /\ \A i \in Items : attempts[i] <= MaxRetries + 1
  /\ drainItem # NoItem => attempts[drainItem] = 1
  /\ DroppedWhenDue

Abandoned(i) == i \in offered /\ ~Pending(i) /\ ~Settled(i)

\* The only way to lose an item without a callback is the cancelled backoff:
\* the item has been dispatched at least once, and the context is done.
AbandonedWasTried ==
  \A i \in Items : Abandoned(i) => cancelled /\ attempts[i] >= 1

\* When Stop returns, no worker runs any more, and every item is settled,
\* abandoned after a try, or came too late for the drain to count.
StopAccounts ==
  stop = "stopped" =>
    /\ AllExited
    /\ \A i \in offered : Settled(i) \/ attempts[i] >= 1 \/ i \in late

\* The drain finds an item in the channel in each of its iterations: its
\* `default: return' is never taken.
DrainNeverDry ==
  stop = "draining" => Len(items) >= drainLeft

-----------------------------------------------------------------------------
(* Liveness.                                                               *)

\* Unless the dispatcher is cancelled, every item handed over is settled.
ItemsSettle ==
  \A i \in Items : i \in offered ~> (Settled(i) \/ cancelled)

\* Stop returns, whatever the workers are doing when it is called.
StopReturns == (stop = "waiting") ~> (stop = "stopped")

-----------------------------------------------------------------------------
(* The dispatcher implements the outbox.                                   *)

StatusOf(i) ==
  IF i \notin offered     THEN "new"
  ELSE IF shipped[i] > 0  THEN "shipped"
  ELSE IF dropped[i] > 0  THEN "dropped"
  ELSE IF Pending(i)      THEN "pending"
  ELSE                         "abandoned"

StatusMap == [i \in Items |-> StatusOf(i)]

Box == INSTANCE Outbox WITH status <- StatusMap, closing <- cancelled

\* Every step of the dispatcher is a step of the outbox, or changes nothing that
\* the caller can see.
ImplementsOutbox == Box!Spec
=============================================================================
