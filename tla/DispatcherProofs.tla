-------------------------- MODULE DispatcherProofs --------------------------
(***************************************************************************)
(* Safety of the dispatcher, and its refinement of the outbox, for every   *)
(* number of workers, items and retries and every size of the channel.     *)
(*                                                                         *)
(* None of the invariants is inductive.  That an item is settled once      *)
(* needs to know where every item is and that an item on its way has no    *)
(* outcome (QueueInv, HeldInv); the bound on the attempts needs the loop   *)
(* counter of the worker that holds the item (HeldInv, WorkerInv); what    *)
(* Stop leaves behind needs the drain's counter and the order in which     *)
(* late items enter the channel (StopInv, DrainInv).                       *)
(***************************************************************************)
EXTENDS Dispatcher, SequenceTheorems, TLAPS

-----------------------------------------------------------------------------
(* The inductive invariant.                                                *)

QueueInv ==
  /\ \A j, k \in 1 .. Len(items) : j < k => items[j] < items[k]
  /\ \A k \in 1 .. Len(items) :
       /\ items[k] \in offered
       /\ shipped[items[k]] = 0 /\ dropped[items[k]] = 0 /\ attempts[items[k]] = 0

WorkerInv ==
  \A w \in Workers :
    /\ held[w] = NoItem <=> pc[w] \in {"select", "exited"}
    /\ pc[w] \in {"select", "exited"} => attempt[w] = 0
    /\ pc[w] = "exited" => cancelled
    /\ pc[w] = "backoff" => attempt[w] < MaxRetries

HeldInv ==
  /\ \A w \in Workers :
       held[w] # NoItem =>
         /\ held[w] \in offered
         /\ shipped[held[w]] = 0 /\ dropped[held[w]] = 0
         /\ attempts[held[w]] = IF pc[w] = "check" THEN attempt[w] ELSE attempt[w] + 1
         /\ \A k \in 1 .. Len(items) : items[k] # held[w]
  /\ \A v, w \in Workers : held[v] = held[w] /\ held[v] # NoItem => v = w

StopInv ==
  /\ stop # "running" => cancelled
  /\ DrainCounted => AllExited
  /\ ~DrainCounted => late = {}
  /\ drainItem # NoItem =>
       /\ stop = "draining"
       /\ drainItem \in offered
       /\ shipped[drainItem] = 0 /\ dropped[drainItem] = 0 /\ attempts[drainItem] = 1
       /\ \A k \in 1 .. Len(items) : items[k] # drainItem

DrainInv ==
  /\ stop = "draining" =>
       /\ drainLeft <= Len(items)
       /\ \A k \in 1 .. Len(items) : items[k] \in late <=> k > drainLeft
       /\ drainItem \notin late
  /\ stop = "stopped" => \A k \in 1 .. Len(items) : items[k] \in late

TallyInv ==
  \A i \in Items :
    /\ i \notin offered => shipped[i] = 0 /\ dropped[i] = 0 /\ attempts[i] = 0
    /\ shipped[i] + dropped[i] <= 1
    /\ attempts[i] <= MaxRetries + 1
    /\ shipped[i] > 0 => attempts[i] >= 1

IInv ==
  /\ TypeOK
  /\ QueueInv
  /\ WorkerInv
  /\ HeldInv
  /\ StopInv
  /\ DrainInv
  /\ TallyInv
  /\ AbandonedWasTried

-----------------------------------------------------------------------------
(* Sequences, seen through their indices.                                  *)

\* What is left of a channel after a receive.
LEMMA TailFacts ==
  ASSUME NEW S, NEW s \in Seq(S), s # <<>>
  PROVE  /\ Len(s) \in Nat /\ Len(s) > 0
         /\ Head(s) = s[1] /\ Head(s) \in S
         /\ Tail(s) \in Seq(S)
         /\ Len(Tail(s)) = Len(s) - 1
         /\ \A k \in 1 .. Len(s) - 1 : Tail(s)[k] = s[k + 1]
  OBVIOUS

\* What a channel holds after a send.
LEMMA AppendFacts ==
  ASSUME NEW S, NEW s \in Seq(S), NEW e \in S
  PROVE  /\ Len(s) \in Nat
         /\ Append(s, e) \in Seq(S)
         /\ Len(Append(s, e)) = Len(s) + 1
         /\ \A k \in 1 .. Len(s) : Append(s, e)[k] = s[k]
         /\ Append(s, e)[Len(s) + 1] = e
  OBVIOUS

-----------------------------------------------------------------------------

\* Receiving from the channel.
LEMMA Receive ==
  ASSUME TypeOK, QueueInv, items # <<>>, items' = Tail(items)
  PROVE  /\ Len(items) \in Nat /\ Len(items) > 0
         /\ Head(items) = items[1] /\ Head(items) \in Items /\ Head(items) # NoItem
         /\ items' \in Seq(Items)
         /\ Len(items') = Len(items) - 1
         /\ \A k \in 1 .. Len(items) - 1 : items'[k] = items[k + 1]
         /\ \A k \in 1 .. Len(items') : items'[k] # Head(items)
         /\ \A i : Queued(i) => Queued(i)' \/ i = Head(items)
         /\ \A i : Queued(i)' => Queued(i)
         /\ Queued(Head(items))
<1>1. items \in Seq(Items)
  BY DEF TypeOK
<1>2. /\ Len(items) \in Nat /\ Len(items) > 0
      /\ Head(items) = items[1] /\ Head(items) \in Items
      /\ items' \in Seq(Items)
      /\ Len(items') = Len(items) - 1
      /\ \A k \in 1 .. Len(items) - 1 : items'[k] = items[k + 1]
  BY <1>1, TailFacts
<1>3. Head(items) # NoItem
  BY <1>2 DEF Items, NoItem
<1>4. \A k \in 1 .. Len(items') : items'[k] # Head(items)
  BY <1>1, <1>2 DEF QueueInv, Items
<1>5. ASSUME NEW i, Queued(i) PROVE Queued(i)' \/ i = Head(items)
  <2>1. PICK k \in 1 .. Len(items) : items[k] = i
    BY <1>1, <1>5 DEF Queued
  <2>2. CASE k = 1
    BY <1>2, <2>1, <2>2
  <2>3. CASE k # 1
    <3>1. k - 1 \in 1 .. Len(items') /\ items'[k - 1] = i
      BY <1>2, <2>1, <2>3
    <3>2. DOMAIN items' = 1 .. Len(items')
      BY <1>2
    <3> QED
      BY <3>1, <3>2 DEF Queued
  <2> QED
    BY <2>2, <2>3
<1>6. ASSUME NEW i, Queued(i)' PROVE Queued(i)
  <2>1. PICK k \in 1 .. Len(items') : items'[k] = i
    BY <1>2, <1>6 DEF Queued
  <2>2. k + 1 \in 1 .. Len(items) /\ items[k + 1] = i
    BY <1>2, <2>1
  <2> QED
    BY <1>1, <2>2 DEF Queued
<1>7. Queued(Head(items))
  <2>1. 1 \in DOMAIN items /\ items[1] = Head(items)
    BY <1>1, <1>2
  <2> QED
    BY <2>1 DEF Queued
<1> QED
  BY <1>2, <1>3, <1>4, <1>5, <1>6, <1>7

-----------------------------------------------------------------------------

\* processItem returns: the item it held is the only one that may cease to be
\* pending.
LEMMA Released ==
  ASSUME TypeOK, NEW w \in Workers, Return(w),
         UNCHANGED <<items, drainItem>>,
         NEW i \in Items, i # held[w], Pending(i)
  PROVE  Pending(i)'
  BY DEF TypeOK, Return, Pending, Queued, HeldBy

\* What NewDispatcher has validated.
LEMMA ConfigFacts ==
  /\ Workers # {}
  /\ MaxQueueSize \in Nat \ {0}
  /\ MaxRetries \in Nat
  /\ MaxItems \in Nat
  BY DispatcherAssumption DEF ValidConfig

\* NewDispatcher and Start establish the invariant: nothing is anywhere.
LEMMA InitIInv == Init => IInv
<1> SUFFICES ASSUME Init PROVE IInv
  OBVIOUS
<1> USE ConfigFacts DEF Init
<1>1. TypeOK
  <2>1. items \in Seq(Items) /\ Len(items) <= MaxQueueSize
    OBVIOUS
  <2>2. stale \in 0 .. MaxItems /\ attempt \in [Workers -> 0 .. MaxRetries]
    OBVIOUS
  <2>3. drainLeft \in 0 .. MaxQueueSize
    OBVIOUS
  <2> QED
    BY <2>1, <2>2, <2>3 DEF TypeOK
<1>2. QueueInv /\ WorkerInv /\ HeldInv
  BY DEF QueueInv, WorkerInv, HeldInv
<1>3. StopInv /\ DrainInv
  BY DEF StopInv, DrainInv, DrainCounted
<1>4. TallyInv /\ AbandonedWasTried
  BY DEF TallyInv, AbandonedWasTried, Abandoned
<1> QED
  BY <1>1, <1>2, <1>3, <1>4 DEF IInv

\* A worker receives the oldest item: it leaves the channel and is held, untried, by
\* that worker alone.
LEMMA TakeIInv ==
  ASSUME IInv, NEW w \in Workers, Take(w)
  PROVE  IInv'
<1> USE DEF Take, MoveTo, tallyVars, stopVars
<1>0. TypeOK /\ QueueInv /\ WorkerInv /\ HeldInv /\ StopInv /\ DrainInv
  BY DEF IInv
<1>1. /\ Len(items) \in Nat /\ Len(items) > 0
      /\ Head(items) = items[1] /\ Head(items) \in Items /\ Head(items) # NoItem
      /\ items' \in Seq(Items)
      /\ Len(items') = Len(items) - 1
      /\ \A k \in 1 .. Len(items) - 1 : items'[k] = items[k + 1]
      /\ \A k \in 1 .. Len(items') : items'[k] # Head(items)
      /\ \A i : Queued(i) => Queued(i)' \/ i = Head(items)
  BY <1>0, Receive
<1>2. TypeOK'
  <2>1. Len(items') <= MaxQueueSize
    BY <1>0, <1>1, ConfigFacts DEF TypeOK
  <2>2. held' \in [Workers -> Items \cup {NoItem}]
    BY <1>0, <1>1 DEF TypeOK
  <2> QED
    BY <1>0, <1>1, <2>1, <2>2 DEF TypeOK
<1>3. QueueInv'
  <2>1. UNCHANGED <<offered, shipped, dropped, attempts>>
    OBVIOUS
  <2> HIDE DEF Take, MoveTo, tallyVars, stopVars
  <2>2. ASSUME NEW k \in 1 .. Len(items')
        PROVE  k + 1 \in 1 .. Len(items) /\ items'[k] = items[k + 1]
    <3>1. /\ Len(items) \in Nat /\ Len(items') = Len(items) - 1
          /\ \A l \in 1 .. Len(items) - 1 : items'[l] = items[l + 1]
      BY <1>1
    <3>2. k \in 1 .. Len(items) - 1
      BY <3>1
    <3> QED
      BY <3>1, <3>2
  <2>3. ASSUME NEW j \in 1 .. Len(items'), NEW k \in 1 .. Len(items'), j < k
        PROVE  items'[j] < items'[k]
    <3>1. j + 1 < k + 1
      <4>1. Len(items) \in Nat /\ Len(items') = Len(items) - 1
        BY <1>1
      <4> QED
        BY <4>1, <2>3
    <3> QED
      BY <1>0, <2>2, <3>1 DEF QueueInv
  <2>4. ASSUME NEW k \in 1 .. Len(items')
        PROVE  /\ items'[k] \in offered'
               /\ shipped'[items'[k]] = 0 /\ dropped'[items'[k]] = 0 /\ attempts'[items'[k]] = 0
    BY <1>0, <2>1, <2>2 DEF QueueInv
  <2> QED
    BY <2>3, <2>4 DEF QueueInv
<1>4. WorkerInv'
  BY <1>0, <1>1 DEF TypeOK, WorkerInv
<1>5. HeldInv'
  <2>1. \A v \in Workers : held[v] # Head(items)
    BY <1>0, <1>1 DEF HeldInv
  <2> QED
    BY <1>0, <1>1, <2>1 DEF TypeOK, QueueInv, WorkerInv, HeldInv
<1>6. StopInv'
  BY <1>0, <1>1 DEF TypeOK, StopInv, DrainCounted, AllExited
<1>7. DrainInv'
  BY <1>0 DEF TypeOK, StopInv, DrainInv, DrainCounted, AllExited
<1>8. TallyInv'
  BY DEF IInv, TallyInv
<1>9. AbandonedWasTried'
  <2> SUFFICES ASSUME NEW i \in Items, Abandoned(i)'
      PROVE  Abandoned(i)
    BY DEF IInv, AbandonedWasTried
  <2>1. Queued(i) => Pending(i)'
    BY <1>0, <1>1 DEF TypeOK, Pending, HeldBy
  <2>2. ASSUME NEW v \in Workers, HeldBy(v, i) PROVE Pending(i)'
    BY <1>0, <1>1, <2>2 DEF TypeOK, WorkerInv, Pending, HeldBy, Items, NoItem
  <2> QED
    BY <2>1, <2>2 DEF Abandoned, Pending, Settled
<1> QED
  BY <1>2, <1>3, <1>4, <1>5, <1>6, <1>7, <1>8, <1>9 DEF IInv

\* A worker exits only under a done context, and with empty hands.
LEMMA ExitIInv ==
  ASSUME IInv, NEW w \in Workers, Exit(w)
  PROVE  IInv'
<1> USE DEF Exit, MoveTo, queueVars, tallyVars, stopVars
<1>0. TypeOK /\ QueueInv /\ WorkerInv /\ HeldInv /\ StopInv /\ DrainInv /\ TallyInv
  BY DEF IInv
<1>1. TypeOK'
  BY <1>0, ConfigFacts DEF TypeOK
<1>2. QueueInv'
  BY <1>0 DEF TypeOK, QueueInv, HeldInv, StopInv, WorkerInv, NoItem
<1>3. WorkerInv'
  BY <1>0 DEF TypeOK, WorkerInv, NoItem
<1>4. HeldInv'
  BY <1>0 DEF TypeOK, WorkerInv, HeldInv, NoItem
<1>5. StopInv'
  BY <1>0 DEF TypeOK, WorkerInv, StopInv, DrainCounted, AllExited
<1>6. DrainInv'
  BY <1>0 DEF TypeOK, StopInv, DrainInv, DrainCounted
<1>7. TallyInv'
  BY <1>0 DEF TypeOK, HeldInv, StopInv, WorkerInv, TallyInv, NoItem
<1>8. AbandonedWasTried'
  BY <1>0 DEF IInv, TypeOK, WorkerInv, HeldInv, AbandonedWasTried, Abandoned, Pending, Queued, HeldBy, Settled, NoItem
<1> QED
  BY <1>1, <1>2, <1>3, <1>4, <1>5, <1>6, <1>7, <1>8 DEF IInv

\* The item that has expired is settled, and let go of in the same step.
LEMMA DropExpiredIInv ==
  ASSUME IInv, NEW w \in Workers, DropExpired(w)
  PROVE  IInv'
<1> USE DEF DropExpired, Return, MoveTo, OnDrop, queueVars, stopVars
<1>0. TypeOK /\ QueueInv /\ WorkerInv /\ HeldInv /\ StopInv /\ DrainInv /\ TallyInv
  BY DEF IInv
<1>h. /\ held[w] \in Items /\ held[w] # NoItem /\ held[w] \in offered
      /\ attempt[w] \in 0 .. MaxRetries
      /\ shipped[held[w]] = 0 /\ dropped[held[w]] = 0
      /\ attempts[held[w]] = IF pc[w] = "check" THEN attempt[w] ELSE attempt[w] + 1
  BY <1>0 DEF TypeOK, WorkerInv, HeldInv
<1>1. TypeOK'
  BY <1>0, <1>h, ConfigFacts DEF TypeOK
<1>2. QueueInv'
  BY <1>0, <1>h DEF TypeOK, QueueInv, HeldInv
<1>3. WorkerInv'
  BY <1>0, <1>h DEF TypeOK, WorkerInv, NoItem
<1>4. HeldInv'
  BY <1>0, <1>h DEF TypeOK, WorkerInv, HeldInv, NoItem
<1>5. StopInv'
  BY <1>0, <1>h DEF TypeOK, WorkerInv, StopInv, DrainCounted, AllExited
<1>6. DrainInv'
  BY <1>0 DEF TypeOK, StopInv, DrainInv, DrainCounted
<1>7. TallyInv'
  <2> SUFFICES ASSUME NEW i \in Items
      PROVE  /\ i \notin offered' => shipped'[i] = 0 /\ dropped'[i] = 0 /\ attempts'[i] = 0
             /\ shipped'[i] + dropped'[i] <= 1
             /\ attempts'[i] <= MaxRetries + 1
             /\ shipped'[i] > 0 => attempts'[i] >= 1
    BY DEF TallyInv
  <2>1. CASE i # held[w]
    BY <1>0, <2>1 DEF TypeOK, TallyInv
  <2>2. CASE i = held[w]
    BY <1>0, <1>h, <2>2, ConfigFacts DEF TypeOK
  <2> QED
    BY <2>1, <2>2
<1>8. AbandonedWasTried'
  <2> SUFFICES ASSUME NEW i \in Items, Abandoned(i)'
      PROVE  cancelled' /\ attempts'[i] >= 1
    BY DEF AbandonedWasTried
  <2>1. i # held[w]
    BY <1>0, <1>h DEF Abandoned, Settled, TypeOK
  <2>2. Abandoned(i)
    BY <1>0, <2>1, Released DEF Abandoned, Settled, TypeOK
  <2> QED
    BY <2>2 DEF IInv, AbandonedWasTried
<1> QED
  BY <1>1, <1>2, <1>3, <1>4, <1>5, <1>6, <1>7, <1>8 DEF IInv

\* A dispatch counts as one more attempt: the loop counter lags by one while it runs.
LEMMA SendIInv ==
  ASSUME IInv, NEW w \in Workers, Send(w)
  PROVE  IInv'
<1> USE DEF Send, MoveTo, NoCallback, CountDispatch, queueVars, stopVars
<1>0. TypeOK /\ QueueInv /\ WorkerInv /\ HeldInv /\ StopInv /\ DrainInv /\ TallyInv
  BY DEF IInv
<1>h. /\ held[w] \in Items /\ held[w] # NoItem /\ held[w] \in offered
      /\ attempt[w] \in 0 .. MaxRetries
      /\ shipped[held[w]] = 0 /\ dropped[held[w]] = 0
      /\ attempts[held[w]] = IF pc[w] = "check" THEN attempt[w] ELSE attempt[w] + 1
  BY <1>0 DEF TypeOK, WorkerInv, HeldInv
<1>1. TypeOK'
  BY <1>0, <1>h, ConfigFacts DEF TypeOK
<1>2. QueueInv'
  BY <1>0, <1>h DEF TypeOK, QueueInv, HeldInv
<1>3. WorkerInv'
  BY <1>0, <1>h DEF TypeOK, WorkerInv, NoItem
<1>4. HeldInv'
  BY <1>0, <1>h DEF TypeOK, WorkerInv, HeldInv, NoItem
<1>5. StopInv'
  BY <1>0, <1>h DEF TypeOK, WorkerInv, StopInv, DrainCounted, AllExited
<1>6. DrainInv'
  BY <1>0 DEF TypeOK, StopInv, DrainInv, DrainCounted
<1>7. TallyInv'
  <2> SUFFICES ASSUME NEW i \in Items
      PROVE  /\ i \notin offered' => shipped'[i] = 0 /\ dropped'[i] = 0 /\ attempts'[i] = 0
             /\ shipped'[i] + dropped'[i] <= 1
             /\ attempts'[i] <= MaxRetries + 1
             /\ shipped'[i] > 0 => attempts'[i] >= 1
    BY DEF TallyInv
  <2>1. CASE i # held[w]
    BY <1>0, <2>1 DEF TypeOK, TallyInv
  <2>2. CASE i = held[w]
    BY <1>0, <1>h, <2>2, ConfigFacts DEF TypeOK
  <2> QED
    BY <2>1, <2>2
<1>8. AbandonedWasTried'
  <2> SUFFICES ASSUME NEW i \in Items, Abandoned(i)'
      PROVE  Abandoned(i) /\ attempts'[i] >= attempts[i]
    BY <1>0 DEF IInv, TypeOK, AbandonedWasTried
  <2> QED
    BY <1>0, <1>h DEF TypeOK, Abandoned, Pending, Queued, HeldBy, Settled
<1> QED
  BY <1>1, <1>2, <1>3, <1>4, <1>5, <1>6, <1>7, <1>8 DEF IInv

\* The dispatch has succeeded: the item is settled, and let go of in the same step.
LEMMA SendOkIInv ==
  ASSUME IInv, NEW w \in Workers, SendOk(w)
  PROVE  IInv'
<1> USE DEF SendOk, Return, MoveTo, OnSuccess, queueVars, stopVars
<1>0. TypeOK /\ QueueInv /\ WorkerInv /\ HeldInv /\ StopInv /\ DrainInv /\ TallyInv
  BY DEF IInv
<1>h. /\ held[w] \in Items /\ held[w] # NoItem /\ held[w] \in offered
      /\ attempt[w] \in 0 .. MaxRetries
      /\ shipped[held[w]] = 0 /\ dropped[held[w]] = 0
      /\ attempts[held[w]] = IF pc[w] = "check" THEN attempt[w] ELSE attempt[w] + 1
  BY <1>0 DEF TypeOK, WorkerInv, HeldInv
<1>1. TypeOK'
  BY <1>0, <1>h, ConfigFacts DEF TypeOK
<1>2. QueueInv'
  BY <1>0, <1>h DEF TypeOK, QueueInv, HeldInv
<1>3. WorkerInv'
  BY <1>0, <1>h DEF TypeOK, WorkerInv, NoItem
<1>4. HeldInv'
  <2>1. \A v \in Workers : held'[v] # NoItem =>
          /\ v # w /\ held'[v] = held[v] /\ pc'[v] = pc[v] /\ attempt'[v] = attempt[v]
          /\ held[v] \in Items /\ held[v] # held[w]
    BY <1>0, <1>h DEF TypeOK, HeldInv
  <2>2. /\ shipped' = [shipped EXCEPT ![held[w]] = @ + 1]
        /\ UNCHANGED <<offered, items, dropped, attempts>>
    OBVIOUS
  <2>3. \A i \in Items : i # held[w] => shipped'[i] = shipped[i]
    <3> HIDE DEF SendOk, Return, MoveTo, OnSuccess
    <3> QED
      BY <1>0, <2>2 DEF TypeOK
  <2> HIDE DEF SendOk, Return, MoveTo, OnSuccess
  <2> QED
    BY <1>0, <2>1, <2>2, <2>3 DEF HeldInv
<1>5. StopInv'
  BY <1>0, <1>h DEF TypeOK, WorkerInv, StopInv, DrainCounted, AllExited
<1>6. DrainInv'
  BY <1>0 DEF TypeOK, StopInv, DrainInv, DrainCounted
<1>7. TallyInv'
  <2> SUFFICES ASSUME NEW i \in Items
      PROVE  /\ i \notin offered' => shipped'[i] = 0 /\ dropped'[i] = 0 /\ attempts'[i] = 0
             /\ shipped'[i] + dropped'[i] <= 1
             /\ attempts'[i] <= MaxRetries + 1
             /\ shipped'[i] > 0 => attempts'[i] >= 1
    BY DEF TallyInv
  <2>1. CASE i # held[w]
    BY <1>0, <2>1 DEF TypeOK, TallyInv
  <2>2. CASE i = held[w]
    BY <1>0, <1>h, <2>2, ConfigFacts DEF TypeOK
  <2> QED
    BY <2>1, <2>2
<1>8. AbandonedWasTried'
  <2> SUFFICES ASSUME NEW i \in Items, Abandoned(i)'
      PROVE  cancelled' /\ attempts'[i] >= 1
    BY DEF AbandonedWasTried
  <2>1. i # held[w]
    BY <1>0, <1>h DEF Abandoned, Settled, TypeOK
  <2>2. Abandoned(i)
    BY <1>0, <2>1, Released DEF Abandoned, Settled, TypeOK
  <2> QED
    BY <2>2 DEF IInv, AbandonedWasTried
<1> QED
  BY <1>1, <1>2, <1>3, <1>4, <1>5, <1>6, <1>7, <1>8 DEF IInv

\* The backoff is entered only while the loop counter is below the limit.
LEMMA SendFailIInv ==
  ASSUME IInv, NEW w \in Workers, SendFail(w)
  PROVE  IInv'
<1> USE DEF SendFail, CanRetry, MoveTo, queueVars, tallyVars, stopVars
<1>0. TypeOK /\ QueueInv /\ WorkerInv /\ HeldInv /\ StopInv /\ DrainInv /\ TallyInv
  BY DEF IInv
<1>h. /\ held[w] \in Items /\ held[w] # NoItem /\ held[w] \in offered
      /\ attempt[w] \in 0 .. MaxRetries
      /\ shipped[held[w]] = 0 /\ dropped[held[w]] = 0
      /\ attempts[held[w]] = IF pc[w] = "check" THEN attempt[w] ELSE attempt[w] + 1
  BY <1>0 DEF TypeOK, WorkerInv, HeldInv
<1>1. TypeOK'
  BY <1>0, <1>h, ConfigFacts DEF TypeOK
<1>2. QueueInv'
  BY <1>0, <1>h DEF TypeOK, QueueInv, HeldInv
<1>3. WorkerInv'
  BY <1>0, <1>h DEF TypeOK, WorkerInv, NoItem
<1>4. HeldInv'
  BY <1>0, <1>h DEF TypeOK, WorkerInv, HeldInv, NoItem
<1>5. StopInv'
  BY <1>0, <1>h DEF TypeOK, WorkerInv, StopInv, DrainCounted, AllExited
<1>6. DrainInv'
  BY <1>0 DEF TypeOK, StopInv, DrainInv, DrainCounted
<1>7. TallyInv'
  BY <1>0 DEF TallyInv
<1>8. AbandonedWasTried'
  <2> SUFFICES ASSUME NEW i \in Items, Abandoned(i)'
      PROVE  Abandoned(i) /\ attempts'[i] >= attempts[i]
    BY <1>0 DEF IInv, TypeOK, AbandonedWasTried
  <2> QED
    BY <1>0, <1>h DEF TypeOK, Abandoned, Pending, Queued, HeldBy, Settled
<1> QED
  BY <1>1, <1>2, <1>3, <1>4, <1>5, <1>6, <1>7, <1>8 DEF IInv

\* The last dispatch has failed: the item is settled, and let go of.
LEMMA DropExhaustedIInv ==
  ASSUME IInv, NEW w \in Workers, DropExhausted(w)
  PROVE  IInv'
<1> USE DEF DropExhausted, CanRetry, Return, MoveTo, OnDrop, queueVars, stopVars
<1>0. TypeOK /\ QueueInv /\ WorkerInv /\ HeldInv /\ StopInv /\ DrainInv /\ TallyInv
  BY DEF IInv
<1>h. /\ held[w] \in Items /\ held[w] # NoItem /\ held[w] \in offered
      /\ attempt[w] \in 0 .. MaxRetries
      /\ shipped[held[w]] = 0 /\ dropped[held[w]] = 0
      /\ attempts[held[w]] = IF pc[w] = "check" THEN attempt[w] ELSE attempt[w] + 1
  BY <1>0 DEF TypeOK, WorkerInv, HeldInv
<1>1. TypeOK'
  BY <1>0, <1>h, ConfigFacts DEF TypeOK
<1>2. QueueInv'
  BY <1>0, <1>h DEF TypeOK, QueueInv, HeldInv
<1>3. WorkerInv'
  BY <1>0, <1>h DEF TypeOK, WorkerInv, NoItem
<1>4. HeldInv'
  BY <1>0, <1>h DEF TypeOK, WorkerInv, HeldInv, NoItem
<1>5. StopInv'
  BY <1>0, <1>h DEF TypeOK, WorkerInv, StopInv, DrainCounted, AllExited
<1>6. DrainInv'
  BY <1>0 DEF TypeOK, StopInv, DrainInv, DrainCounted
<1>7. TallyInv'
  <2> SUFFICES ASSUME NEW i \in Items
      PROVE  /\ i \notin offered' => shipped'[i] = 0 /\ dropped'[i] = 0 /\ attempts'[i] = 0
             /\ shipped'[i] + dropped'[i] <= 1
             /\ attempts'[i] <= MaxRetries + 1
             /\ shipped'[i] > 0 => attempts'[i] >= 1
    BY DEF TallyInv
  <2>1. CASE i # held[w]
    BY <1>0, <2>1 DEF TypeOK, TallyInv
  <2>2. CASE i = held[w]
    BY <1>0, <1>h, <2>2, ConfigFacts DEF TypeOK
  <2> QED
    BY <2>1, <2>2
<1>8. AbandonedWasTried'
  <2> SUFFICES ASSUME NEW i \in Items, Abandoned(i)'
      PROVE  cancelled' /\ attempts'[i] >= 1
    BY DEF AbandonedWasTried
  <2>1. i # held[w]
    BY <1>0, <1>h DEF Abandoned, Settled, TypeOK
  <2>2. Abandoned(i)
    BY <1>0, <2>1, Released DEF Abandoned, Settled, TypeOK
  <2> QED
    BY <2>2 DEF IInv, AbandonedWasTried
<1> QED
  BY <1>1, <1>2, <1>3, <1>4, <1>5, <1>6, <1>7, <1>8 DEF IInv

\* The loop counter catches up with the attempts, and stays within the limit.
LEMMA BackoffElapsedIInv ==
  ASSUME IInv, NEW w \in Workers, BackoffElapsed(w)
  PROVE  IInv'
<1> USE DEF BackoffElapsed, MoveTo, queueVars, tallyVars, stopVars
<1>0. TypeOK /\ QueueInv /\ WorkerInv /\ HeldInv /\ StopInv /\ DrainInv /\ TallyInv
  BY DEF IInv
<1>h. /\ held[w] \in Items /\ held[w] # NoItem /\ held[w] \in offered
      /\ attempt[w] \in 0 .. MaxRetries
      /\ shipped[held[w]] = 0 /\ dropped[held[w]] = 0
      /\ attempts[held[w]] = IF pc[w] = "check" THEN attempt[w] ELSE attempt[w] + 1
  BY <1>0 DEF TypeOK, WorkerInv, HeldInv
<1>1. TypeOK'
  BY <1>0, <1>h, ConfigFacts DEF TypeOK, WorkerInv
<1>2. QueueInv'
  BY <1>0, <1>h DEF TypeOK, QueueInv, HeldInv
<1>3. WorkerInv'
  BY <1>0, <1>h DEF TypeOK, WorkerInv, NoItem
<1>4. HeldInv'
  BY <1>0, <1>h DEF TypeOK, WorkerInv, HeldInv, NoItem
<1>5. StopInv'
  BY <1>0, <1>h DEF TypeOK, WorkerInv, StopInv, DrainCounted, AllExited
<1>6. DrainInv'
  BY <1>0 DEF TypeOK, StopInv, DrainInv, DrainCounted
<1>7. TallyInv'
  BY <1>0 DEF TallyInv
<1>8. AbandonedWasTried'
  <2> SUFFICES ASSUME NEW i \in Items, Abandoned(i)'
      PROVE  Abandoned(i) /\ attempts'[i] >= attempts[i]
    BY <1>0 DEF IInv, TypeOK, AbandonedWasTried
  <2> QED
    BY <1>0, <1>h DEF TypeOK, Abandoned, Pending, Queued, HeldBy, Settled
<1> QED
  BY <1>1, <1>2, <1>3, <1>4, <1>5, <1>6, <1>7, <1>8 DEF IInv

\* The one step that abandons an item: it has been tried, and the context is done.
LEMMA BackoffCancelledIInv ==
  ASSUME IInv, NEW w \in Workers, BackoffCancelled(w)
  PROVE  IInv'
<1> USE DEF BackoffCancelled, Return, MoveTo, queueVars, tallyVars, stopVars
<1>0. TypeOK /\ QueueInv /\ WorkerInv /\ HeldInv /\ StopInv /\ DrainInv /\ TallyInv
  BY DEF IInv
<1>h. /\ held[w] \in Items /\ held[w] # NoItem /\ held[w] \in offered
      /\ attempt[w] \in 0 .. MaxRetries
      /\ shipped[held[w]] = 0 /\ dropped[held[w]] = 0
      /\ attempts[held[w]] = IF pc[w] = "check" THEN attempt[w] ELSE attempt[w] + 1
  BY <1>0 DEF TypeOK, WorkerInv, HeldInv
<1>1. TypeOK'
  BY <1>0, <1>h, ConfigFacts DEF TypeOK
<1>2. QueueInv'
  BY <1>0, <1>h DEF TypeOK, QueueInv, HeldInv
<1>3. WorkerInv'
  BY <1>0, <1>h DEF TypeOK, WorkerInv, NoItem
<1>4. HeldInv'
  BY <1>0, <1>h DEF TypeOK, WorkerInv, HeldInv, NoItem
<1>5. StopInv'
  BY <1>0, <1>h DEF TypeOK, WorkerInv, StopInv, DrainCounted, AllExited
<1>6. DrainInv'
  BY <1>0 DEF TypeOK, StopInv, DrainInv, DrainCounted
<1>7. TallyInv'
  BY <1>0 DEF TallyInv
<1>8. AbandonedWasTried'
  <2> SUFFICES ASSUME NEW i \in Items, Abandoned(i)'
      PROVE  cancelled' /\ attempts'[i] >= 1
    BY DEF AbandonedWasTried
  <2>1. CASE i = held[w]
    BY <1>h, <2>1
  <2>2. CASE i # held[w]
    <3>1. Abandoned(i)
      BY <1>0, <2>2, Released DEF Abandoned, Settled
    <3> QED
      BY <3>1 DEF IInv, AbandonedWasTried
  <2> QED
    BY <2>1, <2>2
<1> QED
  BY <1>1, <1>2, <1>3, <1>4, <1>5, <1>6, <1>7, <1>8 DEF IInv

\* The channel after a send.
LEMMA Sent ==
  ASSUME TypeOK, NEW i \in Items, items' = Append(items, i)
  PROVE  /\ Len(items) \in Nat
         /\ items' \in Seq(Items)
         /\ Len(items') = Len(items) + 1
         /\ \A k \in 1 .. Len(items) : items'[k] = items[k]
         /\ items'[Len(items) + 1] = i
         /\ \A j : Queued(j)' <=> (Queued(j) \/ j = i)
<1>1. items \in Seq(Items)
  BY DEF TypeOK
<1>2. /\ Len(items) \in Nat
      /\ items' \in Seq(Items)
      /\ Len(items') = Len(items) + 1
      /\ \A k \in 1 .. Len(items) : items'[k] = items[k]
      /\ items'[Len(items) + 1] = i
  BY <1>1, AppendFacts
<1>3. DOMAIN items = 1 .. Len(items) /\ DOMAIN items' = 1 .. Len(items')
  BY <1>1, <1>2
<1> QED
  BY <1>2, <1>3 DEF Queued

\* A new item goes to the end of the channel, in order; once the drain has counted,
\* it lies behind what the drain will receive, among the late ones.
LEMMA AcceptIInv ==
  ASSUME IInv, NEW i \in Items, Accept(i)
  PROVE  IInv'
<1> USE DEF Accept, Handed, HasRoom, NoCallback, workerVars, stopVars
<1>0. TypeOK /\ QueueInv /\ WorkerInv /\ HeldInv /\ StopInv /\ DrainInv /\ TallyInv
  BY DEF IInv
<1>a. /\ Len(items) \in Nat
      /\ items' \in Seq(Items)
      /\ Len(items') = Len(items) + 1
      /\ \A k \in 1 .. Len(items) : items'[k] = items[k]
      /\ items'[Len(items) + 1] = i
      /\ \A j : Queued(j)' <=> (Queued(j) \/ j = i)
  BY <1>0, Sent
<1>b. \A k \in 1 .. Len(items') : items'[k] = items[k] \/ (k = Len(items) + 1 /\ items'[k] = i)
  BY <1>a
<1>c. i \notin offered /\ shipped[i] = 0 /\ dropped[i] = 0 /\ attempts[i] = 0
  BY <1>0 DEF TypeOK, Items, TallyInv
<1>1. TypeOK'
  <2>1. Len(items') <= MaxQueueSize
    BY <1>0, <1>a, ConfigFacts DEF TypeOK
  <2> QED
    BY <1>0, <1>a, <2>1 DEF TypeOK
<1>2. QueueInv'
  <2>1. \A k \in 1 .. Len(items) : items[k] < i
    BY <1>0 DEF QueueInv
  <2>2. ASSUME NEW j \in 1 .. Len(items'), NEW k \in 1 .. Len(items'), j < k
        PROVE  items'[j] < items'[k]
    <3>1. j \in 1 .. Len(items) /\ items'[j] = items[j]
      BY <1>a, <2>2
    <3> QED
      BY <1>0, <1>a, <1>b, <2>1, <2>2, <3>1 DEF QueueInv
  <2>3. ASSUME NEW k \in 1 .. Len(items')
        PROVE  /\ items'[k] \in offered'
               /\ shipped'[items'[k]] = 0 /\ dropped'[items'[k]] = 0 /\ attempts'[items'[k]] = 0
    BY <1>0, <1>a, <1>c DEF QueueInv
  <2> QED
    BY <2>2, <2>3 DEF QueueInv
<1>3. WorkerInv'
  BY <1>0 DEF WorkerInv
<1>4. HeldInv'
  <2>1. ASSUME NEW w \in Workers, held[w] # NoItem, NEW k \in 1 .. Len(items')
        PROVE  items'[k] # held[w]
    BY <1>0, <1>a, <1>c, <2>1 DEF HeldInv
  <2> QED
    BY <1>0, <2>1 DEF HeldInv
<1>5. StopInv'
  BY <1>0, <1>a, <1>c DEF StopInv, DrainCounted, AllExited
<1>6. DrainInv'
  <2>1. CASE DrainCounted
    <3>1. late' = late \cup {i}
      BY <2>1
    <3>2. DrainInv
      BY <1>0
    <3>3. drainLeft \in Nat /\ drainLeft' = drainLeft /\ drainItem' = drainItem /\ stop' = stop
      BY <1>0 DEF TypeOK
    <3>4. ASSUME NEW k \in 1 .. Len(items) PROVE items'[k] \in late' <=> items[k] \in late
      BY <1>0, <1>a, <1>c, <3>1 DEF QueueInv
    <3>5. ASSUME stop = "draining", NEW k \in 1 .. Len(items')
          PROVE  items'[k] \in late' <=> k > drainLeft
      <4>1. CASE k \in 1 .. Len(items)
        BY <3>2, <3>4, <3>5, <4>1 DEF DrainInv
      <4>2. CASE k = Len(items) + 1
        BY <1>a, <3>1, <3>2, <3>3, <3>5, <4>2 DEF DrainInv
      <4> QED
        BY <1>a, <4>1, <4>2
    <3>6. ASSUME stop = "stopped", NEW k \in 1 .. Len(items')
          PROVE  items'[k] \in late'
      BY <1>a, <1>b, <3>1, <3>2, <3>4, <3>6 DEF DrainInv
    <3>7. stop = "draining" => drainLeft <= Len(items')
      BY <1>a, <3>2, <3>3 DEF DrainInv
    <3>8. stop = "draining" => drainItem \notin late'
      <4>1. drainItem # i
        BY <1>0, <1>c DEF StopInv, Items, NoItem
      <4> QED
        BY <3>1, <3>2, <4>1 DEF DrainInv
    <3> QED
      BY <3>3, <3>5, <3>6, <3>7, <3>8 DEF DrainInv
  <2>2. CASE ~DrainCounted
    BY <2>2 DEF DrainInv, DrainCounted
  <2> QED
    BY <2>1, <2>2
<1>7. TallyInv'
  BY <1>0 DEF TallyInv
<1>8. AbandonedWasTried'
  <2> SUFFICES ASSUME NEW j \in Items, Abandoned(j)'
      PROVE  Abandoned(j)
    BY DEF IInv, AbandonedWasTried
  <2> QED
    BY <1>a DEF Abandoned, Pending, HeldBy, Settled
<1> QED
  BY <1>1, <1>2, <1>3, <1>4, <1>5, <1>6, <1>7, <1>8 DEF IInv

\* A full channel: the new item is settled at once.
LEMMA RejectIInv ==
  ASSUME IInv, NEW i \in Items, Reject(i)
  PROVE  IInv'
<1> USE DEF Reject, Handed, OnDrop, workerVars, stopVars
<1>0. TypeOK /\ QueueInv /\ WorkerInv /\ HeldInv /\ StopInv /\ DrainInv /\ TallyInv
  BY DEF IInv
<1>c. i \notin offered /\ shipped[i] = 0 /\ dropped[i] = 0 /\ attempts[i] = 0
  BY <1>0 DEF TypeOK, Items, TallyInv
<1>1. TypeOK'
  BY <1>0 DEF TypeOK
<1>2. QueueInv'
  BY <1>0, <1>c DEF TypeOK, QueueInv
<1>3. WorkerInv'
  BY <1>0 DEF WorkerInv
<1>4. HeldInv'
  BY <1>0, <1>c DEF TypeOK, HeldInv
<1>5. StopInv'
  BY <1>0, <1>c DEF TypeOK, StopInv, DrainCounted, AllExited
<1>6. DrainInv'
  BY <1>0 DEF DrainInv
<1>7. TallyInv'
  <2> SUFFICES ASSUME NEW j \in Items
      PROVE  /\ j \notin offered' => shipped'[j] = 0 /\ dropped'[j] = 0 /\ attempts'[j] = 0
             /\ shipped'[j] + dropped'[j] <= 1
             /\ attempts'[j] <= MaxRetries + 1
             /\ shipped'[j] > 0 => attempts'[j] >= 1
    BY DEF TallyInv
  <2>1. CASE j # i
    BY <1>0, <2>1 DEF TypeOK, TallyInv
  <2>2. CASE j = i
    BY <1>0, <1>c, <2>2, ConfigFacts DEF TypeOK
  <2> QED
    BY <2>1, <2>2
<1>8. AbandonedWasTried'
  <2> SUFFICES ASSUME NEW j \in Items, Abandoned(j)'
      PROVE  Abandoned(j)
    BY DEF IInv, AbandonedWasTried
  <2> QED
    BY <1>0, <1>c DEF TypeOK, Abandoned, Pending, Queued, HeldBy, Settled
<1> QED
  BY <1>1, <1>2, <1>3, <1>4, <1>5, <1>6, <1>7, <1>8 DEF IInv

\* Time passes; the invariant does not speak of age.
LEMMA TickIInv ==
  ASSUME IInv, Tick
  PROVE  IInv'
<1> USE DEF Tick, queueVars, workerVars, stopVars, tallyVars
<1>0. TypeOK /\ QueueInv /\ WorkerInv /\ HeldInv /\ StopInv /\ DrainInv /\ TallyInv
  BY DEF IInv
<1>1. TypeOK'
  BY <1>0 DEF TypeOK, Items
<1>2. QueueInv'
  BY <1>0 DEF QueueInv
<1>3. WorkerInv'
  BY <1>0 DEF WorkerInv
<1>4. HeldInv'
  BY <1>0 DEF HeldInv
<1>5. StopInv'
  BY <1>0 DEF TypeOK, StopInv, DrainCounted, AllExited
<1>6. DrainInv'
  BY <1>0 DEF TypeOK, StopInv, DrainInv, DrainCounted
<1>7. TallyInv'
  BY <1>0 DEF TallyInv
<1>8. AbandonedWasTried'
  BY DEF IInv, AbandonedWasTried, Abandoned, Pending, Queued, HeldBy, Settled
<1> QED
  BY <1>1, <1>2, <1>3, <1>4, <1>5, <1>6, <1>7, <1>8 DEF IInv

\* The context is done; nothing moves.
LEMMA ParentCancelIInv ==
  ASSUME IInv, ParentCancel
  PROVE  IInv'
<1> USE DEF ParentCancel, queueVars, workerVars, stopVars, tallyVars
<1>0. TypeOK /\ QueueInv /\ WorkerInv /\ HeldInv /\ StopInv /\ DrainInv /\ TallyInv
  BY DEF IInv
<1>1. TypeOK'
  BY <1>0 DEF TypeOK
<1>2. QueueInv'
  BY <1>0 DEF QueueInv
<1>3. WorkerInv'
  BY <1>0 DEF WorkerInv
<1>4. HeldInv'
  BY <1>0 DEF HeldInv
<1>5. StopInv'
  BY <1>0 DEF TypeOK, StopInv, DrainCounted, AllExited
<1>6. DrainInv'
  BY <1>0 DEF TypeOK, StopInv, DrainInv, DrainCounted
<1>7. TallyInv'
  BY <1>0 DEF TallyInv
<1>8. AbandonedWasTried'
  BY DEF IInv, AbandonedWasTried, Abandoned, Pending, Queued, HeldBy, Settled
<1> QED
  BY <1>1, <1>2, <1>3, <1>4, <1>5, <1>6, <1>7, <1>8 DEF IInv

\* Stop cancels the context first: only then may it be past "running".
LEMMA StopCancelIInv ==
  ASSUME IInv, StopCancel
  PROVE  IInv'
<1> USE DEF StopCancel, queueVars, workerVars, tallyVars
<1>0. TypeOK /\ QueueInv /\ WorkerInv /\ HeldInv /\ StopInv /\ DrainInv /\ TallyInv
  BY DEF IInv
<1>1. TypeOK'
  BY <1>0 DEF TypeOK
<1>2. QueueInv'
  BY <1>0 DEF QueueInv
<1>3. WorkerInv'
  BY <1>0 DEF WorkerInv
<1>4. HeldInv'
  BY <1>0 DEF HeldInv
<1>5. StopInv'
  BY <1>0 DEF TypeOK, StopInv, DrainCounted, AllExited
<1>6. DrainInv'
  BY <1>0 DEF TypeOK, StopInv, DrainInv, DrainCounted
<1>7. TallyInv'
  BY <1>0 DEF TallyInv
<1>8. AbandonedWasTried'
  BY DEF IInv, AbandonedWasTried, Abandoned, Pending, Queued, HeldBy, Settled
<1> QED
  BY <1>1, <1>2, <1>3, <1>4, <1>5, <1>6, <1>7, <1>8 DEF IInv

\* The drain counts what the channel holds, and every worker has exited.
LEMMA StopWaitIInv ==
  ASSUME IInv, StopWait
  PROVE  IInv'
<1> USE DEF StopWait, queueVars, workerVars, tallyVars
<1>0. TypeOK /\ QueueInv /\ WorkerInv /\ HeldInv /\ StopInv /\ DrainInv /\ TallyInv
  BY DEF IInv
<1>1. TypeOK'
  BY <1>0 DEF TypeOK
<1>2. QueueInv'
  BY <1>0 DEF QueueInv
<1>3. WorkerInv'
  BY <1>0 DEF WorkerInv
<1>4. HeldInv'
  BY <1>0 DEF HeldInv
<1>5. StopInv'
  BY <1>0 DEF TypeOK, StopInv, DrainCounted, AllExited
<1>6. DrainInv'
  BY <1>0 DEF TypeOK, StopInv, DrainInv, DrainCounted
<1>7. TallyInv'
  BY <1>0 DEF TallyInv
<1>8. AbandonedWasTried'
  BY DEF IInv, AbandonedWasTried, Abandoned, Pending, Queued, HeldBy, Settled
<1> QED
  BY <1>1, <1>2, <1>3, <1>4, <1>5, <1>6, <1>7, <1>8 DEF IInv

\* The drain has received all that it counted: what is left came late.
LEMMA StopReturnIInv ==
  ASSUME IInv, StopReturn
  PROVE  IInv'
<1> USE DEF StopReturn, queueVars, workerVars, tallyVars
<1>0. TypeOK /\ QueueInv /\ WorkerInv /\ HeldInv /\ StopInv /\ DrainInv /\ TallyInv
  BY DEF IInv
<1>1. TypeOK'
  BY <1>0 DEF TypeOK
<1>2. QueueInv'
  BY <1>0 DEF QueueInv
<1>3. WorkerInv'
  BY <1>0 DEF WorkerInv
<1>4. HeldInv'
  BY <1>0 DEF HeldInv
<1>5. StopInv'
  BY <1>0 DEF TypeOK, StopInv, DrainCounted, AllExited
<1>6. DrainInv'
  BY <1>0 DEF TypeOK, StopInv, DrainInv, DrainCounted
<1>7. TallyInv'
  BY <1>0 DEF TallyInv
<1>8. AbandonedWasTried'
  BY DEF IInv, AbandonedWasTried, Abandoned, Pending, Queued, HeldBy, Settled
<1> QED
  BY <1>1, <1>2, <1>3, <1>4, <1>5, <1>6, <1>7, <1>8 DEF IInv

\* The drain drops an expired item: the channel and the count shrink together.
LEMMA DrainDropExpiredIInv ==
  ASSUME IInv, DrainDropExpired
  PROVE  IInv'
<1> USE DEF DrainDropExpired, DrainReceive, OnDrop, workerVars
<1>0. TypeOK /\ QueueInv /\ WorkerInv /\ HeldInv /\ StopInv /\ DrainInv /\ TallyInv
  BY DEF IInv
<1>r. /\ Len(items) \in Nat /\ Len(items) > 0
      /\ Head(items) = items[1] /\ Head(items) \in Items /\ Head(items) # NoItem
      /\ items' \in Seq(Items)
      /\ Len(items') = Len(items) - 1
      /\ \A k \in 1 .. Len(items) - 1 : items'[k] = items[k + 1]
      /\ \A k \in 1 .. Len(items') : items'[k] # Head(items)
      /\ \A i : Queued(i) => Queued(i)' \/ i = Head(items)
  BY <1>0, Receive
<1>h. /\ Head(items) \in offered
      /\ shipped[Head(items)] = 0 /\ dropped[Head(items)] = 0 /\ attempts[Head(items)] = 0
  BY <1>0, <1>r DEF QueueInv
<1>1. TypeOK'
  <2>1. Len(items') <= MaxQueueSize /\ drainLeft' \in 0 .. MaxQueueSize
    BY <1>0, <1>r, ConfigFacts DEF TypeOK
  <2>2. dropped' \in [Items -> Nat]
    BY <1>0, <1>r DEF TypeOK
  <2>3. UNCHANGED <<offered, late, stale, pc, held, attempt, live, cancelled, stop, shipped, attempts, drainItem>>
    OBVIOUS
  <2> HIDE DEF DrainDropExpired, DrainReceive, OnDrop, workerVars
  <2> QED
    BY <1>0, <1>r, <2>1, <2>2, <2>3 DEF TypeOK
<1>2. QueueInv'
  <2>1. \A k \in 1 .. Len(items') :
          k + 1 \in 1 .. Len(items) /\ items'[k] = items[k + 1] /\ items'[k] # Head(items)
    BY <1>r
  <2> QED
    BY <1>0, <1>r, <2>1 DEF TypeOK, QueueInv
<1>3. WorkerInv'
  BY <1>0 DEF WorkerInv
<1>4. HeldInv'
  <2>1. \A w \in Workers : held[w] = NoItem
    BY <1>0 DEF StopInv, WorkerInv, DrainCounted, AllExited
  <2> QED
    BY <2>1 DEF HeldInv
<1>5. StopInv'
  BY <1>0, <1>r, <1>h DEF TypeOK, StopInv, DrainCounted, AllExited
<1>6. DrainInv'
  <2>1. /\ drainLeft \in Nat /\ drainLeft > 0 /\ drainLeft <= Len(items)
        /\ drainLeft' = drainLeft - 1 /\ late' = late
        /\ stop = "draining" /\ stop' = "draining"
    BY <1>0 DEF TypeOK, DrainInv
  <2>2. items[1] \notin late /\ drainItem' \notin late
    BY <1>0, <1>r, <2>1 DEF DrainInv
  <2>3. ASSUME NEW k \in 1 .. Len(items') PROVE items'[k] \in late' <=> k > drainLeft'
    <3>1. k + 1 \in 1 .. Len(items) /\ items'[k] = items[k + 1]
      BY <1>r
    <3>2. items[k + 1] \in late <=> k + 1 > drainLeft
      BY <1>0, <2>1, <3>1 DEF DrainInv
    <3> QED
      BY <2>1, <3>1, <3>2
  <2> QED
    BY <1>r, <2>1, <2>2, <2>3 DEF DrainInv
<1>7. TallyInv'
  <2> SUFFICES ASSUME NEW i \in Items
      PROVE  /\ i \notin offered' => shipped'[i] = 0 /\ dropped'[i] = 0 /\ attempts'[i] = 0
             /\ shipped'[i] + dropped'[i] <= 1
             /\ attempts'[i] <= MaxRetries + 1
             /\ shipped'[i] > 0 => attempts'[i] >= 1
    BY DEF TallyInv
  <2>1. CASE i # Head(items)
    BY <1>0, <2>1 DEF TypeOK, TallyInv
  <2>2. CASE i = Head(items)
    BY <1>0, <1>h, <2>2, ConfigFacts DEF TypeOK
  <2> QED
    BY <2>1, <2>2
<1>8. AbandonedWasTried'
  <2> SUFFICES ASSUME NEW i \in Items, Abandoned(i)'
      PROVE  Abandoned(i) /\ i # Head(items)
    BY <1>0 DEF IInv, TypeOK, AbandonedWasTried
  <2>1. i # Head(items)
    BY <1>0, <1>r, <1>h DEF TypeOK, Abandoned, Pending, Settled
  <2> QED
    BY <1>0, <1>r, <2>1 DEF TypeOK, Abandoned, Pending, HeldBy, Settled
<1> QED
  BY <1>1, <1>2, <1>3, <1>4, <1>5, <1>6, <1>7, <1>8 DEF IInv

\* The drain dispatches an item for the first time: nobody else has it.
LEMMA DrainSendIInv ==
  ASSUME IInv, DrainSend
  PROVE  IInv'
<1> USE DEF DrainSend, DrainReceive, CountDispatch, NoCallback, workerVars
<1>0. TypeOK /\ QueueInv /\ WorkerInv /\ HeldInv /\ StopInv /\ DrainInv /\ TallyInv
  BY DEF IInv
<1>r. /\ Len(items) \in Nat /\ Len(items) > 0
      /\ Head(items) = items[1] /\ Head(items) \in Items /\ Head(items) # NoItem
      /\ items' \in Seq(Items)
      /\ Len(items') = Len(items) - 1
      /\ \A k \in 1 .. Len(items) - 1 : items'[k] = items[k + 1]
      /\ \A k \in 1 .. Len(items') : items'[k] # Head(items)
      /\ \A i : Queued(i) => Queued(i)' \/ i = Head(items)
  BY <1>0, Receive
<1>h. /\ Head(items) \in offered
      /\ shipped[Head(items)] = 0 /\ dropped[Head(items)] = 0 /\ attempts[Head(items)] = 0
  BY <1>0, <1>r DEF QueueInv
<1>1. TypeOK'
  <2>1. Len(items') <= MaxQueueSize /\ drainLeft' \in 0 .. MaxQueueSize
    BY <1>0, <1>r, ConfigFacts DEF TypeOK
  <2>2. drainItem' \in Items /\ attempts' \in [Items -> Nat]
    BY <1>0, <1>r DEF TypeOK
  <2>3. UNCHANGED <<offered, late, stale, pc, held, attempt, live, cancelled, stop, shipped, dropped>>
    OBVIOUS
  <2> HIDE DEF DrainSend, DrainReceive, CountDispatch, NoCallback, workerVars
  <2> QED
    BY <1>0, <1>r, <2>1, <2>2, <2>3 DEF TypeOK
<1>2. QueueInv'
  <2>1. \A k \in 1 .. Len(items') :
          k + 1 \in 1 .. Len(items) /\ items'[k] = items[k + 1] /\ items'[k] # Head(items)
    BY <1>r
  <2> QED
    BY <1>0, <1>r, <2>1 DEF TypeOK, QueueInv
<1>3. WorkerInv'
  BY <1>0 DEF WorkerInv
<1>4. HeldInv'
  <2>1. \A w \in Workers : held[w] = NoItem
    BY <1>0 DEF StopInv, WorkerInv, DrainCounted, AllExited
  <2> QED
    BY <2>1 DEF HeldInv
<1>5. StopInv'
  BY <1>0, <1>r, <1>h DEF TypeOK, StopInv, DrainCounted, AllExited
<1>6. DrainInv'
  <2>1. /\ drainLeft \in Nat /\ drainLeft > 0 /\ drainLeft <= Len(items)
        /\ drainLeft' = drainLeft - 1 /\ late' = late
        /\ stop = "draining" /\ stop' = "draining"
    BY <1>0 DEF TypeOK, DrainInv
  <2>2. items[1] \notin late /\ drainItem' \notin late
    BY <1>0, <1>r, <2>1 DEF DrainInv
  <2>3. ASSUME NEW k \in 1 .. Len(items') PROVE items'[k] \in late' <=> k > drainLeft'
    <3>1. k + 1 \in 1 .. Len(items) /\ items'[k] = items[k + 1]
      BY <1>r
    <3>2. items[k + 1] \in late <=> k + 1 > drainLeft
      BY <1>0, <2>1, <3>1 DEF DrainInv
    <3> QED
      BY <2>1, <3>1, <3>2
  <2> QED
    BY <1>r, <2>1, <2>2, <2>3 DEF DrainInv
<1>7. TallyInv'
  <2> SUFFICES ASSUME NEW i \in Items
      PROVE  /\ i \notin offered' => shipped'[i] = 0 /\ dropped'[i] = 0 /\ attempts'[i] = 0
             /\ shipped'[i] + dropped'[i] <= 1
             /\ attempts'[i] <= MaxRetries + 1
             /\ shipped'[i] > 0 => attempts'[i] >= 1
    BY DEF TallyInv
  <2>1. CASE i # Head(items)
    BY <1>0, <2>1 DEF TypeOK, TallyInv
  <2>2. CASE i = Head(items)
    BY <1>0, <1>h, <2>2, ConfigFacts DEF TypeOK
  <2> QED
    BY <2>1, <2>2
<1>8. AbandonedWasTried'
  <2> SUFFICES ASSUME NEW i \in Items, Abandoned(i)'
      PROVE  Abandoned(i) /\ i # Head(items)
    BY <1>0 DEF IInv, TypeOK, AbandonedWasTried
  <2>1. i # Head(items)
    BY <1>0, <1>r, <1>h DEF TypeOK, Abandoned, Pending, Settled
  <2> QED
    BY <1>0, <1>r, <2>1 DEF TypeOK, Abandoned, Pending, HeldBy, Settled, Items, NoItem
<1> QED
  BY <1>1, <1>2, <1>3, <1>4, <1>5, <1>6, <1>7, <1>8 DEF IInv

\* The drain settles its item, and lets go of it in the same step.
LEMMA DrainResultIInv ==
  ASSUME IInv, DrainResult
  PROVE  IInv'
<1> USE DEF DrainResult, OnSuccess, OnDrop, queueVars, workerVars
<1>0. TypeOK /\ QueueInv /\ WorkerInv /\ HeldInv /\ StopInv /\ DrainInv /\ TallyInv
  BY DEF IInv
<1>h. /\ drainItem \in Items /\ drainItem \in offered
      /\ shipped[drainItem] = 0 /\ dropped[drainItem] = 0 /\ attempts[drainItem] = 1
      /\ \A k \in 1 .. Len(items) : items[k] # drainItem
  BY <1>0 DEF TypeOK, StopInv
<1>1. TypeOK'
  <2>1. shipped' \in [Items -> Nat] /\ dropped' \in [Items -> Nat]
    <3>1. CASE OnSuccess(drainItem)
      BY <1>0, <1>h, <3>1 DEF TypeOK
    <3>2. CASE OnDrop(drainItem)
      BY <1>0, <1>h, <3>2 DEF TypeOK
    <3> QED
      BY <3>1, <3>2
  <2> QED
    BY <1>0, <2>1 DEF TypeOK
<1>2. QueueInv'
  BY <1>0, <1>h DEF TypeOK, QueueInv
<1>3. WorkerInv'
  BY <1>0 DEF WorkerInv
<1>4. HeldInv'
  <2>1. \A w \in Workers : held[w] = NoItem
    BY <1>0 DEF StopInv, WorkerInv, DrainCounted, AllExited
  <2> QED
    BY <2>1 DEF HeldInv
<1>5. StopInv'
  BY <1>0 DEF StopInv, DrainCounted, AllExited
<1>6. DrainInv'
  BY <1>0 DEF TypeOK, DrainInv, Items, NoItem
<1>7. TallyInv'
  <2> SUFFICES ASSUME NEW i \in Items
      PROVE  /\ i \notin offered' => shipped'[i] = 0 /\ dropped'[i] = 0 /\ attempts'[i] = 0
             /\ shipped'[i] + dropped'[i] <= 1
             /\ attempts'[i] <= MaxRetries + 1
             /\ shipped'[i] > 0 => attempts'[i] >= 1
    BY DEF TallyInv
  <2>1. CASE i # drainItem
    BY <1>0, <2>1 DEF TypeOK, TallyInv
  <2>2. CASE i = drainItem
    BY <1>0, <1>h, <2>2, ConfigFacts DEF TypeOK
  <2> QED
    BY <2>1, <2>2
<1>8. AbandonedWasTried'
  <2> SUFFICES ASSUME NEW i \in Items, Abandoned(i)'
      PROVE  Abandoned(i)
    BY DEF IInv, AbandonedWasTried
  <2>1. i # drainItem
    BY <1>0, <1>h DEF TypeOK, Abandoned, Settled
  <2> QED
    BY <1>0, <2>1 DEF TypeOK, Abandoned, Pending, Queued, HeldBy, Settled
<1> QED
  BY <1>1, <1>2, <1>3, <1>4, <1>5, <1>6, <1>7, <1>8 DEF IInv

-----------------------------------------------------------------------------
(* Safety of the specification.                                            *)

\* A step that changes nothing keeps the invariant.
LEMMA StutterIInv ==
  ASSUME IInv, UNCHANGED vars
  PROVE  IInv'
  BY DEF IInv, vars, queueVars, workerVars, stopVars, tallyVars, TypeOK, QueueInv,
     WorkerInv, HeldInv, StopInv, DrainInv, TallyInv, AbandonedWasTried, Abandoned,
     Pending, Queued, HeldBy, Settled, DrainCounted, AllExited

\* Every step preserves the invariant.
LEMMA NextIInv ==
  ASSUME IInv, [Next]_vars
  PROVE  IInv'
<1>1. CASE Offer
  BY <1>1, AcceptIInv, RejectIInv DEF Offer, Enqueue
<1>2. CASE Tick
  BY <1>2, TickIInv
<1>3. CASE ParentCancel
  BY <1>3, ParentCancelIInv
<1>4. ASSUME NEW w \in Workers, WorkerStep(w) PROVE IInv'
  BY <1>4, TakeIInv, ExitIInv, DropExpiredIInv, SendIInv, SendOkIInv, SendFailIInv,
     DropExhaustedIInv, BackoffElapsedIInv, BackoffCancelledIInv DEF WorkerStep
<1>5. CASE StopCancel
  BY <1>5, StopCancelIInv
<1>6. CASE StopStep
  BY <1>6, StopWaitIInv, DrainDropExpiredIInv, DrainSendIInv, DrainResultIInv,
     StopReturnIInv DEF StopStep
<1>7. CASE UNCHANGED vars
  BY <1>7, StutterIInv
<1> QED
  BY <1>1, <1>2, <1>3, <1>4, <1>5, <1>6, <1>7 DEF Next

\* The inductive invariant holds in every reachable state.
THEOREM Inductive == Spec => []IInv
  BY InitIInv, NextIInv, PTL DEF Spec

\* Every variable keeps its type.
THEOREM TypeCorrect == Spec => []TypeOK
<1>1. IInv => TypeOK
  BY DEF IInv
<1> QED
  BY <1>1, Inductive, PTL

\* An item is in one place at most.
THEOREM OnePlaceHolds == Spec => []OnePlace
<1>1. ASSUME IInv PROVE OnePlace
  <2>0. TypeOK /\ QueueInv /\ WorkerInv /\ HeldInv /\ StopInv
    BY <1>1 DEF IInv
  <2>1. DOMAIN items = 1 .. Len(items) /\ Len(items) \in Nat /\ \A k \in 1 .. Len(items) : items[k] \in Items
    BY <2>0 DEF TypeOK
  <2>2. \A j, k \in DOMAIN items : items[j] = items[k] => j = k
    BY <2>0, <2>1 DEF QueueInv, Items
  <2>3. \A w \in Workers, k \in DOMAIN items : held[w] # items[k]
    BY <2>0, <2>1 DEF TypeOK, HeldInv, Items, NoItem
  <2>4. drainItem # NoItem => ~Queued(drainItem) /\ \A w \in Workers : held[w] # drainItem
    BY <2>0, <2>1 DEF StopInv, WorkerInv, DrainCounted, AllExited, Queued
  <2> QED
    BY <2>0, <2>2, <2>3, <2>4 DEF OnePlace, HeldInv
<1> QED
  BY <1>1, Inductive, PTL

\* No item is settled twice, or while it is pending.
THEOREM SettledOnceHolds == Spec => []SettledOnce
<1>1. ASSUME IInv PROVE SettledOnce
  <2>0. TypeOK /\ QueueInv /\ HeldInv /\ StopInv /\ TallyInv
    BY <1>1 DEF IInv
  <2>1. DOMAIN items = 1 .. Len(items)
    BY <2>0 DEF TypeOK
  <2> QED
    BY <2>0, <2>1 DEF SettledOnce, Settled, Pending, Queued, HeldBy, QueueInv, HeldInv, StopInv,
       TallyInv, Items, NoItem
<1> QED
  BY <1>1, Inductive, PTL

\* Nothing is dropped at the start.
LEMMA InitDue == Init => DroppedWhenDue
  BY DEF Init, DroppedWhenDue

\* What has been dropped once stays due: an item that is dispatched again has not been
\* dropped, and what has expired, or the drain has counted, remains so.
LEMMA DueStays ==
  ASSUME TypeOK, DroppedWhenDue, UNCHANGED dropped, stale' \in Int, stale' >= stale,
         DrainCounted => DrainCounted',
         NEW d, attempts' = attempts \/ (d \in Items /\ dropped[d] = 0 /\ CountDispatch(d))
  PROVE  DroppedWhenDue'
<1> SUFFICES ASSUME NEW i \in Items, dropped'[i] > 0, ~Expired(i)'
             PROVE  attempts'[i] \in {0, MaxRetries + 1} \/ (DrainCounted' /\ attempts'[i] = 1)
  BY DEF DroppedWhenDue
<1>1. dropped[i] > 0 /\ ~Expired(i)
  BY DEF TypeOK, Expired, Items
<1>2. attempts'[i] = attempts[i]
  BY <1>1 DEF TypeOK, CountDispatch
<1> QED
  BY <1>1, <1>2 DEF DroppedWhenDue

\* A drop of item d keeps all due if d is.
LEMMA DropIsDue ==
  ASSUME TypeOK, DroppedWhenDue, NEW d \in Items, OnDrop(d), UNCHANGED <<stale, attempts>>,
         DrainCounted => DrainCounted',
         \/ Expired(d)
         \/ attempts[d] \in {0, MaxRetries + 1}
         \/ DrainCounted /\ attempts[d] = 1
  PROVE  DroppedWhenDue'
<1> SUFFICES ASSUME NEW i \in Items, dropped'[i] > 0, ~Expired(i)'
             PROVE  attempts'[i] \in {0, MaxRetries + 1} \/ (DrainCounted' /\ attempts'[i] = 1)
  BY DEF DroppedWhenDue
<1>1. CASE i = d
  BY <1>1 DEF Expired
<1>2. CASE i # d
  BY <1>2 DEF TypeOK, OnDrop, Expired, DroppedWhenDue
<1> QED
  BY <1>1, <1>2

\* A step of a worker drops only what has expired or has used up its tries.
LEMMA WorkerDue ==
  ASSUME IInv, DroppedWhenDue, NEW w \in Workers, WorkerStep(w)
  PROVE  DroppedWhenDue'
<1>0. TypeOK /\ WorkerInv /\ HeldInv /\ (DrainCounted => DrainCounted') /\ UNCHANGED stale /\ stale \in Int
  BY DEF IInv, WorkerStep, Take, Exit, DropExpired, Send, SendOk, SendFail, DropExhausted, BackoffElapsed,
     BackoffCancelled, stopVars, DrainCounted, TypeOK
<1>1. CASE Take(w) \/ Exit(w) \/ SendFail(w) \/ BackoffElapsed(w) \/ BackoffCancelled(w) \/ SendOk(w)
  <2>1. UNCHANGED <<dropped, attempts>>
    BY <1>1 DEF Take, Exit, SendFail, BackoffElapsed, BackoffCancelled, SendOk, OnSuccess, tallyVars
  <2> QED
    BY <1>0, <2>1, DueStays
<1>2. CASE DropExpired(w)
  <2>1. held[w] \in Items /\ Expired(held[w]) /\ OnDrop(held[w]) /\ UNCHANGED attempts
    BY <1>0, <1>2 DEF DropExpired, WorkerInv, TypeOK
  <2> QED
    BY <1>0, <2>1, DropIsDue
<1>3. CASE Send(w)
  <2>1. held[w] \in Items /\ dropped[held[w]] = 0 /\ CountDispatch(held[w]) /\ UNCHANGED dropped
    BY <1>0, <1>3 DEF Send, WorkerInv, HeldInv, TypeOK, NoCallback
  <2> QED
    BY <1>0, <2>1, DueStays
<1>4. CASE DropExhausted(w)
  <2>1. held[w] \in Items /\ held[w] # NoItem /\ pc[w] = "sending" /\ ~CanRetry(w)
        /\ OnDrop(held[w]) /\ UNCHANGED attempts
    BY <1>0, <1>4 DEF DropExhausted, WorkerInv, TypeOK
  <2>2. attempt[w] = MaxRetries /\ attempts[held[w]] = attempt[w] + 1
    BY <1>0, <2>1, ConfigFacts DEF CanRetry, HeldInv, TypeOK
  <2> QED
    BY <1>0, <2>1, <2>2, DropIsDue
<1> QED
  BY <1>1, <1>2, <1>3, <1>4 DEF WorkerStep

\* The drain drops what has expired, or what it has tried once.
LEMMA StopDue ==
  ASSUME IInv, DroppedWhenDue, StopStep
  PROVE  DroppedWhenDue'
<1>0. TypeOK /\ QueueInv /\ StopInv /\ (DrainCounted => DrainCounted') /\ UNCHANGED stale /\ stale \in Int
  BY DEF IInv, StopStep, StopWait, DrainDropExpired, DrainSend, DrainReceive, DrainResult, StopReturn,
     DrainCounted, TypeOK
<1>1. CASE StopWait \/ StopReturn
  <2>1. UNCHANGED <<dropped, attempts>>
    BY <1>1 DEF StopWait, StopReturn, tallyVars
  <2> QED
    BY <1>0, <2>1, DueStays
<1>2. CASE DrainDropExpired
  <2>1. Head(items) \in Items
    BY <1>0, <1>2, Receive DEF DrainDropExpired, DrainReceive
  <2> QED
    BY <1>0, <1>2, <2>1, DropIsDue DEF DrainDropExpired
<1>3. CASE DrainSend
  <2>1. Head(items) \in Items /\ Head(items) = items[1] /\ Len(items) > 0 /\ Len(items) \in Nat
    BY <1>0, <1>3, Receive DEF DrainSend, DrainReceive
  <2>2. dropped[Head(items)] = 0 /\ CountDispatch(Head(items)) /\ UNCHANGED dropped
    BY <1>0, <1>3, <2>1 DEF DrainSend, QueueInv, NoCallback
  <2> QED
    BY <1>0, <2>1, <2>2, DueStays
<1>4. CASE DrainResult
  <2>1. drainItem \in Items /\ DrainCounted /\ attempts[drainItem] = 1 /\ UNCHANGED attempts
    BY <1>0, <1>4 DEF DrainResult, StopInv, DrainCounted, TypeOK
  <2>2. CASE OnDrop(drainItem)
    BY <1>0, <2>1, <2>2, DropIsDue
  <2>3. CASE OnSuccess(drainItem)
    BY <1>0, <2>1, <2>3, DueStays DEF OnSuccess
  <2> QED
    BY <1>4, <2>2, <2>3 DEF DrainResult
<1> QED
  BY <1>1, <1>2, <1>3, <1>4 DEF StopStep

\* Every step keeps all drops due.
LEMMA NextDue ==
  ASSUME IInv, DroppedWhenDue, [Next]_vars
  PROVE  DroppedWhenDue'
<1>0. TypeOK /\ TallyInv /\ stale \in Int
  BY DEF IInv, TypeOK
<1>1. ASSUME NEW i \in Items, Accept(i) PROVE DroppedWhenDue'
  BY <1>0, <1>1, DueStays DEF Accept, Handed, NoCallback, stopVars, DrainCounted
<1>2. ASSUME NEW i \in Items, Reject(i) PROVE DroppedWhenDue'
  <2>1. OnDrop(i) /\ UNCHANGED <<stale, attempts>> /\ (DrainCounted => DrainCounted')
    BY <1>2 DEF Reject, Handed, stopVars, DrainCounted
  <2>2. attempts[i] = 0
    BY <1>0, <1>2 DEF Reject, Handed, TallyInv, Items
  <2> QED
    BY <1>0, <2>1, <2>2, DropIsDue
<1>3. CASE Tick
  <2>1. PICK i \in offered : i > stale /\ stale' = i
    BY <1>3 DEF Tick
  <2>2. stale' \in Int /\ stale' >= stale
    BY <1>0, <2>1 DEF TypeOK, Items
  <2> QED
    BY <1>0, <1>3, <2>2, DueStays DEF Tick, tallyVars, stopVars, DrainCounted
<1>4. CASE ParentCancel
  BY <1>0, <1>4, DueStays DEF ParentCancel, tallyVars, stopVars, DrainCounted
<1>5. CASE StopCancel
  BY <1>0, <1>5, DueStays DEF StopCancel, tallyVars, DrainCounted
<1>6. CASE UNCHANGED vars
  BY <1>0, <1>6, DueStays DEF vars, tallyVars, stopVars, DrainCounted
<1> QED
  BY <1>1, <1>2, <1>3, <1>4, <1>5, <1>6, WorkerDue, StopDue DEF Next, Offer, Enqueue

\* No item is dispatched more often than the retries allow, nor, while its TTL lasts, given
\* up by a worker with tries left: the limit is met exactly.
THEOREM AttemptsBoundedHolds == Spec => []AttemptsBounded
<1>1. IInv /\ DroppedWhenDue => AttemptsBounded
  BY DEF IInv, AttemptsBounded, TallyInv, StopInv
<1>2. Spec => []DroppedWhenDue
  BY InitDue, NextDue, Inductive, PTL DEF Spec
<1> QED
  BY <1>1, <1>2, Inductive, PTL

\* Only an item that was tried, under a context that is done, is abandoned.
THEOREM AbandonedWasTriedHolds == Spec => []AbandonedWasTried
<1>1. IInv => AbandonedWasTried
  BY DEF IInv
<1> QED
  BY <1>1, Inductive, PTL

\* When Stop returns, every item is accounted for.
THEOREM StopAccountsHolds == Spec => []StopAccounts
<1>1. ASSUME IInv, stop = "stopped" PROVE AllExited /\ \A i \in offered : Settled(i) \/ attempts[i] >= 1 \/ i \in late
  <2>0. TypeOK /\ WorkerInv /\ StopInv /\ DrainInv /\ AbandonedWasTried
    BY <1>1 DEF IInv
  <2>1. AllExited
    BY <1>1, <2>0 DEF StopInv, DrainCounted
  <2>2. ASSUME NEW i \in offered, ~Settled(i), i \notin late PROVE attempts[i] >= 1
    <3>1. i \in Items /\ i # NoItem
      BY <2>0 DEF TypeOK, Items, NoItem
    <3>2. ~Queued(i)
      BY <1>1, <2>0, <2>2 DEF TypeOK, DrainInv, Queued
    <3>3. \A w \in Workers : ~HeldBy(w, i)
      BY <2>0, <2>1, <3>1 DEF WorkerInv, AllExited, HeldBy
    <3>4. drainItem # i
      BY <1>1, <2>0, <3>1 DEF StopInv
    <3> QED
      BY <2>0, <2>2, <3>1, <3>2, <3>3, <3>4 DEF AbandonedWasTried, Abandoned, Pending
  <2> QED
    BY <2>1, <2>2
<1>2. IInv => StopAccounts
  BY <1>1 DEF StopAccounts
<1> QED
  BY <1>2, Inductive, PTL

\* The drain never finds the channel empty.
THEOREM DrainNeverDryHolds == Spec => []DrainNeverDry
<1>1. IInv => DrainNeverDry
  BY DEF IInv, DrainNeverDry, DrainInv, TypeOK
<1> QED
  BY <1>1, Inductive, PTL

-----------------------------------------------------------------------------
(* The dispatcher implements the outbox.                                   *)

\* The dispatcher starts where the outbox starts: every item is new.
LEMMA InitBox == Init => Box!Init
<1> SUFFICES ASSUME Init PROVE Box!Init
  OBVIOUS
<1>1. \A i \in Items : StatusOf(i) = "new"
  BY DEF Init, StatusOf
<1> QED
  BY <1>1 DEF Init, Box!Init, StatusMap

\* A step that changes no status is a stutter of the outbox.
LEMMA Stutter ==
  ASSUME \A j \in Items : StatusOf(j)' = StatusOf(j), cancelled' = cancelled
  PROVE  UNCHANGED Box!vars
  BY DEF Box!vars, StatusMap

\* A step that changes one status is a move of the outbox.
LEMMA Moved ==
  ASSUME NEW i \in Items, NEW from, NEW to,
         StatusOf(i) = from, StatusOf(i)' = to,
         \A j \in Items : j # i => StatusOf(j)' = StatusOf(j),
         cancelled' = cancelled
  PROVE  Box!Move(i, from, to)
<1>1. StatusMap' = [StatusMap EXCEPT ![i] = to]
  BY DEF StatusMap
<1> QED
  BY <1>1 DEF Box!Move, StatusMap

\* A status depends on these facts about an item, and on nothing else.
LEMMA SameFacts ==
  ASSUME NEW j, j \in offered' <=> j \in offered,
         shipped'[j] = shipped[j], dropped'[j] = dropped[j],
         Pending(j)' <=> Pending(j)
  PROVE  StatusOf(j)' = StatusOf(j)
  BY DEF StatusOf

\* From the channel to a worker: the item stays pending.
LEMMA TakeBox ==
  ASSUME IInv, NEW w \in Workers, Take(w)
  PROVE  UNCHANGED Box!vars
<1>0. TypeOK /\ QueueInv /\ WorkerInv
  BY DEF IInv
<1>1. /\ \A i : Queued(i) => Queued(i)' \/ i = Head(items)
      /\ \A i : Queued(i)' => Queued(i)
      /\ Queued(Head(items))
  BY <1>0, Receive DEF Take
<1>2. ASSUME NEW j \in Items PROVE Pending(j)' <=> Pending(j)
  <2>1. \A v \in Workers : held'[v] = IF v = w THEN Head(items) ELSE held[v]
    BY <1>0 DEF Take, TypeOK
  <2>2. held[w] # j
    BY <1>0 DEF Take, TypeOK, WorkerInv, Items, NoItem
  <2> QED
    BY <1>1, <2>1, <2>2 DEF Take, stopVars, Pending, HeldBy
<1> QED
  BY <1>2, SameFacts, Stutter DEF Take, tallyVars, stopVars

\* A worker that exits changes no status.
LEMMA ExitBox ==
  ASSUME IInv, NEW w \in Workers, Exit(w)
  PROVE  UNCHANGED Box!vars
<1>1. \A j \in Items : Pending(j)' <=> Pending(j)
  BY DEF Exit, queueVars, tallyVars, stopVars, Pending, Queued, HeldBy
<1> QED
  BY <1>1, SameFacts, Stutter DEF Exit, queueVars, tallyVars, stopVars

\* A dispatch that begins changes no status.
LEMMA SendBox ==
  ASSUME IInv, NEW w \in Workers, Send(w)
  PROVE  UNCHANGED Box!vars
<1>1. \A j \in Items : Pending(j)' <=> Pending(j)
  BY DEF Send, NoCallback, queueVars, stopVars, Pending, Queued, HeldBy
<1> QED
  BY <1>1, SameFacts, Stutter DEF Send, NoCallback, queueVars, stopVars

\* A dispatch that fails, with a retry left, changes no status.
LEMMA SendFailBox ==
  ASSUME IInv, NEW w \in Workers, SendFail(w)
  PROVE  UNCHANGED Box!vars
<1>1. \A j \in Items : Pending(j)' <=> Pending(j)
  BY DEF SendFail, queueVars, tallyVars, stopVars, Pending, Queued, HeldBy
<1> QED
  BY <1>1, SameFacts, Stutter DEF SendFail, queueVars, tallyVars, stopVars

\* A backoff that ends changes no status.
LEMMA BackoffElapsedBox ==
  ASSUME IInv, NEW w \in Workers, BackoffElapsed(w)
  PROVE  UNCHANGED Box!vars
<1>1. \A j \in Items : Pending(j)' <=> Pending(j)
  BY DEF BackoffElapsed, queueVars, tallyVars, stopVars, Pending, Queued, HeldBy
<1> QED
  BY <1>1, SameFacts, Stutter DEF BackoffElapsed, queueVars, tallyVars, stopVars

\* The item that processItem lets go of is pending no longer; the others keep
\* their place.
LEMMA ReleasedOnly ==
  ASSUME IInv, NEW w \in Workers, pc[w] \notin {"select", "exited"}, Return(w),
         UNCHANGED <<items, drainItem>>, NEW i, i = held[w]
  PROVE  /\ i \in Items /\ i \in offered
         /\ shipped[i] = 0 /\ dropped[i] = 0
         /\ StatusOf(i) = "pending"
         /\ ~Pending(i)'
         /\ \A j \in Items : j # i => (Pending(j)' <=> Pending(j))
<1>0. TypeOK /\ WorkerInv /\ HeldInv /\ StopInv
  BY DEF IInv
<1>1. /\ i \in Items /\ i # NoItem /\ i \in offered
      /\ shipped[i] = 0 /\ dropped[i] = 0
      /\ \A k \in 1 .. Len(items) : items[k] # i
  BY <1>0 DEF TypeOK, WorkerInv, HeldInv
<1>2. StatusOf(i) = "pending"
  BY <1>1 DEF StatusOf, Pending, HeldBy
<1>3. \A v \in Workers : held'[v] = IF v = w THEN NoItem ELSE held[v]
  BY <1>0 DEF TypeOK, Return
<1>4. \A j \in Items : j # i => (Pending(j)' <=> Pending(j))
  BY <1>3 DEF Pending, Queued, HeldBy, Items, NoItem
<1>5. drainItem # i
  BY <1>0, <1>1 DEF StopInv, WorkerInv, DrainCounted, AllExited
<1>6. ~Queued(i)
  <2>1. DOMAIN items = 1 .. Len(items)
    BY <1>0 DEF TypeOK
  <2> QED
    BY <1>1, <2>1 DEF Queued
<1>7. \A v \in Workers : held'[v] # i
  BY <1>0, <1>1, <1>3 DEF HeldInv
<1> QED
  BY <1>1, <1>2, <1>4, <1>5, <1>6, <1>7 DEF Pending, Queued, HeldBy

\* An expired item is dropped.
LEMMA DropExpiredBox ==
  ASSUME IInv, NEW w \in Workers, DropExpired(w)
  PROVE  \E i \in Items : Box!Drop(i)
<1>0. TypeOK
  BY DEF IInv
<1>1. PICK i \in Items : i = held[w]
  BY ReleasedOnly DEF DropExpired, stopVars, queueVars
<1>2. /\ i \in offered
      /\ shipped[i] = 0 /\ dropped[i] = 0
      /\ StatusOf(i) = "pending"
      /\ ~Pending(i)'
      /\ \A j \in Items : j # i => (Pending(j)' <=> Pending(j))
  BY <1>1, ReleasedOnly DEF DropExpired, stopVars, queueVars
<1>3. StatusOf(i)' = "dropped"
  BY <1>0, <1>1, <1>2 DEF TypeOK, DropExpired, OnDrop, queueVars, StatusOf
<1>4. \A j \in Items : j # i => StatusOf(j)' = StatusOf(j)
  BY <1>0, <1>1, <1>2, SameFacts DEF TypeOK, DropExpired, OnDrop, queueVars
<1>5. Box!Move(i, "pending", "dropped")
  BY <1>2, <1>3, <1>4, Moved DEF DropExpired
<1> QED
  BY <1>5 DEF Box!Drop

\* A dispatched item is shipped.
LEMMA SendOkBox ==
  ASSUME IInv, NEW w \in Workers, SendOk(w)
  PROVE  \E i \in Items : Box!Ship(i)
<1>0. TypeOK
  BY DEF IInv
<1>1. PICK i \in Items : i = held[w]
  BY ReleasedOnly DEF SendOk, stopVars, queueVars
<1>2. /\ i \in offered
      /\ shipped[i] = 0 /\ dropped[i] = 0
      /\ StatusOf(i) = "pending"
      /\ ~Pending(i)'
      /\ \A j \in Items : j # i => (Pending(j)' <=> Pending(j))
  BY <1>1, ReleasedOnly DEF SendOk, stopVars, queueVars
<1>3. StatusOf(i)' = "shipped"
  BY <1>0, <1>1, <1>2 DEF TypeOK, SendOk, OnSuccess, queueVars, StatusOf
<1>4. \A j \in Items : j # i => StatusOf(j)' = StatusOf(j)
  BY <1>0, <1>1, <1>2, SameFacts DEF TypeOK, SendOk, OnSuccess, queueVars
<1>5. Box!Move(i, "pending", "shipped")
  BY <1>2, <1>3, <1>4, Moved DEF SendOk
<1> QED
  BY <1>5 DEF Box!Ship

\* An item without retries left is dropped.
LEMMA DropExhaustedBox ==
  ASSUME IInv, NEW w \in Workers, DropExhausted(w)
  PROVE  \E i \in Items : Box!Drop(i)
<1>0. TypeOK
  BY DEF IInv
<1>1. PICK i \in Items : i = held[w]
  BY ReleasedOnly DEF DropExhausted, stopVars, queueVars
<1>2. /\ i \in offered
      /\ shipped[i] = 0 /\ dropped[i] = 0
      /\ StatusOf(i) = "pending"
      /\ ~Pending(i)'
      /\ \A j \in Items : j # i => (Pending(j)' <=> Pending(j))
  BY <1>1, ReleasedOnly DEF DropExhausted, stopVars, queueVars
<1>3. StatusOf(i)' = "dropped"
  BY <1>0, <1>1, <1>2 DEF TypeOK, DropExhausted, OnDrop, queueVars, StatusOf
<1>4. \A j \in Items : j # i => StatusOf(j)' = StatusOf(j)
  BY <1>0, <1>1, <1>2, SameFacts DEF TypeOK, DropExhausted, OnDrop, queueVars
<1>5. Box!Move(i, "pending", "dropped")
  BY <1>2, <1>3, <1>4, Moved DEF DropExhausted
<1> QED
  BY <1>5 DEF Box!Drop

\* A cancelled backoff abandons its item; the outbox allows it, as it is closing.
LEMMA BackoffCancelledBox ==
  ASSUME IInv, NEW w \in Workers, BackoffCancelled(w)
  PROVE  \E i \in Items : Box!Abandon(i)
<1>0. TypeOK
  BY DEF IInv
<1>1. PICK i \in Items : i = held[w]
  BY ReleasedOnly DEF BackoffCancelled, stopVars, queueVars
<1>2. /\ i \in offered
      /\ shipped[i] = 0 /\ dropped[i] = 0
      /\ StatusOf(i) = "pending"
      /\ ~Pending(i)'
      /\ \A j \in Items : j # i => (Pending(j)' <=> Pending(j))
  BY <1>1, ReleasedOnly DEF BackoffCancelled, stopVars, queueVars
<1>3. StatusOf(i)' = "abandoned"
  BY <1>0, <1>1, <1>2 DEF TypeOK, BackoffCancelled, tallyVars, queueVars, StatusOf
<1>4. \A j \in Items : j # i => StatusOf(j)' = StatusOf(j)
  BY <1>0, <1>1, <1>2, SameFacts DEF TypeOK, BackoffCancelled, tallyVars, queueVars
<1>5. Box!Move(i, "pending", "abandoned")
  BY <1>2, <1>3, <1>4, Moved DEF BackoffCancelled
<1> QED
  BY <1>5 DEF Box!Abandon, BackoffCancelled

\* A send to the channel accepts the item.
LEMMA AcceptBox ==
  ASSUME IInv, NEW i \in Items, Accept(i)
  PROVE  Box!Accept(i)
<1>0. TypeOK /\ TallyInv
  BY DEF IInv
<1>1. i \notin offered /\ shipped[i] = 0 /\ dropped[i] = 0
  BY <1>0 DEF Accept, Handed, TypeOK, Items, TallyInv
<1>2. \A j : Queued(j)' <=> (Queued(j) \/ j = i)
  BY <1>0, Sent DEF Accept
<1>3. StatusOf(i) = "new" /\ StatusOf(i)' = "pending"
  BY <1>1, <1>2 DEF Accept, Handed, NoCallback, StatusOf, Pending
<1>4. ASSUME NEW j \in Items, j # i PROVE StatusOf(j)' = StatusOf(j)
  <2>1. Pending(j)' <=> Pending(j)
    BY <1>2, <1>4 DEF Accept, Handed, workerVars, stopVars, Pending, HeldBy
  <2> QED
    BY <1>4, <2>1, SameFacts DEF Accept, Handed, NoCallback
<1>5. Box!Move(i, "new", "pending")
  BY <1>3, <1>4, Moved DEF Accept, Handed
<1> QED
  BY <1>5 DEF Box!Accept

\* A full channel rejects the item.
LEMMA RejectBox ==
  ASSUME IInv, NEW i \in Items, Reject(i)
  PROVE  Box!Reject(i)
<1>0. TypeOK /\ TallyInv
  BY DEF IInv
<1>1. i \notin offered /\ shipped[i] = 0 /\ dropped[i] = 0
  BY <1>0 DEF Reject, Handed, TypeOK, Items, TallyInv
<1>2. StatusOf(i) = "new" /\ StatusOf(i)' = "dropped"
  BY <1>0, <1>1 DEF TypeOK, Reject, Handed, OnDrop, StatusOf
<1>3. ASSUME NEW j \in Items, j # i PROVE StatusOf(j)' = StatusOf(j)
  <2>1. Pending(j)' <=> Pending(j)
    BY DEF Reject, Handed, workerVars, stopVars, Pending, Queued, HeldBy
  <2> QED
    BY <1>0, <1>3, <2>1, SameFacts DEF TypeOK, Reject, Handed, OnDrop
<1>4. Box!Move(i, "new", "dropped")
  BY <1>2, <1>3, Moved DEF Reject, Handed
<1> QED
  BY <1>4 DEF Box!Reject

\* Time passes; no status changes.
LEMMA TickBox ==
  ASSUME Tick
  PROVE  UNCHANGED Box!vars
<1>1. \A j \in Items : Pending(j)' <=> Pending(j)
  BY DEF Tick, queueVars, workerVars, stopVars, tallyVars, Pending, Queued, HeldBy
<1> QED
  BY <1>1, SameFacts, Stutter DEF Tick, queueVars, workerVars, stopVars, tallyVars

\* The drain counts; no status changes.
LEMMA StopWaitBox ==
  ASSUME StopWait
  PROVE  UNCHANGED Box!vars
<1>1. \A j \in Items : Pending(j)' <=> Pending(j)
  BY DEF StopWait, queueVars, workerVars, tallyVars, Pending, Queued, HeldBy
<1> QED
  BY <1>1, SameFacts, Stutter DEF StopWait, queueVars, workerVars, tallyVars

\* Stop returns; no status changes.
LEMMA StopReturnBox ==
  ASSUME StopReturn
  PROVE  UNCHANGED Box!vars
<1>1. \A j \in Items : Pending(j)' <=> Pending(j)
  BY DEF StopReturn, queueVars, workerVars, tallyVars, Pending, Queued, HeldBy
<1> QED
  BY <1>1, SameFacts, Stutter DEF StopReturn, queueVars, workerVars, tallyVars

\* The caller cancels: the outbox begins to close.
LEMMA ParentCancelBox ==
  ASSUME ParentCancel
  PROVE  Box!Close
<1>1. ASSUME NEW j \in Items PROVE StatusOf(j)' = StatusOf(j)
  <2>1. Pending(j)' <=> Pending(j)
    BY DEF ParentCancel, queueVars, workerVars, stopVars, tallyVars, Pending, Queued, HeldBy
  <2> QED
    BY <2>1, SameFacts DEF ParentCancel, queueVars, workerVars, stopVars, tallyVars
<1> QED
  BY <1>1 DEF ParentCancel, Box!Close, StatusMap

\* Stop cancels: the outbox begins to close, or is closing already.
LEMMA StopCancelBox ==
  ASSUME StopCancel
  PROVE  Box!Close
<1>1. ASSUME NEW j \in Items PROVE StatusOf(j)' = StatusOf(j)
  <2>1. Pending(j)' <=> Pending(j)
    BY DEF StopCancel, queueVars, workerVars, tallyVars, Pending, Queued, HeldBy
  <2> QED
    BY <2>1, SameFacts DEF StopCancel, queueVars, workerVars, tallyVars
<1> QED
  BY <1>1 DEF StopCancel, Box!Close, StatusMap

\* From the channel to the drain: the item stays pending.
LEMMA DrainSendBox ==
  ASSUME IInv, DrainSend
  PROVE  UNCHANGED Box!vars
<1>0. TypeOK /\ QueueInv
  BY DEF IInv
<1>1. /\ \A i : Queued(i) => Queued(i)' \/ i = Head(items)
      /\ \A i : Queued(i)' => Queued(i)
      /\ Queued(Head(items))
  BY <1>0, Receive DEF DrainSend, DrainReceive
<1>2. ASSUME NEW j \in Items PROVE Pending(j)' <=> Pending(j)
  BY <1>1 DEF DrainSend, DrainReceive, workerVars, Pending, HeldBy, Items, NoItem
<1> QED
  BY <1>2, SameFacts, Stutter DEF DrainSend, DrainReceive, NoCallback

\* The drain drops an expired item.
LEMMA DrainDropExpiredBox ==
  ASSUME IInv, DrainDropExpired
  PROVE  \E i \in Items : Box!Drop(i)
<1>0. TypeOK /\ QueueInv /\ WorkerInv /\ StopInv
  BY DEF IInv
<1>1. /\ Len(items) \in Nat /\ Len(items) > 0
      /\ Head(items) = items[1] /\ Head(items) \in Items /\ Head(items) # NoItem
      /\ items' \in Seq(Items)
      /\ \A k \in 1 .. Len(items') : items'[k] # Head(items)
      /\ \A i : Queued(i) => Queued(i)' \/ i = Head(items)
      /\ \A i : Queued(i)' => Queued(i)
      /\ Queued(Head(items))
  BY <1>0, Receive DEF DrainDropExpired, DrainReceive
<1>2. PICK i \in Items : i = Head(items)
  BY <1>1
<1>3. i # NoItem /\ Queued(i) /\ i \in offered /\ shipped[i] = 0 /\ dropped[i] = 0
  BY <1>0, <1>1, <1>2 DEF QueueInv
<1>4. ~Pending(i)'
  <2>1. ~Queued(i)'
    BY <1>1, <1>2 DEF Queued
  <2>2. \A w \in Workers : held'[w] # i
    BY <1>0, <1>3 DEF DrainDropExpired, DrainReceive, workerVars, StopInv, WorkerInv, DrainCounted, AllExited
  <2> QED
    BY <1>3, <2>1, <2>2 DEF DrainDropExpired, DrainReceive, Pending, HeldBy
<1>5. StatusOf(i) = "pending"
  BY <1>3 DEF StatusOf, Pending
<1>6. StatusOf(i)' = "dropped"
  BY <1>0, <1>2, <1>3 DEF TypeOK, DrainDropExpired, DrainReceive, OnDrop, StatusOf
<1>7. ASSUME NEW j \in Items, j # i PROVE StatusOf(j)' = StatusOf(j)
  <2>1. Pending(j)' <=> Pending(j)
    BY <1>1, <1>2, <1>7 DEF DrainDropExpired, DrainReceive, workerVars, Pending, HeldBy
  <2> QED
    BY <1>0, <1>2, <1>7, <2>1, SameFacts DEF TypeOK, DrainDropExpired, DrainReceive, OnDrop
<1>8. Box!Move(i, "pending", "dropped")
  BY <1>5, <1>6, <1>7, Moved DEF DrainDropExpired, DrainReceive
<1> QED
  BY <1>8 DEF Box!Drop

\* The drain ships its item, or drops it.
LEMMA DrainResultBox ==
  ASSUME IInv, DrainResult
  PROVE  \E i \in Items : Box!Ship(i) \/ Box!Drop(i)
<1>0. TypeOK /\ WorkerInv /\ StopInv
  BY DEF IInv
<1>1. PICK i \in Items : i = drainItem
  BY <1>0 DEF TypeOK, DrainResult
<1>2. /\ i # NoItem /\ i \in offered /\ shipped[i] = 0 /\ dropped[i] = 0
      /\ \A k \in 1 .. Len(items) : items[k] # i
  BY <1>0, <1>1 DEF StopInv, DrainResult
<1>3. ~Pending(i)'
  <2>1. ~Queued(i)
    BY <1>0, <1>2 DEF TypeOK, Queued
  <2>2. \A w \in Workers : held'[w] # i
    BY <1>0, <1>1, <1>2 DEF DrainResult, workerVars, StopInv, WorkerInv, DrainCounted, AllExited
  <2> QED
    BY <1>2, <2>1, <2>2 DEF DrainResult, queueVars, Pending, Queued, HeldBy
<1>4. StatusOf(i) = "pending"
  BY <1>1, <1>2 DEF StatusOf, Pending
<1>5. ASSUME NEW j \in Items, j # i PROVE Pending(j)' <=> Pending(j)
  BY <1>1, <1>5 DEF DrainResult, queueVars, workerVars, Pending, Queued, HeldBy, Items, NoItem
<1>6. CASE OnSuccess(drainItem)
  <2>1. StatusOf(i)' = "shipped"
    BY <1>0, <1>1, <1>2, <1>6 DEF TypeOK, OnSuccess, DrainResult, queueVars, StatusOf
  <2>2. ASSUME NEW j \in Items, j # i PROVE StatusOf(j)' = StatusOf(j)
    BY <1>0, <1>1, <1>5, <1>6, <2>2, SameFacts DEF TypeOK, OnSuccess, DrainResult, queueVars
  <2>3. Box!Move(i, "pending", "shipped")
    BY <1>4, <2>1, <2>2, Moved DEF DrainResult
  <2> QED
    BY <2>3 DEF Box!Ship
<1>7. CASE OnDrop(drainItem)
  <2>1. StatusOf(i)' = "dropped"
    BY <1>0, <1>1, <1>2, <1>7 DEF TypeOK, OnDrop, DrainResult, queueVars, StatusOf
  <2>2. ASSUME NEW j \in Items, j # i PROVE StatusOf(j)' = StatusOf(j)
    BY <1>0, <1>1, <1>5, <1>7, <2>2, SameFacts DEF TypeOK, OnDrop, DrainResult, queueVars
  <2>3. Box!Move(i, "pending", "dropped")
    BY <1>4, <2>1, <2>2, Moved DEF DrainResult
  <2> QED
    BY <2>3 DEF Box!Drop
<1> QED
  BY <1>6, <1>7 DEF DrainResult

\* Every step of the dispatcher is a step of the outbox, or a stutter.
LEMMA NextBox ==
  ASSUME IInv, [Next]_vars
  PROVE  [Box!Next]_Box!vars
<1>1. CASE Offer
  BY <1>1, AcceptBox, RejectBox DEF Offer, Enqueue, Box!Next
<1>2. CASE Tick
  BY <1>2, TickBox
<1>3. CASE ParentCancel
  BY <1>3, ParentCancelBox DEF Box!Next
<1>4. ASSUME NEW w \in Workers, WorkerStep(w) PROVE Box!Next \/ UNCHANGED Box!vars
  BY <1>4, TakeBox, ExitBox, DropExpiredBox, SendBox, SendOkBox, SendFailBox,
     DropExhaustedBox, BackoffElapsedBox, BackoffCancelledBox DEF WorkerStep, Box!Next
<1>5. CASE StopCancel
  BY <1>5, StopCancelBox DEF Box!Next
<1>6. CASE StopStep
  BY <1>6, StopWaitBox, DrainDropExpiredBox, DrainSendBox, DrainResultBox,
     StopReturnBox DEF StopStep, Box!Next
<1>7. CASE UNCHANGED vars
  <2>1. \A j \in Items : Pending(j)' <=> Pending(j)
    BY <1>7 DEF vars, queueVars, workerVars, stopVars, tallyVars, Pending, Queued, HeldBy
  <2> QED
    BY <1>7, <2>1, SameFacts, Stutter DEF vars, queueVars, tallyVars
<1> QED
  BY <1>1, <1>2, <1>3, <1>4, <1>5, <1>6, <1>7 DEF Next

\* Every behaviour of the dispatcher is a behaviour of the outbox.
THEOREM Refinement == Spec => ImplementsOutbox
  BY InitBox, NextBox, Inductive, PTL DEF Spec, ImplementsOutbox, Box!Spec

\* A step of the outbox changes no outcome.
LEMMA FinalStays ==
  ASSUME [Box!Next]_Box!vars
  PROVE  \A i \in Items : StatusMap[i] \in Box!Final => StatusMap'[i] = StatusMap[i]
<1> SUFFICES ASSUME NEW i \in Items, StatusMap[i] \in Box!Final
             PROVE  StatusMap'[i] = StatusMap[i]
  OBVIOUS
<1>1. ASSUME NEW j \in Items, NEW from \in {"new", "pending"},
             NEW to \in Box!Status, Box!Move(j, from, to)
      PROVE  StatusMap'[i] = StatusMap[i]
  <2>1. j # i
    BY <1>1 DEF Box!Move, Box!Final
  <2> QED
    BY <1>1, <2>1 DEF Box!Move, StatusMap
<1>2. CASE Box!Next
  BY <1>1, <1>2 DEF Box!Next, Box!Accept, Box!Reject, Box!Ship, Box!Drop, Box!Abandon,
     Box!Close, Box!Status
<1>3. CASE UNCHANGED Box!vars
  BY <1>3 DEF Box!vars
<1> QED
  BY <1>2, <1>3

\* What the dispatcher has reported of an item, or lost of it, is never taken
\* back.
THEOREM OutcomesAreFinal == Spec => Box!OutcomeIsFinal
<1>1. [Box!Next]_Box!vars => [\A i \in Items : StatusMap[i] \in Box!Final => StatusMap'[i] = StatusMap[i]]_Box!vars
  BY FinalStays
<1> QED
  BY <1>1, Refinement, PTL DEF ImplementsOutbox, Box!Spec, Box!OutcomeIsFinal

=============================================================================
