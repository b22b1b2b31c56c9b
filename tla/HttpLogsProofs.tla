--------------------------- MODULE HttpLogsProofs ---------------------------
(***************************************************************************)
(* Proofs about module HttpLogs, for every set of deployments, every size  *)
(* of the done channel and every number of environment changes: the        *)
(* bookkeeping of the goroutines that tail deployments is exact, and an    *)
(* update of the slice never empties it on its way.                        *)
(*                                                                         *)
(* The inductive invariant adds to RunningIsExact that the done channel    *)
(* holds no deployment twice (DoneInv), so that what one receive reclaims  *)
(* is reclaimed for good, and what the watcher knows in each of its places *)
(* (WatcherInv).                                                           *)
(***************************************************************************)
EXTENDS HttpLogs, FiniteSetTheorems, TLAPS

\* A deployment reports its end once for each goroutine it had.
DoneInv ==
  /\ \A j, k \in DOMAIN done : done[j] = done[k] => j = k
  /\ IsFiniteSet(InDone)

\* The slice is first filled by the first fetch, and an update works towards a set of
\* deployments that is not empty.
WatcherInv ==
  /\ inv = "off" /\ watcher = "fetch" => tracked = {}
  /\ watcher = "update" => latest # {}

IInv ==
  /\ TypeOK
  /\ DoneInv
  /\ RunningIsExact
  /\ WatcherInv

-----------------------------------------------------------------------------
(* The done channel and the entries of `running'.                          *)

\* What a send to the done channel does to the sequence of its elements.
LEMMA InDoneFacts ==
  ASSUME NEW s \in Seq(Ids), NEW e \in Ids
  PROVE  /\ Len(s) \in Nat /\ DOMAIN s = 1 .. Len(s)
         /\ Append(s, e) \in Seq(Ids)
         /\ DOMAIN Append(s, e) = 1 .. Len(s) + 1 /\ Len(Append(s, e)) = Len(s) + 1
         /\ \A k \in 1 .. Len(s) : Append(s, e)[k] = s[k]
         /\ Append(s, e)[Len(s) + 1] = e
  OBVIOUS

\* What a receive does to it.
LEMMA TailFacts ==
  ASSUME NEW s \in Seq(Ids), s # <<>>
  PROVE  /\ Len(s) \in Nat /\ Len(s) > 0 /\ DOMAIN s = 1 .. Len(s)
         /\ Head(s) = s[1] /\ Head(s) \in Ids
         /\ Tail(s) \in Seq(Ids)
         /\ DOMAIN Tail(s) = 1 .. Len(s) - 1 /\ Len(Tail(s)) = Len(s) - 1
         /\ \A k \in 1 .. Len(s) - 1 : Tail(s)[k] = s[k + 1]
  OBVIOUS

\* A deployment whose goroutine is not in the channel is sent to it.
LEMMA DoneSent ==
  ASSUME done \in Seq(Ids), DoneInv, Cardinality(InDone) = Len(done),
         NEW d \in Ids, d \notin InDone, done' = Append(done, d)
  PROVE  /\ DoneInv'
         /\ InDone' = InDone \cup {d}
         /\ Cardinality(InDone') = Len(done')
<1>1. /\ Len(done) \in Nat /\ DOMAIN done = 1 .. Len(done)
      /\ DOMAIN done' = 1 .. Len(done) + 1 /\ Len(done') = Len(done) + 1
      /\ \A k \in 1 .. Len(done) : done'[k] = done[k]
      /\ done'[Len(done) + 1] = d
  BY InDoneFacts
<1>2. InDone' = InDone \cup {d}
  <2>1. ASSUME NEW e \in InDone' PROVE e \in InDone \cup {d}
    <3>1. PICK k \in DOMAIN done' : e = done'[k]
      BY <2>1 DEF InDone
    <3>2. k \in 1 .. Len(done) \/ k = Len(done) + 1
      BY <1>1, <3>1
    <3> QED
      BY <1>1, <3>1, <3>2 DEF InDone
  <2>2. ASSUME NEW e \in InDone \cup {d} PROVE e \in InDone'
    <3>1. CASE e = d
      <4>1. Len(done) + 1 \in DOMAIN done'
        BY <1>1
      <4> QED
        BY <1>1, <3>1, <4>1 DEF InDone
    <3>2. CASE e \in InDone
      <4>1. PICK k \in 1 .. Len(done) : e = done[k]
        BY <1>1, <3>2 DEF InDone
      <4>2. k \in DOMAIN done' /\ done'[k] = e
        BY <1>1, <4>1
      <4> QED
        BY <4>2 DEF InDone
    <3> QED
      BY <2>2, <3>1, <3>2
  <2> QED
    BY <2>1, <2>2
<1>3. IsFiniteSet(InDone \cup {d}) /\ Cardinality(InDone \cup {d}) = Cardinality(InDone) + 1
  BY FS_AddElement DEF DoneInv
<1>4. \A j, k \in DOMAIN done' : done'[j] = done'[k] => j = k
  <2>1. \A k \in 1 .. Len(done) : done'[k] # d
    BY <1>1 DEF InDone
  <2> QED
    BY <1>1, <2>1 DEF DoneInv
<1> QED
  BY <1>1, <1>2, <1>3, <1>4 DEF DoneInv

\* The main loop receives from the channel: the deployment is in it no more.
LEMMA DoneReceived ==
  ASSUME done \in Seq(Ids), DoneInv, Cardinality(InDone) = Len(done),
         done # <<>>, done' = Tail(done)
  PROVE  /\ DoneInv'
         /\ Head(done) \in InDone
         /\ InDone' = InDone \ {Head(done)}
         /\ Cardinality(InDone') = Len(done')
<1>1. /\ Len(done) \in Nat /\ Len(done) > 0 /\ DOMAIN done = 1 .. Len(done)
      /\ Head(done) = done[1]
      /\ DOMAIN done' = 1 .. Len(done) - 1 /\ Len(done') = Len(done) - 1
      /\ \A k \in 1 .. Len(done) - 1 : done'[k] = done[k + 1]
  BY TailFacts
<1>2. Head(done) \in InDone
  <2>1. 1 \in DOMAIN done
    BY <1>1
  <2> QED
    BY <1>1, <2>1 DEF InDone
<1>3. InDone' = InDone \ {Head(done)}
  <2>1. ASSUME NEW e \in InDone' PROVE e \in InDone \ {Head(done)}
    <3>1. PICK k \in 1 .. Len(done) - 1 : e = done'[k]
      BY <1>1, <2>1 DEF InDone
    <3>2. e = done[k + 1] /\ k + 1 \in 1 .. Len(done) /\ k + 1 # 1
      BY <1>1, <3>1
    <3>3. e # done[1]
      BY <1>1, <3>2 DEF DoneInv
    <3> QED
      BY <1>1, <3>2, <3>3 DEF InDone
  <2>2. ASSUME NEW e \in InDone \ {Head(done)} PROVE e \in InDone'
    <3>1. PICK k \in 1 .. Len(done) : e = done[k]
      BY <1>1, <2>2 DEF InDone
    <3>2. k - 1 \in 1 .. Len(done) - 1 /\ (k - 1) + 1 = k
      BY <1>1, <2>2, <3>1
    <3>3. done'[k - 1] = e /\ k - 1 \in DOMAIN done'
      BY <1>1, <3>1, <3>2
    <3> QED
      BY <3>3 DEF InDone
  <2> QED
    BY <2>1, <2>2
<1>4. /\ IsFiniteSet(InDone \ {Head(done)})
      /\ Cardinality(InDone \ {Head(done)}) = Cardinality(InDone) - 1
  BY <1>2, FS_RemoveElement DEF DoneInv
<1>5. \A j, k \in DOMAIN done' : done'[j] = done'[k] => j = k
  BY <1>1 DEF DoneInv
<1> QED
  BY <1>1, <1>2, <1>3, <1>4, <1>5 DEF DoneInv

\* An action that touches neither the goroutines of deployments nor their entries; the
\* context stays done.
LEMMA RunningKept ==
  ASSUME DoneInv, RunningIsExact, UNCHANGED <<running, dep, done>>, ctxDone => ctxDone'
  PROVE  DoneInv' /\ RunningIsExact'
<1>1. InDone' = InDone
  BY DEF InDone
<1> QED
  BY <1>1 DEF DoneInv, RunningIsExact

-----------------------------------------------------------------------------

\* No goroutine is there at the start, and nothing is tracked.
LEMMA InitIInv == Init => IInv
<1> SUFFICES ASSUME Init PROVE IInv
  OBVIOUS
<1> USE HttpLogsAssumption DEF Init
<1>1. done \in Seq(Ids) /\ Len(done) = 0 /\ DOMAIN done = {} /\ InDone = {}
  BY DEF InDone
<1>2. TypeOK
  <2>1. version \in 1 .. MaxVersion /\ lastHash \in 0 .. MaxVersion
    BY DEF HttpLogsAssumption
  <2>2. Len(done) <= DoneSize /\ errors \in 0 .. 1
    BY <1>1 DEF HttpLogsAssumption
  <2> QED
    BY <1>1, <2>1, <2>2 DEF TypeOK
<1>3. DoneInv /\ Cardinality(InDone) = Len(done)
  BY <1>1, FS_EmptySet DEF DoneInv
<1>4. RunningIsExact
  BY <1>1, <1>3 DEF RunningIsExact
<1>5. WatcherInv
  BY DEF WatcherInv
<1> QED
  BY <1>2, <1>3, <1>4, <1>5 DEF IInv

-----------------------------------------------------------------------------
(* The environment, the invalidation goroutine and the caller.             *)

\* What the environment, its invalidation and the caller do concerns neither
\* `running' nor the watcher's slice.
LEMMA OutsideIInv ==
  ASSUME IInv, Change \/ InvStep \/ Cancel
  PROVE  IInv'
<1> USE HttpLogsAssumption DEF envVars, invVars, watcherVars, mainVars, depVars
<1>0. TypeOK /\ DoneInv /\ RunningIsExact /\ WatcherInv
  BY DEF IInv
<1>1. /\ UNCHANGED <<watcherVars, mainVars, depVars, errors>>
      /\ ctxDone => ctxDone'
      /\ inv' = "off" => inv = "off"
  BY DEF Change, InvStep, Seed, NewHash, InvExit, Cancel
<1>2. /\ actual' \subseteq Ids /\ gone' \subseteq Ids /\ version' \in 1 .. MaxVersion
      /\ inv' \in {"off", "read", "forward", "exited"} /\ lastHash' \in 0 .. MaxVersion
  <2>1. CASE Change
    BY <1>0, <2>1 DEF TypeOK, Change
  <2>2. CASE InvStep
    BY <1>0, <2>2 DEF TypeOK, InvStep, Seed, NewHash, InvExit
  <2>3. CASE Cancel
    BY <1>0, <2>3 DEF TypeOK, Cancel
  <2> QED
    BY <2>1, <2>2, <2>3
<1>3. ctxDone' \in BOOLEAN
  BY <1>0 DEF TypeOK, Change, InvStep, Seed, NewHash, InvExit, Cancel
<1>4. TypeOK'
  BY <1>0, <1>1, <1>2, <1>3 DEF TypeOK
<1>5. DoneInv' /\ RunningIsExact'
  BY <1>0, <1>1, RunningKept
<1>6. WatcherInv'
  BY <1>0, <1>1 DEF WatcherInv
<1> QED
  BY <1>4, <1>5, <1>6 DEF IInv

\* The watcher takes the new id: from now on it has an invalidation goroutine.
LEMMA ForwardIInv ==
  ASSUME IInv, Forward
  PROVE  IInv'
<1> USE DEF Forward, envVars, mainVars, depVars
<1>0. TypeOK /\ DoneInv /\ RunningIsExact /\ WatcherInv
  BY DEF IInv
<1>1. TypeOK'
  BY <1>0 DEF TypeOK
<1>2. DoneInv' /\ RunningIsExact'
  BY <1>0, RunningKept
<1>3. WatcherInv'
  BY DEF WatcherInv
<1> QED
  BY <1>1, <1>2, <1>3 DEF IInv

-----------------------------------------------------------------------------
(* The watcher.                                                            *)

\* The watcher has what the environment was when it fetched it.
LEMMA FetchedIInv ==
  ASSUME IInv, Fetched
  PROVE  IInv'
<1> USE DEF Fetched, FirstFetch, envVars, invVars, mainVars, depVars
<1>0. TypeOK /\ DoneInv /\ RunningIsExact /\ WatcherInv
  BY DEF IInv
<1>1. TypeOK'
  BY <1>0 DEF TypeOK
<1>2. DoneInv' /\ RunningIsExact'
  BY <1>0, RunningKept
<1>3. WatcherInv'
  BY <1>0 DEF WatcherInv
<1> QED
  BY <1>1, <1>2, <1>3 DEF IInv

\* One append or one delete, and the end of the update.
LEMMA UpdateIInv ==
  ASSUME IInv, AppendOne \/ DeleteOne \/ Updated
  PROVE  IInv'
<1> USE DEF envVars, invVars, mainVars, depVars
<1>0. TypeOK /\ DoneInv /\ RunningIsExact /\ WatcherInv
  BY DEF IInv
<1>1. /\ UNCHANGED <<envVars, invVars, latest, mainVars, depVars, errors, ctxDone>>
      /\ watcher = "update" /\ watcher' \in {"update", "signal", "idle"}
      /\ changed' \in BOOLEAN
  BY <1>0 DEF TypeOK, AppendOne, DeleteOne, Updated
<1>2. tracked' \subseteq Ids
  <2>1. CASE AppendOne
    BY <1>0, <2>1 DEF TypeOK, AppendOne, Missing, SliceAppend
  <2>2. CASE DeleteOne \/ Updated
    BY <1>0, <2>2 DEF TypeOK, DeleteOne, Updated, Surplus, SliceDelete
  <2> QED
    BY <2>1, <2>2
<1>3. TypeOK'
  BY <1>0, <1>1, <1>2 DEF TypeOK
<1>4. DoneInv' /\ RunningIsExact'
  BY <1>0, <1>1, RunningKept
<1>5. WatcherInv'
  BY <1>0, <1>1 DEF WatcherInv
<1> QED
  BY <1>3, <1>4, <1>5 DEF IInv

\* The watcher gives up, or posts its error.
LEMMA WatcherEndsIInv ==
  ASSUME IInv, WatcherFails \/ WatcherPosts
  PROVE  IInv'
<1> USE DEF WatcherFails, WatcherPosts, envVars, invVars, mainVars, depVars
<1>0. TypeOK /\ DoneInv /\ RunningIsExact /\ WatcherInv
  BY DEF IInv
<1>1. TypeOK'
  BY <1>0 DEF TypeOK
<1>2. DoneInv' /\ RunningIsExact'
  BY <1>0, RunningKept
<1>3. WatcherInv'
  BY DEF WatcherInv
<1> QED
  BY <1>1, <1>2, <1>3 DEF IInv

-----------------------------------------------------------------------------
(* SubscribeToHttpLogs.                                                    *)

\* The rendezvous of the watcher and the main loop.
LEMMA SignalIInv ==
  ASSUME IInv, Signal
  PROVE  IInv'
<1> USE DEF Signal, envVars, depVars
<1>0. TypeOK /\ DoneInv /\ RunningIsExact /\ WatcherInv
  BY DEF IInv
<1>1. TypeOK'
  BY <1>0 DEF TypeOK
<1>2. DoneInv' /\ RunningIsExact'
  BY <1>0, RunningKept
<1>3. WatcherInv'
  BY DEF WatcherInv
<1> QED
  BY <1>1, <1>2, <1>3 DEF IInv

\* syncDeployments: a goroutine starts for what has no entry, and gets one.
LEMMA SyncIInv ==
  ASSUME IInv, Sync
  PROVE  /\ IInv'
         /\ \A d \in NewIds : dep[d] = "none" /\ d \notin InDone
<1> USE DEF Sync, SyncWith, NewIds, envVars, invVars, watcherVars
<1>0. TypeOK /\ DoneInv /\ RunningIsExact /\ WatcherInv
  BY DEF IInv
<1>1. TypeOK'
  <2>1. stopped' \subseteq running' /\ running' \subseteq Ids
    BY <1>0 DEF TypeOK
  <2>2. dep' \in [Ids -> {"none", "tailing", "exiting"}]
    BY <1>0 DEF TypeOK
  <2> QED
    BY <1>0, <2>1, <2>2 DEF TypeOK
<1>2. DoneInv' /\ InDone' = InDone
  BY <1>0 DEF DoneInv, InDone
<1>3. \A d \in NewIds : dep[d] = "none" /\ d \notin InDone
  BY <1>0 DEF TypeOK, RunningIsExact
<1>4. RunningIsExact'
  <2>1. \A d \in Ids : dep'[d] # "none" => d \in running' /\ d \notin InDone'
    BY <1>0, <1>2, <1>3 DEF RunningIsExact
  <2>2. \A d \in Ids : dep'[d] # "none" <=> dep[d] # "none" \/ d \in NewIds
    BY <1>3
  <2>3. ~ctxDone' => running' = InDone' \cup {d \in Ids : dep'[d] # "none"}
    BY <1>0, <1>2, <2>2 DEF TypeOK, RunningIsExact
  <2> QED
    BY <1>0, <1>2, <2>1, <2>3 DEF RunningIsExact
<1>5. WatcherInv'
  BY <1>0 DEF WatcherInv
<1> QED
  BY <1>1, <1>2, <1>3, <1>4, <1>5 DEF IInv

\* The entry of a goroutine that has reported is reclaimed: no other goroutine has it.
LEMMA ReceiveDoneIInv ==
  ASSUME IInv, ReceiveDone
  PROVE  IInv'
<1> USE DEF ReceiveDone, envVars, invVars, watcherVars
<1>0. TypeOK /\ DoneInv /\ RunningIsExact /\ WatcherInv
  BY DEF IInv
<1>1. /\ DoneInv' /\ Head(done) \in InDone
      /\ InDone' = InDone \ {Head(done)}
      /\ Cardinality(InDone') = Len(done')
  BY <1>0, DoneReceived DEF TypeOK, RunningIsExact
<1>2. done' \in Seq(Ids) /\ Len(done') <= DoneSize
  BY <1>0, TailFacts, HttpLogsAssumption DEF TypeOK
<1>3. TypeOK'
  BY <1>0, <1>2 DEF TypeOK
<1>4. RunningIsExact'
  <2>1. \A d \in Ids : dep'[d] # "none" => d \in running' /\ d \notin InDone'
    BY <1>0, <1>1 DEF RunningIsExact
  <2>2. InDone' \subseteq running'
    BY <1>0, <1>1 DEF RunningIsExact
  <2>3. ~ctxDone' => running' = InDone' \cup {d \in Ids : dep'[d] # "none"}
    BY <1>0, <1>1 DEF RunningIsExact
  <2> QED
    BY <1>1, <2>1, <2>2, <2>3 DEF RunningIsExact
<1>5. WatcherInv'
  BY <1>0 DEF WatcherInv
<1> QED
  BY <1>1, <1>3, <1>4, <1>5 DEF IInv

\* The main loop returns, and goes on with `running' for the goroutines it has left.
LEMMA ReturnIInv ==
  ASSUME IInv, Return
  PROVE  IInv'
<1> USE DEF Return, envVars, invVars, watcherVars, depVars
<1>0. TypeOK /\ DoneInv /\ RunningIsExact /\ WatcherInv
  BY DEF IInv
<1>1. TypeOK'
  BY <1>0 DEF TypeOK
<1>2. DoneInv' /\ RunningIsExact'
  BY <1>0, RunningKept
<1>3. WatcherInv'
  BY <1>0 DEF WatcherInv
<1> QED
  BY <1>1, <1>2, <1>3 DEF IInv

-----------------------------------------------------------------------------
(* The goroutine of a deployment.                                          *)

\* It fails or is cancelled: it lives until it has reported.
LEMMA DepEndsIInv ==
  ASSUME IInv, NEW d \in Ids, DepFails(d) \/ DepCancelled(d)
  PROVE  IInv'
<1> USE DEF DepFails, DepCancelled, DepMove, envVars, invVars, watcherVars, mainVars
<1>0. TypeOK /\ DoneInv /\ RunningIsExact /\ WatcherInv
  BY DEF IInv
<1>1. TypeOK'
  BY <1>0 DEF TypeOK
<1>2. \A e \in Ids : dep'[e] # "none" <=> dep[e] # "none"
  BY <1>0 DEF TypeOK
<1>3. DoneInv' /\ InDone' = InDone
  BY <1>0 DEF DoneInv, InDone
<1>4. RunningIsExact'
  BY <1>0, <1>2, <1>3 DEF RunningIsExact
<1>5. WatcherInv'
  BY <1>0 DEF WatcherInv
<1> QED
  BY <1>1, <1>3, <1>4, <1>5 DEF IInv

\* It reports: its entry is kept until the report is received.
LEMMA DepReportsIInv ==
  ASSUME IInv, NEW d \in Ids, DepReports(d)
  PROVE  IInv'
<1> USE DEF DepReports, DepMove, envVars, invVars, watcherVars, mainVars
<1>0. TypeOK /\ DoneInv /\ RunningIsExact /\ WatcherInv
  BY DEF IInv
<1>1. d \notin InDone /\ d \in running
  BY <1>0 DEF RunningIsExact
<1>2. DoneInv' /\ InDone' = InDone \cup {d} /\ Cardinality(InDone') = Len(done')
  BY <1>0, <1>1, DoneSent DEF TypeOK, RunningIsExact
<1>3. done' \in Seq(Ids) /\ Len(done') <= DoneSize
  BY <1>0, InDoneFacts, HttpLogsAssumption DEF TypeOK
<1>4. TypeOK'
  BY <1>0, <1>3 DEF TypeOK
<1>5. dep'[d] = "none" /\ \A e \in Ids \ {d} : dep'[e] = dep[e]
  BY <1>0 DEF TypeOK
<1>6. RunningIsExact'
  <2>1. \A e \in Ids : dep'[e] # "none" => e \in running' /\ e \notin InDone'
    BY <1>0, <1>2, <1>5 DEF RunningIsExact
  <2>2. InDone' \subseteq running'
    BY <1>0, <1>1, <1>2 DEF RunningIsExact
  <2>3. ~ctxDone' => running' = InDone' \cup {e \in Ids : dep'[e] # "none"}
    BY <1>0, <1>1, <1>2, <1>5 DEF RunningIsExact
  <2> QED
    BY <1>2, <2>1, <2>2, <2>3 DEF RunningIsExact
<1>7. WatcherInv'
  BY <1>0 DEF WatcherInv
<1> QED
  BY <1>2, <1>4, <1>6, <1>7 DEF IInv

\* The context is done, and nobody may receive: it leaves without a report.
LEMMA DepLeavesIInv ==
  ASSUME IInv, NEW d \in Ids, DepLeaves(d)
  PROVE  IInv'
<1> USE DEF DepLeaves, DepMove, envVars, invVars, watcherVars, mainVars
<1>0. TypeOK /\ DoneInv /\ RunningIsExact /\ WatcherInv
  BY DEF IInv
<1>1. TypeOK'
  BY <1>0 DEF TypeOK
<1>2. DoneInv' /\ InDone' = InDone
  BY <1>0 DEF DoneInv, InDone
<1>3. RunningIsExact'
  BY <1>0, <1>2 DEF TypeOK, RunningIsExact
<1>4. WatcherInv'
  BY <1>0 DEF WatcherInv
<1> QED
  BY <1>1, <1>2, <1>3, <1>4 DEF IInv

\* A step that changes nothing keeps the invariant.
LEMMA StutterIInv ==
  ASSUME IInv, UNCHANGED vars
  PROVE  IInv'
<1> USE DEF vars, envVars, invVars, watcherVars, mainVars, depVars
<1>0. TypeOK /\ DoneInv /\ RunningIsExact /\ WatcherInv
  BY DEF IInv
<1>1. TypeOK' /\ WatcherInv'
  BY <1>0 DEF TypeOK, WatcherInv
<1> QED
  BY <1>0, <1>1, RunningKept DEF IInv

\* Every step of the four kinds of goroutine keeps the invariant.
LEMMA NextIInv == IInv /\ [Next]_vars => IInv'
<1> SUFFICES ASSUME IInv, [Next]_vars PROVE IInv'
  OBVIOUS
<1>1. WatcherStep \/ WatcherFails => IInv'
  BY FetchedIInv, UpdateIInv, WatcherEndsIInv DEF WatcherStep
<1>2. MainStep => IInv'
  BY SignalIInv, SyncIInv, ReceiveDoneIInv, ReturnIInv DEF MainStep
<1>3. ASSUME NEW d \in Ids, DepStep(d) \/ DepFails(d)
      PROVE  IInv'
  BY <1>3, DepEndsIInv, DepReportsIInv, DepLeavesIInv DEF DepStep
<1> QED
  BY <1>1, <1>2, <1>3, OutsideIInv, ForwardIInv, StutterIInv DEF Next

-----------------------------------------------------------------------------
(* The theorems.                                                           *)

\* The invariant holds throughout, whatever the environment, the watcher, the main loop
\* and the goroutines do in whichever order.
THEOREM Inductive == Spec => []IInv
BY InitIInv, NextIInv, PTL DEF Spec

\* The variables keep their types: `stopped' only has deployments with an entry, and the
\* done channel keeps its capacity.
THEOREM TypeCorrect == Spec => []TypeOK
<1>1. IInv => TypeOK
  BY DEF IInv
<1> QED
  BY <1>1, Inductive, PTL

\* `running' has an entry for every goroutine that lives or has yet to be reclaimed, and
\* while the context is live for no other.
THEOREM RunningExact == Spec => []RunningIsExact
<1>1. IInv => RunningIsExact
  BY DEF IInv
<1> QED
  BY <1>1, Inductive, PTL

\* syncDeployments never starts a goroutine for a deployment that still has one, or whose
\* last one has reported and is not reclaimed: no deployment is tailed twice, however
\* often it leaves the environment and comes back.
NeverTwice == [][Sync => \A d \in NewIds : dep[d] = "none" /\ d \notin InDone]_vars

\* No second goroutine is started for a deployment that is tailed.
THEOREM NoneTailedTwice == Spec => NeverTwice
<1>1. ASSUME IInv, [Next]_vars, Sync
      PROVE  \A d \in NewIds : dep[d] = "none" /\ d \notin InDone
  BY <1>1, SyncIInv
<1> QED
  BY <1>1, Inductive, PTL DEF Spec, NeverTwice

\* An update of the slice adds before it deletes, and a fetch that finds nothing is
\* ignored: a slice that names a deployment names one at every moment after.
THEOREM SliceNeverEmptied == Spec => NeverAllGone
<1>1. ASSUME IInv, [Next]_vars, tracked # {}
      PROVE  tracked' # {}
  <2> USE <1>1 DEF IInv, WatcherInv
  <2>1. CASE Fetched
    BY <2>1 DEF Fetched, FirstFetch
  <2>2. CASE AppendOne
    BY <2>2 DEF AppendOne, SliceAppend
  <2>3. CASE DeleteOne
    <3>1. latest # {} /\ latest \subseteq tracked
      BY <2>3 DEF DeleteOne, MayDelete, Missing
    <3>2. latest \subseteq tracked'
      BY <2>3, <3>1 DEF DeleteOne, Surplus, SliceDelete
    <3> QED
      BY <3>1, <3>2
  <2>4. CASE Change \/ InvStep \/ Forward \/ Updated \/ WatcherPosts \/ WatcherFails
    BY <2>4 DEF Change, InvStep, Seed, NewHash, InvExit, Forward, Updated, WatcherPosts,
       WatcherFails, watcherVars
  <2>5. CASE MainStep \/ Cancel
    BY <2>5 DEF MainStep, Signal, Sync, SyncWith, ReceiveDone, Return, Cancel, watcherVars
  <2>6. CASE \E d \in Ids : DepStep(d) \/ DepFails(d)
    BY <2>6 DEF DepStep, DepFails, DepCancelled, DepReports, DepLeaves, watcherVars
  <2>7. CASE UNCHANGED vars
    BY <2>7 DEF vars, watcherVars
  <2> QED
    BY <2>1, <2>2, <2>3, <2>4, <2>5, <2>6, <2>7 DEF Next, WatcherStep
<1> QED
  BY <1>1, Inductive, PTL DEF Spec, NeverAllGone

=============================================================================
