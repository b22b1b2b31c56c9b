--------------------------- MODULE MetadataProofs ---------------------------
(***************************************************************************)
(* The names that are attached to logs, for any number of calls, renames   *)
(* and logs, and any life of an entry.                                     *)
(*                                                                         *)
(* That nobody writes to a map that another holds rests on who has which   *)
(* map (MapInv) and on the logs that hold one (BatchInv).  That names are  *)
(* recent rests on the order of the calls (OrderInv) and on what the age   *)
(* of the entry says about that of its names (CacheInv).                   *)
(***************************************************************************)
EXTENDS Metadata, TLAPS

-----------------------------------------------------------------------------
(* The inductive invariant.                                                *)

\* The calls after which the next one may start.
Settled == {"run", "leave", "done"}

OrderInv ==
  /\ \A r, q \in Readers : q < r /\ pc[r] # "idle" => pc[q] \in Settled
  /\ \A r \in Readers : started[r] <= names

MapInv ==
  \A r \in Readers :
    /\ pc[r] \in {"idle", "get", "query"} => map[r] = Nobody
    /\ pc[r] \in {"store", "mark", "run"} => map[r] # Nobody
    /\ pc[r] = "store" => map[r] = r
    /\ pc[r] = "mark" => http
    /\ http => map[r] \in {Nobody, r}

BatchInv == http => \A k \in DOMAIN batch : pc[batch[k]] \in Settled

\* Names that were those of Railway at a time are replaced at that time or later.
ReplacedSince(v, t) == v = names \/ changed[v] >= t

CacheInv ==
  /\ \A r \in Readers : pc[r] = "store" => ReplacedSince(version[r], now)
  /\ maker # Nobody =>
       /\ pc[maker] \in {"mark"} \cup Settled
       /\ http => pc[maker] # "done"
       /\ expires <= now + Life
       /\ ReplacedSince(version[maker], expires - Life)

IInv == TypeOK /\ OrderInv /\ MapInv /\ BatchInv /\ CacheInv

-----------------------------------------------------------------------------
(* Every step preserves it.                                                *)

\* The logs that wait keep maps that nobody writes to any more, as long as no call goes
\* back.
LEMMA BatchKept ==
  ASSUME TypeOK, BatchInv, UNCHANGED <<http, batch>>,
         \A q \in Readers : pc[q] \in Settled => pc'[q] \in Settled
  PROVE  BatchInv'
<1>1. \A k \in DOMAIN batch : batch[k] \in Readers
  BY DEF TypeOK
<1> QED
  BY <1>1 DEF BatchInv

\* No call has a map at the start, and the cache has no entry.
LEMMA InitIInv == Init => IInv
<1> SUFFICES ASSUME Init PROVE IInv
  OBVIOUS
<1> USE MetadataAssumption DEF MetadataAssumption, Init
<1>1. TypeOK
  BY DEF TypeOK, Places, Readers, Nobody
<1>2. OrderInv /\ MapInv /\ BatchInv /\ CacheInv
  BY DEF OrderInv, MapInv, BatchInv, CacheInv, Readers, Nobody
<1> QED
  BY <1>1, <1>2 DEF IInv

\* The clock moves on, Railway renames, the serializer takes its logs.
LEMMA TickIInv == IInv /\ Tick => IInv'
<1> SUFFICES ASSUME IInv, Tick PROVE IInv'
  OBVIOUS
<1> USE MetadataAssumption DEF MetadataAssumption, Tick, readerVars, cacheVars, mapVars, IInv, TypeOK
<1>1. TypeOK'
  OBVIOUS
<1>2. OrderInv' /\ MapInv'
  BY DEF OrderInv, MapInv, Settled
<1>3. BatchInv'
  BY DEF BatchInv, Settled
<1>4. CacheInv'
  BY DEF CacheInv, ReplacedSince, Settled
<1> QED
  BY <1>1, <1>2, <1>3, <1>4

\* A rename replaces the names now, which is no earlier than any entry was set.
LEMMA RenameIInv == IInv /\ Rename => IInv'
<1> SUFFICES ASSUME IInv, Rename PROVE IInv'
  OBVIOUS
<1> USE MetadataAssumption DEF MetadataAssumption, Rename, readerVars, cacheVars, mapVars, IInv, TypeOK
<1>1. TypeOK'
  OBVIOUS
<1>5. MapInv' /\ BatchInv'
  BY BatchKept DEF MapInv
<1>2. OrderInv'
  BY DEF OrderInv, Settled
<1>3. \A v \in 0 .. MaxNames, t \in Int : t <= now /\ ReplacedSince(v, t) => ReplacedSince(v, t)'
  BY DEF ReplacedSince
<1>4. CacheInv'
  <2>1. \A r \in Readers : pc[r] = "store" => ReplacedSince(version[r], now)'
    BY <1>3 DEF CacheInv
  <2>2. maker # Nobody => ReplacedSince(version[maker], expires - Life)'
    BY <1>3 DEF CacheInv
  <2> QED
    BY <2>1, <2>2 DEF CacheInv, Settled
<1> QED
  BY <1>1, <1>2, <1>4, <1>5

\* The logs that waited let go of their map.
LEMMA SerializeIInv == IInv /\ Serialize => IInv'
<1> SUFFICES ASSUME IInv, Serialize PROVE IInv'
  OBVIOUS
<1> USE DEF Serialize, outside, readerVars, cacheVars, mapVars, IInv, TypeOK
<1>1. TypeOK'
  <2>1. batch' \in Seq(Readers) /\ Len(batch') <= MaxBatch
    BY MetadataAssumption DEF MetadataAssumption
  <2> HIDE DEF Serialize
  <2>2. UNCHANGED <<http, now, names, changed, pc, cancelled, map, maker, expires, version, typed, started>>
    BY DEF Serialize
  <2> QED
    BY <2>1, <2>2
<1>2. OrderInv' /\ MapInv'
  BY DEF OrderInv, MapInv, Settled
<1>3. BatchInv' /\ CacheInv'
  BY DEF BatchInv, CacheInv, ReplacedSince, Settled
<1> QED
  BY <1>1, <1>2, <1>3

\* A call goes from one point to the next.
LEMMA StartIInv == ASSUME IInv, NEW r \in Readers, Start(r) PROVE IInv'
<1> USE DEF Start, GoTo, outside, cacheVars, mapVars, IInv, TypeOK
<1>1. TypeOK'
  BY DEF Places
<1>2. OrderInv'
  BY DEF OrderInv, Settled, Readers
<1>3. MapInv'
  BY DEF MapInv
<1>4. BatchInv'
  BY BatchKept DEF Settled
<1>5. CacheInv'
  BY DEF CacheInv, ReplacedSince, Settled
<1> QED
  BY <1>1, <1>2, <1>3, <1>4, <1>5

\* A call gets the entry's map, or for a deployment a clone of it.
LEMMA HitIInv == ASSUME IInv, NEW r \in Readers, Hit(r) PROVE IInv'
<1> USE DEF GoTo, outside, cacheVars, IInv, TypeOK
<1>1. maker \in Readers /\ maker # r /\ pc[r] = "get"
  BY DEF Hit, Cached, CacheInv, Settled
<1>2. CASE http
  <2>1. /\ map' = [map EXCEPT ![r] = r] /\ version' = [version EXCEPT ![r] = version[maker]]
        /\ typed' \subseteq typed \cup {r} /\ pc' = [pc EXCEPT ![r] = "mark"]
        /\ UNCHANGED <<http, now, names, changed, cancelled, started, maker, expires, batch>>
    BY <1>2 DEF Hit
  <2>2. TypeOK'
    BY <1>1, <2>1 DEF Places
  <2>3. OrderInv' /\ MapInv'
    BY <1>1, <1>2, <2>1 DEF OrderInv, MapInv, Settled, Nobody, Readers
  <2>4. BatchInv'
    <3>1. \A k \in DOMAIN batch : batch[k] \in Readers /\ pc[batch[k]] \in Settled
      BY <1>2 DEF BatchInv
    <3> QED
      BY <1>1, <2>1, <3>1 DEF BatchInv, Settled
  <2>5. CacheInv'
    BY <1>1, <2>1 DEF CacheInv, ReplacedSince, Settled
  <2> QED
    BY <2>2, <2>3, <2>4, <2>5
<1>3. CASE ~http
  <2>1. /\ map' = [map EXCEPT ![r] = maker] /\ pc' = [pc EXCEPT ![r] = "run"]
        /\ UNCHANGED <<http, now, names, changed, cancelled, started, maker, expires, version, typed, batch>>
    BY <1>3 DEF Hit
  <2>2. TypeOK'
    BY <1>1, <2>1 DEF Places
  <2>3. OrderInv' /\ MapInv'
    BY <1>1, <1>3, <2>1 DEF OrderInv, MapInv, Settled, Nobody, Readers
  <2>4. BatchInv'
    BY <1>3, <2>1 DEF BatchInv
  <2>5. CacheInv'
    BY <1>1, <2>1 DEF CacheInv, ReplacedSince, Settled
  <2> QED
    BY <2>2, <2>3, <2>4, <2>5
<1> QED
  BY <1>2, <1>3

\* A call gets the names that Railway has.
LEMMA AnswerIInv == ASSUME IInv, NEW r \in Readers, Answer(r) PROVE IInv'
<1> USE DEF Answer, GoTo, outside, cacheVars, IInv, TypeOK
<1>1. TypeOK'
  BY DEF Places
<1>2. OrderInv'
  BY DEF OrderInv, Settled
<1>3. MapInv'
  BY DEF MapInv, Nobody, Readers
<1>4. BatchInv'
  BY BatchKept DEF Settled
<1>5. CacheInv'
  <2>1. maker # r
    BY DEF CacheInv, Settled, Nobody, Readers
  <2> QED
    BY <2>1 DEF CacheInv, ReplacedSince, Settled
<1> QED
  BY <1>1, <1>2, <1>3, <1>4, <1>5

\* A call that finds nothing in the cache, one whose query fails, and one that ends only
\* go on.
LEMMA MoveIInv ==
  ASSUME IInv, NEW r \in Readers, Miss(r) \/ QueryFails(r) \/ End(r)
  PROVE  IInv'
<1> USE DEF IInv, TypeOK
<1>1. PICK place \in {"query", "leave"} :
        /\ pc' = [pc EXCEPT ![r] = place]
        /\ (pc[r] = "run" /\ place = "leave") \/ pc[r] \in {"get", "query"}
  BY DEF Miss, QueryFails, End, GoTo
<1>2. UNCHANGED <<http, now, names, changed, cancelled, started, maker, expires, map, version, typed, batch>>
  BY DEF Miss, QueryFails, End, outside, cacheVars, mapVars
<1>3. TypeOK'
  BY <1>1, <1>2 DEF Places
<1>4. OrderInv'
  BY <1>1, <1>2 DEF OrderInv, Settled
<1>5. MapInv'
  BY <1>1, <1>2 DEF MapInv
<1>6. BatchInv'
  BY <1>1, <1>2, BatchKept DEF Settled
<1>7. CacheInv'
  BY <1>1, <1>2 DEF CacheInv, ReplacedSince, Settled
<1> QED
  BY <1>3, <1>4, <1>5, <1>6, <1>7

\* A call that has asked Railway sets the entry.
LEMMA StoreIInv == ASSUME IInv, NEW r \in Readers, Store(r) PROVE IInv'
<1> USE DEF Store, GoTo, outside, mapVars, IInv, TypeOK
<1>1. TypeOK'
  <2>1. expires' \in 0 .. MaxTime + Life
    BY MetadataAssumption DEF MetadataAssumption
  <2>2. pc' \in [Readers -> Places] /\ maker' \in Readers
    BY DEF Places
  <2>3. UNCHANGED <<http, now, names, changed, cancelled, started, map, version, typed, batch>>
    OBVIOUS
  <2> HIDE DEF Store, GoTo
  <2> QED
    BY <2>1, <2>2, <2>3
<1>2. OrderInv'
  BY DEF OrderInv, Settled
<1>3. MapInv'
  BY DEF MapInv, Nobody, Readers
<1>4. BatchInv'
  BY BatchKept DEF Settled
<1>5. CacheInv'
  <2>1. ReplacedSince(version[r], now)
    BY DEF CacheInv
  <2>2. expires' - Life = now /\ expires' <= now' + Life
    BY MetadataAssumption DEF MetadataAssumption
  <2> QED
    BY <2>1, <2>2 DEF CacheInv, ReplacedSince, Settled
<1> QED
  BY <1>1, <1>2, <1>3, <1>4, <1>5

\* A deployment's call writes the log type to its own map.
LEMMA MarkIInv == ASSUME IInv, NEW r \in Readers, Mark(r) PROVE IInv'
<1> USE DEF Mark, GoTo, outside, cacheVars, IInv, TypeOK
<1>1. TypeOK'
  BY DEF Places, MapInv
<1>2. OrderInv'
  BY DEF OrderInv, Settled
<1>3. MapInv'
  BY DEF MapInv, Nobody, Readers
<1>4. BatchInv'
  BY BatchKept DEF Settled
<1>5. CacheInv'
  BY DEF CacheInv, ReplacedSince, Settled
<1> QED
  BY <1>1, <1>2, <1>3, <1>4, <1>5

\* Logs go on with the map of a call that has written to it.
LEMMA ForwardIInv == ASSUME IInv, NEW r \in Readers, Forward(r) PROVE IInv'
<1> USE DEF Forward, outside, readerVars, cacheVars, mapVars, IInv, TypeOK
<1>1. map[r] \in Readers /\ (http => map[r] = r)
  BY DEF MapInv
<1>2. batch' \in Seq(Readers) /\ Len(batch') <= MaxBatch
  BY <1>1, MetadataAssumption DEF MetadataAssumption
<1> HIDE DEF Forward
<1>3. TypeOK'
  BY <1>2 DEF Forward
<1>4. OrderInv' /\ MapInv' /\ CacheInv'
  BY DEF Forward, OrderInv, MapInv, CacheInv, ReplacedSince, Settled
<1>5. BatchInv'
  <2> SUFFICES ASSUME http, NEW k \in DOMAIN batch' PROVE pc[batch'[k]] \in Settled
    BY DEF Forward, BatchInv, Settled
  <2>1. (k \in DOMAIN batch /\ batch'[k] = batch[k]) \/ batch'[k] = map[r]
    <3>1. batch' = Append(batch, map[r]) /\ batch \in Seq(Readers) /\ k \in DOMAIN batch'
      BY DEF Forward
    <3> HIDE DEF IInv, TypeOK
    <3> QED
      BY <1>1, <3>1
  <2> QED
    BY <1>1, <2>1 DEF Forward, BatchInv, Settled
<1> QED
  BY <1>3, <1>4, <1>5

\* A call ends, or its context is done.
LEMMA CancelIInv == ASSUME IInv, NEW r \in Readers, Cancel(r) PROVE IInv'
<1> USE DEF Cancel, outside, cacheVars, mapVars, IInv, TypeOK
<1>1. TypeOK'
  OBVIOUS
<1>2. OrderInv' /\ MapInv' /\ BatchInv' /\ CacheInv'
  BY DEF OrderInv, MapInv, BatchInv, CacheInv, ReplacedSince
<1> QED
  BY <1>1, <1>2

\* A goroutine that ends takes the entry with it, whoever has set it.
LEMMA LeaveIInv == ASSUME IInv, NEW r \in Readers, Leave(r) PROVE IInv'
<1> USE DEF Leave, GoTo, outside, mapVars, IInv, TypeOK
<1>1. TypeOK'
  BY DEF Places
<1>2. OrderInv'
  BY DEF OrderInv, Settled
<1>3. MapInv'
  BY DEF MapInv
<1>4. BatchInv'
  BY BatchKept DEF Settled
<1>5. CacheInv'
  BY DEF CacheInv, ReplacedSince, Settled
<1> QED
  BY <1>1, <1>2, <1>3, <1>4, <1>5

\* Every step keeps the invariant.
LEMMA NextIInv == IInv /\ [Next]_vars => IInv'
<1> SUFFICES ASSUME IInv, [Next]_vars PROVE IInv'
  OBVIOUS
<1>1. CASE UNCHANGED vars
  <2> USE <1>1 DEF vars, outside, readerVars, cacheVars, mapVars, IInv
  <2>1. TypeOK'
    BY DEF TypeOK
  <2>2. OrderInv' /\ MapInv' /\ BatchInv' /\ CacheInv'
    BY DEF OrderInv, MapInv, BatchInv, CacheInv, ReplacedSince
  <2> QED
    BY <2>1, <2>2
<1>2. CASE Next
  BY <1>2, TickIInv, RenameIInv, SerializeIInv, StartIInv, HitIInv, AnswerIInv, MoveIInv,
     StoreIInv, MarkIInv, ForwardIInv, CancelIInv, LeaveIInv DEF Next, ReaderStep
<1> QED
  BY <1>1, <1>2

-----------------------------------------------------------------------------
(* The theorems.                                                           *)

\* Who holds which map, in which order calls run, and how old the entry of the cache is,
\* is kept by every step of the two caches (environment_logs/methods.go,
\* http_logs/methods.go).
THEOREM Inductive == Spec => []IInv
  BY InitIInv, NextIInv, PTL DEF Spec

\* No call, map or entry of the caches leaves its type.
THEOREM TypeCorrect == Spec => []TypeOK
<1>1. IInv => TypeOK
  BY DEF IInv
<1> QED
  BY Inductive, <1>1, PTL

\* getHttpLogs never writes its log type into a map that another subscription or a log
\* that waits for the serializer holds (http_logs/methods.go: the cache hands out
\* clones).
THEOREM WritesArePrivateHolds == Spec => []WritesArePrivate
<1>1. IInv => WritesArePrivate
  <2> SUFFICES ASSUME IInv, NEW r \in Readers, pc[r] = "mark"
               PROVE  /\ \A k \in DOMAIN batch : batch[k] # map[r]
                      /\ \A q \in Readers \ {r} : map[q] # map[r]
    BY DEF WritesArePrivate
  <2>1. http /\ map[r] = r
    BY DEF IInv, MapInv
  <2>2. \A k \in DOMAIN batch : batch[k] # r
    BY <2>1 DEF IInv, BatchInv, Settled
  <2>3. \A q \in Readers \ {r} : map[q] # r
    BY <2>1 DEF IInv, MapInv, Nobody, Readers
  <2> QED
    BY <2>1, <2>2, <2>3
<1> QED
  BY Inductive, <1>1, PTL

\* A subscription gets names that Railway had when it was called, or within the life of
\* an entry before; for a deployment, the latter only while an earlier goroutine runs,
\* since each deletes the entry when it ends (http_logs/subscribe.go).
THEOREM NamesWereRecentHolds == Spec => NamesWereRecent
<1> DEFINE Fresh(r) ==
      LET v == version'[map'[r]]
      IN \/ v >= started[r]
         \/ /\ Recent(v)
            /\ http => \E q \in Readers : q < r /\ pc[q] # "done"
<1>1. ASSUME IInv, NEW r \in Readers, Hit(r) PROVE Fresh(r)
  <2>1. /\ maker \in Readers /\ maker # Nobody /\ maker # r /\ now < expires
        /\ pc[maker] \in {"mark"} \cup Settled
        /\ ReplacedSince(version[maker], expires - Life)
    BY <1>1 DEF IInv, TypeOK, Hit, Cached, CacheInv, Settled
  <2>2. version'[map'[r]] = version[maker]
    BY <1>1, <2>1 DEF IInv, TypeOK, Hit
  <2>3. Recent(version[maker])
    <3>1. /\ changed[version[maker]] \in Int /\ now \in Int /\ expires \in Int /\ Life \in Int
      BY <1>1, <2>1, MetadataAssumption DEF MetadataAssumption, IInv, TypeOK
    <3> QED
      BY <2>1, <3>1 DEF ReplacedSince, Recent
  <2>4. ASSUME http PROVE maker < r /\ pc[maker] # "done"
    <3>1. pc[r] = "get" /\ pc[maker] # "done"
      BY <1>1, <2>1, <2>4 DEF Hit, IInv, CacheInv
    <3>2. ~ (r < maker)
      BY <1>1, <2>1, <3>1 DEF IInv, OrderInv, Settled
    <3> QED
      BY <2>1, <3>1, <3>2 DEF Readers
  <2> QED
    BY <2>1, <2>2, <2>3, <2>4
<1>2. ASSUME IInv, NEW r \in Readers, Answer(r) PROVE Fresh(r)
  <2>1. version'[map'[r]] = names /\ started[r] <= names
    BY <1>2 DEF IInv, TypeOK, OrderInv, Answer
  <2> QED
    BY <2>1 DEF IInv, TypeOK
<1>3. ASSUME IInv, [Next]_vars, NEW r \in Readers, map[r] = Nobody, map'[r] # Nobody
      PROVE  Hit(r) \/ Answer(r)
  <2>1. ASSUME NEW q \in Readers, Hit(q) \/ Answer(q) PROVE q = r
    BY <1>3, <2>1 DEF Hit, Answer, IInv, TypeOK
  <2> QED
    BY <1>3, <2>1 DEF Next, ReaderStep, Tick, Rename, Serialize, Start, Miss, QueryFails, Store, Mark,
       Forward, Cancel, End, Leave, outside, readerVars, cacheVars, mapVars, vars
<1>4. IInv /\ [Next]_vars =>
        [\A r \in Readers : map[r] = Nobody /\ map'[r] # Nobody => Fresh(r)]_vars
  BY <1>1, <1>2, <1>3
<1> QED
  BY Inductive, <1>4, PTL DEF Spec, NamesWereRecent

=============================================================================
