------------------------------ MODULE Metadata ------------------------------
(***************************************************************************)
(* The names that are attached to logs: the cache of an environment's      *)
(* names (environment_logs/methods.go), read by SubscribeToServiceLogs,    *)
(* and that of a deployment's (http_logs/methods.go), read by getHttpLogs. *)
(*                                                                         *)
(* A reader is one call of one of these functions, for the same id.  The   *)
(* calls of SubscribeToServiceLogs follow each other; a call of getHttpLogs*)
(* may still run, cancelled, when a later one starts.  A map of names      *)
(* carries the number of the reader that made it, and the names in it are  *)
(* a version of those that Railway has.                                    *)
(***************************************************************************)
EXTENDS Integers, Sequences

CONSTANTS
  Life,         \* ticks that an entry of the cache lives
  MaxReaders,   \* bound: calls
  MaxNames,     \* bound: renames
  MaxTime,      \* bound: the clock
  MaxBatch      \* bound: logs that wait for the serializer

ASSUME MetadataAssumption ==
  /\ Life \in Nat \ {0}
  /\ MaxReaders \in Nat /\ MaxNames \in Nat /\ MaxTime \in Nat /\ MaxBatch \in Nat

Readers == 1 .. MaxReaders
Nobody  == 0

VARIABLES
  http,      \* the cache of a deployment, not that of an environment
  now,       \* the clock
  names,     \* the version of the names that Railway has
  changed,   \* changed[v]: when version v was replaced
  pc,        \* pc[r]: where call r stands
  cancelled, \* the calls whose context is done
  map,       \* map[r]: the map that r holds
  maker,     \* the map in the cache, or Nobody
  expires,   \* when the cache forgets it
  version,   \* version[m]: the names in map m
  typed,     \* the maps that hold a log type
  batch,     \* the logs that wait for the serializer, each with its map
  started    \* started[r]: the version that Railway had when r started

cacheVars  == <<maker, expires>>
mapVars    == <<map, version, typed>>
readerVars == <<pc, cancelled, started>>
outside    == <<http, now, names, changed>>
vars == <<outside, readerVars, cacheVars, mapVars, batch>>

Places == {"idle", "get", "query", "store", "mark", "run", "leave", "done"}

TypeOK ==
  /\ http \in BOOLEAN
  /\ now \in 0 .. MaxTime /\ names \in 0 .. MaxNames
  /\ changed \in [0 .. MaxNames -> 0 .. MaxTime]
  /\ pc \in [Readers -> Places] /\ cancelled \subseteq Readers
  /\ map \in [Readers -> {Nobody} \cup Readers]
  /\ maker \in {Nobody} \cup Readers /\ expires \in 0 .. MaxTime + Life
  /\ version \in [Readers -> 0 .. MaxNames] /\ typed \subseteq Readers
  /\ batch \in Seq(Readers) /\ Len(batch) <= MaxBatch
  /\ started \in [Readers -> 0 .. MaxNames]

Init ==
  /\ http \in BOOLEAN
  /\ now = 0 /\ names = 0
  /\ changed = [v \in 0 .. MaxNames |-> 0]
  /\ pc = [r \in Readers |-> "idle"] /\ cancelled = {}
  /\ map = [r \in Readers |-> Nobody]
  /\ maker = Nobody /\ expires = 0
  /\ version = [r \in Readers |-> 0] /\ typed = {}
  /\ batch = <<>>
  /\ started = [r \in Readers |-> 0]

-----------------------------------------------------------------------------
(* Time, and Railway.                                                      *)

\* The few instructions between two accesses to a map take no time.
Tick ==
  /\ now < MaxTime
  /\ \A r \in Readers : pc[r] \notin {"store", "mark"}
  /\ now' = now + 1
  /\ UNCHANGED <<http, names, changed, readerVars, cacheVars, mapVars, batch>>

\* A project, an environment or a service is renamed.
Rename ==
  /\ names < MaxNames
  /\ names' = names + 1
  /\ changed' = [changed EXCEPT ![names] = now]
  /\ UNCHANGED <<http, now, readerVars, cacheVars, mapVars, batch>>

-----------------------------------------------------------------------------
(* A call.                                                                 *)

GoTo(r, place) == pc' = [pc EXCEPT ![r] = place]

\* The pipeline calls SubscribeToServiceLogs anew when the last call has returned.
\* It calls SubscribeToHttpLogs anew when the last call has returned and has
\* cancelled its goroutines, which it does not wait for; a query that is cancelled
\* fails, and its map is not touched any more, before the backoff is over.
Start(r) ==
  /\ pc[r] = "idle"
  /\ \A q \in Readers :
       /\ q < r => pc[q] \in {"run", "leave", "done"}
       /\ q < r /\ pc[q] # "done" => http /\ q \in cancelled
  /\ started' = [started EXCEPT ![r] = names]
  /\ GoTo(r, "get")
  /\ UNCHANGED <<outside, cancelled, cacheVars, mapVars, batch>>

\* Mistake: an entry has no expiration.
CachedForEver == maker # Nobody

Cached == maker # Nobody /\ now < expires

\* Mistake: the cached map of a deployment is handed out itself.
HitShared(r) ==
  /\ pc[r] = "get" /\ Cached
  /\ map' = [map EXCEPT ![r] = maker]
  /\ GoTo(r, IF http THEN "mark" ELSE "run")
  /\ UNCHANGED <<outside, cancelled, started, cacheVars, version, typed, batch>>

\* The names are in the cache.  The map of an environment is shared, that of a
\* deployment is cloned.
Hit(r) ==
  /\ pc[r] = "get" /\ Cached
  /\ \/ ~http /\ map' = [map EXCEPT ![r] = maker] /\ GoTo(r, "run") /\ UNCHANGED <<version, typed>>
     \/ /\ http
        /\ map' = [map EXCEPT ![r] = r]
        /\ version' = [version EXCEPT ![r] = version[maker]]
        /\ typed' = IF maker \in typed THEN typed \cup {r} ELSE typed
        /\ GoTo(r, "mark")
  /\ UNCHANGED <<outside, cancelled, started, cacheVars, batch>>

Miss(r) ==
  /\ pc[r] = "get" /\ ~Cached
  /\ GoTo(r, "query")
  /\ UNCHANGED <<outside, cancelled, started, cacheVars, mapVars, batch>>

\* Railway answers the last query with the names of that moment.
Answer(r) ==
  /\ pc[r] = "query"
  /\ map' = [map EXCEPT ![r] = r]
  /\ version' = [version EXCEPT ![r] = names]
  /\ GoTo(r, "store")
  /\ UNCHANGED <<outside, cancelled, started, cacheVars, typed, batch>>

\* A query fails, or the context is done: nothing is cached, and the call returns.
QueryFails(r) ==
  /\ pc[r] = "query"
  /\ GoTo(r, "leave")
  /\ UNCHANGED <<outside, cancelled, started, cacheVars, mapVars, batch>>

Store(r) ==
  /\ pc[r] = "store"
  /\ maker' = r
  /\ expires' = now + Life
  /\ GoTo(r, IF http THEN "mark" ELSE "run")
  /\ UNCHANGED <<outside, cancelled, started, mapVars, batch>>

\* getHttpLogs writes the log type into the map, be it the one in the cache.
Mark(r) ==
  /\ pc[r] = "mark"
  /\ typed' = typed \cup {map[r]}
  /\ GoTo(r, "run")
  /\ UNCHANGED <<outside, cancelled, started, cacheVars, map, version, batch>>

\* A log is handed over with the map.
Forward(r) ==
  /\ pc[r] = "run" /\ Len(batch) < MaxBatch
  /\ batch' = Append(batch, map[r])
  /\ UNCHANGED <<outside, readerVars, cacheVars, mapVars>>

Serialize ==
  /\ batch # <<>>
  /\ batch' = <<>>
  /\ UNCHANGED <<outside, readerVars, cacheVars, mapVars>>

Cancel(r) ==
  /\ pc[r] \notin {"idle", "done"} /\ r \notin cancelled
  /\ cancelled' = cancelled \cup {r}
  /\ UNCHANGED <<outside, pc, started, cacheVars, mapVars, batch>>

\* The subscription ends, by an error or since its context is done.
End(r) ==
  /\ pc[r] = "run"
  /\ GoTo(r, "leave")
  /\ UNCHANGED <<outside, cancelled, started, cacheVars, mapVars, batch>>

\* The goroutine of a deployment deletes the entry, whoever has set it.
Leave(r) ==
  /\ pc[r] = "leave"
  /\ maker' = IF http THEN Nobody ELSE maker
  /\ GoTo(r, "done")
  /\ UNCHANGED <<outside, cancelled, started, expires, mapVars, batch>>

ReaderStep(r) ==
  \/ Hit(r) \/ Miss(r) \/ Answer(r) \/ QueryFails(r) \/ Store(r) \/ Mark(r) \/ Leave(r)

Next ==
  \/ Tick \/ Rename \/ Serialize
  \/ \E r \in Readers : Start(r) \/ ReaderStep(r) \/ Forward(r) \/ Cancel(r) \/ End(r)

Spec == Init /\ [][Next]_vars

-----------------------------------------------------------------------------
(* Safety.                                                                 *)

\* The version v was replaced no longer ago than an entry lives, if at all.
Recent(v) == v = names \/ changed[v] + Life > now

\* A subscription gets names that Railway had when it was called, or within the
\* life of an entry before.  For a deployment, whose goroutine deletes the entry,
\* the latter needs an earlier goroutine that still runs.
NamesWereRecent ==
  [][\A r \in Readers :
       map[r] = Nobody /\ map'[r] # Nobody =>
         LET v == version'[map'[r]]
         IN \/ v >= started[r]
            \/ /\ Recent(v)
               /\ http => \E q \in Readers : q < r /\ pc[q] # "done"]_vars

\* A map that other goroutines may be reading, as that of a log that waits for the
\* serializer or of another subscription, is not written to.
WritesArePrivate ==
  \A r \in Readers :
    pc[r] = "mark" =>
      /\ \A k \in DOMAIN batch : batch[k] # map[r]
      /\ \A q \in Readers \ {r} : map[q] # map[r]
=============================================================================
