----------------------------- MODULE Serializer -----------------------------
(***************************************************************************)
(* The serializer of a pipeline (internal/logline/serializer and the       *)
(* reconstructors of the modes): a batch of logs becomes the payload of    *)
(* one request, in the mode that the configuration has set.                *)
(*                                                                         *)
(* A log is [http, meta, time, message, severity, status, attrs]: the      *)
(* message of an HTTP log is its path, and its attrs are its own fields.   *)
(***************************************************************************)
EXTENDS Config, Reconstruct, FiniteSets

CONSTANT Batches   \* the batches of logs that arrive, each of one kind

\* A batch is a sequence of logs, and a subscription sends none that is empty.
ASSUME BatchesAssumption ==
  \A batch \in Batches : batch \in Seq(ToSet(batch)) /\ batch # <<>>

VARIABLES
  logs,      \* the batch, or empty
  done,      \* how many of its logs are in the payload
  payload    \* the parts of the payload: logs, or groups of logs

serializerVars == <<logs, done, payload>>
vars == <<configVars, serializerVars>>

Format(mode) ==
  CASE mode \in {"otel_http", "signoz"} -> "otel"
    [] mode = "papertrail" -> "syslog"
    [] mode \in {"loki", "sentry"} -> mode
    [] OTHER -> "json"

\* One log in the payload.
RecordTime(log) == IF log.http THEN log.time ELSE TimeOf(log)
SeverityText(log) == IF log.http THEN StatusText(log.status) ELSE log.severity

JsonRecord(mode, log) ==
  [fields |-> IF log.http THEN HttpLogLineJson(JsonConfig(mode), log)
              ELSE EnvironmentLogJson(JsonConfig(mode), log)]

SyslogRecord(log) ==
  [fields  |-> IF log.http THEN HttpLogSyslog(log) ELSE EnvironmentLogSyslog(log),
   time    |-> RecordTime(log), message |-> log.message,
   host    |-> <<log.meta["project_name"], log.meta["environment_name"]>>,
   service |-> log.meta["service_name"],
   number  |-> SyslogSeverity(SeverityText(log))]

LokiRecord(log) ==
  [fields |-> StructuredMetadata(log), time |-> RecordTime(log), message |-> log.message,
   labels |-> Labels(log.meta)]

SentryRecord(log) ==
  [fields |-> SentryAttributes(log), time |-> RecordTime(log), message |-> log.message,
   level  |-> Canonical(SeverityText(log)), number |-> SentrySeverity(SeverityText(log))]

OtelRecord(log) ==
  LET text == IF log.http THEN OtelStatusText(log.status) ELSE log.severity
  IN [fields |-> IF log.http THEN HttpOtelAttributes(log) ELSE EnvironmentOtelAttributes(log),
      time   |-> RecordTime(log), message |-> log.message,
      text   |-> text, number |-> OtelSeverity(text)]

Record(mode, log) ==
  CASE Format(mode) = "json"   -> JsonRecord(mode, log)
    [] Format(mode) = "syslog" -> SyslogRecord(log)
    [] Format(mode) = "loki"   -> LokiRecord(log)
    [] Format(mode) = "sentry" -> SentryRecord(log)
    [] Format(mode) = "otel"   -> OtelRecord(log)

\* OTLP groups the logs of a batch by their metadata, in the order of the first of each.
GroupAt(groups, key) == SelectInSeq(groups, LAMBDA g : g.key = key)

Grouped(groups, log, record) ==
  LET key == MetadataKey(log.meta)
      at  == GroupAt(groups, key)
  IN IF at = 0
     THEN Append(groups, [key |-> key, resource |-> BuildResourceAttributes(log.meta), records |-> <<record>>])
     ELSE [groups EXCEPT ![at].records = Append(@, record)]

Init == ConfigInit /\ logs = <<>> /\ done = 0 /\ payload = <<>>

\* The process goes on, and its pipelines serialize.
Run == GoOn /\ UNCHANGED serializerVars

Receive ==
  /\ phase = "serialize" /\ logs = <<>>
  /\ \E batch \in Batches :
       /\ (IF batch[1].http THEN "http" ELSE "deploy") \in input.enabled
       /\ logs' = batch
  /\ UNCHANGED <<configVars, done, payload>>

Add ==
  /\ done < Len(logs)
  /\ done' = done + 1
  /\ LET log == logs[done + 1]
         record == Record(webhookMode, log)
     IN payload' = IF Format(webhookMode) = "otel" THEN Grouped(payload, log, record)
                   ELSE Append(payload, record)
  /\ UNCHANGED <<configVars, logs>>

\* The payload is handed over.
HandOver ==
  /\ logs # <<>> /\ done = Len(logs)
  /\ logs' = <<>> /\ done' = 0 /\ payload' = <<>>
  /\ UNCHANGED configVars

Next == (ConfigStep /\ UNCHANGED serializerVars) \/ Run \/ Receive \/ Add \/ HandOver

Spec == Init /\ [][Next]_vars

-----------------------------------------------------------------------------
(* The logs in a payload.                                                  *)

Complete == logs # <<>> /\ done = Len(logs)

\* The records are those of the logs at the given places of the batch, in their order.
InOrder(records, places) ==
  \E at \in [DOMAIN records -> places] :
    /\ \A i, j \in DOMAIN records : i < j => at[i] < at[j]
    /\ \A n \in places : \E i \in DOMAIN records : at[i] = n
    /\ \A i \in DOMAIN records : records[i] = Record(webhookMode, logs[at[i]])

\* A complete payload has each log of the batch once and in its place.  OTLP has a group
\* for each metadata of the batch, and in it the logs with that metadata, in their order.
RecordsAreTheLogs ==
  Complete =>
    IF Format(webhookMode) = "otel"
    THEN LET metas == {logs[n].meta : n \in DOMAIN logs}
         IN /\ Len(payload) = Cardinality(metas)
            /\ \A m \in metas : \E g \in ToSet(payload) :
                 /\ g.resource = BuildResourceAttributes(m)
                 /\ InOrder(g.records, {n \in DOMAIN logs : logs[n].meta = m})
    ELSE payload = [n \in DOMAIN logs |-> Record(webhookMode, logs[n])]

-----------------------------------------------------------------------------
(* What the receiver reads in a record.                                    *)

Ranks == <<"debug", "info", "warn", "error", "fatal">>
NumbersOf(format) ==
  CASE format = "syslog" -> <<15, 14, 12, 11, 10>> [] OTHER -> <<5, 9, 13, 17, 21>>

\* The rank of a severity.  Sentry's mode takes "critical" for information.
Rank(format, log) ==
  IF log.http
  THEN IF log.status >= 500 THEN "error" ELSE IF log.status >= 400 THEN "warn" ELSE "info"
  ELSE CASE log.severity \in {"debug", "error", "fatal", "warn"} -> log.severity
         [] log.severity = "err" -> "error" [] log.severity = "warning" -> "warn"
         [] log.severity = "critical" /\ format # "sentry" -> "fatal" [] OTHER -> "info"

MessageField(mode) == JsonConfig(mode).message

MessageOf(mode, record) ==
  IF Format(mode) = "json" THEN record.fields[MessageField(mode)] ELSE Own(record.message)

\* The metadata of a record; in OTLP they are those of its group.
MetadataOf(format, record) ==
  CASE format \in {"json", "syslog"} -> record.fields["_metadata"]
    [] format = "loki" -> Own([k \in DOMAIN record.labels \ {"service_namespace"} |-> record.labels[k]])
    [] format = "sentry" ->
         Own([k \in ToSet(SortedKeys) |-> record.fields["_metadata__" \o k].v])

\* A record has the message, the metadata and a severity of the rank of its log, but for a
\* field of the log that has the name of the first or of the second.
IsLog(mode, record, log) ==
  /\ MessageOf(mode, record) = Own(log.message) \/ \E a \in ToSet(log.attrs) : a.key = MessageField(mode)
  /\ Format(mode) # "otel" =>
       \/ MetadataOf(Format(mode), record) = Own(log.meta)
       \/ ~log.http /\ Format(mode) \in {"json", "syslog"} /\ \E a \in ToSet(log.attrs) : a.key = "_metadata"
  /\ Format(mode) \in {"syslog", "sentry", "otel"} =>
       \E i \in DOMAIN Ranks : /\ Rank(Format(mode), log) = Ranks[i]
                               /\ record.number = NumbersOf(Format(mode))[i]

-----------------------------------------------------------------------------
(* The fields of a log in its record.                                      *)

Reserved(mode, a) == a.key \in ToSet(JsonConfig(mode).reserved)

\* The value of a field.  Sentry's mode takes the text of an attribute for JSON if it is.
ValueOf(mode, log, a) ==
  IF Format(mode) = "sentry" /\ ~log.http /\ ~IsNode(a.val) /\ a.val.v \in DOMAIN Json
  THEN Json[a.val.v] ELSE a.val

\* The modes that have no nested values.
Flat(mode, log) == Format(mode) \in {"loki", "sentry"} \/ (Format(mode) = "otel" /\ log.http)

\* The leaves of field a of a log, with the names that its record has them under.
LeavesOf(mode, log, a) ==
  IF Flat(mode, log) THEN ToSet(Flatten(Format(mode), a.key, ValueOf(mode, log, a)))
  ELSE {IF Reserved(mode, a) THEN [a EXCEPT !.key = "_" \o @] ELSE a}

\* A value without a leaf: an empty object or array, or one of such.
Hollow(value) ==
  IsNode(value) /\ \A m \in ToSet(value.of) : IsNode(m.val) /\ m.val.of = <<>>

\* The names that the forwarder uses itself, whatever the log has.
ForwardersNames(mode, log) ==
  LET config == JsonConfig(mode)
  IN CASE Format(mode) = "json" ->
            ToSet(config.reserved) \cup (IF config.time = "" THEN {} ELSE {config.time})
              \cup (IF log.http THEN {config.message} ELSE {})
       [] Format(mode) = "syslog" -> {"timestamp"}
       [] Format(mode) = "sentry" -> {"sentry.environment"}
       [] OTHER -> {}

\* The fields that a mode leaves out: those that it takes for what it has already.
LeftOut(mode, log, key) ==
  \/ log.http /\ Format(mode) = "loki" /\ key \in HttpAttributesToSkip
  \/ log.http /\ Format(mode) = "syslog" /\ key = "path"
  \/ /\ ~log.http /\ Format(mode) \in {"otel", "sentry"}
     /\ \E a \in ToSet(log.attrs) : IsCommonTimeStampAttribute(a.key)
          /\ key \in {l.key : l \in LeavesOf(mode, log, a)}

FieldOf(mode, record, key) ==
  IF Format(mode) = "otel" THEN {f.val : f \in {f \in ToSet(record.fields) : f.key = key}}
  ELSE IF key \in DOMAIN record.fields THEN {record.fields[key]} ELSE {}

IsNumber(value) == value.t \in {"integer", "decimal"}

\* Where a number of field a becomes a float64, which may be another number: in Sentry's
\* mode, in an HTTP log, under an object or an array, and beyond what an int64 holds; in a
\* field that Datadog's mode moves away in an HTTP log; and, unless it is an integer, where
\* gjson writes it as a text.
Rounds(mode, log, a, value) ==
  CASE Format(mode) = "sentry" ->
         IF log.http \/ IsNode(ValueOf(mode, log, a)) THEN IsNumber(value) ELSE value.v \notin DOMAIN Int64
    [] Format(mode) = "json" -> log.http /\ Reserved(mode, a) /\ IsNumber(value)
    [] OTHER                 -> Flat(mode, log) /\ value.t = "decimal"

\* What is left of a leaf: its text.  A number stays one, or a text, and loses leading zeros
\* at most, unless it may be rounded.
SaysLeaf(field, value, rounds) ==
  /\ "v" \in DOMAIN field /\ field.t # "own"
  /\ \/ field.v = value.v
     \/ value.t = "null" /\ field.v = ""
     \/ field = Leaf("boolean", "true")  /\ value.v \in Trues \ DOMAIN Int64
     \/ field = Leaf("boolean", "false") /\ value.v \in Falses \ DOMAIN Int64
     \/ value.v \in DOMAIN Int64 /\ field = Leaf("integer", Int64[value.v])
     \/ rounds /\ value.v \in DOMAIN Float64 /\ field.v = Float64[value.v]

\* A field that is moved away as a whole has the leaves it had.
SaysNode(mode, log, a, field, value) ==
  LET was == Flatten("otel", a.key, value)
      is  == Flatten("otel", a.key, field)
  IN /\ field.t = value.t
     /\ Len(is) = Len(was)
     /\ \A i \in DOMAIN was :
          is[i].key = was[i].key /\ SaysLeaf(is[i].val, was[i].val, Rounds(mode, log, a, was[i].val))

Says(mode, log, a, field, value) ==
  IF ~IsNode(value) THEN SaysLeaf(field, value, Rounds(mode, log, a, value))
  ELSE field \in {value, Raw(value)} \/ SaysNode(mode, log, a, field, value)

\* A record is that of its log, and each leaf of the log is found in it under its name and
\* with its value, or a leaf of another field that has the same name is, unless the name is
\* one of the forwarder's or of those that are left out; a field without a leaf is hollow;
\* and the forwarder's names hold what the forwarder says.
FieldsSurvive ==
  Complete =>
    \A log \in ToSet(logs) :
      LET record == Record(webhookMode, log)
          Leaves(a) == LeavesOf(webhookMode, log, a)
          Found(a, leaf) == \E field \in FieldOf(webhookMode, record, leaf.key) :
                              Says(webhookMode, log, a, field, leaf.val)
      IN /\ IsLog(webhookMode, record, log)
         /\ \A a \in ToSet(log.attrs) :
              /\ Leaves(a) = {} => Hollow(ValueOf(webhookMode, log, a))
              /\ \A leaf \in Leaves(a) :
                   \/ leaf.key \in ForwardersNames(webhookMode, log)
                   \/ LeftOut(webhookMode, log, leaf.key)
                   \/ Found(a, leaf)
                   \/ \E b \in ToSet(log.attrs) \ {a} : \E other \in Leaves(b) :
                        other.key = leaf.key /\ Found(b, other)
         /\ \A name \in ForwardersNames(webhookMode, log) :
              \A field \in FieldOf(webhookMode, record, name) : field.t = "own"
=============================================================================
