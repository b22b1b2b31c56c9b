---------------------------- MODULE Reconstruct ----------------------------
(***************************************************************************)
(* What becomes of one log in each webhook mode (internal/logline), and of *)
(* the metadata of a batch in the modes that group.                        *)
(*                                                                         *)
(* A value is a leaf [t, v] or a node [t, of], whose members [key, val]    *)
(* are in the order of the JSON text; those of an array have its indices   *)
(* as keys.  What the forwarder puts into a payload itself is a leaf of    *)
(* type "own".  Keys are free of the characters that have a meaning in a   *)
(* path of sjson, so that a key names a member of an object.               *)
(***************************************************************************)
EXTENDS Integers, Sequences, SequencesExt, TLC

\* The leaves under a value, with their names, in the order they are met: module Flattening.
\* A value as it is after it has been read into Go and written again.
CONSTANTS Flatten(_, _, _), Reread(_)   \* style, prefix, value; value

Own(x) == [t |-> "own", v |-> x]
Leaf(t, v) == [t |-> t, v |-> v]
IsNode(value) == value.t \in {"object", "array"}
Raw(node) == [t |-> "raw", of |-> node.of]

\* sjson.Set: the last writer of a key wins.
Put(object, key, value) == (key :> value) @@ object
Drop(object, key) == [k \in DOMAIN object \ {key} |-> object[k]]
PutAll(object, members) == FoldLeft(LAMBDA o, m : Put(o, m.key, m.val), object, members)

-----------------------------------------------------------------------------
(* Numbers.  The texts that stand for one, with what is written in their   *)
(* place once they have been read as an int64 or as a float64.             *)

Int64 ==
  "0" :> "0" @@ "1" :> "1" @@ "7" :> "7" @@ "007" :> "7"
    @@ "9007199254740993" :> "9007199254740993"

Float64 ==
  "0" :> "0" @@ "1" :> "1" @@ "7" :> "7" @@ "007" :> "7" @@ "0.5" :> "0.5"
    @@ "9007199254740993"       :> "9007199254740992"
    @@ "9223372036854775809"    :> "9223372036854776000"
    @@ "0.12345678901234567890" :> "0.12345678901234568"

-----------------------------------------------------------------------------
(* The time of a log.                                                      *)

CommonTimeStampAttributes ==
  {"timestamp", "time", "@timestamp", "ts", "datetime", "_time", "date", "log_time", "unix",
   "epoch", "utc", "@t", "dt", "logTime", "timeStamp", "time_stamp", "iso8601", "rfc3339",
   "rfc3339nano", "asctime", "timestamp_unix", "timestamp_unix_ms", "timestamp_unix_us",
   "timestamp_unix_ns", "iso_8601", "logTimestamp", "when", "msec", "at", "t", "tm"}

IsCommonTimeStampAttribute(key) == key \in CommonTimeStampAttributes

Times == {"09:00", "10:00"}     \* the texts that dateparse takes for a time

\* The first attribute with such a name that is a time, or else the log's own.
TimeOf(log) ==
  LET found == SelectSeq(log.attrs, LAMBDA a :
                 IsCommonTimeStampAttribute(a.key) /\ ~IsNode(a.val) /\ a.val.v \in Times)
  IN IF found = <<>> THEN log.time ELSE found[1].val.v

-----------------------------------------------------------------------------
(* Severities.  In the texts, case is left out.                            *)

Canonical(text) ==
  CASE text = "warning" -> "warn" [] text = "err" -> "error" [] OTHER -> text

OtelNumbers == "trace" :> 1 @@ "debug" :> 5 @@ "info" :> 9 @@ "warn" :> 13 @@ "error" :> 17 @@ "fatal" :> 21
SentryNumbers == Drop(OtelNumbers, "trace")
SyslogNumbers ==
  "debug" :> 15 @@ "info" :> 14 @@ "warn" :> 12 @@ "error" :> 11 @@ "fatal" :> 10
    @@ "critical" :> 10 @@ "alert" :> 9 @@ "emergency" :> 8

NumberIn(numbers, text) == IF text \in DOMAIN numbers THEN numbers[text] ELSE numbers["info"]

OtelSeverity(text) ==
  NumberIn(OtelNumbers, IF text = "critical" THEN "fatal" ELSE Canonical(text))
SentrySeverity(text) == NumberIn(SentryNumbers, Canonical(text))
SyslogSeverity(text) == NumberIn(SyslogNumbers, Canonical(text))

\* Sentry and Papertrail take a status from 600 on for information, OTLP for an error.
StatusText(status) ==
  IF status \in 400 .. 499 THEN "warn" ELSE IF status \in 500 .. 599 THEN "error" ELSE "info"
OtelStatusText(status) ==
  IF status >= 500 THEN "error" ELSE IF status >= 400 THEN "warn" ELSE "info"

\* gjson's String: a number of digits only is left as it is.
AsString(leaf) ==
  Leaf("text", CASE leaf.t = "null" -> "" [] leaf.t = "decimal" -> Float64[leaf.v] [] OTHER -> leaf.v)

-----------------------------------------------------------------------------
(* The modes that send JSON objects: json, jsonl, datadog, axiom,          *)
(* betterstack and victorialogs.                                           *)

PlainConfig == [time |-> "", message |-> "message", reserved |-> <<>>]

JsonConfig(mode) ==
  CASE mode = "datadog" ->
         [time |-> "timestamp", message |-> "message",
          reserved |-> <<"ddsource", "service", "hostname", "host">>]
    [] mode = "axiom"        -> [PlainConfig EXCEPT !.time = "_time"]
    [] mode = "betterstack"  -> [PlainConfig EXCEPT !.time = "dt"]
    [] mode = "victorialogs" -> [PlainConfig EXCEPT !.time = "_time", !.message = "_msg"]
    [] OTHER -> PlainConfig

\* Only Datadog's mode has additional fields: they are what it reserves.
AdditionalFields(config, meta) ==
  [k \in ToSet(config.reserved) |->
     Own(CASE k = "ddsource" -> "locomotive"
           [] k = "service"  -> meta["service_name"]
           [] OTHER          -> <<meta["project_name"], meta["environment_name"]>>)]

TimeField(config, time) == IF config.time = "" THEN <<>> ELSE config.time :> Own(time)

Renamed(config, key) == IF key \in ToSet(config.reserved) THEN "_" \o key ELSE key

EnvironmentLogJson(config, log) ==
  LET head == "_metadata" :> Own(log.meta) @@ config.message :> Own(log.message)
                @@ "severity" :> Own(log.severity)
      body == PutAll(head, [i \in DOMAIN log.attrs |->
                [log.attrs[i] EXCEPT !.key = Renamed(config, @)]])
  IN AdditionalFields(config, log.meta) @@ TimeField(config, TimeOf(log)) @@ body

\* A reserved field is moved out of the way, onto one that has the new name already.
Moved(config, object) ==
  FoldLeft(LAMBDA o, r : IF r \in DOMAIN o THEN Put(Drop(o, r), "_" \o r, Reread(o[r])) ELSE o,
           object, config.reserved)

HttpLogLineJson(config, log) ==
  LET object == config.message :> Own(log.message) @@ "_metadata" :> Own(log.meta)
                  @@ PutAll(<<>>, log.attrs)
  IN AdditionalFields(config, log.meta) @@ TimeField(config, log.time) @@ Moved(config, object)

-----------------------------------------------------------------------------
(* Papertrail: a line with a header and a JSON object.                     *)

EnvironmentLogSyslog(log) ==
  "timestamp" :> Own(TimeOf(log))
    @@ PutAll("_metadata" :> Own(log.meta) @@ "severity" :> Own(log.severity), log.attrs)

HttpLogSyslog(log) ==
  "timestamp" :> Own(log.time) @@ "_metadata" :> Own(log.meta) @@ Drop(PutAll(<<>>, log.attrs), "path")

-----------------------------------------------------------------------------
(* Loki: the metadata are labels, the fields structured metadata.          *)

Labels(meta) == "service_namespace" :> meta["project_name"] @@ meta

HttpAttributesToSkip == {"timestamp", "path"}

StructuredMetadata(log) ==
  LET leaves == FlattenSeq([i \in DOMAIN log.attrs |->
                  Flatten("loki", log.attrs[i].key, log.attrs[i].val)])
      kept   == SelectSeq(leaves, LAMBDA l : log.http => l.key \notin HttpAttributesToSkip)
  IN PutAll(<<>>, [i \in DOMAIN kept |-> [kept[i] EXCEPT !.val = AsString(@)]])

-----------------------------------------------------------------------------
(* Sentry: the type of an attribute is found out from its text.            *)

Trues  == {"t", "true", "1"}
Falses == {"f", "false", "0"}

Object(members) == [t |-> "object", of |-> members]
Array(members)  == [t |-> "array", of |-> members]

\* The texts, of those that are neither a number nor a boolean, that are JSON.
Json ==
  "{}" :> Object(<<>>) @@ "[]" :> Array(<<>>)
    @@ "{\"b\":7}" :> Object(<<[key |-> "b", val |-> Leaf("integer", "7")]>>)
    @@ "[9007199254740993]" :> Array(<<[key |-> "0", val |-> Leaf("integer", "9007199254740993")]>>)
    @@ "\"x\"" :> Leaf("text", "x")
    @@ "null" :> Leaf("null", "null")

\* What any other text is taken for, by ParseInt, ParseFloat and ParseBool in turn.
ReadIfNotInt(v) ==
  IF v \in DOMAIN Float64 THEN Leaf("double", Float64[v])
  ELSE IF v \in Trues     THEN Leaf("boolean", "true")
  ELSE IF v \in Falses    THEN Leaf("boolean", "false")
  ELSE                         Leaf("string", v)

\* Mistake: ParseInt is left out, for a float64 holds integers as well.
ReadAsFloat(v) == ReadIfNotInt(v)

ReadAs(v) == IF v \in DOMAIN Int64 THEN Leaf("integer", Int64[v]) ELSE ReadIfNotInt(v)

\* The attribute for a leaf of a JSON value: there, any number is a double.
SentryType(leaf) ==
  CASE leaf.t \in {"integer", "decimal"} -> Leaf("double", Float64[leaf.v])
    [] leaf.t \in {"true", "false"}      -> Leaf("boolean", leaf.t)
    [] OTHER                             -> Leaf("string", leaf.v)

FlattenToItem(prefix, value) ==
  LET leaves == Flatten("sentry", prefix, value)
  IN [i \in DOMAIN leaves |-> [leaves[i] EXCEPT !.val = SentryType(@)]]

\* An attribute goes by its text, without the quotes: a text that is JSON, which that of
\* an object or an array is, becomes as many attributes as it has leaves.
ApplyStringAttribute(attr) ==
  IF IsNode(attr.val) THEN FlattenToItem(attr.key, attr.val)
  ELSE IF attr.val.v \in DOMAIN Json THEN FlattenToItem(attr.key, Json[attr.val.v])
  ELSE <<[attr EXCEPT !.val = ReadAs(@.v)]>>

EnvironmentSentryAttributes(log) ==
  FlattenSeq([i \in DOMAIN log.attrs |->
    IF IsCommonTimeStampAttribute(log.attrs[i].key) THEN <<>> ELSE ApplyStringAttribute(log.attrs[i])])

HttpSentryAttributes(log) ==
  <<[key |-> "level", val |-> Leaf("string", StatusText(log.status))]>>
    \o FlattenToItem("", Object(log.attrs))

\* The metadata come last.
SentryAttributes(log) ==
  LET own   == IF log.http THEN HttpSentryAttributes(log) ELSE EnvironmentSentryAttributes(log)
      names == SetToSeq(DOMAIN log.meta)
      meta  == [i \in DOMAIN names |->
                  [key |-> "_metadata__" \o names[i], val |-> Own(log.meta[names[i]])]]
  IN Put(PutAll(<<>>, own \o meta), "sentry.environment", Own(log.meta["environment_name"]))

-----------------------------------------------------------------------------
(* OTLP: the attributes are a list, and the metadata are the resource of a *)
(* group of records.                                                       *)

EnvironmentOtelAttributes(log) ==
  LET kept == SelectSeq(log.attrs, LAMBDA a : ~IsCommonTimeStampAttribute(a.key))
  IN [i \in DOMAIN kept |->
        [kept[i] EXCEPT !.val = IF IsNode(@) THEN Raw(@) ELSE Leaf("text", @.v)]]

HttpOtelAttributes(log) ==
  LET leaves == Flatten("otel", "", Object(log.attrs))
  IN <<[key |-> "http.response.status_code", val |-> Own(log.status)]>>
       \o [i \in DOMAIN leaves |-> [leaves[i] EXCEPT !.val = AsString(@)]]

ResourceKey(key) ==
  CASE key = "service_name" -> "service.name"
    [] key = "environment_name" -> "deployment.environment.name"
    [] key = "project_name" -> "service.namespace"
    [] OTHER -> key

BuildResourceAttributes(meta) == {<<ResourceKey(key), meta[key]>> : key \in DOMAIN meta}

\* The keys of the metadata that the models use, sorted.
SortedKeys == <<"deployment_id", "environment_name", "project_name", "service_name">>

\* Mistake: the lengths are left out.
MetadataKeyBare(meta) ==
  FoldLeft(LAMBDA text, k : text \o k \o ":" \o meta[k] \o "|", "", SortedKeys)

MetadataKey(meta) ==
  FoldLeft(LAMBDA text, k : text \o ToString(Len(k)) \o ":" \o k \o "|"
                                \o ToString(Len(meta[k])) \o ":" \o meta[k] \o "|", "", SortedKeys)

=============================================================================
