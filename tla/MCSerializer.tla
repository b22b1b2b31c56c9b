---------------------------- MODULE MCSerializer ----------------------------
EXTENDS Serializer, Flattening

\* Any mode with a host for it, for another mode, for two others or for none, and
\* with headers that are right, that lack one and that do not parse.
Input(parses, enabled, mode, host, headers) ==
  [parses |-> parses, enabled |-> enabled, mode |-> mode, host |-> host, headers |-> headers]

Hosts == {{}, {"loki", "grafana"}, {"datadog"}, {"axiom", "sentry"}, {"grafana", "signoz.cloud"}}
Headers == {<<>>, <<<<"Authorization", "x">>>>, <<<<"DD-API-KEY", "x">>, <<"DD-APPLICATION-KEY", "y">>>>}

MCInputs ==
  {Input(TRUE, {"deploy", "http"}, mode, host, headers) :
     mode \in {"json", "otel_http", "papertrail", "datadog", "axiom", "loki", "sentry", "victorialogs", "splunk"},
     host \in Hosts, headers \in Headers}
    \cup {Input(FALSE, {"deploy"}, "json", {}, <<>>), Input(TRUE, {}, "json", {}, <<>>),
          Input(TRUE, {"http"}, "json", {}, <<<<"Authorization", "x">>, <<"">>>>)}

\* Metadata that differ in one name, or in where a "|" stands.
Meta(project, environment, service, deployment) ==
  "project_name" :> project @@ "environment_name" :> environment @@ "service_name" :> service
    @@ "deployment_id" :> deployment
Metas == {Meta("p", "e", "s", "1"), Meta("p", "e", "s", "2"),
          Meta("q", "e|project_name:p", "s", "1"), Meta("p|project_name:q", "e", "s", "1")}

Log(http, meta, message, severity, status, attrs) ==
  [http |-> http, meta |-> meta, time |-> "08:00", message |-> message, severity |-> severity,
   status |-> status, attrs |-> attrs]

\* Three logs of any of the metadata, with any severities.
Mixed ==
  {[i \in 1 .. 3 |-> Log(FALSE, m[i], <<"a", "b", "c">>[i], "info", 0, <<>>)] : m \in [1 .. 3 -> Metas]}
    \cup {<<Log(FALSE, m, "a", s, 0, <<>>)>> : m \in Metas,
            s \in {"debug", "info", "warn", "warning", "err", "error", "fatal", "critical", "notice"}}
    \cup {<<Log(TRUE, m, "a", "", s, <<>>)>> : m \in Metas, s \in {0, 200, 399, 400, 499, 500, 599}}

Attr(key, val) == [key |-> key, val |-> val]
Nested == [t |-> "object", of |->
             <<Attr("b", Leaf("integer", "7")),
               Attr("c", [t |-> "array", of |-> <<Attr("0", Leaf("text", "x")), Attr("1", Leaf("null", "null"))>>])>>]
Attrs ==
  {Attr(k, Leaf("text", v)) : k \in {"host", "_host", "message", "at", "_time", "level", "_metadata"},
                              v \in {"x", "1", "t", "09:00"}}
    \cup {Attr(k, v) : k \in {"a", "host"}, v \in {Nested, Leaf("decimal", "0.5"), Leaf("true", "true"), Leaf("null", "null")}}
    \cup {Attr(k, Leaf("integer", "7")) : k \in {"a__b", "a__c_0", "timestamp"}}

\* Numbers at the limits of int64 and float64, texts that are JSON, and what is empty.
Big == Leaf("integer", "9007199254740993")
OddValues ==
  {Leaf("text", v) : v \in {"007", "9007199254740993", "9223372036854775809", "{}", "[]",
                            "{\"b\":7}", "[9007199254740993]", "\"x\"", "null", "0", "f"}}
    \cup {Big, Leaf("integer", "9223372036854775809"), Leaf("decimal", "0.12345678901234567890"),
          Leaf("false", "false"), Object(<<>>), Array(<<>>), Object(<<Attr("b", Array(<<>>))>>),
          Object(<<Attr("b", Big)>>), Array(<<Attr("0", Leaf("text", "007")), Attr("1", Object(<<>>))>>)}
OddAttrs == {Attr("a", v) : v \in OddValues}

\* One log with up to two attributes, or with the fields of an HTTP log and one more.
Single ==
  {<<Log(FALSE, Meta("p", "e", "s", "1"), "a", "info", 0, attrs)>> : attrs \in
     {<<>>} \cup {<<a>> : a \in Attrs} \cup {<<p[1], p[2]>> : p \in {q \in Attrs \X Attrs : q[1].key # q[2].key}}
            \cup {<<a>> : a \in OddAttrs} \cup {<<a, Attr("a__b", Leaf("text", "x"))>> : a \in OddAttrs}}
    \cup {<<Log(TRUE, Meta("p", "e", "s", "1"), "/", "", 500,
               <<Attr("path", Leaf("text", "/")), Attr("timestamp", Leaf("text", "08:00")), a, b>>)>> :
            a \in {Attr("host", Leaf("text", "h")), Attr("_host", Leaf("text", "h")),
                   Attr("host", Big), Attr("host", Object(<<Attr("b", Big)>>))},
            b \in OddAttrs \cup {a \in Attrs : a.key \notin {"timestamp", "host", "_host", "_metadata"}} \cup {Attr("service", Leaf("text", "x"))}}

MCBatches == Mixed \cup Single
=============================================================================
