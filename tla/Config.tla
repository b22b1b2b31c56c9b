------------------------------- MODULE Config -------------------------------
(***************************************************************************)
(* The start of the process (internal/config): the environment variables   *)
(* are read, the webhook mode is set, and the mode is compared with the    *)
(* host of the webhook and with the headers.                               *)
(*                                                                         *)
(* A host stands for the set of the known words that it contains, and a    *)
(* header for its name, regardless of case.                                *)
(***************************************************************************)
EXTENDS Integers, Sequences

CONSTANT Inputs   \* the environments a process is started with
                  \* ([parses, enabled, mode, host, headers])

VARIABLES
  phase,              \* where the process stands
  input,              \* its environment
  webhookMode,
  visited,            \* the modes that the loop over the hosts has seen
  hostMisconfigured,
  warnings            \* what has been warned of

configVars == <<phase, input, webhookMode, visited, hostMisconfigured, warnings>>

Modes == {"json", "jsonl", "papertrail", "datadog", "axiom", "betterstack", "loki", "sentry",
          "otel_http", "signoz", "victorialogs"}
DefaultWebhookMode == "json"

ExpectedHostContains(mode) ==
  CASE mode = "loki"         -> {"loki", "grafana"}
    [] mode = "papertrail"   -> {"solarwinds"}
    [] mode = "victorialogs" -> {"victorialogs", "victoriametrics"}
    [] mode = "signoz"       -> {"signoz.cloud"}
    [] mode \in {"datadog", "axiom", "betterstack", "sentry"} -> {mode}
    [] OTHER -> {}

ExpectedHeaders(mode) ==
  CASE mode \in {"papertrail", "axiom", "betterstack"} -> {"Authorization"}
    [] mode = "datadog" -> {"DD-API-KEY", "DD-APPLICATION-KEY"}
    [] mode = "sentry"  -> {"X-Sentry-Auth"}
    [] mode = "signoz"  -> {"signoz-ingestion-key"}
    [] OTHER -> {}

ContainsAnyHost(host, mode) == host \cap ExpectedHostContains(mode) # {}

\* The text of the additional headers, cut at each ";": a segment is a key with its
\* value, or a key alone, which is an error.
HeadersParse(text) == \A i \in DOMAIN text : Len(text[i]) = 2
UnmarshalText(text) == {text[i][1] : i \in DOMAIN text}

\* What else does not parse is an error too.  That nothing is enabled is one only then.
HasErrors(in) == ~in.parses \/ ~HeadersParse(in.headers) \/ in.enabled = {}

ConfigTypeOK ==
  /\ phase \in {"parse", "hosts", "headers", "ready", "serialize", "exited"}
  /\ phase # "serialize" => input \in Inputs
  /\ webhookMode \in Modes /\ visited \subseteq Modes
  /\ hostMisconfigured \in BOOLEAN /\ warnings \subseteq {"host", "header"}

ConfigInit ==
  /\ phase = "parse" /\ input \in Inputs
  /\ webhookMode = DefaultWebhookMode
  /\ visited = {} /\ hostMisconfigured = FALSE /\ warnings = {}

ExitOnErrors ==
  /\ phase = "parse" /\ HasErrors(input)
  /\ phase' = "exited"
  /\ UNCHANGED <<input, webhookMode, visited, hostMisconfigured, warnings>>

\* An unknown mode is replaced by the default.
SetMode ==
  /\ phase = "parse" /\ ~HasErrors(input)
  /\ webhookMode' = IF input.mode \in Modes THEN input.mode ELSE DefaultWebhookMode
  /\ phase' = "hosts"
  /\ UNCHANGED <<input, visited, hostMisconfigured, warnings>>

Visit(mode, misconfigured, break) ==
  /\ visited' = visited \cup {mode}
  /\ hostMisconfigured' = (hostMisconfigured \/ misconfigured)
  /\ phase' = IF break \/ visited' = Modes THEN "headers" ELSE phase
  /\ UNCHANGED <<input, webhookMode>>
  /\ warnings' = IF phase' = "headers" /\ hostMisconfigured' THEN warnings \cup {"host"} ELSE warnings

\* Mistake: the loop ends with the mode itself.
VisitOwnAndStop(mode) ==
  /\ phase = "hosts" /\ mode \in Modes \ visited /\ mode = webhookMode
  /\ Visit(mode, ExpectedHostContains(mode) # {} /\ ~ContainsAnyHost(input.host, mode), TRUE)

\* The loop visits the modes in any order.
VisitOwn(mode) ==
  /\ phase = "hosts" /\ mode \in Modes \ visited /\ mode = webhookMode
  /\ Visit(mode, ExpectedHostContains(mode) # {} /\ ~ContainsAnyHost(input.host, mode), FALSE)

\* The loop ends at the first other mode that fits the host.
VisitOther(mode) ==
  /\ phase = "hosts" /\ mode \in Modes \ visited /\ mode # webhookMode
  /\ Visit(mode, ContainsAnyHost(input.host, mode), ContainsAnyHost(input.host, mode))

MissingHeaders == ExpectedHeaders(webhookMode) \ UnmarshalText(input.headers)

CheckHeaders ==
  /\ phase = "headers"
  /\ warnings' = IF MissingHeaders # {} /\ ~hostMisconfigured THEN warnings \cup {"header"} ELSE warnings
  /\ phase' = "ready"
  /\ UNCHANGED <<input, webhookMode, visited, hostMisconfigured>>

ConfigStep ==
  \/ ExitOnErrors \/ SetMode \/ CheckHeaders
  \/ \E mode \in Modes : VisitOwn(mode) \/ VisitOther(mode)

\* The variables of init are gone, and the rest of the process reads no more than the mode
\* and what is enabled.
GoOn ==
  /\ phase = "ready"
  /\ phase' = "serialize"
  /\ input' = [enabled |-> input.enabled]
  /\ visited' = {} /\ hostMisconfigured' = FALSE /\ warnings' = {}
  /\ UNCHANGED webhookMode

-----------------------------------------------------------------------------
\* When the process goes on, it is configured without an error, and it has warned
\* at most once: of a host that fits another mode or does not fit the mode, whatever
\* the order of the loop, or else of a header that is missing.
WarningsFit ==
  phase = "ready" =>
    LET odd == \/ \E m \in Modes \ {webhookMode} : ContainsAnyHost(input.host, m)
               \/ ExpectedHostContains(webhookMode) # {} /\ ~ContainsAnyHost(input.host, webhookMode)
    IN /\ ~HasErrors(input)
       /\ warnings = IF odd THEN {"host"} ELSE IF MissingHeaders # {} THEN {"header"} ELSE {}
=============================================================================
