--------------------------- MODULE Normalization ---------------------------
(***************************************************************************)
(* Normalizer.Normalize (apps/normalize-worker/main.go) and                *)
(* NormalizedEvent.Validate (ir.go).  The input is what the parser         *)
(* extracted; fields the event has no place for are not carried over.      *)
(***************************************************************************)
EXTENDS DetectionContracts

CONSTANT Malformed   \* words that are neither an address nor a time

Present(ex, path) == path \in DOMAIN ex.str \cup DOMAIN ex.int
Or(word, default) == IF word # "" THEN word ELSE default
NonEmpty(f) == [p \in {q \in DOMAIN f : f[q] # ""} |-> f[p]]
Pick(ints, names) == [p \in {q \in DOMAIN names : names[q] \in DOMAIN ints} |-> ints[names[p]]]

\* The outcome is read off the action; whatever was extracted as outcome is not used.
OutcomeOf(action) ==
    IF Holds(action, {"block", "deny", "drop", "fail"}) THEN "failure"
    ELSE IF Holds(action, {"allow", "permit", "success", "login"}) THEN "success"
    ELSE "unknown"

IsWeb(ex) == Present(ex, "http.response.status_code") \/ Present(ex, "http.request.method")

\* The event class, when none was extracted.
InferredClass(ex, format) ==
    IF IsWeb(ex) THEN "web_access"
    ELSE IF Present(ex, "user.name") THEN "authentication"
    ELSE IF Present(ex, "alert.severity") \/ Present(ex, "alert.name") \/ format = "cef" THEN "malware_alert"
    ELSE IF Present(ex, "src.ip") /\ Present(ex, "dst.ip") THEN "network_connection"
    ELSE "security_event"

ActionOf(ex) == Or(Str(ex, "event.action"), "unknown")

StringPaths ==
    {"event.action", "event.outcome", "event.time", "event.class", "source.vendor", "src.ip", "dst.ip",
     "network.protocol", "user.name", "device.hostname", "http.method", "http.url",
     "dns.query_name", "dns.query_type", "dns.response_code", "alert.severity", "alert.name"}

\* The string fields of the event; a method or an URL has a place only in a web event.
StringField(ex, unknown, format, path) ==
    CASE path = "event.action" -> ActionOf(ex)
      [] path = "event.outcome" -> OutcomeOf(ActionOf(ex))
      [] path = "event.time" -> Or(Str(ex, "event.timestamp"), "now")
      [] path = "event.class" -> Or(Str(ex, "event.class"), InferredClass(ex, format))
      [] path = "source.vendor" -> Or(Str(ex, "observer.vendor"), "unknown")
      [] path = "network.protocol" -> Or(Str(ex, "network.transport"), Str(ex, "network.protocol"))
      [] path = "device.hostname" -> Str(ex, "host.name")
      [] path = "http.method" -> Str(ex, "http.request.method")
      [] path = "http.url" ->
            IF ~IsWeb(ex) THEN ""
            ELSE IF "http.url" \in DOMAIN ex.str THEN ex.str["http.url"] ELSE Str(unknown, "uri")
      [] path \in {"src.ip", "dst.ip", "user.name", "dns.query_name", "dns.query_type", "dns.response_code",
                   "alert.severity", "alert.name"} -> Str(ex, path)

\* Ports and status code: the event's name -> the extracted one.
IntFields ==
    [path \in {"src.port", "dst.port", "http.status_code"} |->
        IF path = "http.status_code" THEN "http.response.status_code" ELSE path]

\* Mutant: the class is always inferred.
MutNormalize(ex, unknown, format) ==
    [str |-> NonEmpty([path \in StringPaths |-> IF path = "event.class" THEN InferredClass(ex, format)
                                               ELSE StringField(ex, unknown, format, path)]),
     int |-> Pick(ex.int, IntFields), extensions |-> unknown]

\* Normalize: the event, with everything the parser did not map in its extensions.
Normalize(ex, unknown, format) ==
    [str |-> NonEmpty([path \in StringPaths |-> StringField(ex, unknown, format, path)]),
     int |-> Pick(ex.int, IntFields), extensions |-> unknown]

\* Validate: what an extraction can get wrong.
Valid(event) ==
    /\ {Str(event, "event.time"), Str(event, "src.ip"), Str(event, "dst.ip")} \cap Malformed = {}
    /\ \A p \in DOMAIN event.int \cap {"src.port", "dst.port"} : event.int[p] \in 0..65535

\* What was extracted, under the names the contracts use.
Extracted(ex) ==
    LET named == Pick(ex.int, IntFields)
    IN  [str |-> ex.str,
         int |-> [path \in DOMAIN named \cup DOMAIN ex.int |-> IF path \in DOMAIN named THEN named[path] ELSE ex.int[path]]]
=============================================================================
