---------------------------- MODULE MCAssurance ----------------------------
(***************************************************************************)
(* Extracted events of four families; windows of up to three batches over  *)
(* a baseline of two fields, read as text where plain lines dominate;      *)
(* specifications that differ by a dropped, a moved, an inverted and an    *)
(* emptied field; one block and one login as golden events.                *)
(***************************************************************************)
EXTENDS Assurance, TLC

MCParts ==
    "deny" :> {"deny"} @@ "auth" :> {"auth"} @@ "login_failed" :> {"login", "fail"} @@ "login" :> {"login"}
      @@ "allow" :> {"allow"} @@ "sudo" :> {"sudo"} @@ "delete" :> {"delete"} @@ "denied" :> {"denied"}
      @@ "network_connection" :> {"network"} @@ "security_event" :> {"security"} @@ "privilege_use" :> {"privilege"}

\* All ways to give some of the paths a value.
Assignments(options) ==
    {f \in [DOMAIN options -> UNION {options[p] : p \in DOMAIN options}] : \A p \in DOMAIN options : f[p] \in options[p]}
Given(f) == [p \in {q \in DOMAIN f : f[q] # ""} |-> f[p]]
Numbers(path, n) == {<<>>, path :> n}
Events(options, ints) == {[str |-> Given(f), int |-> i] : f \in Assignments(options), i \in ints}

MCExtractions ==
    Events("event.action" :> {"", "auth", "login", "login_failed", "sudo"} @@ "event.outcome" :> {"", "failure", "success"}
              @@ "user.name" :> {"", "root"} @@ "src.ip" :> {"", "a"} @@ "event.class" :> {"", "privilege_use"}, {<<>>})
      \cup Events("event.action" :> {"deny", "allow", ""} @@ "src.ip" :> {"", "a"} @@ "dst.ip" :> {"", "b", "nowhere"}
              @@ "event.outcome" :> {"", "denied"}, Numbers("dst.port", 445) \cup Numbers("network.bytes", 10000000) \cup Numbers("src.port", 70000))
      \cup Events("event.action" :> {"delete"} @@ "event.class" :> {"", "file"} @@ "event.outcome" :> {"", "success"}, {<<>>})
      \cup Events("http.url" :> {"", "u"} @@ "http.request.method" :> {"", "get"} @@ "dns.query_name" :> {"", "q"}
              @@ "dns.query_type" :> {"", "any"}, Numbers("http.response.status_code", 403))
MCUnknown == {[str |-> <<>>], [str |-> "uri" :> "u"]}

Message == "text" :> ("message" :> "string")
Line(format, types) == [format |-> format, reads |-> (format :> types) @@ Message]
Usual == "port" :> "integer" @@ "user" :> "string"
\* "mixed" looks like JSON and is read as key-value pairs as well; "hollow" is "{}".
MCLineKinds ==
    "usual" :> Line("key_value", Usual)
      @@ "empty" :> Line("key_value", "port" :> "null" @@ "user" :> "string")
      @@ "retyped" :> Line("key_value", "port" :> "string" @@ "user" :> "string")
      @@ "shorter" :> Line("key_value", "user" :> "string")
      @@ "longer" :> Line("key_value", Usual @@ "host" :> "string")
      @@ "mixed" :> [format |-> "json", reads |-> "json" :> Usual @@ "key_value" :> ("user" :> "string") @@ Message]
      @@ "hollow" :> Line("json", <<>>)
      @@ "plain" :> [format |-> "text", reads |-> Message]
MCBaseline == <<<<"usual", 60>>>>

FieldTo(path, enum) == [map_to |-> path, type |-> "string", enum |-> enum]
Verdicts == "d" :> "deny" @@ "a" :> "allow"
MCSpecs ==
    {"act" :> FieldTo("event.action", Verdicts) @@ "s" :> FieldTo("src.ip", <<>>),
     "act" :> FieldTo("event.action", Verdicts),
     "act" :> FieldTo("event.action", "d" :> "allow" @@ "a" :> "allow") @@ "s" :> FieldTo("src.ip", <<>>),
     "act" :> FieldTo("event.action", "d" :> "" @@ "a" :> "allow") @@ "s" :> FieldTo("src.ip", <<>>),
     "act" :> FieldTo("event.action", Verdicts) @@ "x" :> FieldTo("src.ip", <<>>),
     "act" :> FieldTo("event.action", <<>>) @@ "s" :> FieldTo("src.ip", <<>>),
     "act" :> FieldTo("event.action", Verdicts) @@ "p" :> [map_to |-> "dst.port", type |-> "integer", enum |-> <<>>]}

Ev(action, ip) == [str |-> Given("event.action" :> action @@ "src.ip" :> ip), int |-> <<>>]
MCHistories == UNION {[1..n -> {Ev("deny", "a"), Ev("deny", ""), Ev("allow", "a"), Ev("auth", "")}] : n \in 0..2}

MCRawEvents ==
    {"act" :> "d" @@ "s" :> "a", "act" :> "d" @@ "x" :> "a", "act" :> "a" @@ "s" :> "a" @@ "x" :> "b", "act" :> "deny",
     "act" :> "a" @@ "p" :> "80", "act" :> "a" @@ "p" :> "word"}
MCGoldens ==
    {[extracted |-> "event.action" :> "deny" @@ "src.ip" :> "a", unknown |-> <<>>, critical |-> {"src.ip"}],
     [extracted |-> "event.action" :> "allow", unknown |-> "x" :> "b", critical |-> {"event.action"}],
     [extracted |-> "event.action" :> "deny" @@ "src.ip" :> "a", unknown |-> <<>>, critical |-> {"src.ip", "user.name"}],
     [extracted |-> "event.action" :> "allow" @@ "dst.port" :> "80 as number", unknown |-> <<>>, critical |-> {"dst.port"}],
     [extracted |-> "event.action" :> "deny", unknown |-> <<>>, critical |-> {}]}
\* A word is no number: int() raises and the value stays.
MCCast ==
    [v \in {"", "d", "a", "b", "deny", "allow", "80", "word"} |->
        "string" :> v @@ "integer" :> (IF v = "80" THEN "80 as number" ELSE v)]
=============================================================================
