--------------------------- MODULE SemanticMapper ---------------------------
(***************************************************************************)
(* SemanticMapper and CanonicalKnowledgeBase (ml/semantic_mapper/mapper.py)*)
(* Scores are integers in units of 1/100000.  Names are compared by        *)
(* `Lexical`, the outcome of the alias tables and of difflib.              *)
(***************************************************************************)
EXTENDS Integers, Sequences, TLC

CONSTANTS
    RawNames,  \* raw field names
    Lexical,   \* name -> path -> [kind : path, alias or similar; ratio : thousandths]
    Family     \* paths whose event families hold the event family the caller names

Address == {"ip", "ipv4", "ipv6"}
FieldDef(types, critical) == [types |-> types, critical |-> critical]

\* The catalog of canonical fields, section by section.
PerimeterFields ==
    [p \in {"src.ip", "dst.ip"} |-> FieldDef(Address, TRUE)]
      @@ [p \in {"src.port", "dst.port"} |-> FieldDef({"integer"}, TRUE)]
EventFields ==
    [p \in {"event.action", "event.class"} |-> FieldDef({"string"}, TRUE)]
      @@ ("event.outcome" :> FieldDef({"string", "boolean"}, TRUE))
      @@ ("event.time" :> FieldDef({"timestamp", "integer", "float"}, TRUE))
TransportFields ==
    [p \in {"network.bytes_in", "network.bytes_out", "network.packets"} |-> FieldDef({"integer"}, FALSE)]
      @@ ("network.protocol" :> FieldDef({"string"}, FALSE))
IdentityFields ==
    "user.name" :> FieldDef({"string"}, TRUE) @@ "user.id" :> FieldDef({"string", "integer"}, TRUE)
      @@ "user.email" :> FieldDef({"string", "email"}, FALSE) @@ "user.domain" :> FieldDef({"string"}, FALSE)
WebFields ==
    [p \in {"http.method", "http.user_agent"} |-> FieldDef({"string"}, FALSE)]
      @@ ("http.status_code" :> FieldDef({"integer"}, FALSE)) @@ ("http.url" :> FieldDef({"url", "string"}, FALSE))
DNSFields ==
    [p \in {"dns.query_type", "dns.response_code"} |-> FieldDef({"string", "integer"}, FALSE)]
      @@ ("dns.query_name" :> FieldDef({"string"}, FALSE))
DeviceFields ==
    "device.hostname" :> FieldDef({"string"}, FALSE) @@ "device.ip" :> FieldDef(Address, FALSE)

Catalog == PerimeterFields @@ EventFields @@ TransportFields @@ IdentityFields @@ WebFields @@ DNSFields @@ DeviceFields

\* get_all_fields: the order of insertion.
CatalogOrder ==
    <<"src.ip", "dst.ip", "src.port", "dst.port", "event.action", "event.outcome", "event.time",
      "event.class", "network.protocol", "network.bytes_in", "network.bytes_out", "network.packets",
      "user.name", "user.id", "user.email", "user.domain", "http.method", "http.status_code",
      "http.url", "http.user_agent", "dns.query_name", "dns.query_type", "dns.response_code",
      "device.hostname", "device.ip">>

\* A name equals a path, an alias of it, or is similar to some degree.
ASSUME LexicalAssumption ==
    \A name \in RawNames, i \in DOMAIN CatalogOrder :
        /\ Lexical[name][CatalogOrder[i]] \in [kind : {"path", "alias", "similar"}, ratio : Nat]
        /\ Lexical[name][CatalogOrder[i]].ratio <= 1000

AUTO_ACCEPT_THRESHOLD == 95000
HUMAN_REVIEW_THRESHOLD == 80000

-----------------------------------------------------------------------------
\* A field profile: inferred type, whether it looks like an enumeration, and its
\* sample values in order (zero, another number, a word, an address).

\* all(int(str(v)) for v in samples) stops at the first zero, which is false, or
\* raises at the first value that is no number: a word or an address.
ParsedAsInt(samples) ==
    /\ samples # <<>>
    /\ \A i \in DOMAIN samples :
          samples[i] \notin {"zero", "number"} => \E j \in 1..(i - 1) : samples[j] = "zero"

\* evaluate_type_compatibility, rule after rule.
TypeCompatibility(profile, types) ==
    LET raw == profile.type IN
    CASE raw = "null" \/ raw \in types -> "compatible"
      [] types \cap Address # {} /\ raw \in Address -> "compatible"
      [] "float" \in types /\ raw = "integer" -> "compatible"
      [] OTHER ->
            IF "integer" \in types /\ raw \in {"string", "ipv4", "ipv6", "timestamp", "email", "url", "json", "array"}
            THEN IF ParsedAsInt(profile.samples) THEN "compatible" ELSE "conflict"
            ELSE IF \/ types \cap Address # {} /\ raw \in {"boolean", "float", "array", "json", "string"}
                    \/ "timestamp" \in types /\ raw \in {"boolean", "array", "json", "ipv4", "ipv6"}
            THEN "conflict" ELSE "mismatch"

\* Lexical and alias matching.
BaseScore(match) ==
    IF match.kind = "path" THEN 100000
    ELSE IF match.kind = "alias" THEN 98000
    ELSE match.ratio * (IF match.ratio >= 750 THEN 88 ELSE IF match.ratio >= 500 THEN 60 ELSE 40)

Least(a, b) == IF a < b THEN a ELSE b

\* Mutant: the penalty of a hard conflict has no ceiling.
MutTypedScore(base, compat, type) ==
    IF compat = "conflict" THEN base - 3500
    ELSE IF compat = "mismatch" THEN base - 15000
    ELSE IF type \in {"ipv4", "ipv6", "timestamp", "email", "url"} THEN Least(100000, base + 2000)
    ELSE base

\* The score after the type check.
TypedScore(base, compat, type) ==
    IF compat = "conflict" THEN Least(base - 35000, 65000)
    ELSE IF compat = "mismatch" THEN base - 15000
    ELSE IF type \in {"ipv4", "ipv6", "timestamp", "email", "url"} THEN Least(100000, base + 2000)
    ELSE base

Bonus(score, points, earned) == IF earned THEN Least(100000, score + points) ELSE score

\* Value profile and event family, then rounding to four digits.
FinalScore(name, profile, path) ==
    LET types == Catalog[path].types
        typed == TypedScore(BaseScore(Lexical[name][path]), TypeCompatibility(profile, types), profile.type)
        ip == Bonus(typed, 3000, profile.type \in {"ipv4", "ipv6"} /\ types \cap {"ip", "ipv4"} # {})
        time == Bonus(ip, 3000, profile.type = "timestamp" /\ "timestamp" \in types)
        enum == Bonus(time, 3000, profile.enum /\ path \in {"event.action", "event.outcome", "network.protocol"})
        family == Bonus(enum, 2000, path \in Family)
    IN  IF family < 0 THEN 0 ELSE 10 * ((family + 5) \div 10)

\* score_candidate.
ScoreCandidate(name, profile, path) ==
    LET score == FinalScore(name, profile, path)
        conflict == TypeCompatibility(profile, Catalog[path].types) = "conflict"
    IN  [path |-> path, score |-> score, conflict |-> conflict,
         status |-> IF score < HUMAN_REVIEW_THRESHOLD THEN "ABSTAIN"
                    ELSE IF conflict \/ score < AUTO_ACCEPT_THRESHOLD THEN "HUMAN_REVIEW"
                    ELSE "AUTO_ACCEPTED"]

\* map_field: a stable sort by score, then the first candidate.
MapField(name, profile) ==
    LET candidates == [i \in DOMAIN CatalogOrder |-> ScoreCandidate(name, profile, CatalogOrder[i])]
    IN  candidates[CHOOSE i \in DOMAIN candidates :
            \A j \in DOMAIN candidates :
                candidates[i].score > candidates[j].score
                    \/ (candidates[i].score = candidates[j].score /\ i <= j)]

\* map_source: the report, one result for every profiled field.
MapSource(fields) == [name \in DOMAIN fields |-> MapField(name, fields[name])]
=============================================================================
