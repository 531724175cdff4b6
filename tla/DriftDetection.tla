--------------------------- MODULE DriftDetection ---------------------------
(***************************************************************************)
(* StructuralDriftDetector (ml/drift/structural.py), on the profiles       *)
(* UnknownSourceProfiler.profile aggregates, and SemanticDriftDetector     *)
(* (ml/drift/semantic.py).  Rates are compared as fractions; a window is a *)
(* sequence of line kinds with their numbers.                              *)
(***************************************************************************)
EXTENDS DetectionContracts, Sequences, FiniteSets, FiniteSetsExt, SequencesExt

CONSTANTS
    LineKinds,   \* kind -> [format, reads : format -> (name -> type)]: the format detect_format
                 \* sees, and the formats whose parsers read the line, with what they read
    SampleLimit  \* sample_limit: the lines that vote on the dominant format

Total(S, f(_)) == FoldSet(LAMBDA x, n : n + f(x), 0, S)
Distance(a, b) == IF a > b THEN a - b ELSE b - a

\* A window: <<kind, how many lines>>, ...
Times(window, i) == window[i][2]
Kind(window, i) == LineKinds[window[i][1]]

-----------------------------------------------------------------------------
\* The lines of a batch that are among the first SampleLimit lines.
Sampled(window, i) ==
    Max({0, Min({Times(window, i), SampleLimit - Total(1..(i - 1), LAMBDA k : Times(window, k))})})
Voters(window, format) == {i \in DOMAIN window : Kind(window, i).format = format /\ Sampled(window, i) > 0}
Votes(window, format) == Total(Voters(window, format), LAMBDA i : Sampled(window, i))
Voted(window) == {Kind(window, i).format : i \in {k \in DOMAIN window : Sampled(window, k) > 0}}

\* detect_batch_format: the format with most votes, of several the first met.
Dominant(window) ==
    CHOOSE f \in Voted(window) : \A g \in Voted(window) \ {f} :
        \/ Votes(window, f) > Votes(window, g)
        \/ Votes(window, f) = Votes(window, g) /\ Min(Voters(window, f)) < Min(Voters(window, g))

\* The format profile reads a line in.  parse_record is given the dominant format, and
\* if that yields nothing, the one the line looks like.  Plain text is always read, as
\* a message, when it dominates, and never otherwise.
ReadAs(line, dominant) ==
    IF dominant \in DOMAIN line.reads /\ DOMAIN line.reads[dominant] # {} THEN dominant
    ELSE IF line.format # "text" /\ line.format \in DOMAIN line.reads THEN line.format ELSE "none"
Reading(line, format) == IF format = "none" THEN <<>> ELSE line.reads[format]

\* What profile makes of each batch, and the votes it starts from.
Profile(window) ==
    LET dominant == Dominant(window)
    IN  [votes |-> [f \in Voted(window) |-> Votes(window, f)],
         batches |-> [i \in DOMAIN window |->
            LET format == ReadAs(Kind(window, i), dominant)
            IN  [lines |-> Times(window, i), format |-> format, types |-> Reading(Kind(window, i), format)]]]

\* What a profile says.  A line no parser reads is corrupted and has no fields.
Lines(profile, indices) == Total(indices, LAMBDA i : profile.batches[i].lines)
Read(profile, format) == {i \in DOMAIN profile.batches : profile.batches[i].format = format}
TotalRecords(profile) == Lines(profile, DOMAIN profile.batches)
CorruptedRecords(profile) == Lines(profile, Read(profile, "none"))
Typed(profile, name) == {i \in DOMAIN profile.batches : name \in DOMAIN profile.batches[i].types}
FieldNames(profile) == UNION {DOMAIN profile.batches[i].types : i \in DOMAIN profile.batches}

\* format_distribution: the records read in a format, or else the votes for it.
Formats(profile) == DOMAIN profile.votes \cup ({profile.batches[i].format : i \in DOMAIN profile.batches} \ {"none"})
OfFormat(profile, format) ==
    LET records == Lines(profile, Read(profile, format))
    IN  IF records > 0 THEN records ELSE IF format \in DOMAIN profile.votes THEN profile.votes[format] ELSE 0

\* inferred_type: the most frequent type that is not null, of several the first met.
InferredType(profile, name) ==
    LET typed == Typed(profile, name)
        types == {profile.batches[i].types[name] : i \in typed}
        of(t) == {i \in typed : profile.batches[i].types[name] = t}
    IN  IF types \subseteq {"null"} THEN "null"
        ELSE CHOOSE t \in types \ {"null"} : \A u \in types \ {"null", t} :
                \/ Lines(profile, of(t)) > Lines(profile, of(u))
                \/ Lines(profile, of(t)) = Lines(profile, of(u)) /\ Min(of(t)) < Min(of(u))

\* The signals of compare_profiles, as fractions <<n, d>>.
ParseFailures(current) == <<CorruptedRecords(current), Max({1, TotalRecords(current)})>>
\* Mutant: fields that have disappeared do not count.
MutKeySetDistance(base, current) ==
    <<Cardinality(FieldNames(current) \ FieldNames(base)), Max({1, Cardinality(FieldNames(current))})>>
KeySetDistance(base, current) ==
    LET union == FieldNames(base) \cup FieldNames(current)
    IN  <<Cardinality(union) - Cardinality(FieldNames(base) \cap FieldNames(current)), Max({1, Cardinality(union)})>>
UnknownFields(base, current) ==
    <<Cardinality(FieldNames(current) \ FieldNames(base)), Max({1, Cardinality(FieldNames(current))})>>
Mutated(base, current, name) ==
    LET was == InferredType(base, name)
        is == InferredType(current, name)
    IN  was # is /\ was # "null" /\ is # "null"
TypeViolations(base, current) ==
    LET shared == FieldNames(base) \cap FieldNames(current)
    IN  <<Cardinality({name \in shared : Mutated(base, current, name)}), Max({1, Cardinality(shared)})>>

\* Total variation distance; none when either side is empty.
Divergence(sizeA, sizeB, countA, countB) ==
    IF sizeA = 0 \/ sizeB = 0 THEN <<0, 1>>
    ELSE <<Total(DOMAIN countA, LAMBDA k : Distance(countA[k] * sizeB, countB[k] * sizeA)), 2 * sizeA * sizeB>>
FormatDivergence(base, current) ==
    LET formats == Formats(base) \cup Formats(current)
        size(profile) == Total(formats, LAMBDA f : OfFormat(profile, f))
    IN  Divergence(size(base), size(current), [f \in formats |-> OfFormat(base, f)],
                   [f \in formats |-> OfFormat(current, f)])

Exceeds(rate, perMille) == rate[1] * 1000 > perMille * rate[2]

\* compare_profiles: the drift state.
StructuralState(base, current) ==
    IF \/ Exceeds(TypeViolations(base, current), 5) \/ Exceeds(ParseFailures(current), 20)
       \/ Exceeds(KeySetDistance(base, current), 150)
    THEN "DRIFTED"
    ELSE IF Exceeds(UnknownFields(base, current), 50) \/ Exceeds(FormatDivergence(base, current), 200)
    THEN "SUSPECTED" ELSE "STABLE"

-----------------------------------------------------------------------------
\* n / d rounded to four digits, in units of 1/10000.  Of a tie the float nearest to
\* the quotient, or to a difference of quotients, may lie on either side.
Rounded(n, d, up) == (20000 * n + (IF up THEN d ELSE d - 1)) \div (2 * d)

\* The signals that can tie; a set of them holds the ones whose ties are rounded up.
Signals == {"enum", "family", "dps"}

\* A specification: raw field -> [map_to, enum : raw value -> canonical value].
CRITICAL_CANONICAL_FIELDS ==
    {"src.ip", "dst.ip", "src.port", "dst.port", "event.action", "event.outcome", "user.name"}

\* canonical field -> raw field, of the critical ones.  No two raw fields of a
\* specification have one canonical field here; the code takes the last of them.
CriticalMap(spec) ==
    [path \in {spec[raw].map_to : raw \in DOMAIN spec} \cap CRITICAL_CANONICAL_FIELDS |->
        CHOOSE raw \in DOMAIN spec : spec[raw].map_to = path]

\* _check_critical_mapping_drift: a share of at most seven fields does not tie.
CriticalMappingDrift(base, cand) ==
    LET was == CriticalMap(base)
        is == CriticalMap(cand)
    IN  Rounded(Cardinality({p \in DOMAIN was : p \notin DOMAIN is \/ is[p] # was[p]}),
                Max({1, Cardinality(DOMAIN was)}), TRUE)

ActionEnum(spec) ==
    IF \E raw \in DOMAIN spec : spec[raw].map_to = "event.action"
    THEN spec[CHOOSE raw \in DOMAIN spec : spec[raw].map_to = "event.action"].enum ELSE <<>>

\* A raw value is turned into another action; an empty one is none.
Inverted(was, is) == \E v \in DOMAIN was \cap DOMAIN is : is[v] # "" /\ is[v] # was[v]
\* The share of events whose action is none of the known ones.
Undeclared(events, known, up) ==
    Rounded(Cardinality({i \in DOMAIN events : Has(events[i], "event.action") /\ Action(events[i]) \notin known}),
            Max({1, Len(events)}), up)

\* Mutant: a meaning turned into another is not looked for.
MutEnumDrift(base, cand, events, up) ==
    LET was == ActionEnum(base)
        is == ActionEnum(cand)
        known == {was[v] : v \in DOMAIN was} \cup {is[v] : v \in DOMAIN is}
    IN  IF was = <<>> THEN 0
        ELSE Undeclared(events, known, up)

\* _check_enum_behavior_drift
EnumDrift(base, cand, events, up) ==
    LET was == ActionEnum(base)
        is == ActionEnum(cand)
        known == {was[v] : v \in DOMAIN was} \cup {is[v] : v \in DOMAIN is}
    IN  IF Inverted(was, is) THEN 10000
        ELSE IF was = <<>> THEN 0
        ELSE Undeclared(events, known, up)

\* get_family
Family(event) ==
    IF Has(event, "event.class") THEN Class(event)
    ELSE IF Holds(Action(event), {"auth", "login"}) \/ Has(event, "user.name") THEN "auth"
    ELSE IF "http.response.status_code" \in DOMAIN event.int THEN "http"
    ELSE IF Has(event, "dns.query_name") THEN "dns"
    ELSE IF Has(event, "src.ip") \/ Has(event, "dst.ip") THEN "network" ELSE "general"

\* _check_event_family_drift
FamilyDrift(base, cand, up) ==
    LET families == {Family(e) : e \in ToSet(base) \cup ToSet(cand)}
        count(events) == [f \in families |-> Cardinality({i \in DOMAIN events : Family(events[i]) = f})]
        tvd == Divergence(Len(base), Len(cand), count(base), count(cand))
    IN  Rounded(tvd[1], tvd[2], up)

\* eval_blocked_preservation
IsBlock(event) == Holds(Action(event), {"deny", "block", "drop"}) \/ Holds(Outcome(event), {"denied"})
BlocksExpected(events) == Cardinality({i \in DOMAIN events : IsBlock(events[i])})
BlocksPreserved(events) ==
    Cardinality({i \in DOMAIN events : IsBlock(events[i]) /\ (Has(events[i], "src.ip") \/ Has(events[i], "dst.ip"))})

\* _check_dps_regression: the difference of two shares of the baseline's blocks.
DPSRegression(base, cand, up) ==
    IF BlocksExpected(base) = 0 THEN 0
    ELSE Rounded(Max({0, BlocksPreserved(base) - BlocksPreserved(cand)}), BlocksExpected(base), up)

\* detect_semantic_drift: the drift state.
SemanticState(baseSpec, candSpec, base, cand, up) ==
    IF \/ DPSRegression(base, cand, "dps" \in up) > 0 \/ CriticalMappingDrift(baseSpec, candSpec) > 0
       \/ EnumDrift(baseSpec, candSpec, cand, "enum" \in up) > 500
    THEN "DRIFTED"
    ELSE IF FamilyDrift(base, cand, "family" \in up) > 1000 THEN "SUSPECTED" ELSE "STABLE"
=============================================================================
