----------------------------- MODULE Onboarding -----------------------------
(***************************************************************************)
(* A source is brought in: UnknownSourceProfiler.profile, the              *)
(* OnboardingOrchestrator, LocalAIAssistant, SpecCompilerEngine,           *)
(* SpecTestBench and SpecDeploymentEngine (ml/).  One call of each follows *)
(* the other; what the language model answers and what the reviewer        *)
(* overrides is anybody's choice.                                          *)
(***************************************************************************)
EXTENDS SemanticMapper, Naturals, FiniteSets, SequencesExt

CONSTANTS
    Values,      \* name -> values the field has in the source's lines
    MaxLines,    \* lines profiled; the profiler's cap of five sample values is not met
    Shapes,      \* what mapper.map_fields returns: "report" or "dict"
    Replies,     \* mappings a language model answers with: name -> path
    Overrides,   \* mappings a reviewer insists on: name -> path
    Multiline,   \* names and paths that a line break tears apart
    Quoted,      \* names and paths with a quote that ends a Python string
    PathWords,   \* path -> those of the words TypeOfPath looks for that are in it
    FieldTypes, Paths   \* of parser specifications

ASSUME LinesAssumption == MaxLines \in Nat

DSL == INSTANCE ParserDSL

Targets == {"ulpf_parser_spec", "vector_remap", "logstash", "python_native"}
NoSpec == [mappings |-> <<>>, target |-> "none"]
NoPackage == [status |-> "none", report |-> <<>>, deterministic |-> <<>>, ai |-> <<>>]

VARIABLES
    stage,     \* what is called next, or how it ended
    lines,     \* number of lines the profiler has read
    columns,   \* the profiler's aggregation: the values of each field, in order
    package,   \* the orchestrator's parser_spec_package, with the mapper's report
    overrides, \* the reviewer's
    spec,      \* the CompiledParserSpec
    active     \* active_registry of the source

vars == <<stage, lines, columns, package, overrides, spec, active>>

Stages == {"profile", "compile", "bench", "passed", "failed", "deployed", "ValueError"}

TypeOK ==
    /\ stage \in Stages
    /\ lines \in 0..MaxLines
    /\ \A name \in RawNames : columns[name] \in Seq(Values[name]) /\ Len(columns[name]) <= lines
    /\ package.status \in {"none", "AUTO_APPROVED", "READY_FOR_REVIEW"}
    /\ DOMAIN package.deterministic \subseteq DOMAIN package.report
    /\ spec.target \in Targets \cup {"none"}
    /\ active \in {NoSpec, spec}

Init ==
    /\ stage = "profile" /\ lines = 0
    /\ columns = [name \in RawNames |-> <<>>]
    /\ package = NoPackage /\ overrides = <<>> /\ spec = NoSpec /\ active = NoSpec

-----------------------------------------------------------------------------
\* The profiler.  TypeInferencer: null, zero, number, word and address.
InferredType(value) ==
    CASE value = "null" -> "null"
      [] value \in {"zero", "number"} -> "integer"
      [] value = "address" -> "ipv4"
      [] OTHER -> "string"

NotNull(value) == value # "null"
Count(seq, x) == Cardinality({i \in DOMAIN seq : seq[i] = x})
FirstIndex(seq, x) == CHOOSE i \in DOMAIN seq : seq[i] = x /\ \A j \in 1..(i - 1) : seq[j] # x

\* The most frequent type that is not null; of several the one met first.
DominantType(types) ==
    IF types = <<>> THEN "null"
    ELSE CHOOSE t \in ToSet(types) : \A u \in ToSet(types) :
            \/ Count(types, t) > Count(types, u)
            \/ Count(types, t) = Count(types, u) /\ FirstIndex(types, t) <= FirstIndex(types, u)

\* A FieldProfile, of the values of one field.
FieldProfile(column) ==
    LET values == SelectSeq(column, NotNull)
        type == DominantType([i \in DOMAIN values |-> InferredType(values[i])])
        distinct == Cardinality(ToSet(values))
    IN  [type |-> type,
         samples |-> values,
         enum |-> /\ Len(values) >= 2
                  /\ distinct <= 25 /\ (distinct <= 2 \/ distinct <= Len(values) \div 2)
                  /\ type \in {"string", "integer", "boolean"}]

\* Mutant: a field that is missing from the line is counted as null.
MutReadLine(line) ==
    /\ stage = "profile" /\ lines < MaxLines
    /\ lines' = lines + 1
    /\ columns' = [name \in RawNames |->
                      Append(columns[name], IF name \in DOMAIN line THEN line[name] ELSE "null")]
    /\ UNCHANGED <<stage, package, overrides, spec, active>>

\* The loop over the lines: any of the fields, or none when no parser reads the line.
ReadLine(line) ==
    /\ stage = "profile" /\ lines < MaxLines
    /\ lines' = lines + 1
    /\ columns' = [name \in RawNames |->
                      IF name \in DOMAIN line THEN Append(columns[name], line[name]) ELSE columns[name]]
    /\ UNCHANGED <<stage, package, overrides, spec, active>>

Fields == [name \in {n \in RawNames : columns[n] # <<>>} |-> FieldProfile(columns[name])]

-----------------------------------------------------------------------------
\* CANONICAL_SCHEMA_REGISTRY
Registry ==
    {"src.ip", "src.port", "src.mac", "src.host", "dst.ip", "dst.port", "dst.mac", "dst.host",
     "dest.ip", "dest.port", "dest.mac", "dest.host", "event.action", "event.category",
     "event.outcome", "event.type", "user.name", "user.id", "user.domain", "user.email", "user.role",
     "http.request.method", "http.request.url", "http.response.status_code", "process.name",
     "process.pid", "process.parent.pid", "process.command_line", "network.protocol",
     "network.bytes_in", "network.bytes_out", "network.packets", "file.path", "file.name",
     "file.size", "file.hash.sha256"}

\* The runtime's types, and its pattern for paths: what the two catalogs name fits
\* it.  Nothing is known of what the reviewer names.
ASSUME RuntimeAssumption ==
    /\ {"string", "integer", "ip", "timestamp", "boolean"} \subseteq FieldTypes
    /\ Registry \cup ToSet(CatalogOrder) \subseteq Paths

\* filter_hallucinated_fields
FilterHallucinated(reply) ==
    [name \in {n \in DOMAIN reply : reply[n] \in Registry} |-> reply[name]]

NamesWith(report, status) == {n \in DOMAIN report : report[n].status = status}

\* The lists the orchestrator finds: a SourceMappingReport has no attribute of
\* these names, and getattr falls back to [].
Listed(shape, report, status) == IF shape = "dict" THEN NamesWith(report, status) ELSE {}

Accepted(shape, report) ==
    [n \in Listed(shape, report, "AUTO_ACCEPTED") |-> report[n].path]
Escalated(shape, report) ==
    Listed(shape, report, "HUMAN_REVIEW") \cup Listed(shape, report, "ABSTAIN")

\* run_pipeline; the assistant is asked only when fields are escalated.
RunPipeline(shape, reply) ==
    /\ stage = "profile" /\ lines > 0
    /\ LET report == MapSource(Fields)
           escalated == Escalated(shape, report)
       IN  package' = [status |-> IF escalated # {} THEN "READY_FOR_REVIEW" ELSE "AUTO_APPROVED",
                       report |-> report,
                       deterministic |-> Accepted(shape, report),
                       ai |-> IF escalated # {} THEN FilterHallucinated(reply) ELSE <<>>]
    /\ stage' = "compile"
    /\ UNCHANGED <<lines, columns, overrides, spec, active>>

\* No lines; or an answer that is no JSON, or fails validate_candidate_structure.
RunPipelineRaises(shape) ==
    /\ stage = "profile"
    /\ lines = 0 \/ Escalated(shape, MapSource(Fields)) # {}
    /\ stage' = "ValueError"
    /\ UNCHANGED <<lines, columns, package, overrides, spec, active>>

-----------------------------------------------------------------------------
\* The compiler.

\* The mappings of f, and those of g for other fields.
Before(f, g) == [name \in DOMAIN f \cup DOMAIN g |-> IF name \in DOMAIN f THEN f[name] ELSE g[name]]

\* Mappings of an empty name are passed over, but not among the overrides.
Named(f) == [name \in DOMAIN f \ {""} |-> f[name]]

\* Mutant: the assistant's proposals come first.
MutMerge(p, over) == Before(over, Before(Named(p.ai), Named(p.deterministic)))

\* merge_overrides: overrides, then deterministic mappings, then proposals.
MergeOverrides(p, over) == Before(over, Before(Named(p.deterministic), Named(p.ai)))

\* The type of a path is looked up by the words in its name.
TypeOfPath(path) ==
    LET words == PathWords[path]
    IN  IF "ip" \in words THEN "ip"
        ELSE IF words \cap {"port", "status_code"} # {} THEN "integer"
        ELSE IF "time" \in words THEN "timestamp"
        ELSE IF words \cap {"is_", "enabled"} # {} THEN "boolean"
        ELSE "string"

\* Mutant: no field, no specification.
MutParserSpec(mappings) ==
    [name \in DOMAIN mappings |-> [type |-> TypeOfPath(mappings[name]), map_to |-> mappings[name]]]

\* generate_ulpf_parser_spec: the fields of the parser specification.
ParserSpec(mappings) ==
    IF DOMAIN mappings = {} THEN [name \in {"raw_message"} |-> [type |-> "string", map_to |-> "event.action"]]
    ELSE [name \in DOMAIN mappings |-> [type |-> TypeOfPath(mappings[name]), map_to |-> mappings[name]]]

\* compile_spec; the code is generated from the mappings and the target.
CompileSpec(over, target) ==
    /\ stage = "compile"
    /\ overrides' = over
    /\ spec' = [mappings |-> MergeOverrides(package, over), target |-> target]
    /\ stage' = "bench"
    /\ UNCHANGED <<lines, columns, package, active>>

\* The static check: a name or a path with a line break breaks a Python literal and
\* makes a line of Vector Remap that does not begin with a dot; a quote breaks only
\* the literal.  JSON escapes both.
CodeVerifies(s) ==
    LET words == DOMAIN s.mappings \cup {s.mappings[name] : name \in DOMAIN s.mappings}
    IN  /\ s.target \in {"python_native", "vector_remap"} => words \cap Multiline = {}
        /\ s.target = "python_native" => words \cap Quoted = {}

\* run_benchmark: parse_fn returns a dictionary for every fuzzed sample, so what
\* passes the static check has success rate 1.
RunBenchmark ==
    /\ stage = "bench"
    /\ stage' = IF CodeVerifies(spec) THEN "passed" ELSE "failed"
    /\ UNCHANGED <<lines, columns, package, overrides, spec, active>>

\* No sample events.
RunBenchmarkRaises ==
    /\ stage = "bench"
    /\ stage' = "ValueError"
    /\ UNCHANGED <<lines, columns, package, overrides, spec, active>>

\* deploy_spec(spec, validation_passed): the boolean is the caller's, who need not
\* have run the bench.
DeploySpec(validation_passed) ==
    /\ stage \in {"bench", "passed", "failed"}
    /\ \/ validation_passed /\ active' = spec /\ stage' = "deployed"
       \/ ~validation_passed /\ stage' = "ValueError" /\ UNCHANGED active
    /\ UNCHANGED <<lines, columns, package, overrides, spec>>

Done == stage \in {"deployed", "ValueError"} /\ UNCHANGED vars

Lines ==
    {line \in UNION {[D -> UNION {Values[n] : n \in RawNames}] : D \in SUBSET RawNames} :
        \A n \in DOMAIN line : line[n] \in Values[n]}

Next ==
    \/ \E line \in Lines : ReadLine(line)
    \/ \E shape \in Shapes : RunPipelineRaises(shape) \/ \E reply \in Replies : RunPipeline(shape, reply)
    \/ \E over \in Overrides, target \in Targets : CompileSpec(over, target)
    \/ RunBenchmark \/ RunBenchmarkRaises
    \/ \E validation_passed \in BOOLEAN : DeploySpec(validation_passed)
    \/ Done

Spec == Init /\ [][Next]_vars

-----------------------------------------------------------------------------
\* "if hard type conflict exists, NEVER auto-accept" (mapper.py): a field whose best
\* candidate conflicts with its type is left to its extension, however many bonuses
\* its name, its values and its event family earn.
HardConflictAbstains ==
    \A name \in DOMAIN package.report :
        package.report[name].conflict => package.report[name].status = "ABSTAIN"

\* A deployed mapping is never invented: it is the reviewer's, or the mapper's own
\* above the acceptance threshold, or one of the assistant's with a target of the
\* registry, for a field the mapper did not decide and the reviewer did not touch.
MappingsJustified ==
    \A name \in DOMAIN active.mappings :
        LET path == active.mappings[name] IN
        IF name \in DOMAIN overrides THEN path = overrides[name]
        ELSE IF name \in DOMAIN package.deterministic
        THEN /\ package.report[name].path = path
             /\ package.report[name].score >= AUTO_ACCEPT_THRESHOLD
        ELSE path \in Registry /\ package.status = "READY_FOR_REVIEW"

\* What the compiler emits the runtime loads, also when nothing was mapped or all
\* proposals were filtered out, with one exception: compile_spec checks nothing that
\* a reviewer overrides, and one override without a name, or with a path that is not
\* well-formed, is enough for ValidateParserSpec to refuse the deployed specification.
DeployedSpecLoads ==
    active # NoSpec /\ active.target = "ulpf_parser_spec" =>
        (DSL!ValidateParserSpec(ParserSpec(active.mappings))
            <=> \A name \in DOMAIN overrides : name # "" /\ overrides[name] \in Paths)

\* A package is approved without review only if the mapper accepted every field:
\* "AI Escalation for fields needing human review or abstained" (orchestrator.py).
ApprovedMeansAccepted ==
    package.status = "AUTO_APPROVED" =>
        \A name \in DOMAIN package.report : package.report[name].status = "AUTO_ACCEPTED"
=============================================================================
