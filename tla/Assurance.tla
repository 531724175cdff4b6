----------------------------- MODULE Assurance -----------------------------
(***************************************************************************)
(* The assurance services of a source: the detection contracts over the    *)
(* events the normalize worker emits, the two drift detectors over a       *)
(* growing window and over a candidate parser, and the validation of a     *)
(* parser with its passport.  A behaviour uses one of the services.        *)
(***************************************************************************)
EXTENDS Normalization, DriftDetection, Certification

CONSTANTS
    Extractions, \* what the parser extracts: [str, int], by dotted path
    Unknown,     \* unknown fields of an event: [str]
    MaxEvents,   \* events evaluated
    Baseline,    \* the baseline window
    Batches,     \* sizes of the batches in which lines of one kind arrive
    MaxBatches,
    Specs,       \* parser specifications: raw field -> [map_to, type, enum]
    Histories,   \* sequences of events
    RawEvents,   \* parsed raw events: raw field -> value
    Goldens,     \* golden fixtures: [extracted, unknown, critical]
    MinAccuracy  \* min_extraction_accuracy, in percent

ASSUME AssuranceAssumption ==
    /\ MaxEvents \in Nat /\ MaxBatches \in Nat /\ Batches \subseteq Nat
    /\ \A events \in Histories : Len(events) \in Nat /\ DOMAIN events = 1..Len(events)
    /\ Len(Baseline) \in Nat /\ DOMAIN Baseline = 1..Len(Baseline)
    /\ \A i \in DOMAIN Baseline : Baseline[i][1] \in DOMAIN LineKinds
    /\ \A kind \in DOMAIN LineKinds : \A format \in DOMAIN LineKinds[kind].reads :
          IsFiniteSet(DOMAIN LineKinds[kind].reads[format])

VARIABLES
    service,    \* which service is in use
    event,      \* the last event: what was extracted, and what it was normalised to
    tally,      \* the counters of DPSCalculator.Calculate, and the mandatory rules lost
    window,     \* the current window of the structural drift detector
    compared,   \* the input of the semantic drift detector
    drift,      \* the drift state reported last
    validated,  \* the input of validate_event, with its result
    certificate \* certification of the DPS report or of the passport

contractVars == <<event, tally>>
driftVars == <<window, compared, drift>>
vars == <<service, contractVars, driftVars, validated, certificate>>

None == [none |-> TRUE]
NoTally == [total |-> 0, preserved |-> 0, mandatory |-> 0, mandatoryPreserved |-> 0, lost |-> {}]
DriftStates == {"STABLE", "SUSPECTED", "DRIFTED"}

TypeOK ==
    /\ service \in {"contracts", "structure", "semantics", "validation", "done"}
    /\ tally.preserved \in 0..tally.total /\ tally.mandatoryPreserved \in 0..tally.mandatory
    /\ tally.lost \subseteq Mandatory
    /\ Len(window) <= MaxBatches
    /\ drift \in DriftStates \cup {"none"}
    /\ certificate \in {"none", "CERTIFIED", "NOT_CERTIFIED", "ValueError"}

Init ==
    /\ service \in {"contracts", "structure", "semantics", "validation"}
    /\ event = None /\ tally = NoTally
    /\ window = <<>> /\ compared = None /\ drift = "none"
    /\ validated = None /\ certificate = "none"

-----------------------------------------------------------------------------
\* The worker normalises an event ...
NormalizeEvent(ex, unknown) ==
    /\ service = "contracts" /\ event = None /\ tally.total < MaxEvents * Cardinality(Rules)
    /\ LET normal == Normalize(ex, unknown, "syslog")
       IN  Valid(normal) /\ event' = [ex |-> ex, normal |-> normal]
    /\ UNCHANGED <<service, tally, driftVars, validated, certificate>>

\* ... or returns the error of Validate.
RejectEvent(ex, unknown) ==
    /\ service = "contracts" /\ event = None /\ tally.total < MaxEvents * Cardinality(Rules)
    /\ ~Valid(Normalize(ex, unknown, "syslog"))
    /\ UNCHANGED vars

\* Mutant: optional rules make up for mandatory ones.
MutEvaluateRules ==
    LET kept == Preserved(event.normal, Matched(Extracted(event.ex)))
    IN  /\ service = "contracts" /\ event # None
        /\ event' = None
        /\ tally' = [total |-> tally.total + Cardinality(Rules),
                     preserved |-> tally.preserved + Cardinality(kept),
                     mandatory |-> tally.mandatory + Cardinality(Mandatory),
                     mandatoryPreserved |-> tally.mandatoryPreserved + Cardinality(kept),
                     lost |-> tally.lost \cup (Mandatory \ kept)]
        /\ UNCHANGED <<service, driftVars, validated, certificate>>

\* EvaluateRule for every rule; what the extracted fields match is expected.
EvaluateRules ==
    LET kept == Preserved(event.normal, Matched(Extracted(event.ex)))
    IN  /\ service = "contracts" /\ event # None
        /\ event' = None
        /\ tally' = [total |-> tally.total + Cardinality(Rules),
                     preserved |-> tally.preserved + Cardinality(kept),
                     mandatory |-> tally.mandatory + Cardinality(Mandatory),
                     mandatoryPreserved |-> tally.mandatoryPreserved + Cardinality(kept \cap Mandatory),
                     lost |-> tally.lost \cup (Mandatory \ kept)]
        /\ UNCHANGED <<service, driftVars, validated, certificate>>

CalculateDPS ==
    /\ service = "contracts" /\ event = None /\ tally.total > 0
    /\ certificate' = IF Certified(tally) THEN "CERTIFIED" ELSE "NOT_CERTIFIED"
    /\ service' = "done"
    /\ UNCHANGED <<contractVars, driftVars, validated>>

-----------------------------------------------------------------------------
BaselineProfile == Profile(Baseline)

\* detect_from_logs on the window with one batch more.
Observe(kind, n) ==
    /\ service = "structure" /\ Len(window) < MaxBatches
    /\ window' = Append(window, <<kind, n>>)
    /\ drift' = StructuralState(BaselineProfile, Profile(window'))
    /\ UNCHANGED <<service, contractVars, compared, validated, certificate>>

\* detect_semantic_drift
DetectSemanticDrift(spec, candidate, before, after, up) ==
    /\ service = "semantics"
    /\ compared' = [spec |-> spec, candidate |-> candidate, before |-> before, after |-> after]
    /\ drift' = SemanticState(spec, candidate, before, after, up)
    /\ service' = "done"
    /\ UNCHANGED <<contractVars, window, validated, certificate>>

-----------------------------------------------------------------------------
ValidateParser(raw, spec, golden) ==
    /\ service = "validation" /\ validated = None
    /\ validated' = [raw |-> raw, spec |-> spec, golden |-> golden,
                     passed |-> ValidationPassed(raw, spec, golden, MinAccuracy)]
    /\ UNCHANGED <<service, contractVars, driftVars, certificate>>

\* to_evidence and build.
BuildPassport(state) ==
    /\ service = "validation" /\ validated # None
    /\ certificate' = Passport(ToEvidence(validated.passed, state))
    /\ service' = "done"
    /\ UNCHANGED <<contractVars, driftVars, validated>>

Done == service = "done" \/ Len(window) = MaxBatches \/ tally.total = MaxEvents * Cardinality(Rules)

Next ==
    \/ \E ex \in Extractions, u \in Unknown : NormalizeEvent(ex, u) \/ RejectEvent(ex, u)
    \/ EvaluateRules \/ CalculateDPS
    \/ \E kind \in DOMAIN LineKinds, n \in Batches : Observe(kind, n)
    \/ /\ service = "semantics"
       /\ \E s, c \in Specs, b, a \in Histories, up \in SUBSET Signals : DetectSemanticDrift(s, c, b, a, up)
    \/ \E raw \in RawEvents, s \in Specs, g \in Goldens : ValidateParser(raw, s, g)
    \/ \E state \in DriftStates \cup {"none"} : BuildPassport(state)
    \/ Done /\ UNCHANGED vars

Spec == Init /\ [][Next]_vars

-----------------------------------------------------------------------------
\* Normalisation keeps what the action, the class, the addresses, ports and names
\* alone make a rule match: of the rules that do not rest on an extracted outcome or
\* on transferred bytes, each one that the extracted fields match matches the event.
\* A status code counts under the name Normalize reads, http.response.status_code.
ActionDetectionsSurvive ==
    event # None /\ "http.status_code" \notin DOMAIN event.ex.int =>
        LET ex == [str |-> [p \in DOMAIN event.ex.str \ {"event.outcome"} |-> event.ex.str[p]], int |-> event.ex.int]
        IN  Matched(Extracted(ex)) \ {"DET-009", "DET-010"} \subseteq Matched(event.normal)

\* The contracts' purpose: "verifies that normalization preserves detection-relevant
\* semantics" (contract.go).  A failed authentication, as the extracted action and
\* outcome say it is one (DET-001), is one for the normalised event as well.
AuthFailuresSurvive ==
    event # None /\ Det001(Extracted(event.ex)) => Det001(event.normal)

\* "A critical failure can NEVER be averaged away by high scores on optional rules"
\* (dps.go): over any series of events a certified report lost no mandatory rule.
CriticalNotAveraged ==
    service = "done" /\ certificate = "CERTIFIED" /\ tally.total > 0 => tally.lost = {}

\* A source of at most six fields, new ones included, that is reported STABLE has the
\* fields of its baseline, each of the type it had for most lines; a field whose
\* values are all empty has no type to compare.
StableKeepsShape ==
    LET was == BaselineProfile
        is == Profile(window)
    IN  drift = "STABLE" /\ window # <<>> /\ Cardinality(FieldNames(was) \cup FieldNames(is)) <= 6 =>
            /\ FieldNames(is) = FieldNames(was)
            /\ \A name \in FieldNames(is) :
                  \/ "null" \in {InferredType(was, name), InferredType(is, name)}
                  \/ InferredType(is, name) = InferredType(was, name)

\* No two raw fields of the specification have one canonical field.
OneSource(spec) ==
    \A raw, other \in DOMAIN spec : spec[raw].map_to = spec[other].map_to => raw = other

\* The critical fields of a specification are read from the same raw fields.
CriticalKept(spec, candidate) ==
    \A raw \in DOMAIN spec : spec[raw].map_to \in CRITICAL_CANONICAL_FIELDS =>
        raw \in DOMAIN candidate /\ candidate[raw].map_to = spec[raw].map_to

\* A raw value that had a meaning has that meaning, or none.
ActionsKept(was, is) == \A v \in DOMAIN was \cap DOMAIN is : is[v] \in {was[v], ""}

\* A candidate parser that is reported STABLE reads every critical field from where
\* it was read, turns no action into another (an action it turns into nothing is not
\* looked at), and sees no fewer blocked connections with an endpoint; a fall in one
\* is not made up for by another.  A regression is rounded to four digits: of fewer
\* than 20000 blocks one lost shows, of more it may not.
StableKeepsMeaning ==
    drift = "STABLE" /\ compared # None =>
        /\ OneSource(compared.spec) => CriticalKept(compared.spec, compared.candidate)
        /\ ActionsKept(ActionEnum(compared.spec), ActionEnum(compared.candidate))
        /\ BlocksExpected(compared.before) < 20000 =>
              BlocksPreserved(compared.after) >= BlocksPreserved(compared.before)

\* A certified parser gets the golden event right where it matters: every critical
\* field has its expected value, every unknown field is kept, and an event meant to
\* be a blocked connection is one for the detection contract DET-002.
CertifiedParsesRight ==
    certificate = "CERTIFIED" /\ validated # None =>
        LET mapped == MappedCanonical(validated.raw, validated.spec)
            golden == validated.golden
        IN  /\ \A k \in golden.critical : k \in DOMAIN mapped /\ mapped[k] = golden.extracted[k]
            /\ \A k \in DOMAIN golden.unknown : k \in DOMAIN validated.raw \ DOMAIN validated.spec
            /\ Holds(Action(AsEvent(golden.extracted)), {"block", "deny", "drop"}) => Det002(AsEvent(mapped))
=============================================================================
