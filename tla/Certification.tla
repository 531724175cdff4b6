--------------------------- MODULE Certification ---------------------------
(***************************************************************************)
(* ValidationEngine.validate_event (ml/validation/validator.py) and        *)
(* TelemetryPassportBuilder (ml/passport/passport.py).  The body parser's  *)
(* output is given: raw field -> value.                                    *)
(***************************************************************************)
EXTENDS DetectionContracts, FiniteSets

CONSTANT Cast   \* value -> type -> the value after transformations and cast

\* mapped_canonical: a cast that fails leaves the value as it is.  No two raw fields
\* of a specification have one canonical field here; the code keeps the last value.
MappedCanonical(raw, spec) ==
    [path \in {spec[f].map_to : f \in DOMAIN spec \cap DOMAIN raw} |->
        LET field == CHOOSE f \in DOMAIN spec \cap DOMAIN raw : spec[f].map_to = path
            value == IF raw[field] \in DOMAIN spec[field].enum THEN spec[field].enum[raw[field]] ELSE raw[field]
        IN  Cast[value][spec[field].type]]

\* unmapped_fields
Unmapped(raw, spec) == [f \in DOMAIN raw \ DOMAIN spec |-> raw[f]]

Agree(is, want) == {k \in DOMAIN want : k \in DOMAIN is /\ is[k] = want[k]}

\* Mutant: a critical field that is not expected passes.
MutCriticalPassed(mapped, golden) ==
    \A k \in golden.critical \cap DOMAIN golden.extracted \cap DOMAIN mapped : mapped[k] = golden.extracted[k]

\* critical_passed; semantic_accuracy is 1 then, unless nothing is critical.
CriticalPassed(mapped, golden) ==
    \A k \in golden.critical :
        k \in DOMAIN golden.extracted /\ k \in DOMAIN mapped /\ mapped[k] = golden.extracted[k]

\* _evaluate_detection_contracts
AsEvent(mapped) == [str |-> mapped, int |-> <<>>]
DetectionPassed(mapped, golden) ==
    Holds(Action(AsEvent(golden.extracted)), {"block", "deny", "drop"}) =>
        /\ Holds(Action(AsEvent(mapped)), {"block", "deny", "drop"})
        /\ Has(AsEvent(mapped), "src.ip") \/ Has(AsEvent(mapped), "dst.ip")

\* validate_event: the certification decision gate.
ValidationPassed(raw, spec, golden, minAccuracy) ==
    LET mapped == MappedCanonical(raw, spec)
        accurate(percent) ==
            100 * Cardinality(Agree(mapped, golden.extracted)) >= percent * Cardinality(DOMAIN golden.extracted)
    IN
    /\ accurate(minAccuracy)
    /\ golden.critical = {} => accurate(95)
    /\ CriticalPassed(mapped, golden)
    /\ Agree(Unmapped(raw, spec), golden.unknown) = DOMAIN golden.unknown
    /\ DetectionPassed(mapped, golden)

\* to_evidence: the drift state is the caller's, by default STABLE.
ToEvidence(passed, drift) == [passed |-> passed, drift |-> IF passed THEN drift ELSE "SUSPECTED"]

\* TelemetryPassportBuilder.build; evidence without a drift state raises.
Passport(evidence) ==
    IF ~evidence.passed THEN "NOT_CERTIFIED"
    ELSE IF evidence.drift \in {"STABLE", "SUSPECTED", "DRIFTED"} THEN "CERTIFIED"
    ELSE "ValueError"
=============================================================================
