-------------------------- MODULE AssuranceProofs --------------------------
(***************************************************************************)
(* Proofs about the assurance services, for every parser specification,    *)
(* event, window and history: what a certificate, a preserved detection    *)
(* and a STABLE report guarantee.                                          *)
(***************************************************************************)
EXTENDS Assurance, FiniteSetTheorems, TLAPS

\* Each service touches its own variables only, and the report ends it.
Tallies == [total : Nat, preserved : Nat, mandatory : Nat, mandatoryPreserved : Nat, lost : SUBSET Mandatory]
Batched == (DOMAIN LineKinds) \X Batches

TypeInv ==
    /\ service \in {"contracts", "structure", "semantics", "validation", "done"}
    /\ tally \in Tallies
    /\ tally.preserved <= tally.total /\ tally.mandatoryPreserved <= tally.mandatory
    /\ window \in Seq(Batched) /\ Len(window) <= MaxBatches
    /\ drift \in DriftStates \cup {"none"}
    /\ certificate \in {"none", "CERTIFIED", "NOT_CERTIFIED", "ValueError"}

\* The ten rules, and the mandatory ones among them, are finitely many.
LEMMA RulesFinite == IsFiniteSet(Rules) /\ IsFiniteSet(Mandatory)
<1> DEFINE A == {"DET-001", "DET-002", "DET-003"}
           B == {"DET-004", "DET-005", "DET-006"}
           C == {"DET-007", "DET-008", "DET-009"}
<1>1. \A x, y, z : IsFiniteSet({x, y, z})
  <2> TAKE x, y, z
  <2>1. IsFiniteSet({x})
    BY FS_Singleton
  <2>2. IsFiniteSet({x} \cup {y})
    BY <2>1, FS_AddElement
  <2>3. IsFiniteSet(({x} \cup {y}) \cup {z})
    BY <2>2, FS_AddElement
  <2>4. {x, y, z} = ({x} \cup {y}) \cup {z}
    OBVIOUS
  <2> QED
    BY <2>3, <2>4
<1>2. IsFiniteSet(A) /\ IsFiniteSet(B) /\ IsFiniteSet(C)
  BY <1>1
<1>3. Rules = ((A \cup B) \cup C) \cup {"DET-010"}
  BY DEF Rules
<1> HIDE DEF A, B, C
<1>4. IsFiniteSet(A \cup B)
  BY <1>2, FS_Union
<1>5. IsFiniteSet((A \cup B) \cup C)
  BY <1>2, <1>4, FS_Union
<1>6. IsFiniteSet(Rules)
  BY <1>3, <1>5, FS_AddElement
<1>7. Mandatory \subseteq Rules
  BY DEF Mandatory
<1> QED
  BY <1>6, <1>7, FS_Subset

\* What EvaluateRules adds up: no more is preserved than evaluated, and a mandatory
\* rule that is lost is missing from the mandatory rules preserved.
LEMMA KeptRules ==
    ASSUME NEW e, NEW expected
    PROVE  LET kept == Preserved(e, expected) IN
           /\ Cardinality(Rules) \in Nat /\ Cardinality(kept) \in Nat
           /\ Cardinality(Mandatory) \in Nat /\ Cardinality(kept \cap Mandatory) \in Nat
           /\ Cardinality(kept) <= Cardinality(Rules)
           /\ Cardinality(kept \cap Mandatory) <= Cardinality(Mandatory)
           /\ Mandatory \ kept # {} => Cardinality(kept \cap Mandatory) < Cardinality(Mandatory)
<1> DEFINE kept == Preserved(e, expected)
<1>1. kept \in SUBSET Rules /\ kept \cap Mandatory \in SUBSET Mandatory
  BY DEF Preserved
<1> HIDE DEF kept
<1>2. IsFiniteSet(kept) /\ Cardinality(kept) <= Cardinality(Rules)
  BY <1>1, RulesFinite, FS_Subset
<1>3. /\ IsFiniteSet(kept \cap Mandatory)
      /\ Cardinality(kept \cap Mandatory) <= Cardinality(Mandatory)
      /\ Cardinality(Mandatory) = Cardinality(kept \cap Mandatory) => Mandatory = kept \cap Mandatory
  BY <1>1, RulesFinite, FS_Subset
<1>4. /\ Cardinality(Rules) \in Nat /\ Cardinality(kept) \in Nat
      /\ Cardinality(Mandatory) \in Nat /\ Cardinality(kept \cap Mandatory) \in Nat
  BY <1>2, <1>3, RulesFinite, FS_CardinalityType
<1>5. Mandatory \ kept # {} => Mandatory # kept \cap Mandatory
  OBVIOUS
<1>6. Mandatory \ kept # {} => Cardinality(kept \cap Mandatory) < Cardinality(Mandatory)
  BY <1>3, <1>4, <1>5
<1> QED
  BY <1>2, <1>3, <1>4, <1>6 DEF kept

-----------------------------------------------------------------------------
LEMMA TypeInit == Init => TypeInv
<1> SUFFICES ASSUME Init PROVE TypeInv
  OBVIOUS
<1>1. window \in Seq(Batched) /\ Len(window) = 0
  BY DEF Init
<1>2. tally \in Tallies /\ tally.preserved <= tally.total /\ tally.mandatoryPreserved <= tally.mandatory
  BY DEF Init, NoTally, Tallies
<1> QED
  BY <1>1, <1>2, AssuranceAssumption DEF Init, TypeInv

\* The counters after the rules have been evaluated.
LEMMA EvaluateTypes ==
    ASSUME TypeInv, EvaluateRules
    PROVE  /\ tally' \in Tallies
           /\ tally'.preserved <= tally'.total /\ tally'.mandatoryPreserved <= tally'.mandatory
<1> DEFINE kept == Preserved(event.normal, Matched(Extracted(event.ex)))
           lost == Mandatory \ kept
<1>1. tally' = [total |-> tally.total + Cardinality(Rules),
                preserved |-> tally.preserved + Cardinality(kept),
                mandatory |-> tally.mandatory + Cardinality(Mandatory),
                mandatoryPreserved |-> tally.mandatoryPreserved + Cardinality(kept \cap Mandatory),
                lost |-> tally.lost \cup lost]
  BY DEF EvaluateRules
<1>2. /\ Cardinality(Rules) \in Nat /\ Cardinality(kept) \in Nat
      /\ Cardinality(Mandatory) \in Nat /\ Cardinality(kept \cap Mandatory) \in Nat
      /\ Cardinality(kept) <= Cardinality(Rules)
      /\ Cardinality(kept \cap Mandatory) <= Cardinality(Mandatory)
  BY KeptRules
<1>3. lost \subseteq Mandatory
  OBVIOUS
<1>4. /\ tally.total \in Nat /\ tally.preserved \in Nat /\ tally.mandatory \in Nat
      /\ tally.mandatoryPreserved \in Nat /\ tally.lost \in SUBSET Mandatory
      /\ tally.preserved <= tally.total /\ tally.mandatoryPreserved <= tally.mandatory
  BY DEF TypeInv, Tallies
<1> HIDE DEF kept, lost
<1> QED
  BY <1>1, <1>2, <1>3, <1>4 DEF Tallies

LEMMA ReportTypes ==
    /\ \A base, current : StructuralState(base, current) \in DriftStates
    /\ \A s, c, b, a, up : SemanticState(s, c, b, a, up) \in DriftStates
    /\ \A evidence : Passport(evidence) \in {"CERTIFIED", "NOT_CERTIFIED", "ValueError"}
BY DEF StructuralState, SemanticState, Passport, DriftStates

LEMMA TypeStep == TypeInv /\ [Next]_vars => TypeInv'
<1> SUFFICES ASSUME TypeInv, [Next]_vars PROVE TypeInv'
  OBVIOUS
<1>1. ASSUME NEW ex \in Extractions, NEW u \in Unknown, NormalizeEvent(ex, u) \/ RejectEvent(ex, u)
      PROVE  TypeInv'
  <2>1. UNCHANGED <<service, tally, window, drift, certificate>>
    BY <1>1 DEF NormalizeEvent, RejectEvent, vars, contractVars, driftVars
  <2> QED
    BY <2>1 DEF TypeInv
<1>2. CASE EvaluateRules
  <2>1. UNCHANGED <<service, window, drift, certificate>>
    BY <1>2 DEF EvaluateRules, driftVars
  <2> QED
    BY <1>2, <2>1, EvaluateTypes DEF TypeInv
<1>3. CASE CalculateDPS
  BY <1>3 DEF CalculateDPS, TypeInv, contractVars, driftVars
<1>4. ASSUME NEW kind \in DOMAIN LineKinds, NEW n \in Batches, Observe(kind, n)
      PROVE  TypeInv'
  <2>1. <<kind, n>> \in Batched
    BY DEF Batched
  <2> HIDE DEF Batched
  <2>2. window' \in Seq(Batched) /\ Len(window') <= MaxBatches
    BY <1>4, <2>1, AssuranceAssumption DEF Observe, TypeInv
  <2>3. drift' \in DriftStates
    BY <1>4, ReportTypes DEF Observe
  <2>4. UNCHANGED <<service, tally, certificate>>
    BY <1>4 DEF Observe, contractVars
  <2> QED
    BY <2>2, <2>3, <2>4 DEF TypeInv
<1>5. ASSUME NEW s \in Specs, NEW c \in Specs, NEW b \in Histories, NEW a \in Histories,
             NEW up \in SUBSET Signals, DetectSemanticDrift(s, c, b, a, up)
      PROVE  TypeInv'
  <2>1. drift' \in DriftStates /\ service' = "done"
    BY <1>5, ReportTypes DEF DetectSemanticDrift
  <2>2. UNCHANGED <<tally, window, certificate>>
    BY <1>5 DEF DetectSemanticDrift, contractVars
  <2> QED
    BY <2>1, <2>2 DEF TypeInv
<1>6. ASSUME NEW raw \in RawEvents, NEW s \in Specs, NEW g \in Goldens, ValidateParser(raw, s, g)
      PROVE  TypeInv'
  BY <1>6 DEF ValidateParser, TypeInv, contractVars, driftVars
<1>7. ASSUME NEW state \in DriftStates \cup {"none"}, BuildPassport(state)
      PROVE  TypeInv'
  <2>1. certificate' \in {"CERTIFIED", "NOT_CERTIFIED", "ValueError"} /\ service' = "done"
    BY <1>7, ReportTypes DEF BuildPassport
  <2>2. UNCHANGED <<tally, window, drift>>
    BY <1>7 DEF BuildPassport, contractVars, driftVars
  <2> QED
    BY <2>1, <2>2 DEF TypeInv
<1>8. CASE UNCHANGED vars
  BY <1>8 DEF TypeInv, vars, contractVars, driftVars
<1> QED
  BY <1>1, <1>2, <1>3, <1>4, <1>5, <1>6, <1>7, <1>8 DEF Next

\* The services of the assurance packages keep their counters, windows, drift states
\* and certificates in range: no more rules are preserved than evaluated.
THEOREM AssuranceTypes == Spec => []TypeOK
<1>1. TypeInv => TypeOK
  BY DEF TypeInv, TypeOK, Tallies
<1> QED
  BY <1>1, TypeInit, TypeStep, PTL DEF Spec

-----------------------------------------------------------------------------
\* A service that has not begun left its variables as they were, and a certificate or
\* a semantic report is the last thing a behaviour sees.
ServiceInv ==
    /\ service \notin {"contracts", "done"} => tally = NoTally /\ event = None
    /\ service \notin {"validation", "done"} => validated = None
    /\ service # "done" => certificate = "none" /\ compared = None
    /\ service # "structure" => window = <<>>
    /\ validated # None => tally = NoTally

\* Every input that was validated comes with the engine's verdict on it.
Validated ==
    {[raw |-> raw, spec |-> s, golden |-> g, passed |-> ValidationPassed(raw, s, g, MinAccuracy)] :
        raw \in RawEvents, s \in Specs, g \in Goldens}
Compared == [spec : Specs, candidate : Specs, before : Histories, after : Histories]
Normalized == {[ex |-> ex, normal |-> Normalize(ex, u, "syslog")] : ex \in Extractions, u \in Unknown}

InputInv ==
    /\ validated = None \/ validated \in Validated
    /\ compared = None \/ compared \in Compared
    /\ event = None \/ event \in Normalized

\* What each report says of the input it was made from.
ReportInv ==
    /\ tally.lost # {} => tally.mandatoryPreserved < tally.mandatory
    /\ certificate = "CERTIFIED" /\ tally.total > 0 => Certified(tally)
    /\ certificate = "CERTIFIED" /\ validated # None => validated.passed
    /\ window # <<>> => drift = StructuralState(BaselineProfile, Profile(window))
    /\ compared # None => \E up \in SUBSET Signals :
          drift = SemanticState(compared.spec, compared.candidate, compared.before, compared.after, up)

AssuranceInv == TypeInv /\ ServiceInv /\ InputInv /\ ReportInv

LEMMA AssuranceInit == Init => AssuranceInv
<1> SUFFICES ASSUME Init PROVE AssuranceInv
  OBVIOUS
<1>1. TypeInv
  BY TypeInit
<1>2. ServiceInv /\ InputInv
  BY DEF Init, ServiceInv, InputInv
<1>3. ReportInv
  BY DEF Init, ReportInv, NoTally
<1> QED
  BY <1>1, <1>2, <1>3 DEF AssuranceInv

LEMMA NormalizeKeeps ==
    ASSUME AssuranceInv, NEW ex \in Extractions, NEW u \in Unknown, NormalizeEvent(ex, u)
    PROVE  ServiceInv' /\ InputInv' /\ ReportInv'
<1>1. event' = [ex |-> ex, normal |-> Normalize(ex, u, "syslog")] /\ service = "contracts"
  BY DEF NormalizeEvent
<1>2. event' \in Normalized
  BY <1>1 DEF Normalized
<1>3. UNCHANGED <<service, tally, window, compared, drift, validated, certificate>>
  BY DEF NormalizeEvent, driftVars
<1>4. ServiceInv'
  BY <1>1, <1>3 DEF AssuranceInv, ServiceInv
<1>5. InputInv'
  BY <1>2, <1>3 DEF AssuranceInv, InputInv, Validated
<1>6. ReportInv'
  BY <1>3 DEF AssuranceInv, ReportInv
<1> QED
  BY <1>4, <1>5, <1>6

LEMMA EvaluateKeeps ==
    ASSUME AssuranceInv, EvaluateRules
    PROVE  ServiceInv' /\ InputInv' /\ ReportInv'
<1> DEFINE kept == Preserved(event.normal, Matched(Extracted(event.ex)))
<1>1. /\ service = "contracts" /\ event' = None
      /\ UNCHANGED <<service, window, compared, drift, validated, certificate>>
  BY DEF EvaluateRules, driftVars
<1>2. certificate = "none" /\ validated = None
  BY <1>1 DEF AssuranceInv, ServiceInv
<1>3. /\ tally'.lost = tally.lost \cup (Mandatory \ kept)
      /\ tally'.mandatory = tally.mandatory + Cardinality(Mandatory)
      /\ tally'.mandatoryPreserved = tally.mandatoryPreserved + Cardinality(kept \cap Mandatory)
  BY DEF EvaluateRules
<1>4. /\ Cardinality(Mandatory) \in Nat /\ Cardinality(kept \cap Mandatory) \in Nat
      /\ Cardinality(kept \cap Mandatory) <= Cardinality(Mandatory)
      /\ Mandatory \ kept # {} => Cardinality(kept \cap Mandatory) < Cardinality(Mandatory)
  BY KeptRules
<1>5. /\ tally.mandatory \in Nat /\ tally.mandatoryPreserved \in Nat
      /\ tally.mandatoryPreserved <= tally.mandatory
      /\ tally.lost # {} => tally.mandatoryPreserved < tally.mandatory
  BY DEF AssuranceInv, TypeInv, Tallies, ReportInv
<1> HIDE DEF kept
<1>6. tally'.lost # {} => tally'.mandatoryPreserved < tally'.mandatory
  BY <1>3, <1>4, <1>5
<1>7. ServiceInv'
  BY <1>1, <1>2 DEF AssuranceInv, ServiceInv
<1>8. InputInv'
  BY <1>1 DEF AssuranceInv, InputInv
<1>9. ReportInv'
  BY <1>1, <1>2, <1>6 DEF AssuranceInv, ReportInv
<1> QED
  BY <1>7, <1>8, <1>9

LEMMA CalculateKeeps ==
    ASSUME AssuranceInv, CalculateDPS
    PROVE  ServiceInv' /\ InputInv' /\ ReportInv'
<1>1. /\ service = "contracts" /\ service' = "done"
      /\ certificate' = IF Certified(tally) THEN "CERTIFIED" ELSE "NOT_CERTIFIED"
      /\ UNCHANGED <<event, tally, window, compared, drift, validated>>
  BY DEF CalculateDPS, contractVars, driftVars
<1>2. validated = None /\ compared = None /\ window = <<>>
  BY <1>1 DEF AssuranceInv, ServiceInv
<1>3. ServiceInv'
  BY <1>1, <1>2 DEF ServiceInv
<1>4. InputInv'
  BY <1>1 DEF AssuranceInv, InputInv
<1>5. certificate' = "CERTIFIED" => Certified(tally)
  BY <1>1
<1>6. Certified(tally)' <=> Certified(tally)
  BY <1>1 DEF Certified
<1>7. ReportInv'
  BY <1>1, <1>2, <1>5, <1>6 DEF AssuranceInv, ReportInv
<1> QED
  BY <1>3, <1>4, <1>7

LEMMA ObserveKeeps ==
    ASSUME AssuranceInv, NEW kind, NEW n, Observe(kind, n)
    PROVE  ServiceInv' /\ InputInv' /\ ReportInv'
<1>1. /\ service = "structure" /\ drift' = StructuralState(BaselineProfile, Profile(window'))
      /\ UNCHANGED <<service, event, tally, compared, validated, certificate>>
  BY DEF Observe, contractVars
<1>2. compared = None /\ validated = None
  BY <1>1 DEF AssuranceInv, ServiceInv
<1>3. ServiceInv'
  BY <1>1 DEF AssuranceInv, ServiceInv
<1>4. InputInv'
  BY <1>1 DEF AssuranceInv, InputInv
<1>5. ReportInv'
  BY <1>1, <1>2 DEF AssuranceInv, ReportInv
<1> QED
  BY <1>3, <1>4, <1>5

LEMMA DetectKeeps ==
    ASSUME AssuranceInv, NEW s \in Specs, NEW c \in Specs, NEW b \in Histories, NEW a \in Histories,
           NEW up \in SUBSET Signals, DetectSemanticDrift(s, c, b, a, up)
    PROVE  ServiceInv' /\ InputInv' /\ ReportInv'
<1>1. /\ service = "semantics" /\ service' = "done"
      /\ compared' = [spec |-> s, candidate |-> c, before |-> b, after |-> a]
      /\ drift' = SemanticState(s, c, b, a, up)
      /\ UNCHANGED <<event, tally, window, validated, certificate>>
  BY DEF DetectSemanticDrift, contractVars
<1>2. validated = None /\ window = <<>> /\ certificate = "none"
  BY <1>1 DEF AssuranceInv, ServiceInv
<1>3. compared' \in Compared
  BY <1>1 DEF Compared
<1>4. ServiceInv'
  BY <1>1, <1>2 DEF ServiceInv
<1>5. InputInv'
  BY <1>1, <1>3 DEF AssuranceInv, InputInv
<1>6. drift' = SemanticState(compared'.spec, compared'.candidate, compared'.before, compared'.after, up)
  BY <1>1
<1>7. ReportInv'
  BY <1>1, <1>2, <1>6 DEF AssuranceInv, ReportInv
<1> QED
  BY <1>4, <1>5, <1>7

LEMMA ValidateKeeps ==
    ASSUME AssuranceInv, NEW raw \in RawEvents, NEW s \in Specs, NEW g \in Goldens, ValidateParser(raw, s, g)
    PROVE  ServiceInv' /\ InputInv' /\ ReportInv'
<1>1. /\ service = "validation"
      /\ validated' = [raw |-> raw, spec |-> s, golden |-> g,
                       passed |-> ValidationPassed(raw, s, g, MinAccuracy)]
      /\ UNCHANGED <<service, event, tally, window, compared, drift, certificate>>
  BY DEF ValidateParser, contractVars, driftVars
<1>2. certificate = "none" /\ tally = NoTally /\ compared = None
  BY <1>1 DEF AssuranceInv, ServiceInv
<1>3. validated' \in Validated
  BY <1>1 DEF Validated
<1>4. ServiceInv'
  BY <1>1, <1>2 DEF AssuranceInv, ServiceInv
<1>5. InputInv'
  BY <1>1, <1>3 DEF AssuranceInv, InputInv
<1>6. ReportInv'
  BY <1>1, <1>2 DEF AssuranceInv, ReportInv
<1> QED
  BY <1>4, <1>5, <1>6

LEMMA BuildKeeps ==
    ASSUME AssuranceInv, NEW state, BuildPassport(state)
    PROVE  ServiceInv' /\ InputInv' /\ ReportInv'
<1>1. /\ service = "validation" /\ service' = "done"
      /\ certificate' = Passport(ToEvidence(validated.passed, state))
      /\ UNCHANGED <<event, tally, window, compared, drift, validated>>
  BY DEF BuildPassport, contractVars, driftVars
<1>2. tally = NoTally /\ compared = None /\ window = <<>> /\ event = None
  BY <1>1 DEF AssuranceInv, ServiceInv
<1>3. certificate' = "CERTIFIED" => validated.passed
  BY <1>1 DEF Passport, ToEvidence
<1>4. ServiceInv'
  BY <1>1, <1>2 DEF ServiceInv
<1>5. InputInv'
  BY <1>1 DEF AssuranceInv, InputInv
<1>6. tally'.total = 0 /\ tally'.lost = {}
  BY <1>1, <1>2 DEF NoTally
<1>7. ReportInv'
  BY <1>1, <1>2, <1>3, <1>6 DEF ReportInv
<1> QED
  BY <1>4, <1>5, <1>7

LEMMA AssuranceStep == AssuranceInv /\ [Next]_vars => AssuranceInv'
<1> SUFFICES ASSUME AssuranceInv, [Next]_vars PROVE ServiceInv' /\ InputInv' /\ ReportInv'
  BY TypeStep DEF AssuranceInv
<1>1. ASSUME UNCHANGED vars PROVE ServiceInv' /\ InputInv' /\ ReportInv'
  BY <1>1 DEF AssuranceInv, ServiceInv, InputInv, ReportInv, vars, contractVars, driftVars
<1>2. ASSUME NEW ex \in Extractions, NEW u \in Unknown, RejectEvent(ex, u)
      PROVE  UNCHANGED vars
  BY <1>2 DEF RejectEvent
<1> QED
  BY <1>1, <1>2, NormalizeKeeps, EvaluateKeeps, CalculateKeeps, ObserveKeeps, DetectKeeps, ValidateKeeps,
     BuildKeeps DEF Next

LEMMA AssuranceHolds == Spec => []AssuranceInv
BY AssuranceInit, AssuranceStep, PTL DEF Spec

\* DPSCalculator.Calculate over any series of any events: a report that certifies has
\* lost no mandatory rule, however many rules were preserved besides.
THEOREM CriticalsAreNotAveraged == Spec => []CriticalNotAveraged
<1>1. AssuranceInv => CriticalNotAveraged
  <2> SUFFICES ASSUME AssuranceInv, certificate = "CERTIFIED", tally.total > 0
               PROVE  tally.lost = {}
    BY DEF CriticalNotAveraged
  <2>1. Certified(tally) /\ (tally.lost # {} => tally.mandatoryPreserved < tally.mandatory)
    BY DEF AssuranceInv, ReportInv
  <2>2. tally.mandatory \in Nat /\ tally.mandatoryPreserved \in Nat
    BY DEF AssuranceInv, TypeInv, Tallies
  <2>3. tally.mandatory = 0 \/ tally.mandatoryPreserved = tally.mandatory
    BY <2>1 DEF Certified
  <2> QED
    BY <2>1, <2>2, <2>3
<1> QED
  BY <1>1, AssuranceHolds, PTL

\* validate_event and the passport builder, for every parser specification, raw event
\* and golden fixture: a certificate means that the critical fields have their
\* expected values, no unknown field is dropped and a block is seen as one.
THEOREM CertificatesHold == Spec => []CertifiedParsesRight
<1>1. AssuranceInv => CertifiedParsesRight
  <2> SUFFICES ASSUME AssuranceInv, certificate = "CERTIFIED", validated # None
               PROVE  CertifiedParsesRight
    BY DEF CertifiedParsesRight
  <2>1. validated.passed /\ validated \in Validated
    BY DEF AssuranceInv, ReportInv, InputInv
  <2>2. PICK raw \in RawEvents, s \in Specs, g \in Goldens :
           validated = [raw |-> raw, spec |-> s, golden |-> g,
                        passed |-> ValidationPassed(raw, s, g, MinAccuracy)]
    BY <2>1 DEF Validated
  <2> DEFINE mapped == MappedCanonical(raw, s)
  <2>3. /\ CriticalPassed(mapped, g)
        /\ Agree(Unmapped(raw, s), g.unknown) = DOMAIN g.unknown
        /\ DetectionPassed(mapped, g)
    <3>1. ValidationPassed(raw, s, g, MinAccuracy)
      BY <2>1, <2>2
    <3> QED
      BY <3>1 DEF ValidationPassed
  <2> HIDE DEF mapped
  <2>4. \A k \in g.critical : k \in DOMAIN mapped /\ mapped[k] = g.extracted[k]
    BY <2>3 DEF CriticalPassed
  <2>5. \A k \in DOMAIN g.unknown : k \in DOMAIN raw \ DOMAIN s
    BY <2>3 DEF Agree, Unmapped
  <2>6. Holds(Action(AsEvent(g.extracted)), {"block", "deny", "drop"}) => Det002(AsEvent(mapped))
    <3>1. {"block", "deny", "drop"} = {"block", "drop", "deny"}
      OBVIOUS
    <3> QED
      BY <2>3, <3>1 DEF DetectionPassed, Det002
  <2>7. validated.raw = raw /\ validated.spec = s /\ validated.golden = g
    BY <2>2
  <2> QED
    BY <2>4, <2>5, <2>6, <2>7 DEF CertifiedParsesRight, mapped
<1> QED
  BY <1>1, AssuranceHolds, PTL

-----------------------------------------------------------------------------
\* Max of the community modules, for two numbers.
LEMMA MaxOfTwo ==
    ASSUME NEW m \in Int, NEW n \in Int
    PROVE  Max({m, n}) = IF m >= n THEN m ELSE n
<1> DEFINE top == IF m >= n THEN m ELSE n
<1>1. top \in {m, n} /\ \A y \in {m, n} : top >= y
  OBVIOUS
<1>2. \A x \in {m, n} : (\A y \in {m, n} : x >= y) => x = top
  OBVIOUS
<1> QED
  BY <1>1, <1>2 DEF Max

\* Four digits are enough to see one in fewer than 20000, however ties are rounded.
LEMMA RoundSeesOne ==
    ASSUME NEW n \in Nat, NEW d \in Nat, 1 <= d, d < 20000, NEW up, ~(Rounded(n, d, up) > 0)
    PROVE  n = 0
<1> DEFINE e == IF up THEN d ELSE d - 1
           q == (20000 * n + e) \div (2 * d)
<1>1. Rounded(n, d, up) = q
  BY DEF Rounded
<1>2. e \in Int /\ d - 1 <= e /\ e <= d
  BY SMT
<1> HIDE DEF e
<1>3. n >= 1 => q >= 1
  BY <1>2, SMT
<1>4. q \in Int
  BY <1>2, SMT
<1>5. ~(q > 0)
  BY <1>1
<1> HIDE DEF q
<1> QED
  BY <1>3, <1>4, <1>5, SMT

LEMMA CriticalFew ==
    ASSUME NEW S, S \subseteq CRITICAL_CANONICAL_FIELDS
    PROVE  IsFiniteSet(S) /\ Cardinality(S) \in 0..7
<1> DEFINE A1 == {} \cup {"src.ip"}
           A2 == A1 \cup {"dst.ip"}
           A3 == A2 \cup {"src.port"}
           A4 == A3 \cup {"dst.port"}
           A5 == A4 \cup {"event.action"}
           A6 == A5 \cup {"event.outcome"}
           A7 == A6 \cup {"user.name"}
<1>1. A7 = CRITICAL_CANONICAL_FIELDS
  BY DEF CRITICAL_CANONICAL_FIELDS
<1> DEFINE Small(T, k) == IsFiniteSet(T) /\ Cardinality(T) \in 0..k
<1>2. \A T, x : \A k \in Nat : Small(T, k) => Small(T \cup {x}, k + 1)
  <2> SUFFICES ASSUME NEW T, NEW x, NEW k \in Nat, Small(T, k) PROVE Small(T \cup {x}, k + 1)
    OBVIOUS
  <2>1. /\ IsFiniteSet(T \cup {x})
        /\ Cardinality(T \cup {x}) = IF x \in T THEN Cardinality(T) ELSE Cardinality(T) + 1
    BY FS_AddElement
  <2> QED
    BY <2>1
<1>3. Small({}, 0)
  BY FS_EmptySet
<1> HIDE DEF Small
<1>4. Small(A1, 1)
  <2>1. Small(A1, 0 + 1)
    BY <1>2, <1>3
  <2> QED
    BY <2>1
<1> HIDE DEF A1
<1>5. Small(A2, 2)
  <2>1. Small(A2, 1 + 1)
    BY <1>2, <1>4
  <2> QED
    BY <2>1
<1> HIDE DEF A2
<1>6. Small(A3, 3)
  <2>1. Small(A3, 2 + 1)
    BY <1>2, <1>5
  <2> QED
    BY <2>1
<1> HIDE DEF A3
<1>7. Small(A4, 4)
  <2>1. Small(A4, 3 + 1)
    BY <1>2, <1>6
  <2> QED
    BY <2>1
<1> HIDE DEF A4
<1>8. Small(A5, 5)
  <2>1. Small(A5, 4 + 1)
    BY <1>2, <1>7
  <2> QED
    BY <2>1
<1> HIDE DEF A5
<1>9. Small(A6, 6)
  <2>1. Small(A6, 5 + 1)
    BY <1>2, <1>8
  <2> QED
    BY <2>1
<1> HIDE DEF A6
<1>10. Small(A7, 7)
  <2>1. Small(A7, 6 + 1)
    BY <1>2, <1>9
  <2> QED
    BY <2>1
<1>11. IsFiniteSet(CRITICAL_CANONICAL_FIELDS) /\ Cardinality(CRITICAL_CANONICAL_FIELDS) \in 0..7
  BY <1>1, <1>10 DEF Small
<1>12. IsFiniteSet(S) /\ Cardinality(S) <= Cardinality(CRITICAL_CANONICAL_FIELDS)
  BY <1>11, FS_Subset
<1>13. Cardinality(S) \in Nat
  BY <1>12, FS_CardinalityType
<1> QED
  BY <1>11, <1>12, <1>13

\* _check_critical_mapping_drift reports no drift only if every critical field is read
\* from the raw field it was read from.
LEMMA MappingKept ==
    ASSUME NEW s, NEW c, OneSource(s), ~(CriticalMappingDrift(s, c) > 0),
           NEW raw \in DOMAIN s, s[raw].map_to \in CRITICAL_CANONICAL_FIELDS
    PROVE  raw \in DOMAIN c /\ c[raw].map_to = s[raw].map_to
<1> DEFINE was == CriticalMap(s)
           is == CriticalMap(c)
           moved == {p \in DOMAIN was : p \notin DOMAIN is \/ is[p] # was[p]}
           path == s[raw].map_to
<1>1. /\ DOMAIN was = {s[r].map_to : r \in DOMAIN s} \cap CRITICAL_CANONICAL_FIELDS
      /\ DOMAIN is = {c[r].map_to : r \in DOMAIN c} \cap CRITICAL_CANONICAL_FIELDS
  BY DEF CriticalMap
<1>2. path \in DOMAIN was
  BY <1>1
<1>3. was[path] = raw
  <2>1. was[path] = CHOOSE r \in DOMAIN s : s[r].map_to = path
    BY <1>1, <1>2 DEF CriticalMap
  <2>2. \A r \in DOMAIN s : s[r].map_to = path => r = raw
    BY DEF OneSource
  <2> QED
    BY <2>1, <2>2
<1>4. ASSUME path \in DOMAIN is PROVE is[path] \in DOMAIN c /\ c[is[path]].map_to = path
  <2>1. is[path] = CHOOSE r \in DOMAIN c : c[r].map_to = path
    BY <1>1, <1>4 DEF CriticalMap
  <2>2. \E r \in DOMAIN c : c[r].map_to = path
    BY <1>1, <1>4
  <2> QED
    BY <2>1, <2>2
<1>5. CriticalMappingDrift(s, c) = Rounded(Cardinality(moved), Max({1, Cardinality(DOMAIN was)}), TRUE)
  BY DEF CriticalMappingDrift
<1>6. moved \subseteq CRITICAL_CANONICAL_FIELDS /\ DOMAIN was \subseteq CRITICAL_CANONICAL_FIELDS
  BY <1>1
<1> HIDE DEF was, is, moved
<1>7. /\ IsFiniteSet(moved) /\ Cardinality(moved) \in 0..7 /\ Cardinality(DOMAIN was) \in 0..7
  BY <1>6, CriticalFew
<1>8. Max({1, Cardinality(DOMAIN was)}) \in 1..7
  <2>1. 1 \in Int /\ Cardinality(DOMAIN was) \in Int
    BY <1>7
  <2>2. Max({1, Cardinality(DOMAIN was)}) = IF 1 >= Cardinality(DOMAIN was) THEN 1 ELSE Cardinality(DOMAIN was)
    BY <2>1, MaxOfTwo
  <2> QED
    BY <1>7, <2>2
<1>9. Cardinality(moved) = 0
  <2> DEFINE m == Cardinality(moved)
             d == Max({1, Cardinality(DOMAIN was)})
             up == TRUE
  <2>1. ~(Rounded(m, d, up) > 0)
    BY <1>5
  <2>2. m \in Nat
    BY <1>7
  <2>3. d \in Nat /\ 1 <= d /\ d < 20000
    BY <1>8, SMT
  <2> HIDE DEF m, d, up
  <2>4. m = 0
    BY <2>1, <2>2, <2>3, RoundSeesOne
  <2> QED
    BY <2>4 DEF m
<1>10. moved = {}
  BY <1>7, <1>9, FS_EmptySet
<1>11. path \in DOMAIN is /\ is[path] = was[path]
  BY <1>2, <1>10 DEF moved
<1> QED
  BY <1>3, <1>4, <1>11

LEMMA BlocksCounted ==
    ASSUME NEW h \in Histories
    PROVE  /\ BlocksExpected(h) \in Nat /\ BlocksPreserved(h) \in Nat
           /\ BlocksPreserved(h) <= BlocksExpected(h)
<1> DEFINE blocks == {i \in DOMAIN h : IsBlock(h[i])}
           kept == {i \in DOMAIN h : IsBlock(h[i]) /\ (Has(h[i], "src.ip") \/ Has(h[i], "dst.ip"))}
<1>1. IsFiniteSet(DOMAIN h)
  BY AssuranceAssumption, FS_Interval
<1>2. blocks \in SUBSET DOMAIN h /\ kept \in SUBSET blocks
  OBVIOUS
<1>3. BlocksExpected(h) = Cardinality(blocks) /\ BlocksPreserved(h) = Cardinality(kept)
  BY DEF BlocksExpected, BlocksPreserved
<1> HIDE DEF blocks, kept
<1>4. IsFiniteSet(blocks)
  BY <1>1, <1>2, FS_Subset
<1>5. IsFiniteSet(kept) /\ Cardinality(kept) <= Cardinality(blocks)
  BY <1>2, <1>4, FS_Subset
<1> QED
  BY <1>3, <1>4, <1>5, FS_CardinalityType

\* _check_dps_regression reports none only if no block with an endpoint is missing,
\* among as many blocks as the rounding can tell apart.
LEMMA BlocksKept ==
    ASSUME NEW b \in Histories, NEW a \in Histories, BlocksExpected(b) < 20000,
           NEW up, ~(DPSRegression(b, a, up) > 0)
    PROVE  BlocksPreserved(a) >= BlocksPreserved(b)
<1> DEFINE n == BlocksPreserved(b) - BlocksPreserved(a)
<1>1. /\ BlocksExpected(b) \in Nat /\ BlocksPreserved(b) \in Nat /\ BlocksPreserved(a) \in Nat
      /\ BlocksPreserved(b) <= BlocksExpected(b)
  BY BlocksCounted
<1>2. CASE BlocksExpected(b) = 0
  BY <1>1, <1>2
<1>3. CASE BlocksExpected(b) # 0
  <2>1. DPSRegression(b, a, up) = Rounded(Max({0, n}), BlocksExpected(b), up)
    BY <1>3 DEF DPSRegression
  <2>2. n \in Int
    BY <1>1
  <2>3. 0 \in Int /\ Max({0, n}) = IF 0 >= n THEN 0 ELSE n
    BY <2>2, MaxOfTwo
  <2> DEFINE m == Max({0, n})
             d == BlocksExpected(b)
  <2>4. ~(Rounded(m, d, up) > 0)
    BY <2>1
  <2>5. d \in Nat /\ 1 <= d /\ d < 20000
    BY <1>1, <1>3
  <2>6. m \in Nat /\ (m = 0 => 0 >= n)
    <3> HIDE DEF n
    <3> QED
      BY <2>2, <2>3
  <2> HIDE DEF m, d
  <2>7. m = 0
    BY <2>4, <2>5, <2>6, RoundSeesOne
  <2> QED
    BY <1>1, <2>6, <2>7
<1> QED
  BY <1>2, <1>3

\* detect_semantic_drift, for every pair of specifications and of histories: STABLE
\* means that critical fields, the meaning of actions and blocks are kept, each by
\* itself.
THEOREM StableIsTheSame == Spec => []StableKeepsMeaning
<1>1. AssuranceInv => StableKeepsMeaning
  <2> SUFFICES ASSUME AssuranceInv, drift = "STABLE", compared # None
               PROVE  StableKeepsMeaning
    BY DEF StableKeepsMeaning
  <2> DEFINE s == compared.spec
             c == compared.candidate
             b == compared.before
             a == compared.after
  <2>1. s \in Specs /\ c \in Specs /\ b \in Histories /\ a \in Histories
    BY DEF AssuranceInv, InputInv, Compared
  <2>2. PICK up \in SUBSET Signals : SemanticState(s, c, b, a, up) = "STABLE"
    BY DEF AssuranceInv, ReportInv
  <2> HIDE DEF s, c, b, a
  <2>3. /\ ~(DPSRegression(b, a, "dps" \in up) > 0) /\ ~(CriticalMappingDrift(s, c) > 0)
        /\ ~(EnumDrift(s, c, a, "enum" \in up) > 500)
    BY <2>2 DEF SemanticState
  <2>4. ~Inverted(ActionEnum(s), ActionEnum(c))
    <3>1. Inverted(ActionEnum(s), ActionEnum(c)) => EnumDrift(s, c, a, "enum" \in up) = 10000
      BY DEF EnumDrift
    <3> QED
      BY <2>3, <3>1, SMT
  <2>5. ActionsKept(ActionEnum(s), ActionEnum(c))
    BY <2>4 DEF Inverted, ActionsKept
  <2>6. OneSource(s) => CriticalKept(s, c)
    BY <2>3, MappingKept DEF CriticalKept
  <2>7. BlocksExpected(b) < 20000 => BlocksPreserved(a) >= BlocksPreserved(b)
    BY <2>1, <2>3, BlocksKept
  <2> QED
    BY <2>5, <2>6, <2>7 DEF StableKeepsMeaning, s, c, b, a
<1> QED
  BY <1>1, AssuranceHolds, PTL

-----------------------------------------------------------------------------
\* A window whose lines are of known kinds.
IsWindow(w) ==
    /\ Len(w) \in Nat /\ DOMAIN w = 1..Len(w)
    /\ \A i \in DOMAIN w : w[i][1] \in DOMAIN LineKinds

\* What one batch of it is read as.
LEMMA BatchRead ==
    ASSUME NEW w, IsWindow(w)
    PROVE  /\ DOMAIN Profile(w).batches = DOMAIN w
           /\ \A i \in DOMAIN w : IsFiniteSet(DOMAIN Profile(w).batches[i].types)
<1> DEFINE format(i) == ReadAs(Kind(w, i), Dominant(w))
           batches == [i \in DOMAIN w |->
              [lines |-> Times(w, i), format |-> format(i), types |-> Reading(Kind(w, i), format(i))]]
<1>1. Profile(w).batches = batches
  BY DEF Profile
<1>2. \A line : ReadAs(line, Dominant(w)) # "none" => ReadAs(line, Dominant(w)) \in DOMAIN line.reads
  BY DEF ReadAs
<1>3. ASSUME NEW i \in DOMAIN w PROVE IsFiniteSet(DOMAIN batches[i].types)
  <2>1. batches[i].types = Reading(Kind(w, i), format(i))
    OBVIOUS
  <2>2. CASE format(i) = "none"
    <3>1. DOMAIN Reading(Kind(w, i), format(i)) = {}
      BY <2>2 DEF Reading
    <3> QED
      BY <2>1, <3>1, FS_EmptySet
  <2>3. CASE format(i) # "none"
    <3>1. Reading(Kind(w, i), format(i)) = Kind(w, i).reads[format(i)] /\ format(i) \in DOMAIN Kind(w, i).reads
      BY <1>2, <2>3 DEF Reading
    <3>2. w[i][1] \in DOMAIN LineKinds
      BY DEF IsWindow
    <3> HIDE DEF format
    <3>3. IsFiniteSet(DOMAIN Kind(w, i).reads[format(i)])
      BY <3>1, <3>2, AssuranceAssumption DEF Kind
    <3> QED
      BY <2>1, <3>1, <3>3
  <2> QED
    BY <2>2, <2>3
<1>4. DOMAIN batches = DOMAIN w
  OBVIOUS
<1> HIDE DEF batches
<1> QED
  BY <1>1, <1>3, <1>4

LEMMA FieldsFinite ==
    ASSUME NEW w, IsWindow(w)
    PROVE  IsFiniteSet(FieldNames(Profile(w)))
<1> DEFINE batches == Profile(w).batches
           fields(i) == DOMAIN batches[i].types
           families == {fields(i) : i \in DOMAIN batches}
           f == [i \in DOMAIN batches |-> fields(i)]
<1>1. DOMAIN batches = DOMAIN w /\ \A i \in DOMAIN batches : IsFiniteSet(fields(i))
  BY BatchRead
<1>2. IsFiniteSet(DOMAIN w)
  BY FS_Interval DEF IsWindow
<1>3. FieldNames(Profile(w)) = UNION families
  BY DEF FieldNames
<1> HIDE DEF fields, batches
<1>4. f \in Surjection(DOMAIN batches, families)
  BY DEF Surjection
<1>5. IsFiniteSet(families)
  BY <1>1, <1>2, <1>4, FS_Surjection
<1>6. \A T \in families : IsFiniteSet(T)
  BY <1>1
<1> HIDE DEF families
<1>7. IsFiniteSet(UNION families)
  BY <1>5, <1>6, FS_UNION
<1> QED
  BY <1>3, <1>7

\* Sets whose union and intersection have the same size are one set.
LEMMA NoDistance ==
    ASSUME NEW S, NEW T, IsFiniteSet(S), IsFiniteSet(T), Cardinality(S \cup T) <= 6,
           ~((Cardinality(S \cup T) - Cardinality(S \cap T)) * 1000 > 150 * Max({1, Cardinality(S \cup T)}))
    PROVE  S = T
<1> DEFINE union == S \cup T
           common == S \cap T
<1>1. IsFiniteSet(union)
  BY FS_Union
<1>2. common \in SUBSET union
  OBVIOUS
<1> HIDE DEF union, common
<1>3. /\ IsFiniteSet(common) /\ Cardinality(common) <= Cardinality(union)
      /\ Cardinality(union) = Cardinality(common) => union = common
  BY <1>1, <1>2, FS_Subset
<1> DEFINE m == Cardinality(union)
           n == Cardinality(common)
<1>4. m \in Nat /\ n \in Nat /\ n <= m /\ m <= 6
  BY <1>1, <1>3, FS_CardinalityType DEF union
<1>5. 1 \in Int /\ m \in Int
  BY <1>4
<1> HIDE DEF m, n
<1>6. Max({1, m}) = IF 1 >= m THEN 1 ELSE m
  BY <1>5, MaxOfTwo
<1>7. ~((m - n) * 1000 > 150 * Max({1, m}))
  BY DEF m, n, union, common
<1>8. m = n
  <2> DEFINE top == Max({1, m})
  <2>1. top \in Nat /\ top <= 6
    BY <1>4, <1>6
  <2>2. ~((m - n) * 1000 > 150 * top)
    BY <1>7
  <2> HIDE DEF top
  <2> QED
    BY <1>4, <2>1, <2>2, SMT
<1>9. union = common
  BY <1>3, <1>8 DEF m, n
<1> QED
  BY <1>9 DEF union, common

\* Of at most six shared fields a single one with another type exceeds the rate.
LEMMA NoMutation ==
    ASSUME NEW shared, NEW changed \in SUBSET shared, IsFiniteSet(shared), Cardinality(shared) <= 6,
           ~(Cardinality(changed) * 1000 > 5 * Max({1, Cardinality(shared)}))
    PROVE  changed = {}
<1> DEFINE m == Cardinality(shared)
           n == Cardinality(changed)
<1>1. IsFiniteSet(changed)
  BY FS_Subset
<1>2. m \in Nat /\ n \in Nat /\ m <= 6
  BY <1>1, FS_CardinalityType
<1>3. 1 \in Int /\ m \in Int
  BY <1>2
<1>4. ~(n * 1000 > 5 * Max({1, m}))
  OBVIOUS
<1> HIDE DEF m, n
<1>5. Max({1, m}) = IF 1 >= m THEN 1 ELSE m
  BY <1>3, MaxOfTwo
<1>6. n = 0
  <2> DEFINE top == Max({1, m})
  <2>1. top \in Nat /\ top <= 6
    BY <1>2, <1>5
  <2>2. ~(n * 1000 > 5 * top)
    BY <1>4
  <2> HIDE DEF top
  <2> QED
    BY <1>2, <2>1, <2>2, SMT
<1> QED
  BY <1>1, <1>6, FS_EmptySet DEF n

\* compare_profiles, for every baseline and every window of lines of any kinds: a
\* source of few fields that is STABLE has kept all of them and their types.
THEOREM StableHasTheShape == Spec => []StableKeepsShape
<1>1. AssuranceInv => StableKeepsShape
  <2> DEFINE old == BaselineProfile
             new == Profile(window)
  <2> SUFFICES ASSUME AssuranceInv, drift = "STABLE", window # <<>>,
                      Cardinality(FieldNames(old) \cup FieldNames(new)) <= 6
               PROVE  /\ FieldNames(new) = FieldNames(old)
                      /\ \A name \in FieldNames(new) :
                            \/ "null" \in {InferredType(old, name), InferredType(new, name)}
                            \/ InferredType(new, name) = InferredType(old, name)
    BY DEF StableKeepsShape
  <2> DEFINE base == FieldNames(old)
             now == FieldNames(new)
             shared == base \cap now
             changed == {name \in shared : Mutated(old, new, name)}
  <2>1. IsWindow(window)
    <3>1. window \in Seq(Batched)
      BY DEF AssuranceInv, TypeInv
    <3>2. \A b \in Batched : b[1] \in DOMAIN LineKinds
      BY DEF Batched
    <3> HIDE DEF Batched
    <3> QED
      BY <3>1, <3>2 DEF IsWindow
  <2>2. IsWindow(Baseline)
    BY AssuranceAssumption DEF IsWindow
  <2>3. IsFiniteSet(base) /\ IsFiniteSet(now)
    BY <2>1, <2>2, FieldsFinite DEF BaselineProfile
  <2>4. StructuralState(old, new) = "STABLE"
    BY DEF AssuranceInv, ReportInv
  <2> HIDE DEF old, new
  <2>5. ~Exceeds(KeySetDistance(old, new), 150) /\ ~Exceeds(TypeViolations(old, new), 5)
    BY <2>4 DEF StructuralState
  <2>6. ~((Cardinality(base \cup now) - Cardinality(base \cap now)) * 1000 > 150 * Max({1, Cardinality(base \cup now)}))
    BY <2>5 DEF Exceeds, KeySetDistance
  <2>7. ~(Cardinality(changed) * 1000 > 5 * Max({1, Cardinality(shared)}))
    BY <2>5 DEF Exceeds, TypeViolations
  <2>8. Cardinality(base \cup now) <= 6
    OBVIOUS
  <2> HIDE DEF base, now
  <2>9. base = now
    BY <2>3, <2>6, <2>8, NoDistance
  <2>10. shared = base /\ base \cup now = base
    BY <2>9
  <2>11. changed \in SUBSET shared /\ IsFiniteSet(shared) /\ Cardinality(shared) <= 6
    BY <2>3, <2>8, <2>10
  <2>12. changed = {}
    <3> HIDE DEF changed, shared
    <3> QED
      BY <2>7, <2>11, NoMutation
  <2>13. \A name \in now : ~Mutated(old, new, name)
    BY <2>9, <2>12
  <2>14. \A name \in now :
            \/ "null" \in {InferredType(old, name), InferredType(new, name)}
            \/ InferredType(new, name) = InferredType(old, name)
    BY <2>13 DEF Mutated
  <2> QED
    BY <2>9, <2>14 DEF base, now
<1> QED
  BY <1>1, AssuranceHolds, PTL

-----------------------------------------------------------------------------
\* A word that holds a part is not empty.
LEMMA EmptyHoldsNothing ==
    ASSUME NEW parts
    PROVE  ~Holds("", parts)
BY PartsAssumption DEF Holds

\* The string fields of a normalised event.
LEMMA NormalString ==
    ASSUME NEW ex, NEW u, NEW path \in StringPaths
    PROVE  Str(Normalize(ex, u, "syslog"), path) = StringField(ex, u, "syslog", path)
<1> DEFINE fields == [p \in StringPaths |-> StringField(ex, u, "syslog", p)]
<1>1. Normalize(ex, u, "syslog").str = NonEmpty(fields)
  BY DEF Normalize
<1>2. fields[path] = StringField(ex, u, "syslog", path) /\ path \in DOMAIN fields
  OBVIOUS
<1> HIDE DEF fields
<1>3. path \in DOMAIN NonEmpty(fields) <=> fields[path] # ""
  BY <1>2 DEF NonEmpty
<1>4. fields[path] # "" => NonEmpty(fields)[path] = fields[path]
  BY <1>2 DEF NonEmpty
<1> QED
  BY <1>1, <1>2, <1>3, <1>4 DEF Str

\* The fields one by one: what is worked out, and what is copied.
FieldByField(ex, u) ==
    /\ StringField(ex, u, "syslog", "event.action") = ActionOf(ex)
    /\ StringField(ex, u, "syslog", "event.outcome") = OutcomeOf(ActionOf(ex))
    /\ StringField(ex, u, "syslog", "event.time") = Or(Str(ex, "event.timestamp"), "now")
    /\ StringField(ex, u, "syslog", "event.class") = Or(Str(ex, "event.class"), InferredClass(ex, "syslog"))
    /\ StringField(ex, u, "syslog", "source.vendor") = Or(Str(ex, "observer.vendor"), "unknown")
    /\ StringField(ex, u, "syslog", "network.protocol") = Or(Str(ex, "network.transport"), Str(ex, "network.protocol"))
    /\ StringField(ex, u, "syslog", "device.hostname") = Str(ex, "host.name")
    /\ StringField(ex, u, "syslog", "http.method") = Str(ex, "http.request.method")
    /\ StringField(ex, u, "syslog", "http.url") = IF ~IsWeb(ex) THEN ""
                           ELSE IF "http.url" \in DOMAIN ex.str THEN ex.str["http.url"] ELSE Str(u, "uri")
    /\ \A path \in {"src.ip", "dst.ip", "user.name", "dns.query_name", "dns.query_type",
                    "dns.response_code", "alert.severity", "alert.name"} : StringField(ex, u, "syslog", path) = Str(ex, path)

LEMMA StringFields ==
    ASSUME NEW ex, NEW u
    PROVE  FieldByField(ex, u)
<1> DEFINE field(path) == StringField(ex, u, "syslog", path)
<1>1. field("event.action") = ActionOf(ex)
  BY Zenon DEF StringField
<1>2. field("event.outcome") = OutcomeOf(ActionOf(ex))
  BY Zenon DEF StringField
<1>3. field("event.time") = Or(Str(ex, "event.timestamp"), "now")
  BY Zenon DEF StringField
<1>4. field("event.class") = Or(Str(ex, "event.class"), InferredClass(ex, "syslog"))
  BY Zenon DEF StringField
<1>5. field("source.vendor") = Or(Str(ex, "observer.vendor"), "unknown")
  BY Zenon DEF StringField
<1>6. field("network.protocol") = Or(Str(ex, "network.transport"), Str(ex, "network.protocol"))
  BY Zenon DEF StringField
<1>7. field("device.hostname") = Str(ex, "host.name")
  BY Zenon DEF StringField
<1>8. field("http.method") = Str(ex, "http.request.method")
  BY Zenon DEF StringField
<1>9. field("http.url") = IF ~IsWeb(ex) THEN ""
                          ELSE IF "http.url" \in DOMAIN ex.str THEN ex.str["http.url"] ELSE Str(u, "uri")
  BY Zenon DEF StringField
<1>10. \A path \in {"src.ip", "dst.ip", "user.name", "dns.query_name", "dns.query_type",
                   "dns.response_code", "alert.severity", "alert.name"} : field(path) = Str(ex, path)
  <2>1. field("src.ip") = Str(ex, "src.ip")
    BY Zenon DEF StringField
  <2>2. field("dst.ip") = Str(ex, "dst.ip")
    BY Zenon DEF StringField
  <2>3. field("user.name") = Str(ex, "user.name")
    BY Zenon DEF StringField
  <2>4. field("dns.query_name") = Str(ex, "dns.query_name")
    BY Zenon DEF StringField
  <2>5. field("dns.query_type") = Str(ex, "dns.query_type")
    BY Zenon DEF StringField
  <2>6. field("dns.response_code") = Str(ex, "dns.response_code")
    BY Zenon DEF StringField
  <2>7. field("alert.severity") = Str(ex, "alert.severity")
    BY Zenon DEF StringField
  <2>8. field("alert.name") = Str(ex, "alert.name")
    BY Zenon DEF StringField
  <2> HIDE DEF field
  <2> QED
    BY <2>1, <2>2, <2>3, <2>4, <2>5, <2>6, <2>7, <2>8
<1> HIDE DEF field
<1> QED
  BY <1>1, <1>2, <1>3, <1>4, <1>5, <1>6, <1>7, <1>8, <1>9, <1>10 DEF field, FieldByField

\* Fields that Normalize carries over, and those it fills in when they are empty.
LEMMA CarriedOver ==
    ASSUME NEW ex, NEW u
    PROVE  LET event2 == Normalize(ex, u, "syslog") IN
           /\ \A path \in {"src.ip", "dst.ip", "user.name", "dns.query_name", "dns.query_type"} :
                 Str(event2, path) = Str(ex, path)
           /\ Action(ex) # "" => Action(event2) = Action(ex)
           /\ Class(ex) # "" => Class(event2) = Class(ex)
           /\ IsWeb(ex) /\ Has(ex, "http.url") => Has(event2, "http.url")
<1> DEFINE event2 == Normalize(ex, u, "syslog")
           field(path) == StringField(ex, u, "syslog", path)
<1>1. \A path \in {"src.ip", "dst.ip", "user.name", "dns.query_name", "dns.query_type"} : field(path) = Str(ex, path)
  BY StringFields DEF FieldByField
<1>2. field("event.action") = ActionOf(ex)
  BY StringFields DEF FieldByField
<1>3. field("event.class") = Or(Str(ex, "event.class"), InferredClass(ex, "syslog"))
  BY StringFields DEF FieldByField
<1>4. field("http.url") = IF ~IsWeb(ex) THEN ""
                          ELSE IF "http.url" \in DOMAIN ex.str THEN ex.str["http.url"] ELSE Str(u, "uri")
  BY StringFields DEF FieldByField
<1>5. \A path \in StringPaths : Str(event2, path) = field(path)
  BY NormalString
<1>6. {"src.ip", "dst.ip", "user.name", "dns.query_name", "dns.query_type", "event.action", "event.class",
       "http.url"} \subseteq StringPaths
  BY DEF StringPaths
<1> HIDE DEF field, event2
<1>7. \A path \in {"src.ip", "dst.ip", "user.name", "dns.query_name", "dns.query_type"} :
         Str(event2, path) = Str(ex, path)
  BY <1>1, <1>5, <1>6
<1>8. Action(ex) # "" => Action(event2) = Action(ex)
  BY <1>2, <1>5, <1>6 DEF Action, ActionOf, Or
<1>9. Class(ex) # "" => Class(event2) = Class(ex)
  BY <1>3, <1>5, <1>6 DEF Class, Or
<1>10. IsWeb(ex) /\ Has(ex, "http.url") => Has(event2, "http.url")
  BY <1>4, <1>5, <1>6 DEF Has, Str
<1> QED
  BY <1>7, <1>8, <1>9, <1>10 DEF event2

\* Ports and status code are carried over as well; another name for the code is not.
LEMMA NumbersCarriedOver ==
    ASSUME NEW ex, NEW u, "http.status_code" \notin DOMAIN ex.int
    PROVE  LET event2 == Normalize(ex, u, "syslog") IN
           /\ \A numbers : IntIn(Extracted(ex), "dst.port", numbers) => IntIn(event2, "dst.port", numbers)
           /\ \A numbers : IntIn(Extracted(ex), "http.status_code", numbers) =>
                 IntIn(event2, "http.status_code", numbers) /\ IsWeb(ex)
<1> DEFINE event2 == Normalize(ex, u, "syslog")
           named == Pick(ex.int, IntFields)
<1>1. event2.int = named
  BY DEF Normalize
<1>2. /\ DOMAIN Extracted(ex).int = DOMAIN named \cup DOMAIN ex.int
      /\ \A p \in DOMAIN named : Extracted(ex).int[p] = named[p]
  BY DEF Extracted
<1>3. /\ "dst.port" \in DOMAIN named <=> "dst.port" \in DOMAIN ex.int
      /\ "http.status_code" \in DOMAIN named <=> "http.response.status_code" \in DOMAIN ex.int
  BY DEF Pick, IntFields
<1>4. "http.response.status_code" \in DOMAIN ex.int => IsWeb(ex)
  BY DEF IsWeb, Present
<1> HIDE DEF named, event2
<1>5. \A numbers : IntIn(Extracted(ex), "dst.port", numbers) => IntIn(event2, "dst.port", numbers)
  BY <1>1, <1>2, <1>3 DEF IntIn
<1>6. \A numbers : IntIn(Extracted(ex), "http.status_code", numbers) =>
         IntIn(event2, "http.status_code", numbers) /\ IsWeb(ex)
  BY <1>1, <1>2, <1>3, <1>4 DEF IntIn
<1> QED
  BY <1>5, <1>6 DEF event2

\* Without an extracted outcome, each rule but two holds of the event if it holds of
\* what was extracted.
LEMMA RulesCarriedOver ==
    ASSUME NEW ex, NEW u, "http.status_code" \notin DOMAIN ex.int, "event.outcome" \notin DOMAIN ex.str
    PROVE  Matched(Extracted(ex)) \ {"DET-009", "DET-010"} \subseteq Matched(Normalize(ex, u, "syslog"))
<1> DEFINE from == Extracted(ex)
           to == Normalize(ex, u, "syslog")
<1>1. \A path : Str(from, path) = Str(ex, path)
  BY DEF Extracted, Str
<1>2. /\ \A path \in {"src.ip", "dst.ip", "user.name", "dns.query_name", "dns.query_type"} :
            Str(to, path) = Str(from, path)
      /\ Action(from) # "" => Action(to) = Action(from)
      /\ Class(from) # "" => Class(to) = Class(from)
      /\ IsWeb(ex) /\ Has(from, "http.url") => Has(to, "http.url")
  BY <1>1, CarriedOver DEF Action, Class, Has
<1>3. /\ \A numbers : IntIn(from, "dst.port", numbers) => IntIn(to, "dst.port", numbers)
      /\ \A numbers : IntIn(from, "http.status_code", numbers) => IntIn(to, "http.status_code", numbers) /\ IsWeb(ex)
  BY NumbersCarriedOver
<1>4. Outcome(from) = ""
  BY <1>1 DEF Outcome, Str
<1> HIDE DEF from, to
<1>5. /\ \A parts : Holds(Action(from), parts) => Holds(Action(to), parts)
      /\ \A parts : Holds(Class(from), parts) => Holds(Class(to), parts)
  BY <1>2, EmptyHoldsNothing
<1>6. \A path \in {"src.ip", "dst.ip", "user.name", "dns.query_name", "dns.query_type"} :
         Has(from, path) => Has(to, path)
  BY <1>2 DEF Has
<1>7. ~Det001(from) /\ ~Det003(from)
  BY <1>4 DEF Det001, Det003
<1>8. Det002(from) => Det002(to)
  BY <1>4, <1>5, <1>6 DEF Det002
<1>9. Det004(from) => Det004(to)
  BY <1>4, <1>5 DEF Det004
<1>10. Det005(from) => Det005(to)
  <2>1. Class(from) = "dns" => Class(to) = "dns"
    BY <1>2
  <2> QED
    BY <1>5, <1>6, <2>1 DEF Det005
<1>11. Det006(from) => Det006(to)
  BY <1>2, <1>3, <1>4 DEF Det006
<1>12. Det007(from) => Det007(to)
  <2> DEFINE ports == {445, 3389, 22, 5985, 135}
             allowed == {"allow", "accept", "connect"}
  <2>0. \A e : Det007(e) <=> /\ IntIn(e, "dst.port", ports)
                             /\ Has(e, "src.ip") /\ Has(e, "dst.ip")
                             /\ Holds(Action(e), allowed) \/ Outcome(e) = "success"
    BY SMT DEF Det007
  <2> HIDE DEF ports, allowed
  <2>1. /\ IntIn(from, "dst.port", ports) => IntIn(to, "dst.port", ports)
        /\ Holds(Action(from), allowed) => Holds(Action(to), allowed)
    BY <1>3, <1>5
  <2>2. Has(from, "src.ip") /\ Has(from, "dst.ip") => Has(to, "src.ip") /\ Has(to, "dst.ip")
    BY <1>6
  <2>3. Outcome(from) # "success"
    BY <1>4
  <2> QED
    BY <2>0, <2>1, <2>2, <2>3
<1>13. Det008(from) => Det008(to)
  BY <1>2, <1>5 DEF Det008
<1>14. ASSUME NEW r \in Matched(from), r \notin {"DET-009", "DET-010"}
       PROVE  r \in Matched(to)
  BY <1>7, <1>8, <1>9, <1>10, <1>11, <1>12, <1>13, <1>14 DEF Matched
<1> QED
  BY <1>14 DEF from, to

\* Leaving out the extracted outcome does not change what Normalize makes of it.
LEMMA OutcomeUnused ==
    ASSUME NEW ex, NEW u
    PROVE  LET bare == [str |-> [p \in DOMAIN ex.str \ {"event.outcome"} |-> ex.str[p]], int |-> ex.int]
           IN  Matched(Normalize(bare, u, "syslog")) = Matched(Normalize(ex, u, "syslog"))
<1> DEFINE bare == [str |-> [p \in DOMAIN ex.str \ {"event.outcome"} |-> ex.str[p]], int |-> ex.int]
<1>1. \A path : path # "event.outcome" => Str(bare, path) = Str(ex, path) /\ (Present(bare, path) <=> Present(ex, path))
  BY DEF Str, Present
<1>2. bare.int = ex.int
  OBVIOUS
<1>3. /\ "http.url" \in DOMAIN bare.str <=> "http.url" \in DOMAIN ex.str
      /\ "http.url" \in DOMAIN ex.str => bare.str["http.url"] = ex.str["http.url"]
  OBVIOUS
<1> HIDE DEF bare
<1>4. ActionOf(bare) = ActionOf(ex) /\ (IsWeb(bare) <=> IsWeb(ex))
  BY <1>1 DEF ActionOf, IsWeb
<1>5. InferredClass(bare, "syslog") = InferredClass(ex, "syslog")
  BY <1>1, <1>4 DEF InferredClass
<1>6. \A path \in StringPaths : StringField(bare, u, "syslog", path) = StringField(ex, u, "syslog", path)
  <2> DEFINE before(path) == StringField(ex, u, "syslog", path)
             after(path) == StringField(bare, u, "syslog", path)
  <2>0. FieldByField(ex, u) /\ FieldByField(bare, u)
    BY StringFields
  <2>1. /\ before("event.action") = after("event.action") /\ before("event.outcome") = after("event.outcome")
        /\ before("event.time") = after("event.time") /\ before("event.class") = after("event.class")
    BY <1>1, <1>4, <1>5, <2>0 DEF FieldByField
  <2>2. /\ before("source.vendor") = after("source.vendor") /\ before("network.protocol") = after("network.protocol")
        /\ before("device.hostname") = after("device.hostname") /\ before("http.method") = after("http.method")
    BY <1>1, <2>0 DEF FieldByField
  <2>3. before("http.url") = after("http.url")
    BY <1>1, <1>3, <1>4, <2>0 DEF FieldByField
  <2>4. \A path \in {"src.ip", "dst.ip", "user.name", "dns.query_name", "dns.query_type",
                      "dns.response_code", "alert.severity", "alert.name"} : before(path) = after(path)
    BY <1>1, <2>0 DEF FieldByField
  <2> HIDE DEF before, after
  <2>5. \A path \in StringPaths : before(path) = after(path)
    BY <2>1, <2>2, <2>3, <2>4 DEF StringPaths
  <2> QED
    BY <2>5 DEF before, after
<1>7. [p \in StringPaths |-> StringField(bare, u, "syslog", p)] = [p \in StringPaths |-> StringField(ex, u, "syslog", p)]
  BY <1>6
<1>8. Normalize(bare, u, "syslog") = Normalize(ex, u, "syslog")
  BY <1>2, <1>7 DEF Normalize
<1> QED
  BY <1>8 DEF bare

\* Normalizer.Normalize, for every extraction: the detections that rest on action,
\* class, addresses, ports and names survive it.
THEOREM DetectionsSurvive == Spec => []ActionDetectionsSurvive
<1>1. AssuranceInv => ActionDetectionsSurvive
  <2> SUFFICES ASSUME AssuranceInv, event # None, "http.status_code" \notin DOMAIN event.ex.int
               PROVE  ActionDetectionsSurvive
    BY DEF ActionDetectionsSurvive
  <2>1. PICK ex \in Extractions, u \in Unknown : event = [ex |-> ex, normal |-> Normalize(ex, u, "syslog")]
    BY DEF AssuranceInv, InputInv, Normalized
  <2>2. event.ex = ex /\ event.normal = Normalize(ex, u, "syslog")
    BY <2>1
  <2> DEFINE bare == [str |-> [p \in DOMAIN ex.str \ {"event.outcome"} |-> ex.str[p]], int |-> ex.int]
  <2>3. "http.status_code" \notin DOMAIN bare.int /\ "event.outcome" \notin DOMAIN bare.str
    BY <2>2
  <2>4. Matched(Normalize(bare, u, "syslog")) = Matched(Normalize(ex, u, "syslog"))
    BY OutcomeUnused
  <2>5. Matched(Extracted(bare)) \ {"DET-009", "DET-010"} \subseteq Matched(Normalize(bare, u, "syslog"))
    <3> HIDE DEF bare
    <3> QED
      BY <2>3, RulesCarriedOver
  <2>6. Matched(Extracted(bare)) \ {"DET-009", "DET-010"} \subseteq Matched(event.normal)
    BY <2>2, <2>4, <2>5
  <2> QED
    BY <2>2, <2>6 DEF ActionDetectionsSurvive
<1> QED
  BY <1>1, AssuranceHolds, PTL
=============================================================================
