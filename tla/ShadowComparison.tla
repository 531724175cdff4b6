-------------------------- MODULE ShadowComparison --------------------------
(***************************************************************************)
(* The verdict a candidate parser gets: ShadowRunner._parse (ml/shadow/    *)
(* runner.py) run with the active and the candidate specification over a   *)
(* window of log lines, ShadowComparator (ml/shadow/comparator.py) over    *)
(* both outputs, and PromotionPolicy.evaluate (ml/self_healing/policy.py)  *)
(* over all gates.  Everything here is a function of its arguments; the    *)
(* comparator does not depend on the order of the lines, so a window is a  *)
(* bag: how often each line occurs in it.                                  *)
(***************************************************************************)
EXTENDS Integers, Sequences, FiniteSets, FiniteSetsExt

CONSTANTS
    RawFields,     \* the keys the profiler extracts from this source's lines
    FieldOrder,    \* the order in which it extracts them
    CanonFields,   \* the canonical paths specifications map to
    Critical,      \* CRITICAL_SECURITY_FIELDS
    Values,        \* extracted values
    Lower,         \* value -> its stripped, lower-case form
    Blocking,      \* lower-case actions with "deny", "block" or "drop" in them
    Denied,        \* lower-case outcomes with "denied" in them
    Specs,         \* parser specifications
    Windows,       \* recent_log_samples: bags of lines
    Absent         \* no such key

Action == "event.action"
Outcome == "event.outcome"
SrcIP == "src.ip"
DstIP == "dst.ip"

RawEvents == [RawFields -> Values \cup {Absent}]

\* A specification: whether it has the keys _validate_spec_schema asks for,
\* whether its version is one handle_repair can turn into a number, whether its
\* format hint fits the source's lines, and for every raw field its entry under
\* "fields": Absent, or map_to and the enum table.
IsSpec(s) ==
    /\ s.conforms \in BOOLEAN
    /\ s.versioned \in BOOLEAN
    /\ s.understood \in BOOLEAN
    /\ \A f \in RawFields : s.fields[f] = Absent \/ s.fields[f].map_to \in CanonFields

ASSUME ShadowAssumption ==
    /\ {FieldOrder[i] : i \in 1..Len(FieldOrder)} = RawFields
    /\ {Action, Outcome, SrcIP, DstIP} \subseteq CanonFields
    /\ Critical \subseteq CanonFields
    /\ Absent \notin Values
    /\ \A s \in Specs : IsSpec(s)
    /\ \A w \in Windows :
          DOMAIN w \subseteq RawEvents /\ IsFiniteSet(DOMAIN w) /\ \A r \in DOMAIN w : w[r] \in Nat \ {0}

-----------------------------------------------------------------------------
\* parse_record: a line the hinted format does not fit yields no fields.
Extracted(raw, spec) == IF spec.understood THEN raw ELSE [f \in RawFields |-> Absent]

EnumValue(v, def) == IF v \in DOMAIN def.enum THEN def.enum[v] ELSE v

\* _parse: mapped fields in the order of extraction, so that of two fields with
\* the same map_to the last one stays; the others go to unknown_fields.
Parse(raw, spec) ==
    LET x == Extracted(raw, spec)
        MapsTo(i, c) ==
            LET f == FieldOrder[i]
            IN  x[f] # Absent /\ spec.fields[f] # Absent /\ spec.fields[f].map_to = c
        Writers(c) == {i \in 1..Len(FieldOrder) : MapsTo(i, c)}
        Last(c) == FieldOrder[Max(Writers(c))]
    IN  [mapped |-> [c \in CanonFields |->
                       IF Writers(c) = {} THEN Absent
                       ELSE EnumValue(x[Last(c)], spec.fields[Last(c)])],
         unknown |-> [f \in RawFields |-> IF spec.fields[f] = Absent THEN x[f] ELSE Absent]]

-----------------------------------------------------------------------------
\* How often something occurs in the lines of a window.
Total(window, Weight(_)) ==
    MapThenSumSet(LAMBDA raw : window[raw] * Weight(raw), DOMAIN window)

\* How many of the lines are among raws, each as often as it occurs.
Lines(window, raws) == Cardinality(UNION {{raw} \X (1..window[raw]) : raw \in raws})

Scale == 10000

\* round(n / d, 4), in units of 1 / Scale.
Rounded(n, d) == (2 * n * Scale + d) \div (2 * d)

\* _evaluate_field_congruence
FieldMatchRate(window, active, cand) ==
    LET Kept(raw) == {c \in CanonFields : Parse(raw, active).mapped[c] # Absent}
        Same(raw) == {c \in Kept(raw) : Parse(raw, cand).mapped[c] = Parse(raw, active).mapped[c]}
        comparisons == Total(window, LAMBDA raw : Cardinality(Kept(raw)))
    IN  IF comparisons = 0 THEN Scale
        ELSE Rounded(Total(window, LAMBDA raw : Cardinality(Same(raw))), comparisons)

\* Actions and outcomes are compared case-insensitively.
SameMeaning(c, a, b) ==
    IF c \in {Action, Outcome} /\ b # Absent THEN Lower[a] = Lower[b] ELSE a = b

EventDiverged(raw, active, cand) ==
    \E c \in Critical :
        LET a == Parse(raw, active).mapped[c]
            b == Parse(raw, cand).mapped[c]
        IN  a # Absent /\ ~ SameMeaning(c, a, b)

\* _evaluate_critical_semantics
CriticalDivergence(window, active, cand) ==
    LET samples == Lines(window, DOMAIN window)
    IN  IF samples = 0 THEN 0
        ELSE Rounded(Lines(window, {raw \in DOMAIN window : EventDiverged(raw, active, cand)}), samples)

\* _evaluate_unknown_retention: a field the active parser did not know is kept
\* under its key, or its value is found somewhere in the candidate's event.
UnknownRetention(window, active, cand) ==
    LET Unknown(raw) == {f \in RawFields : Parse(raw, active).unknown[f] # Absent}
        Retained(raw) ==
            {f \in Unknown(raw) :
                \/ Parse(raw, cand).unknown[f] # Absent
                \/ \E c \in CanonFields :
                      Parse(raw, cand).mapped[c] = Parse(raw, active).unknown[f]}
        unknowns == Total(window, LAMBDA raw : Cardinality(Unknown(raw)))
    IN  IF unknowns = 0 THEN Scale
        ELSE Rounded(Total(window, LAMBDA raw : Cardinality(Retained(raw))), unknowns)

\* calc_dps: of the events that report a block, how many name an endpoint.
DPS(window, spec) ==
    LET IsBlock(ev) ==
            \/ ev.mapped[Action] # Absent /\ Lower[ev.mapped[Action]] \in Blocking
            \/ ev.mapped[Outcome] # Absent /\ Lower[ev.mapped[Outcome]] \in Denied
        HasEndpoint(ev) == ev.mapped[SrcIP] # Absent \/ ev.mapped[DstIP] # Absent
        blocks == {raw \in DOMAIN window : IsBlock(Parse(raw, spec))}
        expected == Lines(window, blocks)
        preserved == Lines(window, {raw \in blocks : HasEndpoint(Parse(raw, spec))})
    IN  IF expected = 0 THEN Scale ELSE Rounded(preserved, expected)

DPSDelta(window, active, cand) == DPS(window, cand) - DPS(window, active)

\* compare: slow says whether the candidate's p95 latency regressed.
ShadowState(window, active, cand, slow, isolated) ==
    LET rate == FieldMatchRate(window, active, cand)
        failed ==
            \/ ~ isolated
            \/ DPSDelta(window, active, cand) < 0
            \/ CriticalDivergence(window, active, cand) > 0
            \/ UnknownRetention(window, active, cand) < Scale
            \/ rate < 9000
        suspected == rate < 9800 \/ slow
    IN  IF failed THEN "FAILED" ELSE IF suspected THEN "SUSPECTED" ELSE "PASSED"

-----------------------------------------------------------------------------
\* _run_empirical_validation: the specification maps an action and an endpoint.
EmpiricalDPS(cand) ==
    LET targets == {cand.fields[f].map_to : f \in {g \in RawFields : cand.fields[g] # Absent}}
    IN  IF Action \in targets /\ targets \cap {SrcIP, DstIP} # {} THEN Scale ELSE 0

\* The gates handle_repair compiles.  A candidate without a schema is not run;
\* nothing is measured without samples.  execute_dual is given no downstream
\* bus here, so isolation is always reported as verified.
Gates(window, active, cand, slow) ==
    LET sampled == window # <<>>
        shadowed == cand.conforms /\ sampled
        dps == IF shadowed THEN EmpiricalDPS(cand) ELSE 0
    IN  [schema_passed |-> cand.conforms,
         validation_passed |-> dps >= Scale,
         dps |-> dps,
         retained |-> ~ cand.conforms \/ sampled,
         shadow_state |-> IF shadowed THEN ShadowState(window, active, cand, slow, TRUE)
                          ELSE "FAILED",
         dps_delta |-> IF shadowed THEN DPSDelta(window, active, cand) ELSE -1 * Scale,
         isolated |-> TRUE]

PromotionModes == {"MANUAL_APPROVAL", "AUTOMATIC_CONDITIONAL"}

\* Mutant: the shadow state is not a refusal condition.
MutShadowNotAsked(gates, mode) ==
    IF \/ ~ gates.schema_passed
       \/ ~ gates.validation_passed
       \/ gates.dps < Scale
    THEN "REJECTED"
    ELSE IF mode = "AUTOMATIC_CONDITIONAL" THEN "PROMOTED" ELSE "ESCALATED_FOR_APPROVAL"

\* PromotionPolicy.evaluate: the five refusal conditions, then the mode.
Evaluate(gates, mode) ==
    IF \/ ~ gates.schema_passed
       \/ ~ gates.validation_passed
       \/ gates.dps < Scale \/ gates.dps_delta < 0
       \/ ~ gates.retained
       \/ gates.shadow_state # "PASSED" \/ ~ gates.isolated
    THEN "REJECTED"
    ELSE IF mode = "AUTOMATIC_CONDITIONAL" THEN "PROMOTED" ELSE "ESCALATED_FOR_APPROVAL"

-----------------------------------------------------------------------------
\* The reference: no line of the window loses or changes the meaning of a
\* critical field when cand takes over from active.
KeepsCritical(window, active, cand) ==
    \A raw \in DOMAIN window : ~ \E c \in Critical :
        LET a == Parse(raw, active).mapped[c]
            b == Parse(raw, cand).mapped[c]
        IN  a # Absent /\ b # a /\ (b = Absent \/ c \notin {Action, Outcome} \/ Lower[a] # Lower[b])
=============================================================================
