--------------------------- MODULE ParserRuntime ---------------------------
(***************************************************************************)
(* ParserRuntime.Parse (packages/parser-runtime/runtime.go) with           *)
(* LoadParserSpecJSON (dsl.go) and BuildFieldLineage (lineage.go).  Parse  *)
(* ranges over Go maps, whose order is unspecified and differs from call   *)
(* to call; one step handles one entry of spec.Fields.  Two executions of  *)
(* Parse on the same input run side by side, so that what one input can    *)
(* lead to is compared.                                                    *)
(***************************************************************************)
EXTENDS ParserDSL, Naturals, Sequences, FiniteSets, Functions

CONSTANTS
    Keys,        \* field names, of specifications and of raw events
    Fold,        \* name -> its class under strings.EqualFold
    Pointer,     \* name -> "/" and the name with "/" for every "."
    Values,      \* extracted values
    Typed,       \* coerced values
    Coerce,      \* value -> type -> transformed and coerced value, or Failed
    Failed,      \* the conversion error
    Payloads,    \* raw events: whether the body is JSON, and the fields that the
                 \* syslog header and the body parser yield
    Specs        \* specifications: key -> [type, map_to]

Executions == {1, 2}

ASSUME ParserAssumption ==
    /\ Failed \notin Typed
    /\ \A s \in Specs : DOMAIN s \subseteq Keys
    /\ \A v \in Values, t \in FieldTypes : Coerce[v][t] \in Typed \cup {Failed}
    /\ \A p \in Payloads :
          /\ p.json \in BOOLEAN /\ (p.json => DOMAIN p.meta = {})
          /\ DOMAIN p.meta \subseteq Keys /\ DOMAIN p.body \subseteq Keys
          /\ Range(p.meta) \subseteq Values /\ Range(p.body) \subseteq Values

VARIABLES
    spec,       \* the loaded specification
    payload,    \* the raw event
    todo,       \* the entries of spec.Fields each execution has still to visit
    mapped,     \* mappedKeys
    extracted,  \* ParseResult.Extracted
    lineage,    \* ParseResult.Lineage: path -> its raw_locator
    errors,     \* ParseResult.Errors: a list of raw keys and the types they do not fit
    unknown,    \* ParseResult.UnknownFields
    returned    \* executions that have returned

resultVars == <<mapped, extracted, lineage, errors, unknown>>
vars == <<spec, payload, todo, resultVars, returned>>

\* Maps grow one entry at a time; Put overwrites.
Put(map, key, value) == [k \in DOMAIN map \cup {key} |-> IF k = key THEN value ELSE map[k]]

\* Step 1 of Parse: the body's fields are put over those of the syslog header.
RawFields ==
    [k \in DOMAIN payload.meta \cup DOMAIN payload.body |->
        IF k \in DOMAIN payload.body THEN payload.body[k] ELSE payload.meta[k]]

\* The raw_locator of BuildFieldLineage: a pointer into a JSON body, else the key.
\* (Where the lineage does not validate, Parse makes up one that names the key too.)
Locator(k) == IF payload.json THEN Pointer[k] ELSE k

ConversionErrors == [key : Keys, type : FieldTypes]

TypeOK ==
    /\ spec \in Specs /\ payload \in Payloads
    /\ todo \in [Executions -> SUBSET Keys]
    /\ mapped \in [Executions -> SUBSET Keys]
    /\ errors \in [Executions -> Seq(ConversionErrors)]
    /\ returned \subseteq Executions
    /\ \A x \in Executions :
          /\ DOMAIN extracted[x] \subseteq Paths /\ Range(extracted[x]) \subseteq Typed
          /\ DOMAIN lineage[x] \subseteq Paths /\ Range(lineage[x]) \subseteq Keys \cup {Pointer[k] : k \in Keys}
          /\ DOMAIN unknown[x] \subseteq Keys /\ Range(unknown[x]) \subseteq Values

Init ==
    /\ spec \in Specs
    /\ ValidateParserSpec(spec)
    /\ payload \in Payloads
    /\ todo = [x \in Executions |-> DOMAIN spec]
    /\ mapped = [x \in Executions |-> {}]
    /\ extracted = [x \in Executions |-> <<>>]
    /\ lineage = [x \in Executions |-> <<>>]
    /\ errors = [x \in Executions |-> <<>>]
    /\ unknown = [x \in Executions |-> <<>>]
    /\ returned = {}

-----------------------------------------------------------------------------
\* The raw keys a field of the specification may be read from: its own name, or
\* failing that any key equal to it up to case, whichever the range meets first.
SourceKeys(f) ==
    IF f \in DOMAIN RawFields THEN {f} ELSE {k \in DOMAIN RawFields : Fold[k] = Fold[f]}

\* No such field in the event: continue.
SkipField(x, f) ==
    /\ f \in todo[x]
    /\ SourceKeys(f) = {}
    /\ todo' = [todo EXCEPT ![x] = @ \ {f}]
    /\ UNCHANGED <<spec, payload, resultVars, returned>>

\* Mutant: Parse returns at the first conversion error.
MutStopsAtError(x, f) ==
    /\ f \in todo[x]
    /\ todo' = [todo EXCEPT ![x] = {}]
    /\ \E k \in SourceKeys(f) :
          /\ Coerce[RawFields[k]][spec[f].type] = Failed
          /\ mapped' = [mapped EXCEPT ![x] = @ \cup {k}]
          /\ errors' = [errors EXCEPT ![x] = Append(@, [key |-> k, type |-> spec[f].type])]
    /\ UNCHANGED <<spec, payload, extracted, lineage, unknown, returned>>

\* Mutant: the failing field is passed over in silence.
MutErrorDropped(x, f) ==
    /\ f \in todo[x]
    /\ todo' = [todo EXCEPT ![x] = @ \ {f}]
    /\ \E k \in SourceKeys(f) :
          /\ Coerce[RawFields[k]][spec[f].type] = Failed
          /\ mapped' = [mapped EXCEPT ![x] = @ \cup {k}]
    /\ UNCHANGED <<spec, payload, extracted, lineage, errors, unknown, returned>>

\* The conversion fails: the error is appended, and the key counts as mapped.
FieldFails(x, f) ==
    /\ f \in todo[x]
    /\ todo' = [todo EXCEPT ![x] = @ \ {f}]
    /\ \E k \in SourceKeys(f) :
          /\ Coerce[RawFields[k]][spec[f].type] = Failed
          /\ mapped' = [mapped EXCEPT ![x] = @ \cup {k}]
          /\ errors' = [errors EXCEPT ![x] = Append(@, [key |-> k, type |-> spec[f].type])]
    /\ UNCHANGED <<spec, payload, extracted, lineage, unknown, returned>>

\* Mutant: the lineage names the field of the specification, not the raw key.
MutLineageOfSpec(x, f) ==
    /\ f \in todo[x]
    /\ todo' = [todo EXCEPT ![x] = @ \ {f}]
    /\ \E k \in SourceKeys(f) :
          LET value == Coerce[RawFields[k]][spec[f].type]
          IN  /\ value # Failed
              /\ mapped' = [mapped EXCEPT ![x] = @ \cup {k}]
              /\ extracted' = [extracted EXCEPT ![x] = Put(@, spec[f].map_to, value)]
              /\ lineage' = [lineage EXCEPT ![x] = Put(@, spec[f].map_to, Locator(f))]
    /\ UNCHANGED <<spec, payload, errors, unknown, returned>>

\* Mutant: the conversion error is not looked at.
MutKeepsFailedValue(x, f) ==
    /\ f \in todo[x]
    /\ todo' = [todo EXCEPT ![x] = @ \ {f}]
    /\ \E k \in SourceKeys(f) :
          /\ mapped' = [mapped EXCEPT ![x] = @ \cup {k}]
          /\ extracted' = [extracted EXCEPT ![x] =
                             Put(@, spec[f].map_to, Coerce[RawFields[k]][spec[f].type])]
          /\ lineage' = [lineage EXCEPT ![x] = Put(@, spec[f].map_to, Locator(k))]
    /\ UNCHANGED <<spec, payload, errors, unknown, returned>>

\* The value goes to its path, over what may be there, with its lineage.
MapField(x, f) ==
    /\ f \in todo[x]
    /\ todo' = [todo EXCEPT ![x] = @ \ {f}]
    /\ \E k \in SourceKeys(f) :
          LET value == Coerce[RawFields[k]][spec[f].type]
          IN  /\ value # Failed
              /\ mapped' = [mapped EXCEPT ![x] = @ \cup {k}]
              /\ extracted' = [extracted EXCEPT ![x] = Put(@, spec[f].map_to, value)]
              /\ lineage' = [lineage EXCEPT ![x] = Put(@, spec[f].map_to, Locator(k))]
    /\ UNCHANGED <<spec, payload, errors, unknown, returned>>

\* Step 3: keys that were not mapped are preserved; Parse returns.
PreserveUnknown(x) ==
    /\ todo[x] = {}
    /\ x \notin returned
    /\ unknown' = [unknown EXCEPT ![x] =
                     [k \in DOMAIN RawFields \ mapped[x] |-> RawFields[k]]]
    /\ returned' = returned \cup {x}
    /\ UNCHANGED <<spec, payload, todo, mapped, extracted, lineage, errors>>

Done == returned = Executions /\ UNCHANGED vars

Next ==
    \/ \E x \in Executions, f \in Keys : SkipField(x, f) \/ FieldFails(x, f) \/ MapField(x, f)
    \/ \E x \in Executions : PreserveUnknown(x)
    \/ Done

Spec == Init /\ [][Next]_vars

-----------------------------------------------------------------------------
\* No two fields of the specification are mapped to one path.
OnePathEach == \A f, g \in DOMAIN spec : spec[f].map_to = spec[g].map_to => f = g

\* No field of the specification matches two keys of the event.
OneSourceEach == \A f \in DOMAIN spec : \A j, k \in SourceKeys(f) : j = k

\* Two lists with the same entries, each as often, in whatever order.
SameUpToOrder(s, t) ==
    \E p \in Bijection(DOMAIN s, DOMAIN t) : \A i \in DOMAIN s : s[i] = t[p[i]]

\* "ParserRuntime executes ParserSpec definitions deterministically" (runtime.go):
\* two executions on the same event return the same result, for a specification
\* that leaves no choice between two fields of a path or two keys of a field.
\* Errors are appended as the range meets them, so of their list only the order may
\* differ: none is missing from, or repeated in, one of the two results.
Deterministic ==
    returned = Executions /\ OnePathEach /\ OneSourceEach =>
        /\ extracted[1] = extracted[2]
        /\ lineage[1] = lineage[2]
        /\ unknown[1] = unknown[2]
        /\ SameUpToOrder(errors[1], errors[2])

\* The canonical value of field f was read from the raw key k, and its lineage
\* says so.
ValueOf(x, f, k) ==
    LET path == spec[f].map_to
    IN  /\ k \in SourceKeys(f)
        /\ path \in DOMAIN extracted[x] /\ path \in DOMAIN lineage[x]
        /\ extracted[x][path] = Coerce[RawFields[k]][spec[f].type]
        /\ lineage[x][path] = Locator(k)

\* The lineage of every canonical value leads back to the raw field the value
\* really came from, also when several fields competed for its path.  (Two keys of
\* a JSON body may share a pointer; one of them is the source.)
LineageLeadsBack ==
    \A x \in Executions :
        /\ DOMAIN lineage[x] = DOMAIN extracted[x]
        /\ \A path \in DOMAIN lineage[x] :
              \E f \in DOMAIN spec : spec[f].map_to = path /\ \E k \in SourceKeys(f) : ValueOf(x, f, k)

\* "Nothing is discarded" (README.md), for a specification without two fields of
\* one path: every raw field of the event ends up as a canonical value with its
\* lineage, among the unknown fields, or as a reported conversion error.
NothingDiscarded ==
    OnePathEach => \A x \in returned : \A k \in DOMAIN RawFields :
        \/ \E f \in DOMAIN spec : ValueOf(x, f, k)
        \/ k \in DOMAIN unknown[x] /\ unknown[x][k] = RawFields[k]
        \/ \E i \in DOMAIN errors[x] : errors[x][i].key = k
=============================================================================
