------------------------ MODULE ParserRuntimeProofs ------------------------
(***************************************************************************)
(* For every specification and every raw event: types, lineage, that       *)
(* nothing is discarded, and that the order in which Go ranges over the    *)
(* maps does not show.                                                     *)
(***************************************************************************)
EXTENDS ParserRuntime, FunctionTheorems, TLAPS

USE ParserAssumption

\* What the field f makes of the raw key k.
Converted(f, k) == Coerce[RawFields[k]][spec[f].type]

\* The fields an execution has visited.
Visited(x) == DOMAIN spec \ todo[x]

\* The error that f reports of the raw key k.
ErrorOf(f, k) == [key |-> k, type |-> spec[f].type]

Locators == Keys \cup {Pointer[k] : k \in Keys}

PartialMaps(S, T) == UNION {[D -> T] : D \in SUBSET S}

\* The results are maps, of the types TypeOK tells.
MapTypes ==
    /\ extracted \in [Executions -> PartialMaps(Paths, Typed)]
    /\ lineage \in [Executions -> PartialMaps(Paths, Locators)]
    /\ unknown \in [Executions -> PartialMaps(Keys, Values)]

SpecLoaded ==
    /\ ValidateParserSpec(spec) /\ DOMAIN spec \subseteq Keys
    /\ \A x \in Executions : todo[x] \subseteq DOMAIN spec

ParseInv == TypeOK /\ MapTypes /\ SpecLoaded

\* A path is only taken by a field that was visited.
PathsVisited ==
    \A x \in Executions : \A path \in DOMAIN lineage[x] :
        \E f \in Visited(x) : spec[f].map_to = path

\* A mapped key is a reported error or the source of a value.
Reported(x, k) == \E i \in DOMAIN errors[x] : errors[x][i].key = k

MappedAccounted ==
    \A x \in Executions : \A k \in mapped[x] :
        Reported(x, k) \/ \E f \in Visited(x) : ValueOf(x, f, k)

\* Step 3 of Parse comes last, and preserves exactly the other keys.
RestPreserved ==
    \A x \in returned :
        /\ todo[x] = {}
        /\ unknown[x] = [k \in DOMAIN RawFields \ mapped[x] |-> RawFields[k]]

\* The visited fields whose conversion fails.
Failing(x) == {f \in Visited(x) : \E k \in SourceKeys(f) : Converted(f, k) = Failed}

\* The list s has one error of each of the fields F, in some order.
OneErrorEach(s, F) ==
    \E g \in Bijection(DOMAIN s, F) :
        \A i \in DOMAIN s : \E k \in SourceKeys(g[i]) : s[i] = ErrorOf(g[i], k)

\* The result so far depends on the fields visited, not on their order.
OrderForgotten ==
    \A x \in Executions :
        /\ mapped[x] = {k \in Keys : \E f \in Visited(x) : k \in SourceKeys(f)}
        /\ OneErrorEach(errors[x], Failing(x))
        /\ DOMAIN extracted[x] =
              {path \in Paths : \E f \in Visited(x) :
                  spec[f].map_to = path /\ \E k \in SourceKeys(f) : Converted(f, k) # Failed}
        /\ \A f \in Visited(x) : \A k \in SourceKeys(f) : Converted(f, k) # Failed =>
              /\ extracted[x][spec[f].map_to] = Converted(f, k)
              /\ lineage[x][spec[f].map_to] = Locator(k)

-----------------------------------------------------------------------------
LEMMA PartialMapIs ==
    ASSUME NEW S, NEW T, NEW m \in PartialMaps(S, T)
    PROVE  /\ DOMAIN m \subseteq S
           /\ m = [k \in DOMAIN m |-> m[k]]
           /\ \A k \in DOMAIN m : m[k] \in T
BY DEF PartialMaps

LEMMA IsPartialMap ==
    ASSUME NEW S, NEW T, NEW D \in SUBSET S, NEW m \in [D -> T]
    PROVE  m \in PartialMaps(S, T)
BY DEF PartialMaps

\* Put keeps the types of a map.
LEMMA PutMap ==
    ASSUME NEW S, NEW T, NEW m \in PartialMaps(S, T), NEW k \in S, NEW v \in T
    PROVE  Put(m, k, v) \in PartialMaps(S, T)
<1> DEFINE p == Put(m, k, v)
           D == DOMAIN m \cup {k}
<1>1. DOMAIN m \subseteq S /\ \A j \in DOMAIN m : m[j] \in T
  BY PartialMapIs
<1>2. D \in SUBSET S /\ p \in [D -> T]
  BY <1>1 DEF Put
<1> HIDE DEF p, D
<1>3. p \in PartialMaps(S, T)
  BY <1>2, IsPartialMap
<1> QED
  BY <1>3 DEF p

\* The raw fields of an event, and the keys a field may be read from.
LEMMA RawFieldsType ==
    ASSUME TypeOK
    PROVE  /\ DOMAIN RawFields \subseteq Keys
           /\ \A k \in DOMAIN RawFields : RawFields[k] \in Values
           /\ RawFields = [k \in DOMAIN RawFields |-> RawFields[k]]
<1>1. DOMAIN payload.meta \subseteq Keys /\ DOMAIN payload.body \subseteq Keys
      /\ Range(payload.meta) \subseteq Values /\ Range(payload.body) \subseteq Values
  BY DEF TypeOK
<1>2. /\ \A k \in DOMAIN payload.meta : payload.meta[k] \in Values
      /\ \A k \in DOMAIN payload.body : payload.body[k] \in Values
  BY <1>1 DEF Range
<1> QED
  BY <1>1, <1>2 DEF RawFields

LEMMA SourceKeysAreRaw == \A f : SourceKeys(f) \subseteq DOMAIN RawFields
BY DEF SourceKeys

LEMMA ConvertedType ==
    ASSUME ParseInv, NEW f \in DOMAIN spec, NEW k \in SourceKeys(f)
    PROVE  /\ k \in Keys /\ spec[f].map_to \in Paths /\ Converted(f, k) \in Typed \cup {Failed}
           /\ Locator(k) \in Locators
           /\ ErrorOf(f, k) \in ConversionErrors
<1>1. k \in DOMAIN RawFields /\ k \in Keys /\ RawFields[k] \in Values
  BY RawFieldsType, SourceKeysAreRaw DEF ParseInv
<1>2. spec[f].type \in FieldTypes /\ spec[f].map_to \in Paths
  BY DEF ParseInv, SpecLoaded, ValidateParserSpec
<1> QED
  BY <1>1, <1>2 DEF Converted, Locator, Locators, ErrorOf, ConversionErrors

\* Neither the specification nor the event changes during Parse.
LEMMA InputsFixed ==
    ASSUME [Next]_vars
    PROVE  /\ spec' = spec /\ payload' = payload
           /\ RawFields' = RawFields
           /\ \A f : SourceKeys(f)' = SourceKeys(f)
           /\ \A f, k : Converted(f, k)' = Converted(f, k)
           /\ \A f, k : ErrorOf(f, k)' = ErrorOf(f, k)
           /\ \A k : Locator(k)' = Locator(k)
<1>1. spec' = spec /\ payload' = payload
  BY DEF Next, SkipField, FieldFails, MapField, PreserveUnknown, Done, vars
<1> QED
  BY <1>1 DEF RawFields, SourceKeys, Converted, ErrorOf, Locator

-----------------------------------------------------------------------------
\* The steps, as the invariants see them.
LEMMA SkipEffect ==
    ASSUME ParseInv, NEW x \in Executions, NEW f \in Keys, SkipField(x, f)
    PROVE  /\ f \in DOMAIN spec /\ f \notin Visited(x) /\ SourceKeys(f) = {}
           /\ todo' = [todo EXCEPT ![x] = @ \ {f}]
           /\ UNCHANGED <<spec, payload, mapped, extracted, lineage, errors, unknown, returned>>
BY DEF ParseInv, SpecLoaded, SkipField, Visited, resultVars

LEMMA FailEffect ==
    ASSUME ParseInv, NEW x \in Executions, NEW f \in Keys, FieldFails(x, f)
    PROVE  \E k \in SourceKeys(f) :
              /\ f \in DOMAIN spec /\ f \notin Visited(x)
              /\ Converted(f, k) = Failed
              /\ todo' = [todo EXCEPT ![x] = @ \ {f}]
              /\ mapped' = [mapped EXCEPT ![x] = @ \cup {k}]
              /\ errors' = [errors EXCEPT ![x] = Append(@, ErrorOf(f, k))]
              /\ UNCHANGED <<spec, payload, extracted, lineage, unknown, returned>>
BY DEF ParseInv, SpecLoaded, FieldFails, Visited, Converted, ErrorOf

\* A visit adds its field to the visited ones of its execution, and to no other's.
LEMMA VisitedGrows ==
    ASSUME ParseInv, NEW x \in Executions, NEW f \in DOMAIN spec, spec' = spec,
           todo' = [todo EXCEPT ![x] = @ \ {f}]
    PROVE  /\ Visited(x)' = Visited(x) \cup {f}
           /\ \A y \in Executions : y # x => Visited(y)' = Visited(y)
BY DEF ParseInv, TypeOK, Visited

\* What MapField puts into the maps of x; those of the other execution stay.
Puts(x, f, k) ==
    /\ extracted' \in [Executions -> PartialMaps(Paths, Typed)]
    /\ lineage' \in [Executions -> PartialMaps(Paths, Locators)]
    /\ DOMAIN extracted'[x] = DOMAIN extracted[x] \cup {spec[f].map_to}
    /\ DOMAIN lineage'[x] = DOMAIN lineage[x] \cup {spec[f].map_to}
    /\ extracted'[x][spec[f].map_to] = Converted(f, k)
    /\ lineage'[x][spec[f].map_to] = Locator(k)
    /\ \A path \in DOMAIN extracted[x] :
          path # spec[f].map_to => extracted'[x][path] = extracted[x][path]
    /\ \A path \in DOMAIN lineage[x] :
          path # spec[f].map_to => lineage'[x][path] = lineage[x][path]
    /\ \A y \in Executions : y # x => extracted'[y] = extracted[y] /\ lineage'[y] = lineage[y]

LEMMA MapEffect ==
    ASSUME ParseInv, NEW x \in Executions, NEW f \in Keys, MapField(x, f)
    PROVE  \E k \in SourceKeys(f) :
              /\ f \in DOMAIN spec /\ f \notin Visited(x)
              /\ Converted(f, k) # Failed
              /\ todo' = [todo EXCEPT ![x] = @ \ {f}]
              /\ mapped' = [mapped EXCEPT ![x] = @ \cup {k}]
              /\ Puts(x, f, k)
              /\ UNCHANGED <<spec, payload, errors, unknown, returned>>
<1>1. PICK k \in SourceKeys(f) :
         /\ f \in DOMAIN spec /\ f \notin Visited(x)
         /\ Converted(f, k) # Failed
         /\ todo' = [todo EXCEPT ![x] = @ \ {f}]
         /\ mapped' = [mapped EXCEPT ![x] = @ \cup {k}]
         /\ extracted' = [extracted EXCEPT ![x] = Put(@, spec[f].map_to, Converted(f, k))]
         /\ lineage' = [lineage EXCEPT ![x] = Put(@, spec[f].map_to, Locator(k))]
         /\ UNCHANGED <<spec, payload, errors, unknown, returned>>
  BY DEF ParseInv, SpecLoaded, MapField, Visited, Converted
<1>2. Puts(x, f, k)
  <2>1. Locator(k) \in Locators /\ spec[f].map_to \in Paths /\ Converted(f, k) \in Typed
    BY <1>1, ConvertedType
  <2>2. extracted \in [Executions -> PartialMaps(Paths, Typed)]
        /\ lineage \in [Executions -> PartialMaps(Paths, Locators)]
    BY DEF ParseInv, MapTypes
  <2>3. extracted'[x] = Put(extracted[x], spec[f].map_to, Converted(f, k))
        /\ lineage'[x] = Put(lineage[x], spec[f].map_to, Locator(k))
    BY <1>1, <2>2
  <2>4. extracted'[x] \in PartialMaps(Paths, Typed) /\ lineage'[x] \in PartialMaps(Paths, Locators)
    BY <2>1, <2>2, <2>3, PutMap
  <2>5. \A y \in Executions : y # x => extracted'[y] = extracted[y] /\ lineage'[y] = lineage[y]
    BY <1>1, <2>2
  <2>6. extracted' \in [Executions -> PartialMaps(Paths, Typed)]
        /\ lineage' \in [Executions -> PartialMaps(Paths, Locators)]
    BY <1>1, <2>2, <2>4, <2>5
  <2>7. /\ DOMAIN extracted'[x] = DOMAIN extracted[x] \cup {spec[f].map_to}
        /\ extracted'[x][spec[f].map_to] = Converted(f, k)
        /\ \A path \in DOMAIN extracted[x] :
              path # spec[f].map_to => extracted'[x][path] = extracted[x][path]
    BY <2>3 DEF Put
  <2>8. /\ DOMAIN lineage'[x] = DOMAIN lineage[x] \cup {spec[f].map_to}
        /\ lineage'[x][spec[f].map_to] = Locator(k)
        /\ \A path \in DOMAIN lineage[x] :
              path # spec[f].map_to => lineage'[x][path] = lineage[x][path]
    BY <2>3 DEF Put
  <2> QED
    BY <2>5, <2>6, <2>7, <2>8 DEF Puts
<1> QED
  BY <1>1, <1>2

\* A value stays the value of its field while its path is left alone,
LEMMA ValueKept ==
    ASSUME [Next]_vars, NEW x, NEW f, NEW k, ValueOf(x, f, k),
           spec[f].map_to \in DOMAIN extracted'[x], spec[f].map_to \in DOMAIN lineage'[x],
           extracted'[x][spec[f].map_to] = extracted[x][spec[f].map_to],
           lineage'[x][spec[f].map_to] = lineage[x][spec[f].map_to]
    PROVE  ValueOf(x, f, k)'
BY InputsFixed DEF ValueOf

\* and what MapField puts at a path is the value of its field.
LEMMA ValuePut ==
    ASSUME [Next]_vars, NEW x \in Executions, NEW f, NEW k \in SourceKeys(f), Puts(x, f, k)
    PROVE  ValueOf(x, f, k)'
<1>1. /\ Converted(f, k) = Coerce[RawFields[k]][spec[f].type]
      /\ spec' = spec /\ RawFields' = RawFields /\ SourceKeys(f)' = SourceKeys(f) /\ Locator(k)' = Locator(k)
  BY InputsFixed DEF Converted
<1> QED
  BY <1>1 DEF Puts, ValueOf

-----------------------------------------------------------------------------
LEMMA MapRange ==
    ASSUME NEW S, NEW T, NEW m \in PartialMaps(S, T)
    PROVE  DOMAIN m \subseteq S /\ Range(m) \subseteq T
BY PartialMapIs DEF Range

LEMMA ParseInit == Init => ParseInv
<1> SUFFICES ASSUME Init PROVE ParseInv
  OBVIOUS
<1>1. \A S, T : <<>> \in PartialMaps(S, T)
  <2> TAKE S, T
  <2>1. {} \in SUBSET S /\ <<>> \in [{} -> T]
    OBVIOUS
  <2> QED
    BY <2>1, IsPartialMap
<1>2. MapTypes
  BY <1>1 DEF Init, MapTypes
<1>3. SpecLoaded /\ DOMAIN spec \subseteq Keys
  BY DEF Init, SpecLoaded
<1>4. TypeOK
  <2>1. \A x \in Executions :
           /\ DOMAIN extracted[x] \subseteq Paths /\ Range(extracted[x]) \subseteq Typed
           /\ DOMAIN lineage[x] \subseteq Paths /\ Range(lineage[x]) \subseteq Locators
           /\ DOMAIN unknown[x] \subseteq Keys /\ Range(unknown[x]) \subseteq Values
    BY <1>2, MapRange DEF MapTypes
  <2> QED
    BY <1>3, <2>1 DEF Init, TypeOK, Locators
<1> QED
  BY <1>2, <1>3, <1>4 DEF ParseInv

LEMMA ParseStep ==
    ASSUME ParseInv, [Next]_vars
    PROVE  ParseInv'
<1>0. ASSUME MapTypes', todo' \in [Executions -> SUBSET Keys], mapped' \in [Executions -> SUBSET Keys],
             errors' \in [Executions -> Seq(ConversionErrors)], returned' \subseteq Executions,
             \A x \in Executions : todo'[x] \subseteq todo[x]
      PROVE  ParseInv'
  <2>1. \A x \in Executions :
           /\ DOMAIN extracted'[x] \subseteq Paths /\ Range(extracted'[x]) \subseteq Typed
           /\ DOMAIN lineage'[x] \subseteq Paths /\ Range(lineage'[x]) \subseteq Locators
           /\ DOMAIN unknown'[x] \subseteq Keys /\ Range(unknown'[x]) \subseteq Values
    BY <1>0, MapRange DEF MapTypes
  <2>2. TypeOK'
    BY <1>0, <2>1, InputsFixed DEF ParseInv, TypeOK, Locators
  <2>3. SpecLoaded'
    BY <1>0, InputsFixed DEF ParseInv, SpecLoaded, ValidateParserSpec
  <2> QED
    BY <1>0, <2>2, <2>3 DEF ParseInv
<1>1. ASSUME NEW x \in Executions, NEW f \in Keys, SkipField(x, f) PROVE ParseInv'
  <2>1. /\ todo' = [todo EXCEPT ![x] = @ \ {f}]
        /\ UNCHANGED <<mapped, extracted, lineage, errors, unknown, returned>>
    BY <1>1, SkipEffect
  <2>2. MapTypes' /\ errors' \in [Executions -> Seq(ConversionErrors)]
    BY <2>1 DEF ParseInv, TypeOK, MapTypes
  <2>3. /\ todo' \in [Executions -> SUBSET Keys] /\ mapped' \in [Executions -> SUBSET Keys]
        /\ returned' \subseteq Executions /\ \A y \in Executions : todo'[y] \subseteq todo[y]
    BY <2>1 DEF ParseInv, TypeOK
  <2> QED
    BY <1>0, <2>2, <2>3
<1>2. ASSUME NEW x \in Executions, NEW f \in Keys, FieldFails(x, f) PROVE ParseInv'
  <2>1. PICK k \in SourceKeys(f) :
              /\ f \in DOMAIN spec
              /\ todo' = [todo EXCEPT ![x] = @ \ {f}]
              /\ mapped' = [mapped EXCEPT ![x] = @ \cup {k}]
              /\ errors' = [errors EXCEPT ![x] = Append(@, ErrorOf(f, k))]
              /\ UNCHANGED <<spec, payload, extracted, lineage, unknown, returned>>
    BY <1>2, FailEffect
  <2>2. k \in Keys /\ ErrorOf(f, k) \in ConversionErrors
    BY <2>1, ConvertedType
  <2>3. errors' \in [Executions -> Seq(ConversionErrors)]
    BY <2>1, <2>2 DEF ParseInv, TypeOK
  <2> QED
    BY <1>0, <2>1, <2>2, <2>3 DEF ParseInv, TypeOK, MapTypes
<1>3. ASSUME NEW x \in Executions, NEW f \in Keys, MapField(x, f) PROVE ParseInv'
  <2>1. PICK k \in SourceKeys(f) :
              /\ f \in DOMAIN spec /\ Converted(f, k) # Failed
              /\ todo' = [todo EXCEPT ![x] = @ \ {f}]
              /\ mapped' = [mapped EXCEPT ![x] = @ \cup {k}]
              /\ Puts(x, f, k)
              /\ UNCHANGED <<errors, unknown, returned>>
    BY <1>3, MapEffect
  <2>2. k \in Keys
    BY <2>1, ConvertedType
  <2>3. MapTypes'
    BY <2>1 DEF Puts, ParseInv, MapTypes
  <2> QED
    BY <1>0, <2>1, <2>2, <2>3 DEF ParseInv, TypeOK
<1>4. ASSUME NEW x \in Executions, PreserveUnknown(x) PROVE ParseInv'
  <2> DEFINE rest == [k \in DOMAIN RawFields \ mapped[x] |-> RawFields[k]]
             D == DOMAIN RawFields \ mapped[x]
  <2>1. rest \in [D -> Values] /\ D \in SUBSET Keys
    BY RawFieldsType DEF ParseInv
  <2>2. unknown' = [unknown EXCEPT ![x] = rest]
    BY <1>4 DEF PreserveUnknown
  <2> HIDE DEF rest, D
  <2>3. rest \in PartialMaps(Keys, Values)
    BY <2>1, IsPartialMap
  <2>4. MapTypes'
    BY <1>4, <2>2, <2>3 DEF PreserveUnknown, ParseInv, MapTypes
  <2> QED
    BY <1>0, <1>4, <2>4 DEF PreserveUnknown, ParseInv, TypeOK
<1>5. CASE Done \/ UNCHANGED vars
  BY <1>5 DEF Done, vars, resultVars, ParseInv, TypeOK, MapTypes, SpecLoaded
<1> QED
  BY <1>1, <1>2, <1>3, <1>4, <1>5 DEF Next

\* The types of what Parse returns, for every specification LoadParserSpecJSON
\* accepts: no value is recorded whose conversion failed.
THEOREM ParserTypes == Spec => []TypeOK
<1>1. Spec => []ParseInv
  BY ParseInit, ParseStep, PTL DEF Spec
<1> QED
  BY <1>1, PTL DEF ParseInv

-----------------------------------------------------------------------------
\* Every canonical value has a lineage that leads back to the raw field it came
\* from (BuildFieldLineage), whichever of several fields of one path wrote last
\* and whichever spelling of a key was met first.
THEOREM LineageIsTrue == Spec => []LineageLeadsBack
<1>1. Spec => []ParseInv
  BY ParseInit, ParseStep, PTL DEF Spec
<1>2. Init => LineageLeadsBack
  BY DEF Init, LineageLeadsBack
<1>3. ASSUME ParseInv, LineageLeadsBack, [Next]_vars PROVE LineageLeadsBack'
  <2> DEFINE Back(x, path) ==
               \E f \in DOMAIN spec : spec[f].map_to = path /\ \E k \in SourceKeys(f) : ValueOf(x, f, k)
  <2>1. \A x \in Executions :
          DOMAIN lineage[x] = DOMAIN extracted[x] /\ \A path \in DOMAIN lineage[x] : Back(x, path)
    BY <1>3 DEF LineageLeadsBack
  <2>2. SUFFICES \A x \in Executions :
          DOMAIN lineage'[x] = DOMAIN extracted'[x] /\ \A path \in DOMAIN lineage'[x] : Back(x, path)'
    BY DEF LineageLeadsBack
  <2>3. ASSUME NEW x \in Executions, UNCHANGED <<lineage[x], extracted[x]>>
        PROVE  DOMAIN lineage'[x] = DOMAIN extracted'[x] /\ \A path \in DOMAIN lineage'[x] : Back(x, path)'
    <3>1. ASSUME NEW path \in DOMAIN lineage'[x] PROVE Back(x, path)'
      <4>1. PICK f \in DOMAIN spec : spec[f].map_to = path /\ \E k \in SourceKeys(f) : ValueOf(x, f, k)
        BY <2>1, <2>3, <3>1
      <4>2. PICK k \in SourceKeys(f) : ValueOf(x, f, k)
        BY <4>1
      <4>3. ValueOf(x, f, k)'
        BY <1>3, <2>3, <4>2, ValueKept DEF ValueOf
      <4> QED
        BY <1>3, <4>1, <4>2, <4>3, InputsFixed
    <3> QED
      BY <2>1, <2>3, <3>1
  <2>4. ASSUME NEW x \in Executions, NEW f \in Keys, MapField(x, f), NEW y \in Executions
        PROVE  DOMAIN lineage'[y] = DOMAIN extracted'[y] /\ \A path \in DOMAIN lineage'[y] : Back(y, path)'
    <3>1. PICK k \in SourceKeys(f) :
              /\ f \in DOMAIN spec /\ Converted(f, k) # Failed
              /\ Puts(x, f, k)
      BY <1>3, <2>4, MapEffect
    <3>3. CASE y # x
      BY <2>3, <3>1, <3>3 DEF Puts
    <3>4. CASE y = x
      <4>1. DOMAIN lineage'[x] = DOMAIN extracted'[x]
        BY <2>1, <3>1 DEF Puts
      <4>2. ASSUME NEW path, path = spec[f].map_to PROVE Back(x, path)'
        BY <1>3, <3>1, <4>2, InputsFixed, ValuePut
      <4>3. ASSUME NEW path \in DOMAIN lineage[x], path # spec[f].map_to PROVE Back(x, path)'
        <5>1. PICK g \in DOMAIN spec : spec[g].map_to = path /\ \E j \in SourceKeys(g) : ValueOf(x, g, j)
          BY <2>1, <4>3
        <5>2. PICK j \in SourceKeys(g) : ValueOf(x, g, j)
          BY <5>1
        <5>3. ValueOf(x, g, j)'
          BY <1>3, <2>1, <3>1, <4>3, <5>1, <5>2, ValueKept DEF Puts
        <5> QED
          BY <1>3, <5>1, <5>2, <5>3, InputsFixed
      <4> QED
        <5>1. DOMAIN lineage'[x] = DOMAIN lineage[x] \cup {spec[f].map_to}
          BY <3>1 DEF Puts
        <5> HIDE DEF Back
        <5> QED
          BY <3>4, <4>1, <4>2, <4>3, <5>1
    <3> QED
      BY <3>3, <3>4
  <2>5. ASSUME UNCHANGED <<lineage, extracted>>
        PROVE  \A x \in Executions : UNCHANGED <<lineage[x], extracted[x]>>
    BY <2>5
  <2>6. (\E x \in Executions, f \in Keys : MapField(x, f)) \/ UNCHANGED <<lineage, extracted>>
    BY <1>3 DEF Next, SkipField, FieldFails, PreserveUnknown, Done, vars, resultVars
  <2> HIDE DEF Back
  <2> QED
    BY <2>3, <2>4, <2>5, <2>6
<1> QED
  BY <1>1, <1>2, <1>3, PTL DEF Spec

-----------------------------------------------------------------------------
AccountInv == PathsVisited /\ RestPreserved /\ (OnePathEach => MappedAccounted)

LEMMA ConditionsFixed ==
    ASSUME [Next]_vars
    PROVE  (OnePathEach' <=> OnePathEach) /\ (OneSourceEach' <=> OneSourceEach)
BY InputsFixed DEF OnePathEach, OneSourceEach

\* Mapped keys stay accounted for when reports and values stay, and a new one is.
LEMMA AccountedStep ==
    ASSUME MappedAccounted,
           \A y \in Executions : Visited(y) \subseteq Visited(y)',
           \A y \in Executions : \A k : Reported(y, k) => Reported(y, k)',
           \A y \in Executions : \A k : \A f \in Visited(y) : ValueOf(y, f, k) => ValueOf(y, f, k)',
           \A y \in Executions : \A k \in mapped'[y] :
              k \in mapped[y] \/ Reported(y, k)' \/ \E f \in Visited(y)' : ValueOf(y, f, k)'
    PROVE  MappedAccounted'
<1> SUFFICES ASSUME NEW y \in Executions, NEW k \in mapped'[y]
             PROVE  Reported(y, k)' \/ \E f \in Visited(y)' : ValueOf(y, f, k)'
  BY DEF MappedAccounted
<1>1. CASE k \in mapped[y]
  <2>1. Reported(y, k) \/ \E f \in Visited(y) : ValueOf(y, f, k)
    BY <1>1 DEF MappedAccounted
  <2> QED
    BY <2>1
<1>2. CASE k \notin mapped[y]
  BY <1>2
<1> QED
  BY <1>1, <1>2

LEMMA AccountStep ==
    ASSUME ParseInv, AccountInv, [Next]_vars
    PROVE  AccountInv'
<1> USE DEF AccountInv
<1>0. /\ spec' = spec /\ RawFields' = RawFields /\ (OnePathEach' <=> OnePathEach)
      /\ mapped \in [Executions -> SUBSET Keys]
      /\ todo \in [Executions -> SUBSET Keys] /\ returned \subseteq Executions
      /\ unknown \in [Executions -> PartialMaps(Keys, Values)]
  BY InputsFixed, ConditionsFixed DEF ParseInv, TypeOK, MapTypes
<1>e. errors \in [Executions -> Seq(ConversionErrors)]
  BY DEF ParseInv, TypeOK
<1>1. ASSUME NEW x \in Executions, NEW f \in DOMAIN spec, f \notin Visited(x),
             todo' = [todo EXCEPT ![x] = @ \ {f}], UNCHANGED <<unknown, returned>>,
             \A y \in Executions : y # x => mapped'[y] = mapped[y]
      PROVE  RestPreserved'
  <2>1. f \in todo[x]
    BY <1>1 DEF Visited
  <2>2. x \notin returned
    BY <2>1 DEF RestPreserved
  <2> QED
    BY <1>0, <1>1, <2>2 DEF RestPreserved
<1>2. ASSUME NEW x \in Executions, NEW f \in Keys, SkipField(x, f) PROVE AccountInv'
  <2>1. /\ f \in DOMAIN spec /\ f \notin Visited(x) /\ todo' = [todo EXCEPT ![x] = @ \ {f}]
        /\ UNCHANGED <<spec, payload, mapped, extracted, lineage, errors, unknown, returned>>
    BY <1>2, SkipEffect
  <2>2. Visited(x)' = Visited(x) \cup {f} /\ \A y \in Executions : y # x => Visited(y)' = Visited(y)
    BY <2>1, VisitedGrows
  <2>3. PathsVisited'
    BY <2>1, <2>2 DEF PathsVisited
  <2>4. ASSUME OnePathEach PROVE MappedAccounted'
    <3>1. \A y \in Executions : \A k : Reported(y, k) => Reported(y, k)'
      BY <2>1 DEF Reported
    <3>2. \A y \in Executions : \A k : \A g \in Visited(y) : ValueOf(y, g, k) => ValueOf(y, g, k)'
      BY <2>1, ValueKept DEF ValueOf
    <3>3. \A y \in Executions : Visited(y) \subseteq Visited(y)'
      BY <2>2
    <3> QED
      BY <2>1, <2>4, <3>1, <3>2, <3>3, AccountedStep
  <2> QED
    BY <1>0, <1>1, <2>1, <2>3, <2>4
<1>3. ASSUME NEW x \in Executions, NEW f \in Keys, FieldFails(x, f) PROVE AccountInv'
  <2>1. PICK k \in SourceKeys(f) :
              /\ f \in DOMAIN spec /\ f \notin Visited(x)
              /\ todo' = [todo EXCEPT ![x] = @ \ {f}]
              /\ mapped' = [mapped EXCEPT ![x] = @ \cup {k}]
              /\ errors' = [errors EXCEPT ![x] = Append(@, ErrorOf(f, k))]
              /\ UNCHANGED <<spec, payload, extracted, lineage, unknown, returned>>
    BY <1>3, FailEffect
  <2>2. Visited(x)' = Visited(x) \cup {f} /\ \A y \in Executions : y # x => Visited(y)' = Visited(y)
    BY <2>1, VisitedGrows
  <2>3. PathsVisited'
    BY <2>1, <2>2 DEF PathsVisited
  <2>4. ASSUME OnePathEach PROVE MappedAccounted'
    <3>1. ASSUME NEW y \in Executions, NEW j PROVE Reported(y, j) => Reported(y, j)'
      <4>1. CASE y # x
        BY <1>e, <2>1, <3>1, <4>1 DEF Reported
      <4>2. CASE y = x
        <5>1. errors[x] \in Seq(ConversionErrors) /\ errors'[x] = Append(errors[x], ErrorOf(f, k))
          BY <1>e, <2>1
        <5>2. \A i \in DOMAIN errors[x] : i \in DOMAIN errors'[x] /\ errors'[x][i] = errors[x][i]
          BY <5>1
        <5> QED
          BY <4>2, <5>2 DEF Reported
      <4> QED
        BY <4>1, <4>2
    <3>2. \A y \in Executions : \A j : \A g \in Visited(y) : ValueOf(y, g, j) => ValueOf(y, g, j)'
      BY <2>1, ValueKept DEF ValueOf
    <3>3. \A y \in Executions : Visited(y) \subseteq Visited(y)'
      BY <2>2
    <3>4. Reported(x, k)'
      <4>1. errors[x] \in Seq(ConversionErrors) /\ errors'[x] = Append(errors[x], ErrorOf(f, k))
        BY <1>e, <2>1
      <4>2. /\ Len(errors[x]) + 1 \in DOMAIN errors'[x]
            /\ errors'[x][Len(errors[x]) + 1] = ErrorOf(f, k)
        BY <4>1
      <4> QED
        BY <4>2 DEF Reported, ErrorOf
    <3>5. /\ mapped'[x] = mapped[x] \cup {k}
          /\ \A y \in Executions : y # x => mapped'[y] = mapped[y]
      BY <1>0, <2>1
    <3>6. \A y \in Executions : \A j \in mapped'[y] : j \in mapped[y] \/ Reported(y, j)'
      BY <3>4, <3>5
    <3> QED
      BY <2>4, <3>1, <3>2, <3>3, <3>6, AccountedStep
  <2>5. \A y \in Executions : y # x => mapped'[y] = mapped[y]
    BY <1>0, <2>1
  <2> QED
    BY <1>0, <1>1, <2>1, <2>3, <2>4, <2>5
<1>4. ASSUME NEW x \in Executions, NEW f \in Keys, MapField(x, f) PROVE AccountInv'
  <2>1. PICK k \in SourceKeys(f) :
              /\ f \in DOMAIN spec /\ f \notin Visited(x)
              /\ todo' = [todo EXCEPT ![x] = @ \ {f}]
              /\ mapped' = [mapped EXCEPT ![x] = @ \cup {k}]
              /\ Puts(x, f, k)
              /\ UNCHANGED <<errors, unknown, returned>>
    BY <1>4, MapEffect
  <2>2. Visited(x)' = Visited(x) \cup {f} /\ \A y \in Executions : y # x => Visited(y)' = Visited(y)
    BY <1>0, <2>1, VisitedGrows
  <2>3. PathsVisited'
    BY <1>0, <2>1, <2>2 DEF PathsVisited, Puts
  <2>4. ASSUME OnePathEach PROVE MappedAccounted'
    <3>1. spec[f].map_to \notin DOMAIN lineage[x]
      BY <2>1, <2>4 DEF PathsVisited, OnePathEach, Visited
    <3>2. ASSUME NEW y \in Executions, NEW j, NEW g \in Visited(y), ValueOf(y, g, j)
          PROVE  ValueOf(y, g, j)'
      <4>1. CASE y = x
        <5>1. spec[g].map_to # spec[f].map_to
          BY <3>1, <3>2, <4>1 DEF ValueOf
        <5>2. spec[g].map_to \in DOMAIN extracted[x] /\ spec[g].map_to \in DOMAIN lineage[x]
          BY <3>2, <4>1 DEF ValueOf
        <5>3. /\ spec[g].map_to \in DOMAIN extracted'[x] /\ spec[g].map_to \in DOMAIN lineage'[x]
              /\ extracted'[x][spec[g].map_to] = extracted[x][spec[g].map_to]
              /\ lineage'[x][spec[g].map_to] = lineage[x][spec[g].map_to]
          BY <2>1, <5>1, <5>2 DEF Puts
        <5> QED
          BY <3>2, <4>1, <5>3, ValueKept
      <4>2. CASE y # x
        <5>1. spec[g].map_to \in DOMAIN extracted[y] /\ spec[g].map_to \in DOMAIN lineage[y]
          BY <3>2 DEF ValueOf
        <5>2. extracted'[y] = extracted[y] /\ lineage'[y] = lineage[y]
          BY <2>1, <4>2 DEF Puts
        <5> QED
          BY <3>2, <5>1, <5>2, ValueKept
      <4> QED
        BY <4>1, <4>2
    <3>3. /\ mapped'[x] = mapped[x] \cup {k}
          /\ \A y \in Executions : y # x => mapped'[y] = mapped[y]
      BY <1>0, <2>1
    <3>4. \A y \in Executions : \A j : Reported(y, j) => Reported(y, j)'
      BY <2>1 DEF Reported
    <3>5. \A y \in Executions : Visited(y) \subseteq Visited(y)'
      BY <2>2
    <3>6. f \in Visited(x)' /\ ValueOf(x, f, k)'
      BY <2>1, <2>2, ValuePut
    <3>7. \A y \in Executions : \A j \in mapped'[y] :
             j \in mapped[y] \/ \E g \in Visited(y)' : ValueOf(y, g, j)'
      BY <3>3, <3>6
    <3> QED
      BY <2>4, <3>2, <3>4, <3>5, <3>7, AccountedStep
  <2>5. \A y \in Executions : y # x => mapped'[y] = mapped[y]
    BY <1>0, <2>1
  <2> QED
    BY <1>0, <1>1, <2>1, <2>3, <2>4, <2>5
<1>5. ASSUME NEW x \in Executions, PreserveUnknown(x) PROVE AccountInv'
  <2>1. RestPreserved'
    BY <1>0, <1>5 DEF PreserveUnknown, RestPreserved
  <2>2. PathsVisited' /\ \A y \in Executions : Visited(y) = Visited(y)'
    BY <1>0, <1>5 DEF PreserveUnknown, PathsVisited, Visited
  <2>3. ASSUME OnePathEach PROVE MappedAccounted'
    <3>1. \A y \in Executions : \A k : Reported(y, k) => Reported(y, k)'
      BY <1>5 DEF PreserveUnknown, Reported
    <3>2. \A y \in Executions : \A k : \A g \in Visited(y) : ValueOf(y, g, k) => ValueOf(y, g, k)'
      BY <1>5, ValueKept DEF PreserveUnknown, ValueOf
    <3> QED
      BY <1>5, <2>2, <2>3, <3>1, <3>2, AccountedStep DEF PreserveUnknown
  <2> QED
    BY <1>0, <2>1, <2>2, <2>3
<1>6. CASE Done \/ UNCHANGED vars
  <2>1. UNCHANGED <<todo, mapped, extracted, lineage, errors, unknown, returned>>
    BY <1>6 DEF Done, vars, resultVars
  <2> QED
    BY <1>0, <2>1, InputsFixed DEF PathsVisited, RestPreserved, MappedAccounted, Visited, Reported, ValueOf
<1> QED
  BY <1>2, <1>3, <1>4, <1>5, <1>6 DEF Next

\* "Nothing is discarded": when Parse returns, every raw field of the event is a
\* canonical value with its lineage, an unknown field with its value, or a reported
\* error, for every specification that maps no two fields to one path.
THEOREM EveryFieldAccounted == Spec => []NothingDiscarded
<1>1. Spec => []ParseInv
  BY ParseInit, ParseStep, PTL DEF Spec
<1>2. Init => AccountInv
  BY DEF Init, AccountInv, PathsVisited, RestPreserved, MappedAccounted
<1>3. ParseInv /\ AccountInv /\ [Next]_vars => AccountInv'
  BY AccountStep
<1>4. ASSUME ParseInv, AccountInv PROVE NothingDiscarded
  <2> SUFFICES ASSUME OnePathEach, NEW x \in returned, NEW k \in DOMAIN RawFields
               PROVE  \/ \E f \in DOMAIN spec : ValueOf(x, f, k)
                      \/ k \in DOMAIN unknown[x] /\ unknown[x][k] = RawFields[k]
                      \/ Reported(x, k)
    BY DEF NothingDiscarded, Reported
  <2>1. x \in Executions
    BY <1>4 DEF ParseInv, TypeOK
  <2>2. CASE k \in mapped[x]
    BY <1>4, <2>1, <2>2 DEF AccountInv, MappedAccounted, Visited
  <2>3. CASE k \notin mapped[x]
    <3>1. unknown[x] = [j \in DOMAIN RawFields \ mapped[x] |-> RawFields[j]]
      BY <1>4 DEF AccountInv, RestPreserved
    <3> QED
      BY <2>3, <3>1
  <2> QED
    BY <2>2, <2>3
<1> QED
  BY <1>1, <1>2, <1>3, <1>4, PTL DEF Spec

-----------------------------------------------------------------------------
OrderInv == OnePathEach /\ OneSourceEach => OrderForgotten

\* Errors that fields report one after the other: none,
LEMMA NoErrors == OneErrorEach(<<>>, {})
<1>1. <<>> \in Bijection({}, {})
  BY DEF Bijection, Injection, Surjection, IsInjective
<1> QED
  BY <1>1 DEF OneErrorEach

\* one more,
LEMMA OneMoreError ==
    ASSUME NEW s \in Seq(ConversionErrors), NEW F, OneErrorEach(s, F),
           NEW f, f \notin F, NEW k \in SourceKeys(f), ErrorOf(f, k) \in ConversionErrors
    PROVE  OneErrorEach(Append(s, ErrorOf(f, k)), F \cup {f})
<1> DEFINE t == Append(s, ErrorOf(f, k))
           n == Len(s) + 1
<1>1. PICK g \in Bijection(DOMAIN s, F) :
         \A i \in DOMAIN s : \E j \in SourceKeys(g[i]) : s[i] = ErrorOf(g[i], j)
  BY DEF OneErrorEach
<1> DEFINE h == [i \in DOMAIN t |-> IF i = n THEN f ELSE g[i]]
<1>2. /\ DOMAIN t = DOMAIN s \cup {n} /\ n \notin DOMAIN s
      /\ t[n] = ErrorOf(f, k) /\ \A i \in DOMAIN s : t[i] = s[i]
  OBVIOUS
<1>3. /\ g \in [DOMAIN s -> F]
      /\ \A i, j \in DOMAIN s : g[i] = g[j] => i = j
      /\ \A e \in F : \E i \in DOMAIN s : g[i] = e
  BY Fun_BijectionProperties
<1> HIDE DEF t, n
<1>4. /\ h \in [DOMAIN t -> F \cup {f}]
      /\ \A i, j \in DOMAIN t : h[i] = h[j] => i = j
      /\ \A e \in F \cup {f} : \E i \in DOMAIN t : h[i] = e
  BY <1>2, <1>3
<1>5. \A i \in DOMAIN t : \E j \in SourceKeys(h[i]) : t[i] = ErrorOf(h[i], j)
  BY <1>1, <1>2
<1> HIDE DEF h
<1>6. h \in Bijection(DOMAIN t, F \cup {f})
  BY <1>4, Fun_IsBij
<1> QED
  BY <1>5, <1>6 DEF OneErrorEach, t

\* and two lists of the same fields' errors.
LEMMA SameErrors ==
    ASSUME OneSourceEach, NEW F \in SUBSET DOMAIN spec, NEW s, NEW t,
           OneErrorEach(s, F), OneErrorEach(t, F)
    PROVE  SameUpToOrder(s, t)
<1>1. PICK g \in Bijection(DOMAIN s, F) :
         \A i \in DOMAIN s : \E k \in SourceKeys(g[i]) : s[i] = ErrorOf(g[i], k)
  BY DEF OneErrorEach
<1>2. PICK h \in Bijection(DOMAIN t, F) :
         \A i \in DOMAIN t : \E k \in SourceKeys(h[i]) : t[i] = ErrorOf(h[i], k)
  BY DEF OneErrorEach
<1> DEFINE back == Inverse(h, DOMAIN t, F)
           p == [i \in DOMAIN s |-> back[g[i]]]
<1>3. back \in Bijection(F, DOMAIN t)
  BY Fun_BijInverse
<1>4. \A e \in F : h[back[e]] = e /\ back[e] \in DOMAIN t
  <2>1. \A e \in F : \E i \in DOMAIN t : h[i] = e
    BY Fun_BijectionProperties
  <2>2. \A i \in DOMAIN t : back[h[i]] = i
    BY Fun_BijInverse
  <2> HIDE DEF back
  <2> QED
    BY <2>1, <2>2
<1> HIDE DEF back
<1>5. p \in Bijection(DOMAIN s, DOMAIN t)
  BY <1>3, Fun_BijTransitive
<1>6. ASSUME NEW i \in DOMAIN s PROVE s[i] = t[p[i]]
  <2>1. g[i] \in F /\ g[i] \in DOMAIN spec
    BY Fun_BijectionProperties
  <2>2. p[i] \in DOMAIN t /\ h[p[i]] = g[i]
    BY <1>4, <2>1
  <2>3. PICK k \in SourceKeys(g[i]) : s[i] = ErrorOf(g[i], k)
    BY <1>1
  <2>4. PICK j \in SourceKeys(g[i]) : t[p[i]] = ErrorOf(g[i], j)
    BY <1>2, <2>2
  <2>5. j = k
    BY <2>1, <2>3, <2>4 DEF OneSourceEach
  <2> QED
    BY <2>3, <2>4, <2>5
<1> HIDE DEF p
<1> QED
  BY <1>5, <1>6 DEF SameUpToOrder

LEMMA OrderStep ==
    ASSUME ParseInv, LineageLeadsBack, OrderInv, [Next]_vars
    PROVE  OrderInv'
<1> SUFFICES ASSUME OnePathEach, OneSourceEach, OrderForgotten PROVE OrderForgotten'
  BY ConditionsFixed DEF OrderInv
<1> DEFINE Result(x) ==
        /\ mapped[x] = {k \in Keys : \E f \in Visited(x) : k \in SourceKeys(f)}
        /\ OneErrorEach(errors[x], Failing(x))
        /\ DOMAIN extracted[x] =
              {path \in Paths : \E f \in Visited(x) :
                  spec[f].map_to = path /\ \E k \in SourceKeys(f) : Converted(f, k) # Failed}
        /\ \A f \in Visited(x) : \A k \in SourceKeys(f) : Converted(f, k) # Failed =>
              /\ extracted[x][spec[f].map_to] = Converted(f, k)
              /\ lineage[x][spec[f].map_to] = Locator(k)
<1>0. /\ spec' = spec /\ (\A f : SourceKeys(f)' = SourceKeys(f))
      /\ (\A f, k : Converted(f, k)' = Converted(f, k)) /\ (\A k : Locator(k)' = Locator(k))
      /\ (\A s, F : OneErrorEach(s, F)' <=> OneErrorEach(s, F))
      /\ mapped \in [Executions -> SUBSET Keys]
      /\ todo \in [Executions -> SUBSET Keys]
  <2>1. \A s, F : OneErrorEach(s, F)' <=> OneErrorEach(s, F)
    BY InputsFixed DEF OneErrorEach
  <2> QED
    BY <2>1, InputsFixed DEF ParseInv, TypeOK
<1>e. errors \in [Executions -> Seq(ConversionErrors)]
  BY DEF ParseInv, TypeOK
<1>1. \A x \in Executions : Result(x)
  BY DEF OrderForgotten
<1>2. SUFFICES \A x \in Executions : Result(x)'
  BY DEF OrderForgotten
<1>3. ASSUME NEW y \in Executions, Visited(y)' = Visited(y), mapped'[y] = mapped[y],
             errors'[y] = errors[y], extracted'[y] = extracted[y], lineage'[y] = lineage[y]
      PROVE  Result(y)'
  <2>1. Failing(y)' = Failing(y)
    BY <1>0, <1>3 DEF Failing
  <2>2. OneErrorEach(errors'[y], Failing(y)')
    BY <1>1, <1>3, <2>1
  <2>3. OneErrorEach(errors[y], Failing(y))'
    BY <1>0, <2>2
  <2> QED
    BY <1>0, <1>1, <1>3, <2>3
<1>4. ASSUME NEW x \in Executions, NEW f \in Keys, SkipField(x, f), NEW y \in Executions PROVE Result(y)'
  <2>1. /\ f \in DOMAIN spec /\ SourceKeys(f) = {} /\ todo' = [todo EXCEPT ![x] = @ \ {f}]
        /\ UNCHANGED <<mapped, extracted, lineage, errors>>
    BY <1>4, SkipEffect
  <2>2. Visited(x)' = Visited(x) \cup {f} /\ \A z \in Executions : z # x => Visited(z)' = Visited(z)
    BY <1>0, <2>1, VisitedGrows
  <2>3. CASE y # x
    BY <1>3, <2>1, <2>2, <2>3
  <2>4. CASE y = x
    <3>1. Failing(x)' = Failing(x)
      BY <1>0, <2>1, <2>2 DEF Failing
    <3>2. OneErrorEach(errors[x], Failing(x))'
      BY <1>0, <1>1, <2>1, <3>1
    <3> QED
      BY <1>0, <1>1, <2>1, <2>2, <2>4, <3>2
  <2> QED
    BY <2>3, <2>4
<1>5. ASSUME NEW x \in Executions, NEW f \in Keys, FieldFails(x, f), NEW y \in Executions PROVE Result(y)'
  <2>1. PICK k \in SourceKeys(f) :
              /\ f \in DOMAIN spec /\ f \notin Visited(x)
              /\ Converted(f, k) = Failed
              /\ todo' = [todo EXCEPT ![x] = @ \ {f}]
              /\ mapped' = [mapped EXCEPT ![x] = @ \cup {k}]
              /\ errors' = [errors EXCEPT ![x] = Append(@, ErrorOf(f, k))]
              /\ UNCHANGED <<extracted, lineage>>
    BY <1>5, FailEffect
  <2>2. Visited(x)' = Visited(x) \cup {f} /\ \A z \in Executions : z # x => Visited(z)' = Visited(z)
    BY <1>0, <2>1, VisitedGrows
  <2>3. SourceKeys(f) = {k} /\ k \in Keys
    BY <2>1, ConvertedType DEF OneSourceEach
  <2>4. CASE y # x
    BY <1>0, <1>3, <2>1, <2>2, <2>4
  <2>5. CASE y = x
    <3>1. mapped'[x] = {j \in Keys : \E g \in Visited(x)' : j \in SourceKeys(g)}
      BY <1>0, <1>1, <2>1, <2>2, <2>3
    <3>2. OneErrorEach(errors[x], Failing(x))'
      <4>1. Failing(x)' = Failing(x) \cup {f} /\ f \notin Failing(x)
        BY <1>0, <2>1, <2>2 DEF Failing
      <4>2. errors[x] \in Seq(ConversionErrors) /\ errors'[x] = Append(errors[x], ErrorOf(f, k))
        BY <1>e, <2>1
      <4>3. OneErrorEach(Append(errors[x], ErrorOf(f, k)), Failing(x) \cup {f})
        BY <1>1, <2>1, <4>1, <4>2, ConvertedType, OneMoreError
      <4> QED
        BY <1>0, <4>1, <4>2, <4>3
    <3>3. DOMAIN extracted'[x] =
              {path \in Paths : \E g \in Visited(x)' :
                  spec[g].map_to = path /\ \E j \in SourceKeys(g) : Converted(g, j) # Failed}
      BY <1>1, <2>1, <2>2, <2>3
    <3>4. \A g \in Visited(x)' : \A j \in SourceKeys(g) : Converted(g, j) # Failed =>
              /\ extracted'[x][spec[g].map_to] = Converted(g, j)
              /\ lineage'[x][spec[g].map_to] = Locator(j)
      BY <1>1, <2>1, <2>2, <2>3
    <3> QED
      BY <1>0, <2>5, <3>1, <3>2, <3>3, <3>4
  <2> QED
    BY <2>4, <2>5
<1>6. ASSUME NEW x \in Executions, NEW f \in Keys, MapField(x, f), NEW y \in Executions PROVE Result(y)'
  <2>1. PICK k \in SourceKeys(f) :
              /\ f \in DOMAIN spec /\ f \notin Visited(x)
              /\ Converted(f, k) # Failed
              /\ todo' = [todo EXCEPT ![x] = @ \ {f}]
              /\ mapped' = [mapped EXCEPT ![x] = @ \cup {k}]
              /\ Puts(x, f, k)
              /\ UNCHANGED errors
    BY <1>6, MapEffect
  <2>2. Visited(x)' = Visited(x) \cup {f} /\ \A z \in Executions : z # x => Visited(z)' = Visited(z)
    BY <1>0, <2>1, VisitedGrows
  <2>3. SourceKeys(f) = {k} /\ k \in Keys /\ spec[f].map_to \in Paths
    BY <2>1, ConvertedType DEF OneSourceEach
  <2>4. CASE y # x
    BY <1>0, <1>3, <2>1, <2>2, <2>4 DEF Puts
  <2>5. CASE y = x
    <3>1. mapped'[x] = {j \in Keys : \E g \in Visited(x)' : j \in SourceKeys(g)}
      BY <1>0, <1>1, <2>1, <2>2, <2>3
    <3>2. OneErrorEach(errors[x], Failing(x))'
      <4>1. Failing(x)' = Failing(x)
        BY <1>0, <2>1, <2>2, <2>3 DEF Failing
      <4> QED
        BY <1>0, <1>1, <2>1, <4>1
    <3>3. DOMAIN extracted'[x] =
              {path \in Paths : \E g \in Visited(x)' :
                  spec[g].map_to = path /\ \E j \in SourceKeys(g) : Converted(g, j) # Failed}
      <4>1. DOMAIN extracted'[x] = DOMAIN extracted[x] \cup {spec[f].map_to}
        BY <2>1 DEF Puts
      <4> QED
        BY <1>1, <2>1, <2>2, <2>3, <4>1
    <3>4. ASSUME NEW g \in Visited(x)', NEW j \in SourceKeys(g), Converted(g, j) # Failed
          PROVE  /\ extracted'[x][spec[g].map_to] = Converted(g, j)
                 /\ lineage'[x][spec[g].map_to] = Locator(j)
      <4>1. CASE g = f
        BY <2>1, <2>3, <3>4, <4>1 DEF Puts
      <4>2. CASE g # f
        <5>1. g \in Visited(x) /\ spec[g].map_to # spec[f].map_to
          BY <2>1, <2>2, <3>4, <4>2 DEF OnePathEach, Visited
        <5>2. spec[g].map_to \in Paths
          BY <3>4, <5>1, ConvertedType DEF Visited
        <5>3. spec[g].map_to \in DOMAIN extracted[x] /\ spec[g].map_to \in DOMAIN lineage[x]
          BY <1>1, <3>4, <5>1, <5>2 DEF LineageLeadsBack
        <5>4. extracted[x][spec[g].map_to] = Converted(g, j) /\ lineage[x][spec[g].map_to] = Locator(j)
          BY <1>1, <3>4, <5>1
        <5> QED
          BY <2>1, <5>1, <5>3, <5>4 DEF Puts
      <4> QED
        BY <4>1, <4>2
    <3> QED
      BY <1>0, <2>5, <3>1, <3>2, <3>3, <3>4
  <2> QED
    BY <2>4, <2>5
<1>7. ASSUME UNCHANGED <<todo, mapped, errors, extracted, lineage>>, NEW y \in Executions PROVE Result(y)'
  <2>1. Visited(y)' = Visited(y)
    BY <1>0, <1>7 DEF Visited
  <2> QED
    BY <1>3, <1>7, <2>1
<1>8. \/ \E x \in Executions, f \in Keys : SkipField(x, f) \/ FieldFails(x, f) \/ MapField(x, f)
      \/ UNCHANGED <<todo, mapped, errors, extracted, lineage>>
  BY DEF Next, PreserveUnknown, Done, vars, resultVars
<1> HIDE DEF Result
<1> QED
  BY <1>4, <1>5, <1>6, <1>7, <1>8

\* "ParserRuntime executes ParserSpec definitions deterministically": whatever order
\* Go ranges over the maps in, two executions return the same values, lineage and
\* unknown fields, and the same errors up to their order, for every specification
\* and event that leave no choice between fields or keys.
THEOREM OrderDoesNotShow == Spec => []Deterministic
<1>1. Spec => []ParseInv
  BY ParseInit, ParseStep, PTL DEF Spec
<1>2. Spec => []LineageLeadsBack
  BY LineageIsTrue
<1>3. Init => AccountInv /\ OrderInv
  <2> SUFFICES ASSUME Init PROVE AccountInv /\ OrderInv
    OBVIOUS
  <2>1. AccountInv
    BY DEF Init, AccountInv, PathsVisited, RestPreserved, MappedAccounted
  <2>2. \A x \in Executions : Visited(x) = {}
    BY DEF Init, Visited
  <2>3. \A x \in Executions : OneErrorEach(errors[x], Failing(x))
    BY <2>2, NoErrors DEF Init, Failing
  <2>4. OrderForgotten
    BY <2>2, <2>3 DEF Init, OrderForgotten
  <2> QED
    BY <2>1, <2>4 DEF OrderInv
<1>4. ParseInv /\ LineageLeadsBack /\ AccountInv /\ OrderInv /\ [Next]_vars => AccountInv' /\ OrderInv'
  BY AccountStep, OrderStep
<1>5. ASSUME ParseInv, LineageLeadsBack, AccountInv, OrderInv PROVE Deterministic
  <2> SUFFICES ASSUME returned = Executions, OnePathEach, OneSourceEach
               PROVE  /\ extracted[1] = extracted[2]
                      /\ lineage[1] = lineage[2]
                      /\ unknown[1] = unknown[2]
                      /\ SameUpToOrder(errors[1], errors[2])
    BY DEF Deterministic
  <2>1. 1 \in Executions /\ 2 \in Executions
    BY DEF Executions
  <2>2. todo[1] = {} /\ todo[2] = {}
    BY <1>5, <2>1 DEF AccountInv, RestPreserved
  <2>3. Visited(1) = DOMAIN spec /\ Visited(2) = DOMAIN spec
    BY <2>2 DEF Visited
  <2>4. OrderForgotten
    BY <1>5 DEF OrderInv
  <2>5. mapped[1] = mapped[2] /\ DOMAIN extracted[1] = DOMAIN extracted[2]
    <3> DEFINE M == {k \in Keys : \E f \in DOMAIN spec : k \in SourceKeys(f)}
               P == {path \in Paths : \E f \in DOMAIN spec :
                        spec[f].map_to = path /\ \E k \in SourceKeys(f) : Converted(f, k) # Failed}
    <3>1. ASSUME NEW x \in Executions, Visited(x) = DOMAIN spec
          PROVE  mapped[x] = M /\ DOMAIN extracted[x] = P
      <4>1. mapped[x] = {k \in Keys : \E f \in Visited(x) : k \in SourceKeys(f)}
        BY <2>4 DEF OrderForgotten
      <4>2. DOMAIN extracted[x] =
              {path \in Paths : \E f \in Visited(x) :
                  spec[f].map_to = path /\ \E k \in SourceKeys(f) : Converted(f, k) # Failed}
        BY <2>4 DEF OrderForgotten
      <4>3. mapped[x] = M
        BY <3>1, <4>1
      <4>4. DOMAIN extracted[x] = P
        BY <3>1, <4>2
      <4> QED
        BY <4>3, <4>4
    <3> HIDE DEF M, P
    <3> QED
      BY <2>1, <2>3, <3>1
  <2>10. SameUpToOrder(errors[1], errors[2])
    <3>1. Failing(1) = Failing(2) /\ Failing(1) \in SUBSET DOMAIN spec
      BY <2>3 DEF Failing
    <3>2. OneErrorEach(errors[1], Failing(1)) /\ OneErrorEach(errors[2], Failing(1))
      BY <2>1, <2>4, <3>1 DEF OrderForgotten
    <3> QED
      BY <3>1, <3>2, SameErrors
  <2>6. unknown[1] = unknown[2]
    BY <1>5, <2>1, <2>5 DEF AccountInv, RestPreserved
  <2>7. DOMAIN lineage[1] = DOMAIN extracted[1] /\ DOMAIN lineage[2] = DOMAIN extracted[2]
    BY <1>5, <2>1 DEF LineageLeadsBack
  <2>8. ASSUME NEW path \in DOMAIN extracted[1]
        PROVE  extracted[1][path] = extracted[2][path] /\ lineage[1][path] = lineage[2][path]
    <3>1. PICK f \in DOMAIN spec : spec[f].map_to = path /\ \E k \in SourceKeys(f) : Converted(f, k) # Failed
      BY <2>1, <2>3, <2>4, <2>8 DEF OrderForgotten
    <3>2. PICK k \in SourceKeys(f) : Converted(f, k) # Failed
      BY <3>1
    <3>3. ASSUME NEW x \in Executions, Visited(x) = DOMAIN spec
          PROVE  extracted[x][path] = Converted(f, k) /\ lineage[x][path] = Locator(k)
      BY <2>4, <3>1, <3>2, <3>3 DEF OrderForgotten
    <3> QED
      BY <2>1, <2>3, <3>3
  <2>9. /\ extracted[1] = [path \in DOMAIN extracted[1] |-> extracted[1][path]]
        /\ extracted[2] = [path \in DOMAIN extracted[2] |-> extracted[2][path]]
        /\ lineage[1] = [path \in DOMAIN lineage[1] |-> lineage[1][path]]
        /\ lineage[2] = [path \in DOMAIN lineage[2] |-> lineage[2][path]]
    BY <1>5, <2>1, PartialMapIs DEF ParseInv, MapTypes
  <2> QED
    BY <2>5, <2>6, <2>7, <2>8, <2>9, <2>10
<1> QED
  BY <1>1, <1>2, <1>3, <1>4, <1>5, PTL DEF Spec
=============================================================================
