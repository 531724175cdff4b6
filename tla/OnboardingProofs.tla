-------------------------- MODULE OnboardingProofs --------------------------
(***************************************************************************)
(* Onboarding for every catalog match, every line, every answer of a       *)
(* language model and every override.                                      *)
(***************************************************************************)
EXTENDS Onboarding, WellFoundedInduction, SequenceTheorems, TLAPS

-----------------------------------------------------------------------------
\* A set of natural numbers that is not empty has a least element.
LEMMA LeastElement ==
    ASSUME NEW T \in SUBSET Nat, T # {}
    PROVE  \E x \in T : \A y \in T : x <= y
<1> DEFINE R == {ss \in Nat \X Nat : ss[1] < ss[2]}
<1>1. IsWellFoundedOn(R, Nat)
  BY NatLessThanWellFounded, Zenon DEF OpToRel
<1> HIDE DEF R
<1>2. PICK x \in T : \A y \in T : ~(<<y, x>> \in R)
  BY <1>1, WFMin, Zenon
<1>3. \A y \in T : ~(y < x)
  BY <1>2 DEF R
<1> QED
  BY <1>3

\* The order of the catalog is a sequence of 25 paths.
LEMMA CatalogDomain ==
    DOMAIN CatalogOrder \in SUBSET Nat /\ 1 \in DOMAIN CatalogOrder
  BY SMT DEF CatalogOrder

LEMMA BaseScoreRange ==
    ASSUME NEW match \in [kind : {"path", "alias", "similar"}, ratio : Nat], match.ratio <= 1000
    PROVE  BaseScore(match) \in Nat /\ BaseScore(match) <= 100000
<1> DEFINE r == match.ratio
<1>1. r \in Nat /\ r <= 1000
  BY SMT
<1>2. BaseScore(match) \in {100000, 98000, r * 88, r * 60, r * 40}
  BY SMT DEF BaseScore
<1> HIDE DEF r
<1>3. \A s \in {100000, 98000, r * 88, r * 60, r * 40} : s \in Nat /\ s <= 100000
  BY SMT, <1>1
<1> QED
  BY SMT, <1>2, <1>3

\* A bonus moves a score by its points, and never past one.
LEMMA BonusProps ==
    ASSUME NEW score \in Int, score <= 100000, NEW points \in Nat, NEW earned
    PROVE  /\ Bonus(score, points, earned) \in Int
           /\ Bonus(score, points, earned) <= 100000
           /\ Bonus(score, points, earned) <= score + points
  BY SMT DEF Bonus, Least

LEMMA TypedScoreProps ==
    ASSUME NEW base \in Nat, base <= 100000, NEW compat, NEW type
    PROVE  /\ TypedScore(base, compat, type) \in Int
           /\ TypedScore(base, compat, type) <= 100000
           /\ compat = "conflict" => TypedScore(base, compat, type) <= 65000
  BY SMT DEF TypedScore, Least

\* Rounding to four digits.
LEMMA Rounding ==
    ASSUME NEW s \in Nat
    PROVE  10 * ((s + 5) \div 10) \in Nat /\ 10 * ((s + 5) \div 10) <= s + 5
  BY SMT

\* Every score lies between zero and one; after a hard conflict, whatever bonuses
\* are earned, it stays below the threshold for human review.
LEMMA FinalScoreProps ==
    ASSUME NEW name \in RawNames, NEW profile, NEW i \in DOMAIN CatalogOrder
    PROVE  LET path == CatalogOrder[i]
               score == FinalScore(name, profile, path)
           IN  /\ score \in Nat /\ score <= 100005
               /\ TypeCompatibility(profile, Catalog[path].types) = "conflict" => score < HUMAN_REVIEW_THRESHOLD
<1> DEFINE path == CatalogOrder[i]
           types == Catalog[path].types
           compat == TypeCompatibility(profile, types)
           base == BaseScore(Lexical[name][path])
           typed == TypedScore(base, compat, profile.type)
           ip == Bonus(typed, 3000, profile.type \in {"ipv4", "ipv6"} /\ types \cap {"ip", "ipv4"} # {})
           time == Bonus(ip, 3000, profile.type = "timestamp" /\ "timestamp" \in types)
           enum == Bonus(time, 3000, profile.enum /\ path \in {"event.action", "event.outcome", "network.protocol"})
           family == Bonus(enum, 2000, path \in Family)
           score == FinalScore(name, profile, path)
<1>1. base \in Nat /\ base <= 100000
  <2>1. /\ Lexical[name][CatalogOrder[i]] \in [kind : {"path", "alias", "similar"}, ratio : Nat]
        /\ Lexical[name][CatalogOrder[i]].ratio <= 1000
    BY SMT, LexicalAssumption
  <2> QED
    BY SMT, <2>1, BaseScoreRange
<1>2. score = IF family < 0 THEN 0 ELSE 10 * ((family + 5) \div 10)
  BY SMT DEF FinalScore
<1> HIDE DEF base, compat, score, path, types
<1>3. typed \in Int /\ typed <= 100000 /\ (compat = "conflict" => typed <= 65000)
  BY SMT, <1>1, TypedScoreProps
<1> HIDE DEF typed
<1>4. ip \in Int /\ ip <= 100000 /\ ip <= typed + 3000
  BY SMT, <1>3, BonusProps
<1> HIDE DEF ip
<1>5. time \in Int /\ time <= 100000 /\ time <= ip + 3000
  BY SMT, <1>4, BonusProps
<1> HIDE DEF time
<1>6. enum \in Int /\ enum <= 100000 /\ enum <= time + 3000
  BY SMT, <1>5, BonusProps
<1> HIDE DEF enum
<1>7. family \in Int /\ family <= 100000 /\ family <= enum + 2000
  BY SMT, <1>6, BonusProps
<1> HIDE DEF family
<1>8. score \in Nat /\ score <= 100005 /\ (family <= 76000 => score <= 76005)
  <2>1. CASE family < 0
    BY SMT, <1>2, <2>1
  <2>2. CASE ~(family < 0)
    <3>1. family \in Nat
      BY SMT, <1>7, <2>2
    <3>2. score \in Nat /\ score <= family + 5
      BY SMT, <1>2, <2>2, <3>1, Rounding
    <3> QED
      BY SMT, <1>7, <3>2
  <2> QED
    BY SMT, <2>1, <2>2
<1>9. compat = "conflict" => score < 80000
  BY SMT, <1>3, <1>4, <1>5, <1>6, <1>7, <1>8
<1> QED
  BY SMT, <1>8, <1>9 DEF score, compat, types, path, HUMAN_REVIEW_THRESHOLD

\* map_field returns one of the scored candidates: the sort has a first element.
LEMMA MapFieldIsCandidate ==
    ASSUME NEW name \in RawNames, NEW profile
    PROVE  \E i \in DOMAIN CatalogOrder : MapField(name, profile) = ScoreCandidate(name, profile, CatalogOrder[i])
<1> DEFINE D == DOMAIN CatalogOrder
           c == [i \in D |-> ScoreCandidate(name, profile, CatalogOrder[i])]
           Best(i) == \A j \in D : c[i].score > c[j].score \/ (c[i].score = c[j].score /\ i <= j)
<1>1. D \in SUBSET Nat /\ 1 \in D
  BY SMT, CatalogDomain
<1>2. \A i \in D : c[i].score \in Nat /\ c[i].score <= 100005
  <2> TAKE i \in D
  <2>1. c[i].score = FinalScore(name, profile, CatalogOrder[i])
    BY SMT DEF ScoreCandidate
  <2> QED
    BY SMT, <2>1, FinalScoreProps
<1>3. MapField(name, profile) = c[CHOOSE i \in D : Best(i)]
  BY SMT DEF MapField
<1>4. \A i \in D : c[i] = ScoreCandidate(name, profile, CatalogOrder[i])
  BY SMT
<1> HIDE DEF c, D
<1> DEFINE T == {100005 - c[i].score : i \in D}
<1>5. T \in SUBSET Nat /\ T # {}
  <2>1. 100005 - c[1].score \in T
    BY SMT, <1>1
  <2>2. ASSUME NEW x \in T PROVE x \in Nat
    <3>1. PICK i \in D : x = 100005 - c[i].score
      BY SMT
    <3> QED
      BY SMT, <1>2, <3>1
  <2> DEFINE e == 100005 - c[1].score
  <2> HIDE DEF T, e
  <2>3. e \in T
    BY SMT, <2>1 DEF e
  <2> QED
    BY <2>2, <2>3, Zenon
<1> HIDE DEF T
<1>6. PICK t \in T : \A u \in T : t <= u
  BY <1>5, LeastElement, Zenon
<1> DEFINE B == {i \in D : 100005 - c[i].score = t}
<1>7. B \in SUBSET Nat /\ B # {}
  <2>1. PICK k \in D : t = 100005 - c[k].score
    BY SMT, <1>6 DEF T
  <2>2. k \in B
    BY SMT, <2>1
  <2>3. \A x \in B : x \in Nat
    BY SMT, <1>1
  <2> HIDE DEF B
  <2> QED
    BY <2>2, <2>3, Zenon
<1> HIDE DEF B
<1>8. PICK b \in B : \A j \in B : b <= j
  BY <1>7, LeastElement, Zenon
<1>9. b \in D /\ Best(b)
  <2>1. b \in D /\ 100005 - c[b].score = t
    BY SMT, <1>8 DEF B
  <2>2. ASSUME NEW j \in D
        PROVE  c[b].score > c[j].score \/ (c[b].score = c[j].score /\ b <= j)
    <3>1. c[b].score \in Int /\ c[j].score \in Int /\ t <= 100005 - c[j].score
      BY SMT, <1>2, <1>6, <2>1 DEF T
    <3>2. 100005 - c[j].score = t => b <= j
      BY SMT, <1>8 DEF B
    <3> QED
      BY SMT, <2>1, <3>1, <3>2
  <2> QED
    BY SMT, <2>1, <2>2
<1> HIDE DEF Best
<1>10. (CHOOSE i \in D : Best(i)) \in D
  BY <1>9, Zenon
<1>11. MapField(name, profile) = ScoreCandidate(name, profile, CatalogOrder[CHOOSE i \in D : Best(i)])
  BY <1>3, <1>4, <1>10, Zenon
<1> QED
  BY <1>10, <1>11, Zenon DEF D

-----------------------------------------------------------------------------
\* What run_pipeline hands on: a deterministic mapping is one the mapper accepted,
\* a proposal has a target of the registry and makes the package one for review.
Decided ==
    /\ \A name \in DOMAIN package.deterministic :
          /\ name \in DOMAIN package.report
          /\ package.report[name].path = package.deterministic[name]
          /\ package.report[name].score >= AUTO_ACCEPT_THRESHOLD
    /\ \A name \in DOMAIN package.ai :
          package.ai[name] \in Registry /\ package.status = "READY_FOR_REVIEW"

\* MappingsJustified, of any mappings.
Justified(mappings) ==
    \A name \in DOMAIN mappings :
        IF name \in DOMAIN overrides THEN mappings[name] = overrides[name]
        ELSE IF name \in DOMAIN package.deterministic
        THEN /\ package.report[name].path = mappings[name]
             /\ package.report[name].score >= AUTO_ACCEPT_THRESHOLD
        ELSE mappings[name] \in Registry /\ package.status = "READY_FOR_REVIEW"

OnboardingInv ==
    /\ TypeOK
    /\ stage \in {"profile", "compile"} => spec = NoSpec
    /\ stage # "deployed" => active = NoSpec
    /\ HardConflictAbstains
    /\ Decided
    /\ Justified(spec.mappings)

\* What the mapper reports: the status follows from score and conflict.
LEMMA ReportProps ==
    ASSUME NEW report, report = MapSource(Fields)
    PROVE  /\ \A name \in DOMAIN report : report[name].conflict => report[name].status = "ABSTAIN"
           /\ \A name \in DOMAIN report :
                 report[name].status = "AUTO_ACCEPTED" => report[name].score >= AUTO_ACCEPT_THRESHOLD
<1>1. SUFFICES ASSUME NEW name \in DOMAIN report
               PROVE  /\ report[name].conflict => report[name].status = "ABSTAIN"
                      /\ report[name].status = "AUTO_ACCEPTED" => report[name].score >= AUTO_ACCEPT_THRESHOLD
  BY Zenon
<1>2. name \in RawNames /\ report[name] = MapField(name, Fields[name])
  BY Zenon DEF MapSource, Fields
<1>3. PICK i \in DOMAIN CatalogOrder : report[name] = ScoreCandidate(name, Fields[name], CatalogOrder[i])
  BY <1>2, MapFieldIsCandidate, Zenon
<1> DEFINE path == CatalogOrder[i]
           conflict == TypeCompatibility(Fields[name], Catalog[path].types) = "conflict"
           score == FinalScore(name, Fields[name], path)
<1>4. score \in Nat /\ (conflict => score < HUMAN_REVIEW_THRESHOLD)
  BY SMT, <1>2, FinalScoreProps
<1>5. report[name] = [path |-> path, score |-> score, conflict |-> conflict,
                      status |-> IF score < HUMAN_REVIEW_THRESHOLD THEN "ABSTAIN"
                                 ELSE IF conflict \/ score < AUTO_ACCEPT_THRESHOLD THEN "HUMAN_REVIEW"
                                 ELSE "AUTO_ACCEPTED"]
  BY SMT, <1>3 DEF ScoreCandidate
<1> HIDE DEF path, conflict, score
<1> QED
  BY SMT, <1>4, <1>5 DEF AUTO_ACCEPT_THRESHOLD, HUMAN_REVIEW_THRESHOLD

-----------------------------------------------------------------------------
LEMMA OnboardingInit ==
    Init => OnboardingInv
<1> SUFFICES ASSUME Init PROVE OnboardingInv
  OBVIOUS
<1>1. \A name \in RawNames : columns[name] = <<>>
  BY DEF Init
<1>2. TypeOK
  <2>1. \A name \in RawNames : columns[name] \in Seq(Values[name]) /\ Len(columns[name]) <= lines
    <3>1. \A S : <<>> \in Seq(S) /\ Len(<<>>) <= 0
      OBVIOUS
    <3>2. lines = 0
      BY DEF Init
    <3> QED
      BY <1>1, <3>1, <3>2, Zenon
  <2> QED
    BY <2>1, LinesAssumption DEF Init, TypeOK, Stages, NoPackage, NoSpec
<1>3. HardConflictAbstains /\ Decided /\ Justified(spec.mappings)
  BY DEF Init, NoPackage, NoSpec, HardConflictAbstains, Decided, Justified
<1> QED
  BY <1>2, <1>3 DEF OnboardingInv, Init

\* A line: the columns grow by one value at most.
LEMMA ReadLineStep ==
    ASSUME OnboardingInv, NEW line \in Lines, ReadLine(line)
    PROVE  OnboardingInv'
<1>1. TypeOK'
  <2>1. ASSUME NEW name \in RawNames
        PROVE  columns'[name] \in Seq(Values[name]) /\ Len(columns'[name]) <= lines'
    <3>1. /\ columns[name] \in Seq(Values[name]) /\ Len(columns[name]) <= lines
          /\ lines' = lines + 1 /\ lines \in Nat
      BY DEF OnboardingInv, TypeOK, ReadLine
    <3>2. CASE name \in DOMAIN line
      <4>1. line[name] \in Values[name]
        BY <3>2 DEF Lines
      <4>2. columns'[name] = Append(columns[name], line[name])
        BY <3>2 DEF ReadLine
      <4>3. /\ Append(columns[name], line[name]) \in Seq(Values[name])
            /\ Len(Append(columns[name], line[name])) = Len(columns[name]) + 1
        BY <3>1, <4>1, AppendProperties
      <4>4. Len(columns[name]) \in Nat
        BY <3>1, LenProperties
      <4>5. Len(columns'[name]) = Len(columns[name]) + 1
        BY <4>2, <4>3, Zenon
      <4>6. Len(columns'[name]) <= lines'
        BY <3>1, <4>4, <4>5
      <4> QED
        BY <4>2, <4>3, <4>6, Zenon
    <3>3. CASE name \notin DOMAIN line
      <4>1. columns'[name] = columns[name]
        BY <3>3 DEF ReadLine
      <4>2. Len(columns[name]) \in Nat
        BY <3>1, LenProperties
      <4> QED
        BY <3>1, <4>1, <4>2
    <3> QED
      BY <3>2, <3>3
  <2>2. lines' \in 0..MaxLines
    BY LinesAssumption DEF OnboardingInv, TypeOK, ReadLine
  <2> QED
    BY <2>1, <2>2 DEF OnboardingInv, TypeOK, ReadLine
<1> QED
  BY <1>1
  DEF OnboardingInv, ReadLine, HardConflictAbstains, Decided, Justified

\* The pipeline: the report's status is the package's justification.
LEMMA RunPipelineStep ==
    ASSUME OnboardingInv, NEW shape \in Shapes, NEW reply \in Replies, RunPipeline(shape, reply)
    PROVE  OnboardingInv'
<1> DEFINE report == MapSource(Fields)
           escalated == Escalated(shape, report)
           det == Accepted(shape, report)
           ai == IF escalated # {} THEN FilterHallucinated(reply) ELSE <<>>
           status == IF escalated # {} THEN "READY_FOR_REVIEW" ELSE "AUTO_APPROVED"
<1>1. /\ package' = [status |-> status, report |-> report, deterministic |-> det, ai |-> ai]
      /\ stage = "profile" /\ stage' = "compile" /\ UNCHANGED <<lines, columns, overrides, spec, active>>
  BY Zenon DEF RunPipeline
<1>2. \A name \in DOMAIN det :
        name \in DOMAIN report /\ report[name].status = "AUTO_ACCEPTED" /\ det[name] = report[name].path
  BY Zenon DEF Accepted, Listed, NamesWith
<1>3. \A name \in DOMAIN ai : ai[name] \in Registry /\ status = "READY_FOR_REVIEW"
  <2>1. CASE escalated # {}
    BY <2>1, Zenon DEF FilterHallucinated
  <2>2. CASE escalated = {}
    <3>1. ai = <<>>
      BY <2>2, Zenon
    <3> HIDE DEF ai, status
    <3> QED
      BY <3>1
  <2> QED
    BY <2>1, <2>2, Zenon
<1>4. status \in {"AUTO_APPROVED", "READY_FOR_REVIEW"}
  BY Zenon
<1>5. /\ \A name \in DOMAIN report : report[name].conflict => report[name].status = "ABSTAIN"
      /\ \A name \in DOMAIN report :
            report[name].status = "AUTO_ACCEPTED" => report[name].score >= AUTO_ACCEPT_THRESHOLD
  BY ReportProps, Zenon
<1> HIDE DEF report, escalated, det, ai, status
<1>6. /\ package'.status = status /\ package'.report = report
      /\ package'.deterministic = det /\ package'.ai = ai
  BY <1>1
<1>7. spec = NoSpec /\ active = NoSpec
  BY <1>1, Zenon DEF OnboardingInv
<1>8. TypeOK'
  <2>1. DOMAIN det \subseteq DOMAIN report
    BY <1>2, Zenon
  <2> QED
    BY <1>1, <1>4, <1>6, <2>1 DEF OnboardingInv, TypeOK, Stages
<1>9. HardConflictAbstains'
  BY <1>5, <1>6, Zenon DEF HardConflictAbstains
<1>10. Decided'
  BY <1>2, <1>3, <1>5, <1>6, Zenon DEF Decided
<1>11. Justified(spec.mappings)'
  BY <1>1, <1>7 DEF NoSpec, Justified
<1> QED
  BY <1>1, <1>7, <1>8, <1>9, <1>10, <1>11 DEF OnboardingInv

\* The steps that leave package, overrides and specification alone.
LEMMA QuietStep ==
    ASSUME OnboardingInv, stage' \in Stages, UNCHANGED <<lines, columns, package, overrides, spec, active>>,
           stage' \notin {"profile", "compile"} \/ stage' = stage, stage # "deployed" \/ stage' = stage
    PROVE  OnboardingInv'
<1>1. TypeOK'
  BY DEF OnboardingInv, TypeOK
<1>2. HardConflictAbstains' /\ Decided' /\ Justified(spec.mappings)'
  BY DEF OnboardingInv, HardConflictAbstains, Decided, Justified
<1> QED
  BY <1>1, <1>2 DEF OnboardingInv

\* merge_overrides keeps the justification of each of its three sources.
LEMMA CompileSpecStep ==
    ASSUME OnboardingInv, NEW over \in Overrides, NEW target \in Targets, CompileSpec(over, target)
    PROVE  OnboardingInv'
<1> DEFINE merged == MergeOverrides(package, over)
<1>1. /\ stage = "compile" /\ stage' = "bench" /\ overrides' = over
      /\ spec' = [mappings |-> merged, target |-> target]
      /\ UNCHANGED <<lines, columns, package, active>>
  BY Zenon DEF CompileSpec
<1>2. active = NoSpec
  BY <1>1 DEF OnboardingInv
<1>3. \A name \in DOMAIN merged :
        \/ name \in DOMAIN over /\ merged[name] = over[name]
        \/ name \notin DOMAIN over /\ name \in DOMAIN package.deterministic
              /\ merged[name] = package.deterministic[name]
        \/ /\ name \notin DOMAIN over /\ name \notin DOMAIN package.deterministic
           /\ name \in DOMAIN package.ai /\ merged[name] = package.ai[name]
  BY Zenon DEF MergeOverrides, Before, Named
<1> HIDE DEF merged
<1>4. spec'.mappings = merged /\ spec'.target = target
  BY <1>1
<1>5. Justified(spec.mappings)'
  BY <1>1, <1>3, <1>4, Zenon DEF OnboardingInv, Decided, Justified
<1>6. TypeOK'
  BY <1>1, <1>2, <1>4 DEF OnboardingInv, TypeOK, Stages
<1>7. HardConflictAbstains' /\ Decided'
  BY <1>1, <1>2 DEF OnboardingInv, HardConflictAbstains, Decided
<1> QED
  BY <1>1, <1>2, <1>5, <1>6, <1>7 DEF OnboardingInv

\* deploy_spec: what was compiled becomes active, or nothing does.
LEMMA DeploySpecStep ==
    ASSUME OnboardingInv, NEW validation_passed \in BOOLEAN, DeploySpec(validation_passed)
    PROVE  OnboardingInv'
<1>1. CASE validation_passed
  <2>1. /\ active' = spec /\ stage' = "deployed" /\ UNCHANGED <<lines, columns, package, overrides, spec>>
    BY <1>1 DEF DeploySpec
  <2>2. TypeOK'
    BY <2>1 DEF OnboardingInv, TypeOK, Stages
  <2>3. HardConflictAbstains' /\ Decided' /\ Justified(spec.mappings)'
    BY <2>1 DEF OnboardingInv, HardConflictAbstains, Decided, Justified
  <2> QED
    BY <2>1, <2>2, <2>3 DEF OnboardingInv
<1>2. CASE ~validation_passed
  BY <1>2, QuietStep DEF DeploySpec, Stages
<1> QED
  BY <1>1, <1>2

LEMMA OnboardingNext ==
    ASSUME OnboardingInv, [Next]_vars
    PROVE  OnboardingInv'
<1>1. ASSUME NEW line \in Lines, ReadLine(line) PROVE OnboardingInv'
  BY <1>1, ReadLineStep
<1>2. ASSUME NEW shape \in Shapes, RunPipelineRaises(shape) PROVE OnboardingInv'
  BY <1>2, QuietStep DEF RunPipelineRaises, Stages
<1>3. ASSUME NEW shape \in Shapes, NEW reply \in Replies, RunPipeline(shape, reply) PROVE OnboardingInv'
  BY <1>3, RunPipelineStep
<1>4. ASSUME NEW over \in Overrides, NEW target \in Targets, CompileSpec(over, target) PROVE OnboardingInv'
  BY <1>4, CompileSpecStep
<1>5. CASE RunBenchmark
  BY <1>5, QuietStep DEF RunBenchmark, Stages
<1>6. CASE RunBenchmarkRaises
  BY <1>6, QuietStep DEF RunBenchmarkRaises, Stages
<1>7. ASSUME NEW validation_passed \in BOOLEAN, DeploySpec(validation_passed) PROVE OnboardingInv'
  BY <1>7, DeploySpecStep
<1>8. CASE UNCHANGED vars
  BY <1>8, QuietStep DEF vars, OnboardingInv, TypeOK
<1> QED
  BY <1>1, <1>2, <1>3, <1>4, <1>5, <1>6, <1>7, <1>8, Zenon DEF Next, Done

LEMMA OnboardingInvariant ==
    Spec => []OnboardingInv
  BY OnboardingInit, OnboardingNext, PTL DEF Spec

\* Type correctness of the pipeline, for any fields, lines and answers.
THEOREM OnboardingTypeCorrect ==
    Spec => []TypeOK
<1>1. OnboardingInv => TypeOK
  BY DEF OnboardingInv
<1> QED
  BY <1>1, OnboardingInvariant, PTL

\* No field whose best candidate contradicts its type is ever accepted or proposed for
\* review, whatever names resemble each other and whatever the values are.
THEOREM ConflictsAbstain ==
    Spec => []HardConflictAbstains
<1>1. OnboardingInv => HardConflictAbstains
  BY DEF OnboardingInv
<1> QED
  BY <1>1, OnboardingInvariant, PTL

\* Every deployed mapping goes back to the reviewer, to an accepted candidate of the
\* mapper, or to a proposal with a registered target, in this order.
THEOREM MappingsAreJustified ==
    Spec => []MappingsJustified
<1>1. OnboardingInv => MappingsJustified
  <2> SUFFICES ASSUME OnboardingInv PROVE MappingsJustified
    OBVIOUS
  <2>1. CASE active = spec
    BY <2>1, Zenon DEF OnboardingInv, Justified, MappingsJustified
  <2>2. CASE active = NoSpec
    <3>1. DOMAIN active.mappings = {}
      BY <2>2 DEF NoSpec
    <3> QED
      BY <3>1, Zenon DEF MappingsJustified
  <2> QED
    BY <2>1, <2>2 DEF OnboardingInv, TypeOK
<1> QED
  BY <1>1, OnboardingInvariant, PTL

-----------------------------------------------------------------------------
\* Every path that is handed on fits the runtime's pattern; the compiled mappings are
\* the reviewer's, all of them, and others that have a name and such a path.
PathsKnown ==
    /\ \A name \in DOMAIN package.deterministic : package.deterministic[name] \in Paths
    /\ \A name \in DOMAIN package.ai : package.ai[name] \in Paths
    /\ \A name \in DOMAIN overrides :
          name \in DOMAIN spec.mappings /\ spec.mappings[name] = overrides[name]
    /\ \A name \in DOMAIN spec.mappings :
          name \in DOMAIN overrides \/ (name # "" /\ spec.mappings[name] \in Paths)

\* The mapper names paths of its catalog only.
LEMMA ReportPaths ==
    ASSUME NEW report, report = MapSource(Fields), NEW name \in DOMAIN report
    PROVE  report[name].path \in Paths
<1>1. name \in RawNames /\ report[name] = MapField(name, Fields[name])
  BY Zenon DEF MapSource, Fields
<1>2. PICK i \in DOMAIN CatalogOrder : report[name] = ScoreCandidate(name, Fields[name], CatalogOrder[i])
  BY <1>1, MapFieldIsCandidate, Zenon
<1>3. report[name].path = CatalogOrder[i]
  BY <1>2 DEF ScoreCandidate
<1>4. CatalogOrder[i] \in ToSet(CatalogOrder)
  BY <1>2, Zenon DEF ToSet
<1> QED
  BY <1>3, <1>4, RuntimeAssumption, Zenon

LEMMA PathsStep ==
    ASSUME OnboardingInv, PathsKnown, [Next]_vars
    PROVE  PathsKnown'
<1>1. ASSUME NEW shape \in Shapes, NEW reply \in Replies, RunPipeline(shape, reply) PROVE PathsKnown'
  <2> DEFINE report == MapSource(Fields)
             escalated == Escalated(shape, report)
             det == Accepted(shape, report)
             ai == IF escalated # {} THEN FilterHallucinated(reply) ELSE <<>>
             status == IF escalated # {} THEN "READY_FOR_REVIEW" ELSE "AUTO_APPROVED"
  <2>1. /\ package' = [status |-> status, report |-> report, deterministic |-> det, ai |-> ai]
        /\ spec' = spec /\ overrides' = overrides
    BY <1>1, Zenon DEF RunPipeline
  <2>2. \A name \in DOMAIN det : name \in DOMAIN report /\ det[name] = report[name].path
    BY Zenon DEF Accepted, Listed, NamesWith
  <2>3. \A name \in DOMAIN report : report[name].path \in Paths
    BY ReportPaths, Zenon
  <2>4. \A name \in DOMAIN ai : ai[name] \in Registry
    <3>1. CASE escalated # {}
      BY <3>1, Zenon DEF FilterHallucinated
    <3>2. CASE escalated = {}
      <4>1. ai = <<>>
        BY <3>2, Zenon
      <4> HIDE DEF ai
      <4> QED
        BY <4>1
    <3> QED
      BY <3>1, <3>2, Zenon
  <2> HIDE DEF report, escalated, det, ai, status
  <2>5. package'.deterministic = det /\ package'.ai = ai
    BY <2>1
  <2>6. \A path \in Registry : path \in Paths
    BY RuntimeAssumption, Zenon
  <2> QED
    BY <2>1, <2>2, <2>3, <2>4, <2>5, <2>6, Zenon DEF PathsKnown
<1>2. ASSUME NEW over \in Overrides, NEW target \in Targets, CompileSpec(over, target) PROVE PathsKnown'
  <2> DEFINE merged == MergeOverrides(package, over)
  <2>1. /\ spec' = [mappings |-> merged, target |-> target]
        /\ package' = package /\ overrides' = over
    BY <1>2, Zenon DEF CompileSpec
  <2>2. \A name \in DOMAIN merged :
          \/ name \in DOMAIN over
          \/ name # "" /\ name \in DOMAIN package.deterministic /\ merged[name] = package.deterministic[name]
          \/ name # "" /\ name \in DOMAIN package.ai /\ merged[name] = package.ai[name]
    BY Zenon DEF MergeOverrides, Before, Named
  <2>3. \A name \in DOMAIN over : name \in DOMAIN merged /\ merged[name] = over[name]
    BY Zenon DEF MergeOverrides, Before
  <2> HIDE DEF merged
  <2>4. spec'.mappings = merged
    BY <2>1
  <2> QED
    BY <2>1, <2>2, <2>3, <2>4, Zenon DEF PathsKnown
<1>3. CASE UNCHANGED <<package, spec, overrides>>
  BY <1>3 DEF PathsKnown
<1> QED
  BY <1>1, <1>2, <1>3, Zenon
  DEF Next, vars, ReadLine, RunPipelineRaises, RunBenchmark, RunBenchmarkRaises, DeploySpec, Done

\* The compiler gives every path a type that the runtime knows.
LEMMA TypeOfPathKnown ==
    ASSUME NEW path
    PROVE  TypeOfPath(path) \in FieldTypes
<1>1. TypeOfPath(path) \in {"string", "integer", "ip", "timestamp", "boolean"}
  BY Zenon DEF TypeOfPath
<1> QED
  BY <1>1, RuntimeAssumption, Zenon

\* What SpecCompilerEngine emits for the runtime passes ValidateParserSpec, whatever
\* the mapper and the assistant contributed, and if they contributed nothing, unless
\* the reviewer overrode with a path that is not well-formed or for no name: then it
\* is refused.
THEOREM DeployedIsLoadable ==
    Spec => []DeployedSpecLoads
<1>1. Init => PathsKnown
  BY DEF Init, NoPackage, NoSpec, PathsKnown
<1>2. OnboardingInv /\ PathsKnown /\ [Next]_vars => PathsKnown'
  BY PathsStep, Zenon
<1>3. OnboardingInv /\ PathsKnown => DeployedSpecLoads
  <2> SUFFICES ASSUME OnboardingInv, PathsKnown, active # NoSpec
               PROVE  DSL!ValidateParserSpec(ParserSpec(active.mappings))
                      <=> \A name \in DOMAIN overrides : name # "" /\ overrides[name] \in Paths
    BY Zenon DEF DeployedSpecLoads
  <2> DEFINE m == active.mappings
             Fine == \A name \in DOMAIN overrides : name # "" /\ overrides[name] \in Paths
  <2>1. active = spec
    BY Zenon DEF OnboardingInv, TypeOK
  <2>2. /\ \A name \in DOMAIN overrides : name \in DOMAIN m /\ m[name] = overrides[name]
        /\ \A name \in DOMAIN m : name \in DOMAIN overrides \/ (name # "" /\ m[name] \in Paths)
    BY <2>1, Zenon DEF PathsKnown
  <2>3. Fine <=> "" \notin DOMAIN m /\ \A name \in DOMAIN m : m[name] \in Paths
    BY <2>2, Zenon
  <2> HIDE DEF m
  <2>4. CASE DOMAIN m = {}
    <3>1. ParserSpec(m) = [name \in {"raw_message"} |-> [type |-> "string", map_to |-> "event.action"]]
      BY <2>4, Zenon DEF ParserSpec
    <3>2. "string" \in FieldTypes /\ "event.action" \in Paths
      BY RuntimeAssumption DEF Registry
    <3>3. DSL!ValidateParserSpec(ParserSpec(m))
      BY <3>1, <3>2 DEF DSL!ValidateParserSpec
    <3>4. Fine
      BY <2>3, <2>4, Zenon
    <3> QED
      BY <3>3, <3>4, Zenon DEF m
  <2>5. CASE DOMAIN m # {}
    <3>1. ParserSpec(m) = [name \in DOMAIN m |-> [type |-> TypeOfPath(m[name]), map_to |-> m[name]]]
      BY <2>5, Zenon DEF ParserSpec
    <3>2. \A name \in DOMAIN m : TypeOfPath(m[name]) \in FieldTypes
      BY TypeOfPathKnown, Zenon
    <3>3. DSL!ValidateParserSpec(ParserSpec(m))
          <=> "" \notin DOMAIN m /\ \A name \in DOMAIN m : m[name] \in Paths
      <4> DEFINE ps == ParserSpec(m)
      <4>1. DOMAIN ps = DOMAIN m
        BY <3>1
      <4>2. \A name \in DOMAIN m : ps[name].type = TypeOfPath(m[name]) /\ ps[name].map_to = m[name]
        BY <3>1
      <4> HIDE DEF ps
      <4>3. DSL!ValidateParserSpec(ps) <=> "" \notin DOMAIN m /\ \A name \in DOMAIN m : m[name] \in Paths
        BY <2>5, <3>2, <4>1, <4>2, Zenon DEF DSL!ValidateParserSpec
      <4> QED
        BY <4>3 DEF ps
    <3> HIDE DEF Fine
    <3>4. DSL!ValidateParserSpec(ParserSpec(m)) <=> Fine
      BY <2>3, <3>3, Zenon
    <3> QED
      BY <3>4, Zenon DEF m, Fine
  <2> QED
    BY <2>4, <2>5
<1> QED
  BY <1>1, <1>2, <1>3, OnboardingInvariant, PTL DEF Spec
=============================================================================
