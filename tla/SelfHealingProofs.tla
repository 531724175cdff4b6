------------------------- MODULE SelfHealingProofs -------------------------
(***************************************************************************)
(* For every set of sources, incidents, specifications and windows: types, *)
(* the stack of versions behind deploy_spec and rollback, and what the     *)
(* gates let through.                                                      *)
(***************************************************************************)
EXTENDS SelfHealing, FiniteSetTheorems, TLAPS

USE SelfHealingAssumption

\* A source with a history has an active specification.
HistoryHasActive ==
    \A s \in Sources : revision_history[s] # <<>> => active_registry[s] # Absent

DeployerInv == TypeOK /\ HistoryHasActive

-----------------------------------------------------------------------------
\* What handle_repair does to registry and history: nothing, or one deploy_spec.
LEMMA RepairDeploys ==
    ASSUME TypeOK, NEW i \in Incidents, handle_repair(i)
    PROVE  \/ UNCHANGED deployerVars
           \/ \E s \in Sources, spec \in Specs : deploy_spec(s, spec)
<1>1. PICK cand \in Specs, window \in Windows, mode \in PromotionModes, slow \in BOOLEAN :
        /\ incident[i] # Absent
        /\ \/ deploy_spec(incident[i].source, cand)
           \/ UNCHANGED <<active_registry, revision_history>>
  BY DEF handle_repair
<1>2. incident[i].source \in Sources
  BY <1>1 DEF TypeOK, IncidentRecords
<1> QED
  BY <1>1, <1>2 DEF deployerVars

\* deploy_spec keeps the types of the registry and of the history.
LEMMA DeployTypes ==
    ASSUME TypeOK, NEW s \in Sources, NEW spec \in Specs, deploy_spec(s, spec)
    PROVE  /\ active_registry' \in [Sources -> Specs \cup {Absent}]
           /\ revision_history' \in [Sources -> Seq(Specs)]
<1>1. active_registry' \in [Sources -> Specs \cup {Absent}]
  BY DEF deploy_spec, TypeOK
<1>2. CASE active_registry[s] = Absent
  BY <1>1, <1>2 DEF deploy_spec, TypeOK
<1>3. CASE active_registry[s] # Absent
  <2>1. active_registry[s] \in Specs
    BY <1>3 DEF TypeOK
  <2>2. Append(revision_history[s], active_registry[s]) \in Seq(Specs)
    BY <2>1 DEF TypeOK
  <2> QED
    BY <1>1, <1>3, <2>2 DEF deploy_spec, TypeOK
<1> QED
  BY <1>2, <1>3

\* rollback keeps them too.
LEMMA RollbackTypes ==
    ASSUME TypeOK, NEW s \in Sources, rollback(s)
    PROVE  /\ active_registry' \in [Sources -> Specs \cup {Absent}]
           /\ revision_history' \in [Sources -> Seq(Specs)]
           /\ active_registry'[s] \in Specs
<1>1. revision_history[s] \in Seq(Specs) /\ Len(revision_history[s]) > 0
  BY DEF rollback, TypeOK
<1>2. revision_history[s][Len(revision_history[s])] \in Specs
  BY <1>1
<1>3. SubSeq(revision_history[s], 1, Len(revision_history[s]) - 1) \in Seq(Specs)
  BY <1>1
<1> QED
  BY <1>2, <1>3 DEF rollback, TypeOK

\* A decision of the policy, or an exception.
LEMMA DecisionType ==
    ASSUME NEW g, NEW m, NEW c
    PROVE  Outcomes(Evaluate(g, m), c) \in Decisions
BY DEF Outcomes, Evaluate, Decisions

LEMMA RepairTypes ==
    ASSUME TypeOK, NEW i \in Incidents, handle_repair(i)
    PROVE  incident' \in [Incidents -> IncidentRecords \cup {Absent}] /\ promoted' \subseteq Promotions
<1>1. PICK cand \in Specs, window \in Windows, mode \in PromotionModes, slow \in BOOLEAN :
        LET inc == incident[i]
            outcome == Outcomes(Evaluate(GateResults[window][inc.active_spec][cand][slow], mode),
                                cand)
        IN  /\ inc # Absent /\ inc.decision = "open"
            /\ incident' = [incident EXCEPT ![i].decision = outcome]
            /\ IF outcome = "PROMOTED"
               THEN /\ deploy_spec(inc.source, cand)
                    /\ promoted' = promoted \cup
                          {[source |-> inc.source, spec |-> cand,
                            active_spec |-> inc.active_spec, window |-> window,
                            replaced |-> active_registry[inc.source]]}
               ELSE UNCHANGED <<active_registry, revision_history, promoted>>
  BY DEF handle_repair
<1>2. incident[i] \in IncidentRecords
  BY <1>1 DEF TypeOK
<1>3. PICK d \in Decisions : incident' = [incident EXCEPT ![i].decision = d]
  BY <1>1, DecisionType
<1>4. incident' \in [Incidents -> IncidentRecords \cup {Absent}]
  BY <1>2, <1>3 DEF TypeOK, IncidentRecords
<1>5. [source |-> incident[i].source, spec |-> cand, active_spec |-> incident[i].active_spec,
       window |-> window, replaced |-> active_registry[incident[i].source]] \in Promotions
  BY <1>2 DEF TypeOK, IncidentRecords, Promotions
<1>6. promoted' \subseteq Promotions
  BY <1>1, <1>5 DEF TypeOK
<1> QED
  BY <1>4, <1>6

-----------------------------------------------------------------------------
LEMMA DeployerStep ==
    ASSUME DeployerInv, [Next]_vars
    PROVE  DeployerInv'
<1> USE DEF DeployerInv
<1>1. ASSUME NEW i \in Incidents, NEW s \in Sources, Detect(i, s) PROVE DeployerInv'
  <2>1. PICK spec \in Specs :
          incident' = [incident EXCEPT ![i] =
                         [source |-> s, active_spec |-> spec, decision |-> "open"]]
    BY <1>1 DEF Detect
  <2>2. [source |-> s, active_spec |-> spec, decision |-> "open"] \in IncidentRecords
    BY DEF IncidentRecords, Decisions
  <2>3. incident' \in [Incidents -> IncidentRecords \cup {Absent}]
    BY <2>1, <2>2 DEF TypeOK
  <2> QED
    BY <1>1, <2>3 DEF Detect, TypeOK, HistoryHasActive
<1>2. ASSUME NEW i \in Incidents, handle_repair(i) PROVE DeployerInv'
  <2>1. incident' \in [Incidents -> IncidentRecords \cup {Absent}] /\ promoted' \subseteq Promotions
    BY <1>2, RepairTypes
  <2>2. CASE UNCHANGED deployerVars
    BY <2>1, <2>2 DEF TypeOK, HistoryHasActive, deployerVars
  <2>3. CASE \E s \in Sources, spec \in Specs : deploy_spec(s, spec)
    <3>1. PICK s \in Sources, spec \in Specs : deploy_spec(s, spec)
      BY <2>3
    <3>2. TypeOK'
      BY <2>1, <3>1, DeployTypes DEF TypeOK
    <3>3. \A t \in Sources : t # s => /\ revision_history'[t] = revision_history[t]
                                      /\ active_registry'[t] = active_registry[t]
      BY <3>1 DEF deploy_spec, TypeOK
    <3>4. active_registry'[s] # Absent
      BY <3>1 DEF deploy_spec, TypeOK
    <3> QED
      BY <3>2, <3>3, <3>4 DEF HistoryHasActive
  <2> QED
    BY <1>2, <2>2, <2>3, RepairDeploys
<1>3. ASSUME NEW s \in Sources, rollback(s) PROVE DeployerInv'
  <2>1. TypeOK'
    BY <1>3, RollbackTypes DEF TypeOK, rollback
  <2>2. active_registry'[s] # Absent
    BY <1>3, RollbackTypes
  <2>3. \A t \in Sources : t # s => /\ revision_history'[t] = revision_history[t]
                                    /\ active_registry'[t] = active_registry[t]
    BY <1>3 DEF rollback, TypeOK
  <2> QED
    BY <2>1, <2>2, <2>3 DEF HistoryHasActive
<1>4. CASE Done \/ UNCHANGED vars
  BY <1>4 DEF Done, vars, TypeOK, HistoryHasActive
<1> QED
  BY <1>1, <1>2, <1>3, <1>4 DEF Next

LEMMA DeployerInductive == Spec => []DeployerInv
<1>1. Init => DeployerInv
  BY DEF Init, DeployerInv, TypeOK, HistoryHasActive
<1>2. DeployerInv /\ [Next]_vars => DeployerInv'
  BY DeployerStep
<1> QED
  BY <1>1, <1>2, PTL DEF Spec

\* Registry, history, incidents and promotions stay well-typed: rollback never
\* reads past the history, and no source falls back to having no specification.
THEOREM DeployerTypeCorrect == Spec => []TypeOK
BY DeployerInductive, PTL DEF DeployerInv

-----------------------------------------------------------------------------
\* The stack of a source whose registry entry and history did not change.
LEMMA OthersInForce ==
    ASSUME NEW s \in Sources,
           \A t \in Sources : t # s => /\ revision_history'[t] = revision_history[t]
                                       /\ active_registry'[t] = active_registry[t]
    PROVE  [t \in Sources |-> InForce(t)]' =
               [[t \in Sources |-> InForce(t)] EXCEPT ![s] = InForce(s)']
BY DEF InForce

LEMMA StackStep ==
    ASSUME DeployerInv, [Next]_vars
    PROVE  Stack!Next \/ UNCHANGED [s \in Sources |-> InForce(s)]
<1> USE DEF DeployerInv
<1>1. CASE UNCHANGED deployerVars
  BY <1>1 DEF deployerVars, InForce
<1>2. ASSUME NEW s \in Sources, NEW spec \in Specs, deploy_spec(s, spec)
      PROVE  Stack!Next
  <2>1. InForce(s)' = Append(InForce(s), spec)
    <3>1. active_registry'[s] = spec
      BY <1>2 DEF deploy_spec, TypeOK
    <3>2. CASE active_registry[s] = Absent
      <4>1. revision_history[s] = <<>> /\ revision_history' = revision_history
        BY <1>2, <3>2 DEF deploy_spec, HistoryHasActive
      <4> QED
        BY <3>1, <3>2, <4>1 DEF InForce
    <3>3. CASE active_registry[s] # Absent
      <4>1. revision_history'[s] = Append(revision_history[s], active_registry[s])
        BY <1>2, <3>3 DEF deploy_spec, TypeOK
      <4> QED
        BY <3>1, <3>3, <4>1 DEF InForce
    <3> QED
      BY <3>2, <3>3
  <2>2. \A t \in Sources : t # s => /\ revision_history'[t] = revision_history[t]
                                    /\ active_registry'[t] = active_registry[t]
    BY <1>2 DEF deploy_spec, TypeOK
  <2>3. Stack!Push(s)
    BY <2>1, <2>2, OthersInForce DEF Stack!Push
  <2> QED
    BY <2>3 DEF Stack!Next
<1>3. ASSUME NEW s \in Sources, rollback(s)
      PROVE  Stack!Next
  <2> DEFINE h == revision_history[s]
  <2>1. h \in Seq(Specs) /\ Len(h) > 0 /\ active_registry[s] \in Specs
    BY <1>3 DEF rollback, TypeOK, HistoryHasActive
  <2>2. InForce(s) = Append(h, active_registry[s])
    BY <2>1 DEF InForce
  <2>3. /\ active_registry'[s] = h[Len(h)]
        /\ revision_history'[s] = SubSeq(h, 1, Len(h) - 1)
    BY <1>3 DEF rollback, TypeOK
  <2>4. h[Len(h)] \in Specs
    BY <2>1
  <2>5. InForce(s)' = Append(SubSeq(h, 1, Len(h) - 1), h[Len(h)])
    BY <2>3, <2>4 DEF InForce
  <2>6. Append(SubSeq(h, 1, Len(h) - 1), h[Len(h)]) = h
    BY <2>1
  <2>7. SubSeq(Append(h, active_registry[s]), 1, Len(Append(h, active_registry[s])) - 1) = h
    BY <2>1
  <2>8. Len(InForce(s)) > 1
    BY <2>1, <2>2
  <2>9. InForce(s)' = SubSeq(InForce(s), 1, Len(InForce(s)) - 1)
    BY <2>2, <2>5, <2>6, <2>7
  <2>10. \A t \in Sources : t # s => /\ revision_history'[t] = revision_history[t]
                                     /\ active_registry'[t] = active_registry[t]
    BY <1>3 DEF rollback, TypeOK
  <2>11. Stack!Pop(s)
    BY <2>8, <2>9, <2>10, OthersInForce DEF Stack!Pop
  <2> QED
    BY <2>11 DEF Stack!Next
<1>4. ASSUME NEW i \in Incidents, handle_repair(i)
      PROVE  Stack!Next \/ UNCHANGED [s \in Sources |-> InForce(s)]
  BY <1>1, <1>2, <1>4, RepairDeploys
<1>5. CASE Done \/ UNCHANGED vars \/ \E i \in Incidents, s \in Sources : Detect(i, s)
  BY <1>1, <1>5 DEF Done, vars, deployerVars, Detect
<1> QED
  BY <1>3, <1>4, <1>5 DEF Next

\* deploy_spec and rollback implement a stack of versions per source, whatever
\* repairs, stale incidents and rollbacks interleave.
THEOREM DeployerIsStack == Spec => ImplementsVersionStack
<1>1. Init => Stack!Init
  BY DEF Init, Stack!Init, InForce
<1>2. DeployerInv /\ [Next]_vars => [Stack!Next]_([s \in Sources |-> InForce(s)])
  BY StackStep
<1> QED
  BY <1>1, <1>2, DeployerInductive, PTL DEF Spec, ImplementsVersionStack, Stack!Spec

-----------------------------------------------------------------------------
\* The occurrences that Lines counts.
Occurrences(window, raws) == UNION {{raw} \X (1..window[raw]) : raw \in raws}

LEMMA OccurrencesFinite ==
    ASSUME NEW window, NEW raws, IsFiniteSet(raws), \A raw \in raws : window[raw] \in Nat \ {0}
    PROVE  IsFiniteSet(Occurrences(window, raws))
<1> DEFINE Of(raw) == {raw} \X (1..window[raw])
           all == {Of(raw) : raw \in raws}
           f == [raw \in raws |-> Of(raw)]
<1>1. ASSUME NEW raw \in raws PROVE IsFiniteSet(Of(raw))
  <2>1. IsFiniteSet(1..window[raw])
    BY FS_Interval
  <2>2. IsFiniteSet({raw})
    BY FS_Singleton
  <2> QED
    BY <2>1, <2>2, FS_Product
<1>2. Occurrences(window, raws) = UNION all
  BY DEF Occurrences
<1> HIDE DEF Of
<1>3. f \in Surjection(raws, all)
  BY DEF Surjection
<1>4. IsFiniteSet(all)
  <2> HIDE DEF f, all
  <2> QED
    BY <1>3, FS_Surjection
<1>5. \A T \in all : IsFiniteSet(T)
  BY <1>1
<1> HIDE DEF all
<1> QED
  BY <1>2, <1>4, <1>5, FS_UNION

\* Lines counts every line at least once.
LEMMA LinesCount ==
    ASSUME NEW window, NEW raws, IsFiniteSet(raws), \A raw \in raws : window[raw] \in Nat \ {0}
    PROVE  Lines(window, raws) \in Nat /\ (Lines(window, raws) = 0 <=> raws = {})
<1> DEFINE o == Occurrences(window, raws)
<1>1. IsFiniteSet(o)
  BY OccurrencesFinite
<1>2. Lines(window, raws) = Cardinality(o)
  BY DEF Lines, Occurrences
<1>3. ASSUME NEW raw \in raws PROVE <<raw, 1>> \in o
  <2>1. 1 \in 1..window[raw]
    OBVIOUS
  <2> QED
    BY <2>1 DEF Occurrences
<1>4. raws = {} => o = {}
  BY DEF Occurrences
<1>5. o = {} <=> raws = {}
  BY <1>3, <1>4
<1> HIDE DEF o
<1>6. Cardinality(o) \in Nat /\ (Cardinality(o) = 0 <=> o = {})
  BY <1>1, FS_CardinalityType, FS_EmptySet
<1> QED
  BY <1>2, <1>5, <1>6

\* Four digits are enough to see one line in 20000.
LEMMA RoundedSeesOne ==
    ASSUME NEW n \in Nat, NEW d \in Nat, 1 <= d, d <= 20000, ~(Rounded(n, d) > 0)
    PROVE  n = 0
<1>1. Rounded(n, d) = (20000 * n + d) \div (2 * d)
  BY DEF Rounded, Scale
<1>2. ASSUME n >= 1 PROVE (20000 * n + d) \div (2 * d) >= 1
  BY <1>2, SMT
<1>3. (20000 * n + d) \div (2 * d) \in Int
  BY SMT
<1> DEFINE q == (20000 * n + d) \div (2 * d)
<1>4. ~(q > 0) /\ q \in Int /\ (n >= 1 => q >= 1)
  BY <1>1, <1>2, <1>3
<1> HIDE DEF q
<1> QED
  BY <1>4, SMT

\* The comparator's divergence and the reference agree on a line.
LEMMA NotDiverged ==
    ASSUME NEW window, NEW a, NEW b, \A raw \in DOMAIN window : ~ EventDiverged(raw, a, b)
    PROVE  KeepsCritical(window, a, b)
BY Zenon DEF EventDiverged, SameMeaning, KeepsCritical

\* A critical divergence that is not above zero, over a window in which four
\* digits show one line, is none.
LEMMA NoDivergence ==
    ASSUME NEW window \in Windows, NEW a, NEW b,
           ~(CriticalDivergence(window, a, b) > 0),
           Lines(window, DOMAIN window) <= 20000
    PROVE  KeepsCritical(window, a, b)
<1> DEFINE lost == {raw \in DOMAIN window : EventDiverged(raw, a, b)}
           n == Lines(window, lost)
           d == Lines(window, DOMAIN window)
<1>1. IsFiniteSet(DOMAIN window) /\ \A raw \in DOMAIN window : window[raw] \in Nat \ {0}
  BY ShadowAssumption
<1>2. lost \in SUBSET DOMAIN window
  OBVIOUS
<1>3. CriticalDivergence(window, a, b) = IF d = 0 THEN 0 ELSE Rounded(n, d)
  BY DEF CriticalDivergence
<1>4. \A raw \in DOMAIN window : raw \notin lost => ~ EventDiverged(raw, a, b)
  OBVIOUS
<1> HIDE DEF lost
<1>5. IsFiniteSet(lost) /\ \A raw \in lost : window[raw] \in Nat \ {0}
  BY <1>1, <1>2, FS_Subset
<1>6. n \in Nat /\ (n = 0 <=> lost = {})
  BY <1>5, LinesCount
<1>7. d \in Nat /\ (d = 0 <=> DOMAIN window = {})
  <2> DEFINE raws == DOMAIN window
  <2>1. IsFiniteSet(raws) /\ \A raw \in raws : window[raw] \in Nat \ {0}
    BY <1>1
  <2> HIDE DEF raws
  <2>2. Lines(window, raws) \in Nat /\ (Lines(window, raws) = 0 <=> raws = {})
    BY <2>1, LinesCount
  <2> QED
    BY <2>2 DEF raws
<1>8. CASE d = 0
  BY <1>4, <1>7, <1>8, NotDiverged
<1>9. CASE d # 0
  <2>1. ~(Rounded(n, d) > 0) /\ d <= 20000
    BY <1>3, <1>9
  <2> HIDE DEF n, d
  <2>2. 1 <= d
    BY <1>7, <1>9, SMT
  <2>3. n = 0
    BY <1>6, <1>7, <2>1, <2>2, RoundedSeesOne
  <2> QED
    BY <1>4, <1>6, <2>3, NotDiverged
<1> QED
  BY <1>8, <1>9

-----------------------------------------------------------------------------
\* What the policy lets through: a window was there, and the comparator saw no
\* critical divergence in it.
Judged(window, active, cand) ==
    window # <<>> /\ ~(CriticalDivergence(window, active, cand) > 0)

LEMMA PassedIsJudged ==
    ASSUME NEW window, NEW active, NEW cand, NEW slow,
           Gates(window, active, cand, slow).shadow_state = "PASSED"
    PROVE  Judged(window, active, cand)
<1>1. window # <<>> /\ ShadowState(window, active, cand, slow, TRUE) = "PASSED"
  BY DEF Gates
<1> QED
  BY <1>1 DEF ShadowState, Judged

LEMMA PromotedIsPassed ==
    ASSUME NEW gates, NEW mode, NEW cand, Outcomes(Evaluate(gates, mode), cand) = "PROMOTED"
    PROVE  gates.shadow_state = "PASSED"
BY DEF Outcomes, Evaluate

LEMMA GateResultsAre ==
    ASSUME NEW window \in Windows, NEW active \in Specs, NEW cand \in Specs, NEW slow \in BOOLEAN
    PROVE  GateResults[window][active][cand][slow] = Gates(window, active, cand, slow)
BY DEF GateResults

AllJudged == \A p \in promoted : Judged(p.window, p.active_spec, p.spec)

LEMMA JudgedStep ==
    ASSUME TypeOK, AllJudged, [Next]_vars
    PROVE  AllJudged'
<1>1. CASE UNCHANGED promoted
  BY <1>1 DEF AllJudged
<1>2. ASSUME NEW i \in Incidents, handle_repair(i) PROVE AllJudged'
  <2>1. PICK cand \in Specs, window \in Windows, mode \in PromotionModes, slow \in BOOLEAN :
          LET inc == incident[i]
              outcome == Outcomes(Evaluate(GateResults[window][inc.active_spec][cand][slow], mode),
                                  cand)
          IN  /\ inc # Absent
              /\ IF outcome = "PROMOTED"
                 THEN promoted' = promoted \cup
                            {[source |-> inc.source, spec |-> cand,
                              active_spec |-> inc.active_spec, window |-> window,
                              replaced |-> active_registry[inc.source]]}
                 ELSE UNCHANGED promoted
    BY <1>2 DEF handle_repair
  <2> DEFINE active == incident[i].active_spec
             g == GateResults[window][active][cand][slow]
  <2>2. active \in Specs
    BY <2>1 DEF TypeOK, IncidentRecords
  <2>3. CASE Outcomes(Evaluate(g, mode), cand) # "PROMOTED"
    BY <1>1, <2>1, <2>3
  <2>4. CASE Outcomes(Evaluate(g, mode), cand) = "PROMOTED"
    <3>1. g = Gates(window, active, cand, slow)
      BY <2>2, GateResultsAre
    <3>2. g.shadow_state = "PASSED"
      <4> HIDE DEF g
      <4> QED
        BY <2>4, PromotedIsPassed
    <3>3. Judged(window, active, cand)
      BY <3>1, <3>2, PassedIsJudged
    <3>4. \A p \in promoted' : \/ p \in promoted
                               \/ p.window = window /\ p.active_spec = active /\ p.spec = cand
      BY <2>1, <2>4
    <3> QED
      BY <3>3, <3>4 DEF AllJudged
  <2> QED
    BY <2>3, <2>4
<1> QED
  BY <1>1, <1>2 DEF Next, Detect, rollback, Done, vars

\* handle_repair promotes nothing that lost or changed a critical field of the
\* specification it was compared with, however incidents, repairs and rollbacks
\* interleave and whatever the window, up to the 20000 lines that the four digits
\* of the comparator's divergence resolve.
THEOREM PromotionsKeepCriticals == Spec => []PromotionKeepsCritical
<1>1. Init => AllJudged
  BY DEF Init, AllJudged
<1>2. DeployerInv /\ AllJudged /\ [Next]_vars => AllJudged'
  BY JudgedStep DEF DeployerInv
<1>3. DeployerInv /\ AllJudged => PromotionKeepsCritical
  <2> SUFFICES ASSUME DeployerInv, AllJudged, NEW p \in promoted
               PROVE  /\ p.window # <<>>
                      /\ Lines(p.window, DOMAIN p.window) <= 20000 =>
                            KeepsCritical(p.window, p.active_spec, p.spec)
    BY DEF PromotionKeepsCritical
  <2>1. p.window \in Windows
    BY DEF DeployerInv, TypeOK, Promotions
  <2>2. p.window # <<>> /\ ~(CriticalDivergence(p.window, p.active_spec, p.spec) > 0)
    BY DEF AllJudged, Judged
  <2> QED
    BY <2>1, <2>2, NoDivergence
<1> QED
  BY <1>1, <1>2, <1>3, DeployerInductive, PTL DEF Spec
=============================================================================
