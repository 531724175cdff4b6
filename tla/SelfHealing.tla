---------------------------- MODULE SelfHealing ----------------------------
(***************************************************************************)
(* SelfHealingWorkflow (ml/self_healing/workflow.py) over                  *)
(* SpecDeploymentEngine (ml/deployment/deployer.py).  Whoever handles an   *)
(* incident reads the source's active specification when the drift is      *)
(* detected and passes it to handle_repair later, with a candidate; in     *)
(* between other incidents are repaired and rollbacks happen.              *)
(***************************************************************************)
EXTENDS ShadowComparison

CONSTANTS
    Sources,      \* log sources
    Incidents     \* drift incidents, each repaired at most once

ASSUME SelfHealingAssumption == Absent \notin Specs

VARIABLES
    active_registry,    \* the deployed specification of every source
    revision_history,   \* the specifications it replaced, oldest first
    incident,           \* what each incident's handler knows, and its decision
    promoted            \* history: every promotion, with what it was judged on

deployerVars == <<active_registry, revision_history>>
vars == <<active_registry, revision_history, incident, promoted>>

Decisions == {"open", "PROMOTED", "REJECTED", "ESCALATED_FOR_APPROVAL", "raised"}

IncidentRecords == [source : Sources, active_spec : Specs, decision : Decisions]

Promotions ==
    [source : Sources, spec : Specs, active_spec : Specs, window : Windows,
     replaced : Specs \cup {Absent}]

TypeOK ==
    /\ active_registry \in [Sources -> Specs \cup {Absent}]
    /\ revision_history \in [Sources -> Seq(Specs)]
    /\ incident \in [Incidents -> IncidentRecords \cup {Absent}]
    /\ promoted \subseteq Promotions

Init ==
    /\ active_registry = [s \in Sources |-> Absent]
    /\ revision_history = [s \in Sources |-> <<>>]
    /\ incident = [i \in Incidents |-> Absent]
    /\ promoted = {}

-----------------------------------------------------------------------------
\* Mutant: the new specification goes into the history, not the old one.
MutSavesNewSpec(s, spec) ==
    /\ revision_history' =
          IF active_registry[s] = Absent THEN revision_history
          ELSE [revision_history EXCEPT ![s] = Append(@, spec)]
    /\ active_registry' = [active_registry EXCEPT ![s] = spec]

\* Mutant: an empty registry entry is saved as well.
MutSavesNothing(s, spec) ==
    /\ revision_history' = [revision_history EXCEPT ![s] = Append(@, active_registry[s])]
    /\ active_registry' = [active_registry EXCEPT ![s] = spec]

\* The replaced specification is saved, then the new one becomes active.
deploy_spec(s, spec) ==
    /\ revision_history' =
          IF active_registry[s] = Absent THEN revision_history
          ELSE [revision_history EXCEPT ![s] = Append(@, active_registry[s])]
    /\ active_registry' = [active_registry EXCEPT ![s] = spec]

\* The last replaced specification becomes active again; KeyError without one.
rollback(s) ==
    /\ revision_history[s] # <<>>
    /\ active_registry' =
          [active_registry EXCEPT ![s] = revision_history[s][Len(revision_history[s])]]
    /\ revision_history' =
          [revision_history EXCEPT ![s] = SubSeq(@, 1, Len(@) - 1)]
    /\ UNCHANGED <<incident, promoted>>

-----------------------------------------------------------------------------
\* A drift report for source s reaches its handler, who looks up the active
\* specification; a source that was never deployed has a hand-written one.
Detect(i, s) ==
    /\ incident[i] = Absent
    /\ \E spec \in Specs :
          /\ spec = active_registry[s] \/ (active_registry[s] = Absent /\ spec.conforms)
          /\ incident' = [incident EXCEPT ![i] =
                            [source |-> s, active_spec |-> spec, decision |-> "open"]]
    /\ UNCHANGED <<active_registry, revision_history, promoted>>

\* The gates of every repair, evaluated once.
GateResults ==
    [window \in Windows |-> [active \in Specs |-> [cand \in Specs |-> [slow \in BOOLEAN |->
        Gates(window, active, cand, slow)]]]]

\* int(cand_ver.split(".")[0]) raises for a version such as "1rc.0", and cand_ver[0]
\* for an empty one, before the deployment.
Outcomes(decision, cand) ==
    IF decision = "PROMOTED" /\ ~ cand.versioned THEN "raised" ELSE decision

\* handle_repair, with whatever candidate and samples the handler has by then.
handle_repair(i) ==
    \E cand \in Specs, window \in Windows, mode \in PromotionModes, slow \in BOOLEAN :
        LET inc == incident[i]
            outcome == Outcomes(Evaluate(GateResults[window][inc.active_spec][cand][slow], mode), cand)
        IN  /\ inc # Absent /\ inc.decision = "open"
            /\ incident' = [incident EXCEPT ![i].decision = outcome]
            /\ IF outcome = "PROMOTED"
               THEN /\ deploy_spec(inc.source, cand)
                    /\ promoted' = promoted \cup
                          {[source |-> inc.source, spec |-> cand,
                            active_spec |-> inc.active_spec, window |-> window,
                            replaced |-> active_registry[inc.source]]}
               ELSE UNCHANGED <<active_registry, revision_history, promoted>>

AllHandled == \A i \in Incidents : incident[i] # Absent /\ incident[i].decision # "open"

\* Every incident is closed and there is nothing to roll back to.
Done ==
    /\ AllHandled
    /\ \A s \in Sources : revision_history[s] = <<>>
    /\ UNCHANGED vars

Next ==
    \/ \E i \in Incidents, s \in Sources : Detect(i, s)
    \/ \E i \in Incidents : handle_repair(i)
    \/ \E s \in Sources : rollback(s)
    \/ Done

Spec == Init /\ [][Next]_vars

-----------------------------------------------------------------------------
\* "Critical semantic divergence ... exceeds 0% tolerance" (comparator.py): a
\* promoted specification was judged on at least one line, and on no line of its
\* window does it lose or change a critical field of the specification it was
\* compared with.  The divergence is rounded to four digits: in 20000 lines one
\* diverging line shows, in more it may not.
PromotionKeepsCritical ==
    \A p \in promoted :
        /\ p.window # <<>>
        /\ Lines(p.window, DOMAIN p.window) <= 20000 => KeepsCritical(p.window, p.active_spec, p.spec)

\* "Candidate parsers must run alongside active parsers ..., comparing outputs
\* across ... critical security semantics" (ADR-0008): the same, of the
\* specification that is active when the promotion replaces it.
PromotionKeepsReplaced ==
    \A p \in promoted :
        p.replaced # Absent => KeepsCritical(p.window, p.replaced, p.spec)

-----------------------------------------------------------------------------
\* The versions in force for a source, the active one on top.
InForce(s) ==
    IF active_registry[s] = Absent THEN <<>>
    ELSE Append(revision_history[s], active_registry[s])

Stack == INSTANCE VersionStack WITH
    Owners <- Sources, Versions <- Specs, stack <- [s \in Sources |-> InForce(s)]

\* A rollback always restores exactly what the last deployment still in force
\* replaced: registry and history together are a stack of versions.
ImplementsVersionStack == Stack!Spec
=============================================================================
