------------------------- MODULE DetectionContracts -------------------------
(***************************************************************************)
(* The detection contracts of packages/detection-contracts: contract.go,   *)
(* the ten default rules, and dps.go, the preservation score.  An event    *)
(* has string and integer fields under dotted paths; words are lower case  *)
(* and known by the parts they contain.                                    *)
(***************************************************************************)
EXTENDS Integers

CONSTANT Parts   \* word -> the substrings of it that the code looks for

ASSUME PartsAssumption == "" \in DOMAIN Parts => Parts[""] = {}

\* strings.Contains for one of several parts.
Holds(word, parts) == word \in DOMAIN Parts /\ Parts[word] \cap parts # {}

\* getNestedString: "" when the field is missing or no string.
Str(event, path) == IF path \in DOMAIN event.str THEN event.str[path] ELSE ""
Has(event, path) == Str(event, path) # ""

\* getNestedInt: a field that is missing is none of the numbers.
IntIn(event, path, numbers) == path \in DOMAIN event.int /\ event.int[path] \in numbers

Action(event) == Str(event, "event.action")
Outcome(event) == Str(event, "event.outcome")
Class(event) == Str(event, "event.class")

-----------------------------------------------------------------------------
IsAuth(event) == Holds(Action(event), {"auth", "login", "logon"})

\* Authentication failure.
Det001(event) ==
    /\ IsAuth(event) /\ Outcome(event) \in {"failure", "fail", "denied"}
    /\ Has(event, "user.name") \/ Has(event, "src.ip")

\* Blocked connection.
Det002(event) ==
    /\ Holds(Action(event), {"block", "drop", "deny"}) \/ Outcome(event) \in {"failure", "deny", "drop"}
    /\ Has(event, "src.ip") \/ Has(event, "dst.ip")

\* Successful authentication.
Det003(event) == IsAuth(event) /\ Outcome(event) = "success" /\ Has(event, "user.name")

\* Policy deny.
Det004(event) ==
    \/ Holds(Action(event), {"deny", "reject"}) \/ Outcome(event) = "failure"
    \/ Holds(Class(event), {"security", "policy"})

\* DNS lookup.
Det005(event) ==
    \/ Has(event, "dns.query_name")
    \/ Has(event, "dns.query_type") /\ (Class(event) = "dns" \/ Holds(Class(event), {"network"}))

\* Web proxy deny.
Det006(event) ==
    /\ IntIn(event, "http.status_code", {401, 403}) \/ Outcome(event) \in {"failure", "denied"}
    /\ Has(event, "http.url")

\* Lateral movement.
Det007(event) ==
    /\ IntIn(event, "dst.port", {445, 3389, 22, 5985, 135})
    /\ Has(event, "src.ip") /\ Has(event, "dst.ip")
    /\ Holds(Action(event), {"allow", "accept", "connect"}) \/ Outcome(event) = "success"

\* Privilege escalation.
Det008(event) ==
    LET user == Str(event, "user.name") IN
    /\ user \in {"root", "administrator", "system"} \/ Holds(user, {"admin"})
    /\ Holds(Action(event), {"elevat", "sudo", "runas"}) \/ Holds(Class(event), {"privilege"})

\* Exfiltration: network.bytes is looked at only without network.bytes_out.
Det009(event) ==
    LET field == IF "network.bytes_out" \in DOMAIN event.int THEN "network.bytes_out" ELSE "network.bytes"
    IN  /\ field \in DOMAIN event.int /\ event.int[field] >= 10000000
        /\ Class(event) = "network" \/ Has(event, "dst.ip")

\* Mass modification of files.
Det010(event) ==
    /\ Class(event) \in {"file", "filesystem"} \/ Holds(Class(event), {"storage"})
    /\ Holds(Action(event), {"encrypt", "ransom", "delete", "bulk_modify"})
    /\ Outcome(event) \in {"success", ""}

Rules == {"DET-001", "DET-002", "DET-003", "DET-004", "DET-005", "DET-006", "DET-007", "DET-008", "DET-009", "DET-010"}
Mandatory == Rules \ {"DET-005", "DET-006", "DET-009"}

\* The rules whose predicate holds of an event.
Matched(event) ==
    {r \in Rules :
        \/ r = "DET-001" /\ Det001(event)
        \/ r = "DET-002" /\ Det002(event)
        \/ r = "DET-003" /\ Det003(event)
        \/ r = "DET-004" /\ Det004(event)
        \/ r = "DET-005" /\ Det005(event)
        \/ r = "DET-006" /\ Det006(event)
        \/ r = "DET-007" /\ Det007(event)
        \/ r = "DET-008" /\ Det008(event)
        \/ r = "DET-009" /\ Det009(event)
        \/ r = "DET-010" /\ Det010(event)}

\* EvaluateRule for every rule: preserved where it matches as expected.
Preserved(event, expected) == {r \in Rules : r \in Matched(event) <=> r \in expected}

-----------------------------------------------------------------------------
\* n / d rounded to four digits, in units of 1/10000.
Round4(n, d) == (20000 * n + d) \div (2 * d)

\* Mutant: one score for all rules.
MutCertified(t) == Round4(t.preserved, t.total) >= 9500

\* DPSCalculator.Calculate
Certified(t) ==
    /\ t.mandatory = 0 \/ t.mandatoryPreserved = t.mandatory
    /\ Round4(t.preserved, t.total) >= 9500
=============================================================================
