--------------------------- MODULE EvidenceLedger ---------------------------
(***************************************************************************)
(* What the ingest gateway promises of raw evidence, whatever happens to   *)
(* the process: an event's bytes are recorded once, complete, and never    *)
(* change; and an event is announced to consumers or acknowledged to its   *)
(* sender only after its bytes are recorded.                               *)
(***************************************************************************)
CONSTANTS Events, Evidence

VARIABLES
    ledger,      \* the evidence recorded for each event: none or one piece
    announced,   \* events consumers have been told of, with that evidence
    acked        \* events whose sender has been told they are kept

ledgerVars == <<ledger, announced, acked>>

Init ==
    /\ ledger = [e \in Events |-> {}]
    /\ announced = {}
    /\ acked = {}

Record(e) ==
    /\ ledger[e] = {}
    /\ \E v \in Evidence \cap ledger'[e] : ledger' = [ledger EXCEPT ![e] = {v}]
    /\ UNCHANGED <<announced, acked>>

Announce(e) ==
    /\ \E v \in ledger[e] : announced' = announced \cup {<<e, v>>}
    /\ UNCHANGED <<ledger, acked>>

Acknowledge(e) ==
    /\ \E v \in ledger[e] : acked' = acked \cup {<<e, v>>}
    /\ UNCHANGED <<ledger, announced>>

Next == \E e \in Events : Record(e) \/ Announce(e) \/ Acknowledge(e)

Spec == Init /\ [][Next]_ledgerVars
=============================================================================
