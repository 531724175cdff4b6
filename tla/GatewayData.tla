---------------------------- MODULE GatewayData ----------------------------
(***************************************************************************)
(* The data shared by the components of apps/ingest-gateway: the handler   *)
(* goroutines, raw event bodies, raw_ref paths and RawEventEnvelopes.      *)
(***************************************************************************)
EXTENDS Naturals, FiniteSets, Sequences

CONSTANTS
    Handlers,    \* one goroutine (net/http) per request
    EventIDs,    \* the ULIDs generateULID can return
    Sources,     \* non-empty source_id values
    Bodies,      \* non-empty raw event bodies
    Malformed,   \* the bodies TelemetryFirewall.Inspect quarantines
    MaxDay,      \* bound: how many UTC days the behaviour spans
    Absent,      \* no file at a path, no value in a request, no envelope
    Torn         \* the content of a file that is open and partly written

Days == 1..MaxDay

\* raw/<YYYY>/<MM>/<DD>/<source_id>/<event_id>
Refs == [day : Days, source : Sources, event : EventIDs]

StatusAccepted == "ACCEPTED"
StatusQuarantined == "QUARANTINED"

TopicRawEvents == "raw_events"
TopicQuarantinedEvents == "quarantined_events"
Topics == {TopicRawEvents, TopicQuarantinedEvents}

\* RawEventEnvelope.  The digest stands for raw_sha256 and raw_length_bytes:
\* SHA-256 is taken to be injective, so the digest of a body is the body.
Envelopes ==
    [event_id : EventIDs, source_id : Sources, raw_ref : Refs \cup {Absent},
     digest : Bodies, status : {StatusAccepted, StatusQuarantined}]

ASSUME GatewayAssumption ==
    /\ Malformed \subseteq Bodies
    /\ MaxDay \in Nat \ {0}
    /\ Absent \notin Bodies \cup Sources \cup Refs \cup Envelopes
    /\ Torn \notin Bodies \cup {Absent}

NewRawEventEnvelopeWithStatus(id, source, body, status) ==
    [event_id |-> id, source_id |-> source, raw_ref |-> Absent,
     digest |-> body, status |-> status]
=============================================================================
