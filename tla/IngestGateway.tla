--------------------------- MODULE IngestGateway ---------------------------
(***************************************************************************)
(* The ingest gateway process (apps/ingest-gateway/main.go, ingest.go,     *)
(* envelope.go): POST /api/v1/events/raw handled by one goroutine per      *)
(* request over the shared RawStore and EventBus, graceful shutdown, death *)
(* and restart of the process.  Memory (the bus, handlers) dies with the   *)
(* process; files survive it.                                              *)
(***************************************************************************)
EXTENDS RawStore, EventBus

CONSTANTS
    Requests,    \* the requests clients send
    MaxStarts    \* bound: how often the process is started

\* A request as the handler sees it; Absent stands for a missing source_id or
\* an empty body.  "bogus" is any transport outside validTransports, "http" any
\* inside it, the default "unknown" included.
RequestKinds ==
    [source : Sources \cup {Absent}, body : Bodies \cup {Absent},
     transport : {"http", "bogus"}]

ASSUME RequestAssumption ==
    /\ Requests \subseteq RequestKinds
    /\ MaxStarts \in Nat \ {0}

VARIABLES
    proc,     \* "running", "draining" (Shutdown waits), "stopped" or "dead"
    starts,   \* how often main has been started
    pc,       \* what each handler does next
    req,      \* the request it handles
    gone,     \* handlers whose client hung up before the inspection
    env,      \* the envelope it has built
    resp      \* the HTTP status it has answered with

gatewayVars == <<proc, starts, pc, req, gone, env, resp>>
vars == <<storeVars, busVars, gatewayVars>>

NoRequest == [source |-> Absent, body |-> Absent, transport |-> "http"]

Progress == {"idle", "read", "store", "stored", "publish", "reply", "done", "lost"}

TypeOK ==
    /\ StoreTypeOK
    /\ BusTypeOK
    /\ proc \in {"running", "draining", "stopped", "dead"}
    /\ starts \in 1..MaxStarts
    /\ pc \in [Handlers -> Progress]
    /\ req \in [Handlers -> RequestKinds]
    /\ gone \subseteq Handlers
    /\ env \in [Handlers -> Envelopes \cup {Absent}]
    /\ resp \in [Handlers -> {0, 201, 202, 400, 500}]

Init ==
    /\ StoreInit
    /\ BusInit
    /\ proc = "running"
    /\ starts = 1
    /\ pc = [h \in Handlers |-> "idle"]
    /\ req = [h \in Handlers |-> NoRequest]
    /\ gone = {}
    /\ env = [h \in Handlers |-> Absent]
    /\ resp = [h \in Handlers |-> 0]

Alive == proc \in {"running", "draining"}

Goes(h, from, to) ==
    /\ pc[h] = from
    /\ pc' = [pc EXCEPT ![h] = to]

\* The handler answers and returns; its locals go, its envelope is the answer.
Answers(h, from, status) ==
    /\ Goes(h, from, "done")
    /\ resp' = [resp EXCEPT ![h] = status]
    /\ req' = [req EXCEPT ![h] = NoRequest]
    /\ gone' = gone \ {h}

-----------------------------------------------------------------------------
\* A request arrives while the server listens.
Arrive(h) ==
    /\ proc = "running"
    /\ Goes(h, "idle", "read")
    /\ \E r \in Requests : req' = [req EXCEPT ![h] = r]
    /\ UNCHANGED <<storeVars, busVars, proc, starts, gone, env, resp>>

\* The client goes away before the firewall looks at r.Context().
HangUp(h) ==
    /\ Alive
    /\ pc[h] = "read"
    /\ gone' = gone \cup {h}
    /\ UNCHANGED <<storeVars, busVars, proc, starts, pc, req, env, resp>>

\* 400: no source_id, an error reading the body, or an empty body.
BadRequest(h) ==
    /\ Alive
    /\ Answers(h, "read", 400)
    /\ UNCHANGED <<storeVars, busVars, proc, starts, env>>

\* TelemetryFirewall.Inspect; a cancelled context is ERR_TIMEOUT.
InspectStatus(h) ==
    IF h \in gone \/ req[h].body \in Malformed THEN StatusQuarantined ELSE StatusAccepted

\* Mutant: an ID that may repeat.
MutReusedULIDs == EventIDs

\* generateULID: 48 bits of time and 80 random bits, never the same twice.
FreshULIDs == EventIDs \ {env[h].event_id : h \in {g \in Handlers : env[g] # Absent}}

\* The checks of the handler and of IngestWithContext, the firewall and the
\* envelope, built before anything is stored.
InspectAndSeal(h) ==
    /\ Alive
    /\ Goes(h, "read", "store")
    /\ req[h].source # Absent
    /\ req[h].body # Absent
    /\ req[h].transport = "http"
    /\ \E id \in FreshULIDs :
          env' = [env EXCEPT ![h] =
                    NewRawEventEnvelopeWithStatus(id, req[h].source, req[h].body,
                                                  InspectStatus(h))]
    /\ UNCHANGED <<storeVars, busVars, proc, starts, req, gone, resp>>

\* NewRawEventEnvelopeWithStatus refuses the transport, or has no entropy.
SealFails(h) ==
    /\ Alive
    /\ Answers(h, "read", 500)
    /\ req[h].source # Absent
    /\ req[h].body # Absent
    /\ UNCHANGED <<storeVars, busVars, proc, starts, env>>

StoreRaw(h) ==
    /\ Alive
    /\ pc[h] = "store"
    /\ \/ Stat(h, env[h].event_id, req[h].source, req[h].body)
       \/ StoreStep(h)
    /\ UNCHANGED <<busVars, gatewayVars>>

StoreFails(h) ==
    /\ Alive
    /\ Answers(h, "store", 500)
    /\ call[h].at = "error"
    /\ StoreReturns(h)
    /\ UNCHANGED <<busVars, proc, starts, env>>

\* Mutant: RawRef stays empty.
MutRawRefForgotten(h) ==
    /\ Alive
    /\ Goes(h, "store", "stored")
    /\ call[h].at = "ok"
    /\ StoreReturns(h)
    /\ UNCHANGED <<busVars, proc, starts, req, gone, env, resp>>

\* Mutant: the handler goes on while the rename is outstanding.
MutStoreNotAwaited(h) ==
    /\ Alive
    /\ Goes(h, "store", "stored")
    /\ call[h].at = "rename"
    /\ env' = [env EXCEPT ![h].raw_ref = call[h].ref]
    /\ UNCHANGED <<storeVars, busVars, proc, starts, req, gone, resp>>

\* envelope.RawRef = rawRef
SetRawRef(h) ==
    /\ Alive
    /\ Goes(h, "store", "stored")
    /\ call[h].at = "ok"
    /\ StoreReturns(h)
    /\ env' = [env EXCEPT ![h].raw_ref = call[h].ref]
    /\ UNCHANGED <<busVars, proc, starts, req, gone, resp>>

\* Mutant: one topic for everything.
MutOneTopic(status) == TopicRawEvents

TopicFor(status) ==
    IF status = StatusQuarantined THEN TopicQuarantinedEvents ELSE TopicRawEvents

\* Mutant: an error of Publish fails the request.
MutPublishErrorFails(h) ==
    /\ Alive
    /\ Answers(h, "stored", 500)
    /\ UNCHANGED <<storeVars, busVars, proc, starts, env>>

Publish(h) ==
    /\ Alive
    /\ \/ /\ Goes(h, "stored", "publish")
          /\ PublishBegin(h, TopicFor(env[h].status))
       \/ /\ pc[h] = "publish"
          /\ PublishVisit(h, env[h])
          /\ UNCHANGED pc
       \/ /\ Goes(h, "publish", "reply")
          /\ PublishEnd(h)
    /\ UNCHANGED <<storeVars, proc, starts, req, gone, env, resp>>

\* 202 for a quarantined event, 201 for an accepted one.
Reply(h) ==
    /\ Alive
    /\ Answers(h, "reply", IF env[h].status = StatusQuarantined THEN 202 ELSE 201)
    /\ UNCHANGED <<storeVars, busVars, proc, starts, env>>

HandlerStep(h) ==
    \/ BadRequest(h)
    \/ InspectAndSeal(h)
    \/ SealFails(h)
    \/ StoreRaw(h)
    \/ StoreFails(h)
    \/ SetRawRef(h)
    \/ Publish(h)
    \/ Reply(h)

-----------------------------------------------------------------------------
InFlight == {h \in Handlers : pc[h] \notin {"idle", "done", "lost"}}

\* SIGINT or SIGTERM: server.Shutdown closes the listener.
Signal ==
    /\ proc = "running"
    /\ proc' = "draining"
    /\ UNCHANGED <<storeVars, busVars, starts, pc, req, gone, env, resp>>

\* The process ends: handlers that still ran and the bus are gone.
ProcessEnds ==
    /\ pc' = [h \in Handlers |-> IF h \in InFlight THEN "lost" ELSE pc[h]]
    /\ call' = [h \in Handlers |-> IF h \in InFlight THEN NoCall ELSE call[h]]
    /\ phase' = [s \in Subscribers |-> "closed"]
    /\ subs' = [t \in Topics |-> {}]
    /\ chan' = [s \in Subscribers |-> <<>>]
    /\ pending' = [h \in Handlers |-> {}]
    /\ readers' = {}
    /\ UNCHANGED <<day, files, tmps, topicOf, sent, starts, req, gone, env, resp>>

\* Shutdown returns once no handler is active, and main returns.
Stop ==
    /\ proc = "draining"
    /\ InFlight = {}
    /\ proc' = "stopped"
    /\ ProcessEnds

\* log.Fatalf when the five seconds of Shutdown are over, or a kill.
Die ==
    /\ Alive
    /\ proc' = "dead"
    /\ ProcessEnds

\* main starts over on the same RAW_STORE_ROOT, with a new bus.
Start ==
    /\ ~ Alive
    /\ starts < MaxStarts
    /\ starts' = starts + 1
    /\ proc' = "running"
    /\ phase' = [s \in Subscribers |-> "new"]
    /\ subs' = [t \in Topics |-> {}]
    /\ chan' = [s \in Subscribers |-> <<>>]
    /\ UNCHANGED <<storeVars, topicOf, pending, readers, sent, pc, req, gone, env, resp>>

SubscriberActs(s) ==
    /\ Alive
    /\ SubscriberStep(s)
    /\ UNCHANGED <<storeVars, gatewayVars>>

DayPasses == NextDay /\ UNCHANGED <<busVars, gatewayVars>>

\* Nothing is left to do: the process has ended for good.
Finished ==
    /\ ~ Alive
    /\ starts = MaxStarts
    /\ UNCHANGED vars

Next ==
    \/ \E h \in Handlers : Arrive(h) \/ HangUp(h) \/ HandlerStep(h)
    \/ \E s \in Subscribers : SubscriberActs(s)
    \/ Signal
    \/ Stop
    \/ Die
    \/ Start
    \/ DayPasses
    \/ Finished

\* Goroutines run when they can, and a lock is granted to its waiting writer.
Fairness ==
    /\ \A h \in Handlers : WF_vars(HandlerStep(h))
    /\ \A s \in Subscribers :
          WF_vars(Alive /\ (Subscribe(s) \/ Unsubscribe(s)) /\ UNCHANGED <<storeVars, gatewayVars>>)
    /\ WF_vars(Stop)

Spec == Init /\ [][Next]_vars

FairSpec == Spec /\ Fairness

-----------------------------------------------------------------------------
\* An envelope is backed when the file at its raw_ref is complete and holds
\* exactly the bytes it was sealed over, under its own event ID and source.
Backed(e) ==
    /\ e.raw_ref \in Refs
    /\ e.raw_ref.event = e.event_id
    /\ e.raw_ref.source = e.source_id
    /\ files[e.raw_ref] = e.digest

\* 100% raw byte retention: no envelope has ever reached a consumer, and no
\* sender has been told 201 or 202, without the raw bytes at its raw_ref, in
\* this state and in every later one.
EvidenceBehindEveryEnvelope ==
    /\ \A m \in sent : Backed(m[2])
    /\ \A h \in Handlers : resp[h] \in {201, 202} => env[h] # Absent /\ Backed(env[h])

\* The firewall's verdict decides who sees an event: a subscriber of raw_events
\* has only ever been sent accepted envelopes, none of them malformed, and a
\* subscriber of quarantined_events only quarantined ones.
QuarantineSeparated ==
    \A m \in sent :
        IF topicOf[m[1]] = TopicRawEvents
        THEN m[2].status = StatusAccepted /\ m[2].digest \notin Malformed
        ELSE m[2].status = StatusQuarantined

\* Evidence without an acknowledgement is explained by a handler that is still
\* at work or died with its process: a request answered 400 or 500 has left no
\* file, so a client that retries it records the event once.
RetryAfterErrorIsSafe ==
    \A r \in Refs : files[r] # Absent =>
        \E h \in Handlers :
            /\ env[h] # Absent
            /\ env[h].event_id = r.event
            /\ resp[h] \in {201, 202} \/ pc[h] = "lost" \/ (h \in InFlight /\ Alive)

\* A request is answered unless the process dies under it.
EveryRequestAnswered ==
    \A h \in Handlers : pc[h] = "read" ~> pc[h] \in {"done", "lost"}

\* An unsubscribe gets the write lock whatever publishers and slow consumers do.
UnsubscribeCompletes ==
    \A s \in Subscribers : phase[s] = "unsubscribing" ~> phase[s] = "closed"

-----------------------------------------------------------------------------
EvidenceValues == Refs \X Bodies

LedgerOf(e) == {<<r, files[r]>> : r \in {q \in Refs : q.event = e /\ files[q] # Absent}}

Seen(e) == <<e.event_id, <<e.raw_ref, e.digest>>>>

Ledger == INSTANCE EvidenceLedger WITH
    Events <- EventIDs,
    Evidence <- EvidenceValues,
    ledger <- [e \in EventIDs |-> LedgerOf(e)],
    announced <- {Seen(m[2]) : m \in sent},
    acked <- {Seen(env[h]) : h \in {g \in Handlers : resp[g] \in {201, 202}}}

\* The gateway implements the evidence ledger.
ImplementsLedger == Ledger!Spec
=============================================================================
