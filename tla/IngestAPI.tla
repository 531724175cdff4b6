----------------------------- MODULE IngestAPI -----------------------------
(***************************************************************************)
(* The daemon's HTTP server (scripts/cli.py: EventRingBuffer,              *)
(* IngestHTTPHandler, start_continuous_generator): one thread per request  *)
(* and a generator thread over a ring buffer with a lock and class-level   *)
(* counters without one.  "x += 1" on a counter is a load and a store, and *)
(* other threads run in between.  A critical section is one step.          *)
(***************************************************************************)
EXTENDS Naturals, Sequences, FiniteSets

CONSTANTS
    Posters,        \* threads that serve POST /api/v1/events/raw
    StatsReaders,   \* threads that serve GET /stats
    Snappers,       \* threads that serve POST /api/v1/events/snapshot
    Capacity,       \* EventRingBuffer.capacity (5000)
    MaxGenerated,   \* bound: events the generator thread makes
    MaxSecond,      \* bound: seconds the behaviour spans
    Absent          \* no event, no file

ASSUME APIAssumption ==
    /\ Capacity \in Nat \ {0}
    /\ MaxGenerated \in Nat
    /\ MaxSecond \in Nat \ {0}
    /\ Absent \notin Posters
    /\ Posters \cap StatsReaders = {} /\ Posters \cap Snappers = {} /\ StatsReaders \cap Snappers = {}

VARIABLES
    buffer,       \* EventRingBuffer.buffer
    total,        \* EventRingBuffer.total_ingested
    quarantined,  \* EventRingBuffer.quarantined
    counters,     \* IngestHTTPHandler.events_count and .quarantined_count
    second,       \* the wall clock, in seconds
    files,        \* snapshot_<second>.jsonl
    pc,           \* what each request thread does next
    status,       \* ingest_status a poster has decided on
    loaded,       \* the counter value a poster is about to add one to
    answer,       \* what a stats thread has put together so far
    snap,         \* what a snapshot thread copied, and its file
    log,          \* history: every event appended, in order
    ackedAtCall   \* history: events acknowledged when a stats request came in

ringVars == <<buffer, total, quarantined, log>>
vars == <<ringVars, counters, second, files, pc, status, loaded, answer, snap, ackedAtCall>>

Threads == Posters \cup StatsReaders \cup Snappers
Statuses == {"ACCEPTED", "QUARANTINED"}

\* An event: who made it (Absent: the generator) and its ingest_status.
Events == [from : Posters \cup {Absent}, status : Statuses]

Counts == [events : Nat, quarantined : Nat]
NoCounts == [events |-> 0, quarantined |-> 0]
Snapshots == [second : 1..MaxSecond, items : Seq(Events), since : Nat]

TypeOK ==
    /\ buffer \in Seq(Events) /\ Len(buffer) <= Capacity
    /\ total \in Nat /\ quarantined \in Nat
    /\ counters \in Counts
    /\ second \in 1..MaxSecond
    /\ files \in [1..MaxSecond -> Seq(Events) \cup {Absent}]
    /\ pc \in [Threads -> {"idle", "load_q", "store_q", "append", "load_e", "store_e",
                           "reply", "ring", "events", "quarantined", "copy", "open",
                           "write", "done"}]
    /\ status \in [Posters -> Statuses]
    /\ loaded \in [Posters -> Nat]
    /\ answer \in [StatsReaders -> Counts]
    /\ snap \in [Snappers -> Snapshots]
    /\ log \in Seq(Events)
    /\ ackedAtCall \in [StatsReaders -> Counts]

Init ==
    /\ buffer = <<>> /\ total = 0 /\ quarantined = 0 /\ log = <<>>
    /\ counters = NoCounts
    /\ second = 1
    /\ files = [s \in 1..MaxSecond |-> Absent]
    /\ pc = [t \in Threads |-> "idle"]
    /\ status = [t \in Posters |-> "ACCEPTED"]
    /\ loaded = [t \in Posters |-> 0]
    /\ answer = [t \in StatsReaders |-> NoCounts]
    /\ snap = [t \in Snappers |-> [second |-> 1, items |-> <<>>, since |-> 0]]
    /\ ackedAtCall = [t \in StatsReaders |-> NoCounts]

Goes(t, from, to) ==
    /\ pc[t] = from
    /\ pc' = [pc EXCEPT ![t] = to]

LastItems(seq, n) == IF Len(seq) <= n THEN seq ELSE SubSeq(seq, Len(seq) - n + 1, Len(seq))

\* Mutant: a list instead of a deque with maxlen.
MutUnbounded(event) ==
    /\ buffer' = Append(buffer, event)
    /\ total' = total + 1
    /\ quarantined' = IF event.status = "QUARANTINED" THEN quarantined + 1 ELSE quarantined
    /\ log' = Append(log, event)

\* EventRingBuffer.append, under the lock; deque(maxlen) drops the oldest.
RingAppend(event) ==
    /\ buffer' = LastItems(Append(buffer, event), Capacity)
    /\ total' = total + 1
    /\ quarantined' = IF event.status = "QUARANTINED" THEN quarantined + 1 ELSE quarantined
    /\ log' = Append(log, event)

-----------------------------------------------------------------------------
\* An empty body is answered with 400.
PostEmpty(t) ==
    /\ Goes(t, "idle", "done")
    /\ UNCHANGED <<ringVars, counters, second, files, status, loaded, answer, snap, ackedAtCall>>

\* The firewall check of do_POST.
Post(t) ==
    /\ \E s \in Statuses :
          /\ status' = [status EXCEPT ![t] = s]
          /\ Goes(t, "idle", IF s = "QUARANTINED" THEN "load_q" ELSE "append")
    /\ UNCHANGED <<ringVars, counters, second, files, loaded, answer, snap, ackedAtCall>>

\* quarantined_count += 1, before the event is appended.
LoadQuarantined(t) ==
    /\ Goes(t, "load_q", "store_q")
    /\ loaded' = [loaded EXCEPT ![t] = counters.quarantined]
    /\ UNCHANGED <<ringVars, counters, second, files, status, answer, snap, ackedAtCall>>

StoreQuarantined(t) ==
    /\ Goes(t, "store_q", "append")
    /\ counters' = [counters EXCEPT !.quarantined = loaded[t] + 1]
    /\ loaded' = [loaded EXCEPT ![t] = 0]
    /\ UNCHANGED <<ringVars, second, files, status, answer, snap, ackedAtCall>>

AppendEvent(t) ==
    /\ Goes(t, "append", "load_e")
    /\ RingAppend([from |-> t, status |-> status[t]])
    /\ UNCHANGED <<counters, second, files, status, loaded, answer, snap, ackedAtCall>>

\* events_count += 1; bytes_count is updated the same way.
LoadEvents(t) ==
    /\ Goes(t, "load_e", "store_e")
    /\ loaded' = [loaded EXCEPT ![t] = counters.events]
    /\ UNCHANGED <<ringVars, counters, second, files, status, answer, snap, ackedAtCall>>

StoreEvents(t) ==
    /\ Goes(t, "store_e", "reply")
    /\ counters' = [counters EXCEPT !.events = loaded[t] + 1]
    /\ loaded' = [loaded EXCEPT ![t] = 0]
    /\ UNCHANGED <<ringVars, second, files, status, answer, snap, ackedAtCall>>

\* 200 or 202 and the envelope.
ReplyPost(t) ==
    /\ Goes(t, "reply", "done")
    /\ UNCHANGED <<ringVars, counters, second, files, status, loaded, answer, snap, ackedAtCall>>

\* The worker of start_continuous_generator.
Generate ==
    /\ Cardinality({i \in DOMAIN log : log[i].from = Absent}) < MaxGenerated
    /\ RingAppend([from |-> Absent, status |-> "ACCEPTED"])
    /\ UNCHANGED <<counters, second, files, pc, status, loaded, answer, snap, ackedAtCall>>

-----------------------------------------------------------------------------
\* The events whose senders have been answered; a 400 leaves none in the log.
Acked ==
    LET acked == {i \in DOMAIN log : log[i].from # Absent /\ pc[log[i].from] = "done"}
    IN  [events |-> Cardinality(acked),
         quarantined |-> Cardinality({i \in acked : log[i].status = "QUARANTINED"})]

GetStats(t) ==
    /\ Goes(t, "idle", "ring")
    /\ ackedAtCall' = [ackedAtCall EXCEPT ![t] = Acked]
    /\ UNCHANGED <<ringVars, counters, second, files, status, loaded, answer, snap>>

\* EventRingBuffer.stats, under the lock.
StatsOfRing(t) ==
    /\ Goes(t, "ring", "events")
    /\ answer' = [answer EXCEPT ![t] = [events |-> total, quarantined |-> quarantined]]
    /\ UNCHANGED <<ringVars, counters, second, files, status, loaded, snap, ackedAtCall>>

AtLeast(m, n) == IF m >= n THEN m ELSE n

\* Mutant: the handler's own counter is reported.
MutCounterOnly(t) ==
    /\ Goes(t, "events", "quarantined")
    /\ answer' = [answer EXCEPT ![t].events = counters.events]
    /\ UNCHANGED <<ringVars, counters, second, files, status, loaded, snap, ackedAtCall>>

\* The larger of the two counts of events, then of quarantined events.
StatsEvents(t) ==
    /\ Goes(t, "events", "quarantined")
    /\ answer' = [answer EXCEPT ![t].events = AtLeast(@, counters.events)]
    /\ UNCHANGED <<ringVars, counters, second, files, status, loaded, snap, ackedAtCall>>

StatsQuarantined(t) ==
    /\ Goes(t, "quarantined", "done")
    /\ answer' = [answer EXCEPT ![t].quarantined = AtLeast(@, counters.quarantined)]
    /\ UNCHANGED <<ringVars, counters, second, files, status, loaded, snap, ackedAtCall>>

-----------------------------------------------------------------------------
\* The file is named after the second in which the request is handled.
PostSnapshot(t) ==
    /\ Goes(t, "idle", "copy")
    /\ snap' = [snap EXCEPT ![t] = [second |-> second, items |-> <<>>, since |-> Len(log)]]
    /\ UNCHANGED <<ringVars, counters, second, files, status, loaded, answer, ackedAtCall>>

\* list(self.buffer), under the lock.
SnapshotCopy(t) ==
    /\ Goes(t, "copy", "open")
    /\ snap' = [snap EXCEPT ![t].items = buffer]
    /\ UNCHANGED <<ringVars, counters, second, files, status, loaded, answer, ackedAtCall>>

\* open(filepath, "w") truncates a file of the same second.
SnapshotOpen(t) ==
    /\ Goes(t, "open", "write")
    /\ files' = [files EXCEPT ![snap[t].second] = <<>>]
    /\ UNCHANGED <<ringVars, counters, second, status, loaded, answer, snap, ackedAtCall>>

\* Mutant: the lines come from the buffer as it is now.
MutWritesLiveBuffer(t) ==
    /\ Goes(t, "write", "done")
    /\ files' = [files EXCEPT ![snap[t].second] = LastItems(buffer, Len(snap[t].items))]
    /\ UNCHANGED <<ringVars, counters, second, status, loaded, answer, snap, ackedAtCall>>

\* The lines are written from the start of the file over whatever is there.
SnapshotWrite(t) ==
    /\ Goes(t, "write", "done")
    /\ files' = [files EXCEPT ![snap[t].second] =
                   snap[t].items \o SubSeq(@, Len(snap[t].items) + 1, Len(@))]
    /\ UNCHANGED <<ringVars, counters, second, status, loaded, answer, snap, ackedAtCall>>

Tick ==
    /\ second < MaxSecond
    /\ second' = second + 1
    /\ UNCHANGED <<ringVars, counters, files, pc, status, loaded, answer, snap, ackedAtCall>>

-----------------------------------------------------------------------------
PosterStep(t) ==
    \/ PostEmpty(t)
    \/ Post(t)
    \/ LoadQuarantined(t)
    \/ StoreQuarantined(t)
    \/ AppendEvent(t)
    \/ LoadEvents(t)
    \/ StoreEvents(t)
    \/ ReplyPost(t)

StatsStep(t) == GetStats(t) \/ StatsOfRing(t) \/ StatsEvents(t) \/ StatsQuarantined(t)

SnapshotStep(t) == PostSnapshot(t) \/ SnapshotCopy(t) \/ SnapshotOpen(t) \/ SnapshotWrite(t)

\* Every request is answered; the server keeps serving.
Idle == (\A t \in Threads : pc[t] = "done") /\ UNCHANGED vars

Next ==
    \/ \E t \in Posters : PosterStep(t)
    \/ \E t \in StatsReaders : StatsStep(t)
    \/ \E t \in Snappers : SnapshotStep(t)
    \/ Generate
    \/ Tick
    \/ Idle

Spec == Init /\ [][Next]_vars

-----------------------------------------------------------------------------
\* /stats, although the handlers' own counters lose updates, never reports fewer
\* events (or quarantined events) than had been acknowledged when it was asked,
\* and never more events than have been taken in.
StatsBracketed ==
    \A t \in StatsReaders : pc[t] = "done" =>
        /\ answer[t].events >= ackedAtCall[t].events
        /\ answer[t].quarantined >= ackedAtCall[t].quarantined
        /\ answer[t].events <= Len(log)

\* The window after the first n events.
WindowAt(n) == LastItems(SubSeq(log, 1, n), Capacity)

\* No other request has a file of the same second.
OwnSecond(t) == \A u \in Snappers \ {t} : pc[u] = "idle" \/ snap[u].second # snap[t].second

\* "Dumps the active sliding window" (README.md): the file of an answered
\* snapshot holds the newest events, up to the capacity, as they were at one
\* moment of the request, however many events were taken in meanwhile, unless
\* another request of the same second used the file.
SnapshotIsWindow ==
    \A t \in Snappers : pc[t] = "done" /\ OwnSecond(t) =>
        \E n \in snap[t].since..Len(log) : files[snap[t].second] = WindowAt(n)
=============================================================================
