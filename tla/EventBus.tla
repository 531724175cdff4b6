------------------------------ MODULE EventBus ------------------------------
(***************************************************************************)
(* InMemoryBus (apps/ingest-gateway/eventbus.go).  Publish holds the read  *)
(* lock while it ranges over the topic's channels; Subscribe and the       *)
(* unsubscribe closure hold the write lock.  sync.RWMutex: a writer that   *)
(* waits keeps new readers out, and enters when the last reader leaves.    *)
(* A critical section under the write lock excludes everything else and is *)
(* one step.                                                               *)
(***************************************************************************)
EXTENDS GatewayData

CONSTANTS
    Subscribers,   \* the callers of Subscribe, one subscription each
    ChanCap        \* capacity of a subscriber's channel (64 in the code)

ASSUME BusAssumption == ChanCap \in Nat \ {0}

VARIABLES
    phase,     \* how far each subscriber's Subscribe / unsubscribe calls are
    topicOf,   \* the topic it subscribes to
    subs,      \* InMemoryBus.subscribers
    chan,      \* buffered content of each subscriber's channel
    pending,   \* channels a Publish in progress has still to visit
    readers,   \* handlers that hold the read lock
    sent       \* history: <<subscriber, envelope>> put into a channel

busVars == <<phase, topicOf, subs, chan, pending, readers, sent>>

Phases == {"new", "subscribing", "subscribed", "unsubscribing", "closed"}

BusTypeOK ==
    /\ phase \in [Subscribers -> Phases]
    /\ topicOf \in [Subscribers -> Topics]
    /\ subs \in [Topics -> SUBSET Subscribers]
    /\ chan \in [Subscribers -> Seq(Envelopes)]
    /\ pending \in [Handlers -> SUBSET Subscribers]
    /\ readers \subseteq Handlers
    /\ sent \subseteq Subscribers \X Envelopes

BusInit ==
    /\ phase = [s \in Subscribers |-> "new"]
    /\ topicOf \in [Subscribers -> Topics]
    /\ subs = [t \in Topics |-> {}]
    /\ chan = [s \in Subscribers |-> <<>>]
    /\ pending = [h \in Handlers |-> {}]
    /\ readers = {}
    /\ sent = {}

WriterWaits ==
    \E s \in Subscribers : phase[s] \in {"subscribing", "unsubscribing"}

-----------------------------------------------------------------------------
\* b.mu.RLock() and the lookup of the topic's channels.
PublishBegin(h, topic) ==
    /\ ~ WriterWaits
    /\ readers' = readers \cup {h}
    /\ pending' = [pending EXCEPT ![h] = subs[topic]]
    /\ UNCHANGED <<phase, topicOf, subs, chan, sent>>

\* Mutant: a plain send, which waits for room.
MutPublishBlocks(h, env) ==
    \E s \in pending[h] :
        /\ Len(chan[s]) < ChanCap
        /\ chan' = [chan EXCEPT ![s] = Append(@, env)]
        /\ sent' = sent \cup {<<s, env>>}
        /\ pending' = [pending EXCEPT ![h] = @ \ {s}]
        /\ UNCHANGED <<phase, topicOf, subs, readers>>

\* One iteration of the range loop, whose order is unspecified: the select
\* sends if there is room and otherwise drops the message for this channel.
PublishVisit(h, env) ==
    \E s \in pending[h] :
        /\ \/ /\ Len(chan[s]) < ChanCap
              /\ chan' = [chan EXCEPT ![s] = Append(@, env)]
              /\ sent' = sent \cup {<<s, env>>}
           \/ /\ Len(chan[s]) >= ChanCap
              /\ UNCHANGED <<chan, sent>>
        /\ pending' = [pending EXCEPT ![h] = @ \ {s}]
        /\ UNCHANGED <<phase, topicOf, subs, readers>>

\* The deferred b.mu.RUnlock().
PublishEnd(h) ==
    /\ pending[h] = {}
    /\ readers' = readers \ {h}
    /\ UNCHANGED <<phase, topicOf, subs, chan, pending, sent>>

-----------------------------------------------------------------------------
\* b.mu.Lock() of Subscribe.
SubscribeCall(s) ==
    /\ phase[s] = "new"
    /\ phase' = [phase EXCEPT ![s] = "subscribing"]
    /\ UNCHANGED <<topicOf, subs, chan, pending, readers, sent>>

Subscribe(s) ==
    /\ phase[s] = "subscribing"
    /\ readers = {}
    /\ phase' = [phase EXCEPT ![s] = "subscribed"]
    /\ subs' = [subs EXCEPT ![topicOf[s]] = @ \cup {s}]
    /\ UNCHANGED <<topicOf, chan, pending, readers, sent>>

\* b.mu.Lock() of the closure Subscribe returned.
UnsubscribeCall(s) ==
    /\ phase[s] = "subscribed"
    /\ phase' = [phase EXCEPT ![s] = "unsubscribing"]
    /\ UNCHANGED <<topicOf, subs, chan, pending, readers, sent>>

\* Mutant: the closure does not take the lock.
MutUnsubscribeUnlocked(s) ==
    /\ phase[s] = "unsubscribing"
    /\ phase' = [phase EXCEPT ![s] = "closed"]
    /\ subs' = [subs EXCEPT ![topicOf[s]] = @ \ {s}]
    /\ UNCHANGED <<topicOf, chan, pending, readers, sent>>

\* delete and close(ch), under the write lock.
Unsubscribe(s) ==
    /\ phase[s] = "unsubscribing"
    /\ readers = {}
    /\ phase' = [phase EXCEPT ![s] = "closed"]
    /\ subs' = [subs EXCEPT ![topicOf[s]] = @ \ {s}]
    /\ UNCHANGED <<topicOf, chan, pending, readers, sent>>

\* The subscriber takes the next message (also from a closed channel).
Receive(s) ==
    /\ chan[s] # <<>>
    /\ chan' = [chan EXCEPT ![s] = Tail(@)]
    /\ UNCHANGED <<phase, topicOf, subs, pending, readers, sent>>

SubscriberStep(s) ==
    \/ SubscribeCall(s)
    \/ Subscribe(s)
    \/ UnsubscribeCall(s)
    \/ Unsubscribe(s)
    \/ Receive(s)

-----------------------------------------------------------------------------
\* Publish never sends on a closed channel: what is left of its range loop
\* are channels no unsubscribe has closed since the loop began.
NoSendOnClosedChannel ==
    \A h \in readers : \A s \in pending[h] : phase[s] # "closed"
=============================================================================
