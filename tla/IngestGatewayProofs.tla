------------------------ MODULE IngestGatewayProofs ------------------------
(***************************************************************************)
(* Proofs about the ingest gateway, for any number of handlers,            *)
(* subscribers, events, days and restarts.                                 *)
(***************************************************************************)
EXTENDS IngestGateway, TLAPS

-----------------------------------------------------------------------------
(***************************************************************************)
(* The inductive invariant about evidence.                                 *)
(***************************************************************************)

\* No two handlers hold an envelope with the same event ID.
UniqueIDs ==
    \A g, h \in Handlers :
        env[g] # Absent /\ env[h] # Absent /\ env[g].event_id = env[h].event_id => g = h

\* What a handler has built and answered, by its progress.
HandlerInv(h) ==
    /\ pc[h] \in {"idle", "read"} => env[h] = Absent
    /\ pc[h] # "done" => resp[h] = 0
    /\ pc[h] # "store" => call[h].at = "none"
    /\ pc[h] = "store" => /\ env[h] # Absent
                          /\ req[h].source = env[h].source_id
                          /\ req[h].body = env[h].digest
    /\ pc[h] \in {"stored", "publish", "reply"} => env[h] # Absent /\ Backed(env[h])
    /\ resp[h] \in {201, 202} => env[h] # Absent /\ Backed(env[h])

\* A Store call works on the path and the bytes of its handler's envelope, and
\* until it renames nobody has put a file there.
CallInv(h) ==
    call[h].at # "none" =>
        /\ call[h].ref \in Refs
        /\ call[h].ref.event = env[h].event_id
        /\ call[h].ref.source = env[h].source_id
        /\ call[h].bytes = env[h].digest
        /\ call[h].at \in {"open", "write", "rename"} => files[call[h].ref] = Absent
        /\ call[h].at = "rename" => tmps[call[h].ref] = call[h].bytes
        /\ call[h].at = "ok" => files[call[h].ref] = call[h].bytes

SentInv == \A m \in sent : Backed(m[2])

EvidenceInv ==
    /\ TypeOK
    /\ UniqueIDs
    /\ \A h \in Handlers : HandlerInv(h) /\ CallInv(h)
    /\ SentInv

-----------------------------------------------------------------------------
LEMMA EvidenceInit == Init => EvidenceInv
BY GatewayAssumption, RequestAssumption
DEF Init, StoreInit, BusInit, EvidenceInv, TypeOK, StoreTypeOK, BusTypeOK, UniqueIDs,
    HandlerInv, CallInv, SentInv, NoCall, Calls, NoRequest, RequestKinds, Progress,
    Phases, Topics, Days

LEMMA NoRequestType == NoRequest \in RequestKinds
BY DEF NoRequest, RequestKinds

LEMMA NoCallType == NoCall \in Calls
BY DEF NoCall, Calls

\* What a sealed request looks like.
LEMMA SealType ==
    ASSUME NEW id \in EventIDs, NEW source \in Sources, NEW body \in Bodies,
           NEW status \in {StatusAccepted, StatusQuarantined}
    PROVE  NewRawEventEnvelopeWithStatus(id, source, body, status) \in Envelopes
BY DEF NewRawEventEnvelopeWithStatus, Envelopes

LEMMA InspectStatusType ==
    \A h : InspectStatus(h) \in {StatusAccepted, StatusQuarantined}
BY DEF InspectStatus

\* Every step keeps the types; a file is complete because of what CallInv says
\* of the temporary file a rename moves.
LEMMA TypeStep ==
    ASSUME EvidenceInv, [Next]_vars
    PROVE  TypeOK'
<1> USE GatewayAssumption, RequestAssumption
<1> USE DEF EvidenceInv, TypeOK, StoreTypeOK, BusTypeOK, gatewayVars, storeVars, busVars
<1>1. ASSUME NEW h \in Handlers, Arrive(h) PROVE TypeOK'
  BY <1>1 DEF Arrive, Goes, Progress
<1>2. ASSUME NEW h \in Handlers, HangUp(h) PROVE TypeOK'
  BY <1>2 DEF HangUp
<1>3. ASSUME NEW h \in Handlers, BadRequest(h) \/ SealFails(h) PROVE TypeOK'
  <2>1. CASE BadRequest(h)
    BY <2>1, NoRequestType DEF BadRequest, Answers, Goes, Progress
  <2>2. CASE SealFails(h)
    BY <2>2, NoRequestType DEF SealFails, Answers, Goes, Progress
  <2> QED
    BY <1>3, <2>1, <2>2
<1>4. ASSUME NEW h \in Handlers, InspectAndSeal(h) PROVE TypeOK'
  <2>1. req[h].source \in Sources /\ req[h].body \in Bodies
    BY <1>4 DEF InspectAndSeal, RequestKinds
  <2>2. PICK id \in EventIDs :
          env' = [env EXCEPT ![h] = NewRawEventEnvelopeWithStatus(id, req[h].source,
                                        req[h].body, InspectStatus(h))]
    BY <1>4 DEF InspectAndSeal, FreshULIDs
  <2>3. NewRawEventEnvelopeWithStatus(id, req[h].source, req[h].body, InspectStatus(h))
          \in Envelopes
    BY <2>1, SealType, InspectStatusType
  <2> QED
    BY <1>4, <2>2, <2>3 DEF InspectAndSeal, Goes, Progress
<1>5. ASSUME NEW h \in Handlers, StoreRaw(h) PROVE TypeOK'
  <2>1. UNCHANGED <<busVars, gatewayVars>>
    BY <1>5 DEF StoreRaw
  <2>2. env[h] \in Envelopes /\ req[h].source \in Sources /\ req[h].body \in Bodies
    BY <1>5 DEF StoreRaw, HandlerInv, Envelopes
  <2>3. CASE Stat(h, env[h].event_id, req[h].source, req[h].body)
    <3> DEFINE ref == [day |-> day, source |-> req[h].source, event |-> env[h].event_id]
    <3>1. ref \in Refs
      BY <2>2 DEF Refs, Envelopes
    <3>2. [at |-> IF files[ref] = Absent THEN "open" ELSE "error",
           ref |-> ref, bytes |-> req[h].body] \in Calls
      BY <3>1, <2>2 DEF Calls
    <3>3. call' = [call EXCEPT ![h] =
                     [at |-> IF files[ref] = Absent THEN "open" ELSE "error",
                      ref |-> ref, bytes |-> req[h].body]]
      BY <2>3 DEF Stat
    <3>4. call' \in [Handlers -> Calls]
      BY <3>2, <3>3
    <3> QED
      BY <2>1, <2>3, <3>4 DEF Stat
  <2>4. CASE StoreStep(h)
    <3>1. call[h] \in Calls
      OBVIOUS
    <3>2. \A at \in {"write", "rename", "ok", "error"} :
            [call[h] EXCEPT !.at = at] \in Calls
      BY <3>1 DEF Calls
    <3>3. call' \in [Handlers -> Calls]
      <4>1. PICK at \in {"write", "rename", "ok", "error"} : Moves(h, at)
        BY <2>4
        DEF StoreStep, OpenTmp, OpenTmpFails, WriteTmp, WriteTmpFails, Rename, RenameFails
      <4>2. call' = [call EXCEPT ![h] = [call[h] EXCEPT !.at = at]]
        BY <4>1 DEF Moves
      <4> QED
        BY <3>2, <4>2
    <3>4. call[h].at # "none" => call[h].ref \in Refs /\ call[h].bytes \in Bodies
      BY <2>2 DEF CallInv, Envelopes
    <3>5. tmps' \in [Refs -> Bodies \cup {Absent, Torn}]
      BY <2>4, <3>4
      DEF StoreStep, OpenTmp, OpenTmpFails, WriteTmp, WriteTmpFails, Rename, RenameFails
    <3>6. files' \in [Refs -> Bodies \cup {Absent}]
      BY <2>4, <3>4
      DEF StoreStep, OpenTmp, OpenTmpFails, WriteTmp, WriteTmpFails, Rename, RenameFails, CallInv
    <3>7. day' = day
      BY <2>4
      DEF StoreStep, OpenTmp, OpenTmpFails, WriteTmp, WriteTmpFails, Rename, RenameFails
    <3> QED
      BY <2>1, <3>3, <3>5, <3>6, <3>7
  <2> QED
    BY <1>5, <2>3, <2>4 DEF StoreRaw
<1>6. ASSUME NEW h \in Handlers, StoreFails(h) PROVE TypeOK'
  BY <1>6, NoRequestType, NoCallType DEF StoreFails, Answers, Goes, StoreReturns, Progress
<1>7. ASSUME NEW h \in Handlers, SetRawRef(h) PROVE TypeOK'
  <2>1. env[h] \in Envelopes /\ call[h].ref \in Refs
    BY <1>7 DEF SetRawRef, Goes, HandlerInv, CallInv
  <2>2. [env[h] EXCEPT !.raw_ref = call[h].ref] \in Envelopes
    BY <2>1 DEF Envelopes
  <2>3. env' \in [Handlers -> Envelopes \cup {Absent}]
    BY <1>7, <2>2 DEF SetRawRef
  <2> QED
    BY <1>7, <2>3, NoCallType DEF SetRawRef, Goes, StoreReturns, Progress
<1>8. ASSUME NEW h \in Handlers, Publish(h) PROVE TypeOK'
  <2>1. env[h] \in Envelopes
    BY <1>8 DEF Publish, Goes, HandlerInv
  <2>2. CASE Goes(h, "stored", "publish") /\ PublishBegin(h, TopicFor(env[h].status))
    BY <1>8, <2>2 DEF Publish, Goes, PublishBegin, Progress, TopicFor, Topics
  <2>3. CASE pc[h] = "publish" /\ PublishVisit(h, env[h]) /\ UNCHANGED pc
    <3>1. PICK s \in pending[h] :
            \/ /\ chan' = [chan EXCEPT ![s] = Append(@, env[h])]
               /\ sent' = sent \cup {<<s, env[h]>>}
            \/ UNCHANGED <<chan, sent>>
      BY <2>3 DEF PublishVisit
    <3>2. s \in Subscribers
      OBVIOUS
    <3>3. chan' \in [Subscribers -> Seq(Envelopes)]
      <4>1. Append(chan[s], env[h]) \in Seq(Envelopes)
        BY <2>1, <3>2
      <4>2. CASE chan' = [chan EXCEPT ![s] = Append(@, env[h])]
        BY <3>2, <4>1, <4>2
      <4>3. CASE chan' = chan
        BY <4>3
      <4> QED
        BY <3>1, <4>2, <4>3
    <3>4. sent' \subseteq Subscribers \X Envelopes
      BY <2>1, <3>1, <3>2
    <3>5. pending' \in [Handlers -> SUBSET Subscribers]
      BY <2>3 DEF PublishVisit
    <3> QED
      <4>1. UNCHANGED <<phase, topicOf, subs, readers, storeVars, gatewayVars>>
        BY <1>8, <2>3 DEF Publish, PublishVisit
      <4> QED
        BY <3>3, <3>4, <3>5, <4>1
  <2>4. CASE Goes(h, "publish", "reply") /\ PublishEnd(h)
    BY <1>8, <2>4 DEF Publish, Goes, PublishEnd, Progress
  <2> QED
    BY <1>8, <2>2, <2>3, <2>4 DEF Publish
<1>9. ASSUME NEW h \in Handlers, Reply(h) PROVE TypeOK'
  BY <1>9, NoRequestType DEF Reply, Answers, Goes, Progress
<1>10. ASSUME NEW s \in Subscribers, SubscriberActs(s) PROVE TypeOK'
  <2>1. UNCHANGED <<storeVars, gatewayVars>>
    BY <1>10 DEF SubscriberActs
  <2>2. CASE SubscribeCall(s) \/ UnsubscribeCall(s)
    <3>1. PICK p \in Phases : phase' = [phase EXCEPT ![s] = p]
      BY <2>2 DEF SubscribeCall, UnsubscribeCall, Phases
    <3>2. UNCHANGED <<topicOf, subs, chan, pending, readers, sent>>
      BY <2>2 DEF SubscribeCall, UnsubscribeCall
    <3> QED
      BY <2>1, <3>1, <3>2
  <2>3. CASE Subscribe(s)
    BY <2>1, <2>3 DEF Subscribe, Phases
  <2>4. CASE Unsubscribe(s)
    BY <2>1, <2>4 DEF Unsubscribe, Phases
  <2>5. CASE Receive(s)
    <3>1. Tail(chan[s]) \in Seq(Envelopes)
      BY <2>5 DEF Receive
    <3> QED
      BY <2>1, <2>5, <3>1 DEF Receive
  <2> QED
    BY <1>10, <2>2, <2>3, <2>4, <2>5 DEF SubscriberActs, SubscriberStep
<1>11. ASSUME Signal PROVE TypeOK'
  BY <1>11 DEF Signal
<1>12. ASSUME Stop \/ Die PROVE TypeOK'
  <2>1. ProcessEnds /\ proc' \in {"stopped", "dead"}
    BY <1>12 DEF Stop, Die
  <2>2. pc' \in [Handlers -> Progress]
    BY <2>1 DEF ProcessEnds, Progress
  <2>3. call' \in [Handlers -> Calls]
    BY <2>1, NoCallType DEF ProcessEnds
  <2>4. BusTypeOK'
    BY <2>1 DEF ProcessEnds, Phases
  <2> QED
    BY <2>1, <2>2, <2>3, <2>4 DEF ProcessEnds
<1>13. ASSUME Start PROVE TypeOK'
  BY <1>13 DEF Start, Phases
<1>14. ASSUME DayPasses PROVE TypeOK'
  BY <1>14 DEF DayPasses, NextDay, Days
<1>15. ASSUME UNCHANGED vars PROVE TypeOK'
  BY <1>15 DEF vars
<1> QED
  BY <1>1, <1>2, <1>3, <1>4, <1>5, <1>6, <1>7, <1>8, <1>9, <1>10, <1>11, <1>12, <1>13,
     <1>14, <1>15 DEF Next, HandlerStep, Finished

-----------------------------------------------------------------------------
\* Only a rename changes a file, and it is a rename of its own handler's call.
LEMMA FilesChangeByRename ==
    ASSUME [Next]_vars
    PROVE  files' = files \/ \E h \in Handlers : pc[h] = "store" /\ Rename(h)
BY DEF Next, vars, storeVars, Arrive, HangUp, HandlerStep, BadRequest, InspectAndSeal,
    SealFails, StoreRaw, Stat, StoreStep, OpenTmp, OpenTmpFails, WriteTmp, WriteTmpFails,
    RenameFails, StoreFails, SetRawRef, StoreReturns, Publish, Reply, SubscriberActs,
    Signal, Stop, Die, ProcessEnds, Start, DayPasses, NextDay, Finished

\* What is in the store stays as it is.
LEMMA FilesGrow ==
    ASSUME EvidenceInv, [Next]_vars
    PROVE  \A r \in Refs : files[r] # Absent => files'[r] = files[r]
<1>1. CASE files' = files
  BY <1>1
<1>2. ASSUME NEW h \in Handlers, pc[h] = "store", Rename(h)
      PROVE  \A r \in Refs : files[r] # Absent => files'[r] = files[r]
  <2>1. call[h].ref \in Refs /\ files[call[h].ref] = Absent
    BY <1>2 DEF EvidenceInv, CallInv, Rename
  <2> QED
    BY <1>2, <2>1 DEF Rename, EvidenceInv, TypeOK, StoreTypeOK
<1> QED
  BY <1>1, <1>2, FilesChangeByRename

LEMMA BackedStays ==
    ASSUME EvidenceInv, [Next]_vars
    PROVE  \A e \in Envelopes : Backed(e) => Backed(e)'
BY FilesGrow, GatewayAssumption DEF Backed, Envelopes

\* A step of h keeps the invariant of every other handler k.
LEMMA OthersKeep ==
    ASSUME EvidenceInv, [Next]_vars,
           NEW h \in Handlers, NEW k \in Handlers, k # h,
           pc'[k] = pc[k], env'[k] = env[k], resp'[k] = resp[k], req'[k] = req[k],
           call'[k] = call[k],
           \/ UNCHANGED <<files, tmps>>
           \/ /\ call[h].at # "none"
              /\ \A r \in Refs : r # call[h].ref => files'[r] = files[r] /\ tmps'[r] = tmps[r]
    PROVE  HandlerInv(k)' /\ CallInv(k)'
<1>1. env[k] # Absent => env[k] \in Envelopes
  BY DEF EvidenceInv, TypeOK
<1>2. HandlerInv(k)'
  BY <1>1, BackedStays DEF EvidenceInv, HandlerInv, Backed
<1>3. CallInv(k)'
  <2>1. CASE UNCHANGED <<files, tmps>>
    BY <2>1 DEF EvidenceInv, CallInv
  <2>2. CASE /\ call[h].at # "none"
             /\ call[k].at # "none"
             /\ \A r \in Refs : r # call[h].ref => files'[r] = files[r] /\ tmps'[r] = tmps[r]
    <3>1. pc[h] = "store" /\ pc[k] = "store"
      BY <2>2 DEF EvidenceInv, HandlerInv
    <3>2. env[h].event_id # env[k].event_id
      BY <3>1 DEF EvidenceInv, HandlerInv, UniqueIDs
    <3>3. call[k].ref # call[h].ref /\ call[k].ref \in Refs
      BY <2>2, <3>2 DEF EvidenceInv, CallInv
    <3> QED
      BY <2>2, <3>3 DEF EvidenceInv, CallInv
  <2> QED
    BY <2>1, <2>2 DEF CallInv
<1> QED
  BY <1>2, <1>3

LEMMA SentStays ==
    ASSUME EvidenceInv, [Next]_vars, sent' = sent
    PROVE  SentInv'
<1>1. \A m \in sent : m[2] \in Envelopes
  BY DEF EvidenceInv, TypeOK, BusTypeOK
<1> QED
  BY <1>1, BackedStays DEF EvidenceInv, SentInv, Backed

\* A step that leaves handlers, calls and files alone keeps the invariant.
LEMMA QuietKeeps ==
    ASSUME EvidenceInv, [Next]_vars,
           UNCHANGED <<pc, req, env, resp, call, files, tmps, sent>>
    PROVE  EvidenceInv'
BY TypeStep, SentStays
DEF EvidenceInv, UniqueIDs, HandlerInv, CallInv, Backed

\* From the parts: an action of h that keeps what the others have, the IDs and
\* what was sent, has only h's own invariant left to show.
LEMMA HandlerStepKeeps ==
    ASSUME EvidenceInv, [Next]_vars, NEW h \in Handlers,
           \A k \in Handlers : k # h =>
               /\ pc'[k] = pc[k] /\ env'[k] = env[k] /\ resp'[k] = resp[k]
               /\ req'[k] = req[k] /\ call'[k] = call[k],
           \/ UNCHANGED <<files, tmps>>
           \/ /\ call[h].at # "none"
              /\ \A r \in Refs : r # call[h].ref => files'[r] = files[r] /\ tmps'[r] = tmps[r],
           UniqueIDs', SentInv', HandlerInv(h)', CallInv(h)'
    PROVE  EvidenceInv'
BY TypeStep, OthersKeep DEF EvidenceInv

\* The IDs stay unique while no envelope is built.
LEMMA IDsKept ==
    ASSUME EvidenceInv, \A k \in Handlers : env'[k] = env[k]
    PROVE  UniqueIDs'
BY DEF EvidenceInv, UniqueIDs

LEMMA EvidenceStep ==
    ASSUME EvidenceInv, [Next]_vars
    PROVE  EvidenceInv'
<1> USE GatewayAssumption
<1> USE DEF gatewayVars, storeVars, busVars
<1>t. TypeOK
  BY DEF EvidenceInv
<1>f. /\ pc \in [Handlers -> Progress] /\ req \in [Handlers -> RequestKinds]
      /\ env \in [Handlers -> Envelopes \cup {Absent}]
      /\ resp \in [Handlers -> {0, 201, 202, 400, 500}]
      /\ call \in [Handlers -> Calls]
      /\ files \in [Refs -> Bodies \cup {Absent}]
      /\ tmps \in [Refs -> Bodies \cup {Absent, Torn}]
  BY <1>t DEF TypeOK, StoreTypeOK
<1>h. \A h \in Handlers : HandlerInv(h) /\ CallInv(h)
  BY DEF EvidenceInv
<1>1. ASSUME NEW h \in Handlers, Arrive(h) PROVE EvidenceInv'
  <2>1. HandlerInv(h)' /\ CallInv(h)'
    BY <1>1, <1>f, <1>h DEF Arrive, Goes, HandlerInv, CallInv
  <2> QED
    BY <1>1, <1>f, <2>1, IDsKept, SentStays, HandlerStepKeeps DEF Arrive, Goes
<1>2. ASSUME NEW h \in Handlers, HangUp(h) PROVE EvidenceInv'
  BY <1>2, QuietKeeps DEF HangUp
<1>3. ASSUME NEW h \in Handlers, BadRequest(h) \/ SealFails(h) PROVE EvidenceInv'
  <2>1. /\ pc[h] = "read" /\ pc' = [pc EXCEPT ![h] = "done"]
        /\ \E c \in {400, 500} : resp' = [resp EXCEPT ![h] = c]
        /\ req' = [req EXCEPT ![h] = NoRequest]
        /\ UNCHANGED <<storeVars, busVars, env>>
    BY <1>3 DEF BadRequest, SealFails, Answers, Goes
  <2>2. HandlerInv(h)' /\ CallInv(h)'
    BY <1>f, <1>h, <2>1 DEF HandlerInv, CallInv
  <2> QED
    BY <1>f, <2>1, <2>2, IDsKept, SentStays, HandlerStepKeeps
<1>4. ASSUME NEW h \in Handlers, InspectAndSeal(h) PROVE EvidenceInv'
  <2>1. PICK id \in FreshULIDs :
          env' = [env EXCEPT ![h] = NewRawEventEnvelopeWithStatus(id, req[h].source,
                                        req[h].body, InspectStatus(h))]
    BY <1>4 DEF InspectAndSeal
  <2>2. /\ pc[h] = "read" /\ pc' = [pc EXCEPT ![h] = "store"]
        /\ UNCHANGED <<storeVars, busVars, req, resp>>
    BY <1>4 DEF InspectAndSeal, Goes
  <2>3. /\ env'[h].event_id = id /\ env'[h].source_id = req[h].source
        /\ env'[h].digest = req[h].body /\ env'[h] # Absent
    <3>1. env'[h] = NewRawEventEnvelopeWithStatus(id, req[h].source, req[h].body, InspectStatus(h))
      BY <1>f, <2>1
    <3>2. req[h].source \in Sources /\ req[h].body \in Bodies /\ id \in EventIDs
      BY <1>4, <1>f DEF InspectAndSeal, RequestKinds, FreshULIDs
    <3>3. env'[h] \in Envelopes
      BY <3>1, <3>2, SealType, InspectStatusType
    <3> QED
      BY <3>1, <3>3 DEF NewRawEventEnvelopeWithStatus
  <2>4. HandlerInv(h)' /\ CallInv(h)'
    BY <1>f, <1>h, <2>2, <2>3 DEF HandlerInv, CallInv
  <2>5. UniqueIDs'
    <3>1. \A k \in Handlers : k # h /\ env[k] # Absent => env[k].event_id # id
      BY <2>1 DEF FreshULIDs
    <3>2. \A k \in Handlers : k # h => env'[k] = env[k]
      BY <1>f, <2>1
    <3> QED
      BY <2>3, <3>1, <3>2 DEF EvidenceInv, UniqueIDs
  <2> QED
    BY <1>f, <2>1, <2>2, <2>4, <2>5, SentStays, HandlerStepKeeps
<1>5. ASSUME NEW h \in Handlers, StoreRaw(h) PROVE EvidenceInv'
  <2>0. pc[h] = "store" /\ UNCHANGED <<busVars, gatewayVars>> /\ env[h] \in Envelopes
    BY <1>5, <1>f, <1>h DEF StoreRaw, HandlerInv
  <2>1. \A k \in Handlers : k # h => call'[k] = call[k]
    BY <1>5, <1>f DEF StoreRaw, Stat, StoreStep, OpenTmp, OpenTmpFails, WriteTmp,
        WriteTmpFails, Rename, RenameFails, Moves
  <2>2. CASE Stat(h, env[h].event_id, req[h].source, req[h].body)
    <3> DEFINE ref == [day |-> day, source |-> req[h].source, event |-> env[h].event_id]
    <3>1. req[h].source = env[h].source_id /\ req[h].body = env[h].digest
      BY <1>h, <2>0 DEF HandlerInv
    <3>2. ref \in Refs
      BY <1>t, <2>0, <3>1 DEF Refs, Envelopes, TypeOK, StoreTypeOK
    <3>3. call'[h] = [at |-> IF files[ref] = Absent THEN "open" ELSE "error",
                      ref |-> ref, bytes |-> req[h].body]
      BY <1>f, <2>2 DEF Stat
    <3>4. UNCHANGED <<files, tmps>>
      BY <2>2 DEF Stat
    <3>5. CallInv(h)'
      BY <2>0, <3>1, <3>2, <3>3, <3>4 DEF CallInv
    <3>6. HandlerInv(h)'
      BY <1>h, <2>0, <3>4 DEF HandlerInv
    <3> QED
      BY <2>0, <2>1, <3>4, <3>5, <3>6, IDsKept, SentStays, HandlerStepKeeps
  <2>3. CASE StoreStep(h)
    <3>1. /\ call[h].at \in {"open", "write", "rename"} /\ call[h].ref \in Refs
          /\ call[h].bytes = env[h].digest
      BY <1>h, <2>3 DEF CallInv, StoreStep, OpenTmp, OpenTmpFails, WriteTmp,
          WriteTmpFails, Rename, RenameFails
    <3>2. call'[h].ref = call[h].ref /\ call'[h].bytes = call[h].bytes
      BY <1>f, <2>3 DEF StoreStep, OpenTmp, OpenTmpFails, WriteTmp,
          WriteTmpFails, Rename, RenameFails, Moves, Calls
    <3>3. \A r \in Refs : r # call[h].ref => files'[r] = files[r] /\ tmps'[r] = tmps[r]
      BY <1>f, <2>3 DEF StoreStep, OpenTmp, OpenTmpFails, WriteTmp,
          WriteTmpFails, Rename, RenameFails
    <3>4. CallInv(h)'
      <4>1. CASE OpenTmp(h) \/ OpenTmpFails(h) \/ WriteTmpFails(h) \/ RenameFails(h)
        <5>1. files' = files /\ call'[h].at \in {"write", "error"}
          BY <1>f, <4>1 DEF OpenTmp, OpenTmpFails, WriteTmpFails, RenameFails, Moves, Calls
        <5> QED
          BY <1>h, <2>0, <3>1, <3>2, <5>1 DEF CallInv
      <4>2. CASE WriteTmp(h)
        <5>1. files' = files /\ call'[h].at = "rename" /\ tmps'[call[h].ref] = call[h].bytes
          BY <1>f, <3>1, <4>2 DEF WriteTmp, Moves, Calls
        <5> QED
          BY <1>h, <2>0, <3>1, <3>2, <5>1 DEF CallInv
      <4>3. CASE Rename(h)
        <5>1. call'[h].at = "ok" /\ files'[call[h].ref] = tmps[call[h].ref]
          BY <1>f, <3>1, <4>3 DEF Rename, Moves, Calls
        <5>2. tmps[call[h].ref] = call[h].bytes
          BY <1>h, <4>3 DEF CallInv, Rename
        <5> QED
          BY <1>h, <2>0, <3>1, <3>2, <5>1, <5>2 DEF CallInv
      <4> QED
        BY <2>3, <4>1, <4>2, <4>3 DEF StoreStep
    <3>5. HandlerInv(h)'
      BY <1>h, <2>0 DEF HandlerInv
    <3> QED
      BY <2>0, <2>1, <3>1, <3>3, <3>4, <3>5, IDsKept, SentStays, HandlerStepKeeps
  <2> QED
    BY <1>5, <2>2, <2>3 DEF StoreRaw
<1>6. ASSUME NEW h \in Handlers, StoreFails(h) PROVE EvidenceInv'
  <2>1. /\ pc[h] = "store" /\ pc' = [pc EXCEPT ![h] = "done"]
        /\ resp' = [resp EXCEPT ![h] = 500]
        /\ req' = [req EXCEPT ![h] = NoRequest]
        /\ call' = [call EXCEPT ![h] = NoCall]
        /\ UNCHANGED <<files, tmps, busVars, env>>
    BY <1>6 DEF StoreFails, Answers, Goes, StoreReturns
  <2>2. HandlerInv(h)' /\ CallInv(h)'
    BY <1>f, <1>h, <2>1 DEF HandlerInv, CallInv, NoCall
  <2> QED
    BY <1>f, <2>1, <2>2, IDsKept, SentStays, HandlerStepKeeps
<1>7. ASSUME NEW h \in Handlers, SetRawRef(h) PROVE EvidenceInv'
  <2>1. /\ pc[h] = "store" /\ pc' = [pc EXCEPT ![h] = "stored"]
        /\ call[h].at = "ok" /\ call' = [call EXCEPT ![h] = NoCall]
        /\ env' = [env EXCEPT ![h].raw_ref = call[h].ref]
        /\ UNCHANGED <<files, tmps, busVars, req, resp>>
    BY <1>7 DEF SetRawRef, Goes, StoreReturns
  <2>2. /\ call[h].ref \in Refs /\ files[call[h].ref] = env[h].digest
        /\ call[h].ref.event = env[h].event_id /\ call[h].ref.source = env[h].source_id
    BY <1>h, <2>1 DEF CallInv
  <2>3. env[h] \in Envelopes
    BY <1>f, <1>h, <2>1 DEF HandlerInv
  <2>4. /\ env'[h].raw_ref = call[h].ref /\ env'[h].event_id = env[h].event_id
        /\ env'[h].source_id = env[h].source_id /\ env'[h].digest = env[h].digest
        /\ env'[h] \in Envelopes
    BY <1>f, <2>1, <2>2, <2>3 DEF Envelopes
  <2>5. HandlerInv(h)'
    BY <1>f, <1>h, <2>1, <2>2, <2>4 DEF HandlerInv, Backed, NoCall
  <2>6. CallInv(h)'
    BY <1>f, <2>1 DEF CallInv, NoCall
  <2>7. \A k \in Handlers : k # h => env'[k] = env[k]
    BY <1>f, <2>1
  <2>8. UniqueIDs'
    BY <1>h, <2>1, <2>4, <2>7 DEF EvidenceInv, UniqueIDs, HandlerInv
  <2> QED
    BY <1>f, <2>1, <2>5, <2>6, <2>7, <2>8, SentStays, HandlerStepKeeps
<1>8. ASSUME NEW h \in Handlers, Publish(h) PROVE EvidenceInv'
  <2>1. /\ UNCHANGED <<storeVars, req, env, resp>>
        /\ pc[h] \in {"stored", "publish"}
        /\ \E to \in {"publish", "reply"} : pc' = [pc EXCEPT ![h] = to]
    BY <1>8, <1>f DEF Publish, Goes
  <2>2. HandlerInv(h)' /\ CallInv(h)'
    BY <1>f, <1>h, <2>1 DEF HandlerInv, CallInv, Backed
  <2>3. SentInv'
    <3>1. \A m \in sent' : m \in sent \/ m[2] = env[h]
      BY <1>8 DEF Publish, PublishBegin, PublishVisit, PublishEnd
    <3>2. Backed(env[h])
      BY <1>h, <2>1 DEF HandlerInv
    <3> QED
      BY <2>1, <3>1, <3>2 DEF EvidenceInv, SentInv, Backed
  <2> QED
    BY <1>f, <2>1, <2>2, <2>3, IDsKept, HandlerStepKeeps
<1>9. ASSUME NEW h \in Handlers, Reply(h) PROVE EvidenceInv'
  <2>1. /\ pc[h] = "reply" /\ pc' = [pc EXCEPT ![h] = "done"]
        /\ \E c \in {201, 202} : resp' = [resp EXCEPT ![h] = c]
        /\ req' = [req EXCEPT ![h] = NoRequest]
        /\ UNCHANGED <<storeVars, busVars, env>>
    BY <1>9 DEF Reply, Answers, Goes
  <2>2. HandlerInv(h)' /\ CallInv(h)'
    BY <1>f, <1>h, <2>1 DEF HandlerInv, CallInv, Backed
  <2> QED
    BY <1>f, <2>1, <2>2, IDsKept, SentStays, HandlerStepKeeps
<1>10. ASSUME NEW s \in Subscribers, SubscriberActs(s) PROVE EvidenceInv'
  BY <1>10, QuietKeeps DEF SubscriberActs, SubscriberStep, SubscribeCall, Subscribe,
     UnsubscribeCall, Unsubscribe, Receive
<1>11. CASE Signal \/ Start \/ DayPasses \/ UNCHANGED vars
  BY <1>11, QuietKeeps DEF Signal, Start, DayPasses, NextDay, vars
<1>12. CASE Stop \/ Die
  <2>1. ProcessEnds
    BY <1>12 DEF Stop, Die
  <2>2. UNCHANGED <<files, tmps, sent, req, env, resp>>
    BY <2>1 DEF ProcessEnds
  <2>3. ASSUME NEW h \in Handlers PROVE HandlerInv(h)' /\ CallInv(h)'
    <3>1. \/ pc'[h] = "lost" /\ call'[h] = NoCall
          \/ pc'[h] = pc[h] /\ call'[h] = call[h]
      BY <2>1, <1>f DEF ProcessEnds
    <3>2. pc'[h] = "lost" /\ pc[h] # "lost" => pc[h] \notin {"done", "idle"}
      BY <2>1, <1>f DEF ProcessEnds, InFlight
    <3> QED
      BY <1>h, <2>2, <3>1, <3>2 DEF HandlerInv, CallInv, Backed, NoCall
  <2> QED
    BY <2>2, <2>3, TypeStep, SentStays DEF EvidenceInv, UniqueIDs
<1> QED
  BY <1>1, <1>2, <1>3, <1>4, <1>5, <1>6, <1>7, <1>8, <1>9, <1>10, <1>11, <1>12
  DEF Next, HandlerStep, Finished

-----------------------------------------------------------------------------
\* The evidence invariant holds in every reachable state.
LEMMA EvidenceCorrect == Spec => []EvidenceInv
<1>1. EvidenceInv /\ [Next]_vars => EvidenceInv'
  BY EvidenceStep
<1> QED
  BY <1>1, EvidenceInit, PTL DEF Spec

\* Every reachable state is well typed; in particular no torn file is ever at
\* the final path of a raw event (raw_store.go: write to temp, then rename).
THEOREM TypeCorrect == Spec => []TypeOK
BY EvidenceCorrect, PTL DEF EvidenceInv

\* 100% raw byte retention: whatever reaches a consumer or is acknowledged with
\* 201 or 202 has its bytes at its raw_ref, across crashes and restarts.
THEOREM EvidenceRetained == Spec => []EvidenceBehindEveryEnvelope
<1>1. EvidenceInv => EvidenceBehindEveryEnvelope
  BY DEF EvidenceInv, SentInv, HandlerInv, EvidenceBehindEveryEnvelope
<1> QED
  BY <1>1, EvidenceCorrect, PTL

\* The gateway never changes a raw event it has stored: the stat and the rename
\* of LocalFSStore.Store race only between calls for one event ID, and no two
\* handlers seal with the same ID.
THEOREM StoreIsWriteOnce == Spec => WriteOnce
<1>1. EvidenceInv /\ [Next]_vars =>
        [\A r \in Refs : files[r] # Absent => files'[r] = files[r]]_files
  BY FilesGrow
<1> QED
  BY <1>1, EvidenceCorrect, PTL DEF WriteOnce, Spec

-----------------------------------------------------------------------------
(***************************************************************************)
(* The bus: a channel is open while it is in the subscribers map, and the  *)
(* map does not change while a Publish ranges over it.                     *)
(***************************************************************************)
SubsInv ==
    \A t \in Topics : \A s \in subs[t] :
        phase[s] \in {"subscribed", "unsubscribing"} /\ topicOf[s] = t

PublishInv(h) ==
    /\ h \in readers <=> pc[h] = "publish"
    /\ h \in readers => pending[h] \subseteq subs[TopicFor(env[h].status)]
    /\ env[h] # Absent /\ env[h].status = StatusAccepted => env[h].digest \notin Malformed

BusInv ==
    /\ SubsInv
    /\ \A h \in Handlers : PublishInv(h)
    /\ ~ Alive => readers = {}
    /\ QuarantineSeparated

LEMMA BusInit0 == Init => BusInv
BY DEF Init, StoreInit, BusInit, BusInv, SubsInv, PublishInv, Alive, QuarantineSeparated

\* A handler step that leaves the bus alone keeps the bus invariant when it
\* neither enters nor leaves Publish and keeps the status of its envelope.
LEMMA BusAlone ==
    ASSUME BusInv, UNCHANGED busVars, Alive,
           \A k \in Handlers : pc'[k] = "publish" <=> pc[k] = "publish",
           \A k \in Handlers :
               \/ env'[k] = env[k]
               \/ /\ env[k] # Absent /\ env'[k].status = env[k].status
                  /\ env'[k].digest = env[k].digest
               \/ /\ pc[k] # "publish"
                  /\ env'[k].status = StatusAccepted => env'[k].digest \notin Malformed
    PROVE  SubsInv' /\ (\A h \in Handlers : PublishInv(h)') /\ QuarantineSeparated'
BY DEF BusInv, busVars, SubsInv, PublishInv, QuarantineSeparated

LEMMA BusStep ==
    ASSUME EvidenceInv, BusInv, [Next]_vars
    PROVE  BusInv'
<1> USE DEF gatewayVars, storeVars, busVars
<1>f. /\ pc \in [Handlers -> Progress]
      /\ env \in [Handlers -> Envelopes \cup {Absent}]
      /\ pending \in [Handlers -> SUBSET Subscribers]
      /\ subs \in [Topics -> SUBSET Subscribers]
      /\ phase \in [Subscribers -> Phases]
      /\ topicOf \in [Subscribers -> Topics]
      /\ readers \subseteq Handlers
  BY DEF EvidenceInv, TypeOK, BusTypeOK
<1>a. ASSUME Alive, proc' = proc PROVE Alive'
  BY <1>a DEF Alive
<1>1. ASSUME NEW h \in Handlers,
             Arrive(h) \/ HangUp(h) \/ BadRequest(h) \/ SealFails(h) \/ StoreRaw(h)
               \/ StoreFails(h) \/ Reply(h)
      PROVE  BusInv'
  <2>1. Alive /\ proc' = proc /\ UNCHANGED <<busVars, env>>
    BY <1>1 DEF Arrive, HangUp, BadRequest, SealFails, StoreRaw, StoreFails, Reply, Alive
  <2>2. \/ pc' = pc
        \/ pc[h] # "publish" /\ \E to \in {"read", "done"} : pc' = [pc EXCEPT ![h] = to]
    BY <1>1 DEF Arrive, HangUp, BadRequest, SealFails, StoreRaw, StoreFails, Reply,
        Answers, Goes
  <2>3. \A k \in Handlers : pc'[k] = "publish" <=> pc[k] = "publish"
    BY <1>f, <2>2
  <2> QED
    BY <1>a, <2>1, <2>3, BusAlone DEF BusInv
<1>2. ASSUME NEW h \in Handlers, InspectAndSeal(h) PROVE BusInv'
  <2>1. /\ Alive /\ proc' = proc /\ UNCHANGED busVars /\ pc[h] = "read"
        /\ pc' = [pc EXCEPT ![h] = "store"]
    BY <1>2 DEF InspectAndSeal, Goes
  <2>2. PICK id \in EventIDs :
          env' = [env EXCEPT ![h] = NewRawEventEnvelopeWithStatus(id, req[h].source,
                                        req[h].body, InspectStatus(h))]
    BY <1>2 DEF InspectAndSeal, FreshULIDs
  <2>3. env'[h].status = InspectStatus(h) /\ env'[h].digest = req[h].body
    BY <1>f, <2>2 DEF NewRawEventEnvelopeWithStatus
  <2>4. env'[h].status = StatusAccepted => env'[h].digest \notin Malformed
    BY <2>3 DEF InspectStatus, StatusAccepted, StatusQuarantined
  <2>5. \A k \in Handlers : pc'[k] = "publish" <=> pc[k] = "publish"
    BY <1>f, <2>1
  <2>6. \A k \in Handlers : k # h => env'[k] = env[k]
    BY <1>f, <2>2
  <2> QED
    BY <1>a, <2>1, <2>4, <2>5, <2>6, BusAlone DEF BusInv
<1>3. ASSUME NEW h \in Handlers, SetRawRef(h) PROVE BusInv'
  <2>1. /\ Alive /\ proc' = proc /\ UNCHANGED busVars /\ pc[h] = "store"
        /\ pc' = [pc EXCEPT ![h] = "stored"]
        /\ env' = [env EXCEPT ![h].raw_ref = call[h].ref]
    BY <1>3 DEF SetRawRef, Goes
  <2>2. env[h] # Absent /\ env[h] \in Envelopes
    BY <1>f, <2>1 DEF EvidenceInv, HandlerInv
  <2>3. env'[h].status = env[h].status /\ env'[h].digest = env[h].digest
    BY <1>f, <2>1, <2>2 DEF Envelopes
  <2>4. \A k \in Handlers : pc'[k] = "publish" <=> pc[k] = "publish"
    BY <1>f, <2>1
  <2>5. \A k \in Handlers : k # h => env'[k] = env[k]
    BY <1>f, <2>1
  <2> QED
    BY <1>a, <2>1, <2>2, <2>3, <2>4, <2>5, BusAlone DEF BusInv
<1>4. ASSUME NEW h \in Handlers, Publish(h) PROVE BusInv'
  <2>1. Alive /\ proc' = proc /\ env' = env
    BY <1>4 DEF Publish
  <2>2. env[h] # Absent /\ env[h] \in Envelopes
    BY <1>4, <1>f DEF Publish, Goes, EvidenceInv, HandlerInv
  <2>3. CASE Goes(h, "stored", "publish") /\ PublishBegin(h, TopicFor(env[h].status))
    <3>1. /\ pc' = [pc EXCEPT ![h] = "publish"]
          /\ readers' = readers \cup {h}
          /\ pending' = [pending EXCEPT ![h] = subs[TopicFor(env[h].status)]]
          /\ UNCHANGED <<phase, topicOf, subs, chan, sent>>
      BY <2>3 DEF Goes, PublishBegin
    <3>2. \A k \in Handlers : PublishInv(k)'
      BY <1>f, <2>1, <3>1 DEF BusInv, PublishInv
    <3> QED
      BY <1>a, <2>1, <3>1, <3>2 DEF BusInv, SubsInv, QuarantineSeparated
  <2>4. CASE pc[h] = "publish" /\ PublishVisit(h, env[h]) /\ UNCHANGED pc
    <3>1. PICK s \in pending[h] :
            /\ sent' = sent \/ sent' = sent \cup {<<s, env[h]>>}
            /\ pending' = [pending EXCEPT ![h] = @ \ {s}]
            /\ UNCHANGED <<phase, topicOf, subs, readers>>
      BY <2>4 DEF PublishVisit
    <3>2. \A k \in Handlers : PublishInv(k)'
      BY <1>f, <2>1, <2>4, <3>1 DEF BusInv, PublishInv
    <3>3. s \in subs[TopicFor(env[h].status)] /\ TopicFor(env[h].status) \in Topics
      BY <2>4 DEF BusInv, PublishInv, TopicFor, Topics
    <3>4. topicOf[s] = TopicFor(env[h].status)
      BY <3>3 DEF BusInv, SubsInv
    <3>5. QuarantineSeparated'
      <4>1. env[h].status \in {StatusAccepted, StatusQuarantined}
        BY <2>2 DEF Envelopes
      <4>2. IF topicOf[s] = TopicRawEvents
            THEN env[h].status = StatusAccepted /\ env[h].digest \notin Malformed
            ELSE env[h].status = StatusQuarantined
        BY <2>2, <3>4, <4>1 DEF BusInv, PublishInv, TopicFor, TopicRawEvents,
            TopicQuarantinedEvents, StatusAccepted, StatusQuarantined
      <4> QED
        BY <3>1, <4>2 DEF BusInv, QuarantineSeparated
    <3> QED
      BY <1>a, <2>1, <3>1, <3>2, <3>5 DEF BusInv, SubsInv
  <2>5. CASE Goes(h, "publish", "reply") /\ PublishEnd(h)
    <3>1. /\ pc' = [pc EXCEPT ![h] = "reply"]
          /\ readers' = readers \ {h}
          /\ UNCHANGED <<phase, topicOf, subs, chan, pending, sent>>
      BY <2>5 DEF Goes, PublishEnd
    <3>2. \A k \in Handlers : PublishInv(k)'
      BY <1>f, <2>1, <3>1 DEF BusInv, PublishInv
    <3> QED
      BY <1>a, <2>1, <3>1, <3>2 DEF BusInv, SubsInv, QuarantineSeparated
  <2> QED
    BY <1>4, <2>3, <2>4, <2>5 DEF Publish
<1>5. ASSUME NEW s \in Subscribers, SubscriberActs(s) PROVE BusInv'
  <2>1. Alive /\ UNCHANGED <<proc, pc, env>>
    BY <1>5 DEF SubscriberActs
  <2>2. CASE SubscribeCall(s) \/ UnsubscribeCall(s) \/ Receive(s)
    <3>1. UNCHANGED <<topicOf, subs, pending, readers, sent>>
      BY <2>2 DEF SubscribeCall, UnsubscribeCall, Receive
    <3>2. \A q \in Subscribers : phase[q] \in {"subscribed", "unsubscribing"} =>
              phase'[q] \in {"subscribed", "unsubscribing"}
      BY <1>f, <2>2 DEF SubscribeCall, UnsubscribeCall, Receive
    <3>3. SubsInv'
      BY <1>f, <3>1, <3>2 DEF BusInv, SubsInv
    <3> QED
      BY <1>a, <2>1, <3>1, <3>3 DEF BusInv, PublishInv, QuarantineSeparated
  <2>3. CASE Subscribe(s) \/ Unsubscribe(s)
    <3>1. readers = {} /\ UNCHANGED <<topicOf, pending, readers, sent>>
      BY <2>3 DEF Subscribe, Unsubscribe
    <3>2. SubsInv'
      <4>1. CASE Subscribe(s)
        BY <1>f, <4>1 DEF Subscribe, BusInv, SubsInv
      <4>2. CASE Unsubscribe(s)
        BY <1>f, <4>2 DEF Unsubscribe, BusInv, SubsInv
      <4> QED
        BY <2>3, <4>1, <4>2
    <3> QED
      BY <1>a, <2>1, <3>1, <3>2 DEF BusInv, PublishInv, QuarantineSeparated
  <2> QED
    BY <1>5, <2>2, <2>3 DEF SubscriberActs, SubscriberStep
<1>6. CASE Stop \/ Die
  <2>1. /\ pc' = [h \in Handlers |-> IF h \in InFlight THEN "lost" ELSE pc[h]]
        /\ subs' = [t \in Topics |-> {}] /\ readers' = {}
        /\ UNCHANGED <<topicOf, sent, env>>
    BY <1>6 DEF Stop, Die, ProcessEnds
  <2>2. \A h \in Handlers : pc'[h] # "publish"
    BY <2>1 DEF InFlight
  <2> QED
    BY <2>1, <2>2 DEF BusInv, SubsInv, PublishInv, QuarantineSeparated
<1>7. CASE Start
  <2>1. /\ readers = {} /\ subs' = [t \in Topics |-> {}]
        /\ UNCHANGED <<pc, readers, topicOf, sent, env>>
    BY <1>7 DEF Start, BusInv
  <2> QED
    BY <2>1 DEF BusInv, SubsInv, PublishInv, QuarantineSeparated
<1>8. CASE Signal \/ DayPasses \/ UNCHANGED vars
  <2>1. /\ UNCHANGED <<pc, readers, pending, subs, phase, topicOf, sent, env>>
        /\ proc' = proc \/ (Alive /\ Alive')
    BY <1>8 DEF Signal, DayPasses, vars, Alive
  <2> QED
    BY <2>1 DEF BusInv, SubsInv, PublishInv, QuarantineSeparated, Alive
<1> QED
  BY <1>1, <1>2, <1>3, <1>4, <1>5, <1>6, <1>7, <1>8 DEF Next, HandlerStep, Finished

LEMMA BusCorrect == Spec => []BusInv
<1>1. EvidenceInv /\ BusInv /\ [Next]_vars => BusInv'
  BY BusStep
<1> QED
  BY <1>1, BusInit0, EvidenceCorrect, PTL DEF Spec

\* Publish never sends on a channel that an unsubscribe has closed.
THEOREM NoSendOnClosed == Spec => []NoSendOnClosedChannel
<1>1. EvidenceInv /\ BusInv => NoSendOnClosedChannel
  <2> SUFFICES ASSUME EvidenceInv, BusInv, NEW h \in readers, NEW s \in pending[h]
               PROVE  phase[s] # "closed"
    BY DEF NoSendOnClosedChannel
  <2>1. h \in Handlers
    BY DEF EvidenceInv, TypeOK, BusTypeOK
  <2>2. s \in subs[TopicFor(env[h].status)] /\ TopicFor(env[h].status) \in Topics
    BY <2>1 DEF BusInv, PublishInv, TopicFor, Topics
  <2> QED
    BY <2>2 DEF BusInv, SubsInv
<1> QED
  BY <1>1, EvidenceCorrect, BusCorrect, PTL

\* Subscribers of raw_events are never sent a quarantined or malformed event.
THEOREM QuarantineKept == Spec => []QuarantineSeparated
<1>1. BusInv => QuarantineSeparated
  BY DEF BusInv
<1> QED
  BY <1>1, BusCorrect, PTL

-----------------------------------------------------------------------------
(***************************************************************************)
(* Every file has an owner: the handler whose rename put it there, which   *)
(* has not answered with an error.                                         *)
(***************************************************************************)
Owner(g, r) ==
    /\ env[g] # Absent
    /\ env[g].event_id = r.event
    /\ \/ pc[g] = "store" /\ call[g].at = "ok"
       \/ pc[g] \in {"stored", "publish", "reply", "lost"}
       \/ pc[g] = "done" /\ resp[g] \in {201, 202}

OwnerInv ==
    /\ \A r \in Refs : files[r] # Absent => \E g \in Handlers : Owner(g, r)
    /\ InFlight # {} => Alive

LEMMA OwnerInit == Init => OwnerInv
BY DEF Init, StoreInit, BusInit, OwnerInv, InFlight, Alive

\* A handler that owns a file goes on owning it.
LEMMA OwnerKept ==
    ASSUME EvidenceInv, [Next]_vars, NEW g \in Handlers, NEW r \in Refs, Owner(g, r)
    PROVE  Owner(g, r)'
<1> USE DEF gatewayVars, storeVars, busVars
<1>f. /\ pc \in [Handlers -> Progress]
      /\ env \in [Handlers -> Envelopes \cup {Absent}]
      /\ resp \in [Handlers -> {0, 201, 202, 400, 500}]
      /\ call \in [Handlers -> Calls]
  BY DEF EvidenceInv, TypeOK, StoreTypeOK
<1>1. ASSUME NEW h \in Handlers, h # g,
             Arrive(h) \/ HangUp(h) \/ HandlerStep(h)
      PROVE  Owner(g, r)'
  <2>1. env'[g] = env[g]
    BY <1>1, <1>f DEF Arrive, HangUp, HandlerStep, BadRequest, InspectAndSeal, SealFails,
        StoreRaw, StoreFails, SetRawRef, Publish, Reply
  <2>2. pc'[g] = pc[g]
    BY <1>1, <1>f DEF Arrive, HangUp, HandlerStep, BadRequest, InspectAndSeal, SealFails,
        StoreRaw, StoreFails, SetRawRef, Publish, Reply, Answers, Goes
  <2>3. resp'[g] = resp[g]
    BY <1>1, <1>f DEF Arrive, HangUp, HandlerStep, BadRequest, InspectAndSeal, SealFails,
        StoreRaw, StoreFails, SetRawRef, Publish, Reply, Answers
  <2>4. call'[g] = call[g]
    BY <1>1, <1>f DEF Arrive, HangUp, HandlerStep, BadRequest, InspectAndSeal, SealFails,
        StoreRaw, StoreFails, SetRawRef, Publish, Reply, Stat, StoreStep, OpenTmp,
        OpenTmpFails, WriteTmp, WriteTmpFails, Rename, RenameFails, Moves, StoreReturns
  <2> QED
    BY <2>1, <2>2, <2>3, <2>4 DEF Owner
<1>2. CASE Arrive(g) \/ HangUp(g) \/ BadRequest(g) \/ InspectAndSeal(g) \/ SealFails(g)
             \/ StoreRaw(g) \/ StoreFails(g)
  BY <1>2 DEF Arrive, HangUp, BadRequest, InspectAndSeal, SealFails, StoreRaw, StoreFails,
      Stat, StoreStep, OpenTmp, OpenTmpFails, WriteTmp, WriteTmpFails, Rename, RenameFails,
      Answers, Goes, Owner
<1>3. CASE SetRawRef(g)
  <2>1. env[g] \in Envelopes /\ call[g].ref \in Refs
    BY <1>3, <1>f DEF SetRawRef, EvidenceInv, CallInv, Owner
  <2>2. env' = [env EXCEPT ![g].raw_ref = call[g].ref] /\ pc' = [pc EXCEPT ![g] = "stored"]
    BY <1>3 DEF SetRawRef, Goes
  <2>3. env'[g] \in Envelopes /\ env'[g].event_id = env[g].event_id
    BY <1>f, <2>1, <2>2 DEF Envelopes
  <2> QED
    BY <1>f, <2>2, <2>3, GatewayAssumption DEF Owner
<1>4. CASE Publish(g)
  <2>1. env' = env /\ \E to \in {"publish", "reply"} : pc' = [pc EXCEPT ![g] = to]
    BY <1>4, <1>f DEF Publish, Goes
  <2> QED
    BY <1>f, <2>1 DEF Owner
<1>5. CASE Reply(g)
  <2>1. /\ env' = env /\ pc' = [pc EXCEPT ![g] = "done"]
        /\ \E c \in {201, 202} : resp' = [resp EXCEPT ![g] = c]
    BY <1>5 DEF Reply, Answers, Goes
  <2> QED
    BY <1>f, <2>1 DEF Owner
<1>6. CASE Stop \/ Die
  <2>1. /\ pc' = [h \in Handlers |-> IF h \in InFlight THEN "lost" ELSE pc[h]]
        /\ UNCHANGED <<env, resp>>
    BY <1>6 DEF Stop, Die, ProcessEnds
  <2> QED
    BY <2>1 DEF Owner, InFlight
<1>7. ASSUME NEW s \in Subscribers, SubscriberActs(s) PROVE Owner(g, r)'
  BY <1>7 DEF SubscriberActs, Owner
<1>8. CASE Signal \/ Start \/ DayPasses \/ UNCHANGED vars
  BY <1>8 DEF Signal, Start, DayPasses, NextDay, vars, Owner
<1> QED
  BY <1>1, <1>2, <1>3, <1>4, <1>5, <1>6, <1>7, <1>8 DEF Next, HandlerStep, Finished

LEMMA OwnerStep ==
    ASSUME EvidenceInv, OwnerInv, [Next]_vars
    PROVE  OwnerInv'
<1> USE DEF gatewayVars, storeVars, busVars
<1>f. /\ pc \in [Handlers -> Progress] /\ call \in [Handlers -> Calls]
      /\ files \in [Refs -> Bodies \cup {Absent}]
  BY DEF EvidenceInv, TypeOK, StoreTypeOK
<1>1. ASSUME NEW r \in Refs, files'[r] # Absent
      PROVE  \E g \in Handlers : Owner(g, r)'
  <2>1. CASE files[r] # Absent
    BY <2>1, OwnerKept DEF OwnerInv
  <2>2. CASE files[r] = Absent
    <3>1. PICK h \in Handlers : pc[h] = "store" /\ Rename(h)
      BY <1>1, <2>2, FilesChangeByRename
    <3>2. r = call[h].ref
      BY <1>1, <1>f, <2>2, <3>1 DEF Rename
    <3>3. env[h] # Absent /\ env[h].event_id = r.event
      BY <3>1, <3>2 DEF EvidenceInv, HandlerInv, CallInv, Rename
    <3>4. call'[h].at = "ok"
      BY <1>f, <3>1 DEF Rename, Moves, Calls
    <3>5. env' = env /\ pc' = pc
      <4>1. files' # files
        BY <1>1, <2>2
      <4> QED
        BY <4>1 DEF Next, vars, Arrive, HangUp, HandlerStep, BadRequest, InspectAndSeal,
            SealFails, StoreRaw, StoreFails, SetRawRef, StoreReturns, Publish, Reply,
            SubscriberActs, Signal, Stop, Die, ProcessEnds, Start, DayPasses, NextDay, Finished
    <3> QED
      BY <3>1, <3>3, <3>4, <3>5 DEF Owner
  <2> QED
    BY <2>1, <2>2
<1>2. InFlight' # {} => Alive'
  <2>1. ASSUME NEW h \in Handlers, Arrive(h) \/ HangUp(h) \/ HandlerStep(h)
        PROVE  Alive'
    BY <2>1 DEF Arrive, HangUp, HandlerStep, BadRequest, InspectAndSeal, SealFails,
        StoreRaw, StoreFails, SetRawRef, Publish, Reply, Alive
  <2>2. ASSUME NEW s \in Subscribers, SubscriberActs(s) PROVE Alive'
    BY <2>2 DEF SubscriberActs, Alive
  <2>3. CASE Signal \/ Start
    BY <2>3 DEF Signal, Start, Alive
  <2>4. CASE Stop \/ Die
    BY <2>4 DEF Stop, Die, ProcessEnds, InFlight
  <2>5. CASE DayPasses \/ UNCHANGED vars
    BY <2>5 DEF DayPasses, vars, OwnerInv, InFlight, Alive
  <2> QED
    BY <2>1, <2>2, <2>3, <2>4, <2>5 DEF Next, Finished
<1> QED
  BY <1>1, <1>2 DEF OwnerInv

LEMMA OwnerCorrect == Spec => []OwnerInv
<1>1. EvidenceInv /\ OwnerInv /\ [Next]_vars => OwnerInv'
  BY OwnerStep
<1> QED
  BY <1>1, OwnerInit, EvidenceCorrect, PTL DEF Spec

\* A request answered 400 or 500 has left nothing in the store.
THEOREM RetrySafe == Spec => []RetryAfterErrorIsSafe
<1>1. OwnerInv => RetryAfterErrorIsSafe
  BY DEF OwnerInv, Owner, RetryAfterErrorIsSafe, InFlight
<1> QED
  BY <1>1, OwnerCorrect, PTL

-----------------------------------------------------------------------------
(***************************************************************************)
(* Refinement of the evidence ledger.                                      *)
(***************************************************************************)
LedgerNow == [e \in EventIDs |-> LedgerOf(e)]
AnnouncedNow == {Seen(m[2]) : m \in sent}
AckedNow == {Seen(env[h]) : h \in {g \in Handlers : resp[g] \in {201, 202}}}

LEMMA LedgerInitial == Init => Ledger!Init
BY DEF Init, StoreInit, BusInit, Ledger!Init, LedgerOf

\* What a backed envelope says of its event is in the ledger.
LEMMA BackedInLedger ==
    ASSUME NEW e \in Envelopes, Backed(e)
    PROVE  e.event_id \in EventIDs /\ <<e.raw_ref, e.digest>> \in LedgerOf(e.event_id)
BY GatewayAssumption DEF Backed, LedgerOf, Envelopes

\* A rename records the first and only evidence of its event.
LEMMA RenameRecords ==
    ASSUME EvidenceInv, OwnerInv, NEW h \in Handlers, pc[h] = "store", Rename(h),
           UNCHANGED <<sent, env, resp>>
    PROVE  Ledger!Next
<1>0. call[h].ref \in Refs
  BY DEF EvidenceInv, CallInv, Rename
<1>r. PICK ref \in Refs : ref = call[h].ref
  BY <1>0
<1>b. PICK bytes : bytes = call[h].bytes
  OBVIOUS
<1> DEFINE v == <<ref, bytes>>
<1>1. /\ ref.event = env[h].event_id /\ bytes = env[h].digest
      /\ tmps[ref] = bytes /\ env[h] \in Envelopes /\ ref.event \in EventIDs
      /\ files \in [Refs -> Bodies \cup {Absent}]
  BY <1>r, <1>b DEF EvidenceInv, CallInv, HandlerInv, Rename, TypeOK, StoreTypeOK, Envelopes
<1>2. files' = [files EXCEPT ![ref] = bytes] /\ bytes \in Bodies
  BY <1>r, <1>1 DEF Rename, Envelopes
<1>3. \A q \in Refs : q.event = ref.event => files[q] = Absent
  <2> SUFFICES ASSUME NEW q \in Refs, q.event = ref.event, files[q] # Absent PROVE FALSE
    OBVIOUS
  <2>1. PICK g \in Handlers : Owner(g, q)
    BY DEF OwnerInv
  <2>2. g = h
    BY <1>1, <2>1, GatewayAssumption DEF Owner, EvidenceInv, UniqueIDs
  <2> QED
    BY <2>1, <2>2 DEF Owner, Rename
<1>4. LedgerOf(ref.event) = {} /\ LedgerOf(ref.event)' = {v}
  <2>1. LedgerOf(ref.event) = {}
    BY <1>3 DEF LedgerOf
  <2>2. \A q \in Refs : q.event = ref.event /\ files'[q] # Absent <=> q = ref
    BY <1>1, <1>2, <1>3, GatewayAssumption
  <2>3. files'[ref] = bytes
    BY <1>1, <1>2
  <2>4. {q \in Refs : q.event = ref.event /\ files'[q] # Absent} = {ref}
    BY <2>2
  <2> QED
    BY <2>1, <2>3, <2>4 DEF LedgerOf
<1>5. \A e \in EventIDs : e # ref.event => LedgerOf(e)' = LedgerOf(e)
  <2> SUFFICES ASSUME NEW e \in EventIDs, e # ref.event PROVE LedgerOf(e)' = LedgerOf(e)
    OBVIOUS
  <2>1. \A q \in Refs : q.event = e => files'[q] = files[q]
    BY <1>1, <1>2
  <2> QED
    BY <2>1 DEF LedgerOf
<1>6. LedgerNow' = [LedgerNow EXCEPT ![ref.event] = {v}]
  BY <1>1, <1>4, <1>5 DEF LedgerNow
<1>7. v \in EvidenceValues \cap LedgerNow'[ref.event] /\ LedgerNow[ref.event] = {}
  BY <1>1, <1>2, <1>4 DEF EvidenceValues, LedgerNow
<1>8. AnnouncedNow' = AnnouncedNow /\ AckedNow' = AckedNow
  BY DEF AnnouncedNow, AckedNow
<1>9. Ledger!Record(ref.event)
  BY <1>6, <1>7, <1>8 DEF Ledger!Record, LedgerNow, AnnouncedNow, AckedNow
<1> QED
  BY <1>1, <1>9 DEF Ledger!Next

\* A step that changes no file, sends nothing and answers no 201 or 202 is a
\* stuttering step of the ledger.
LEMMA LedgerStutters ==
    ASSUME UNCHANGED <<files, sent>>, AckedNow' = AckedNow
    PROVE  UNCHANGED Ledger!ledgerVars
<1>1. LedgerNow' = LedgerNow
  BY DEF LedgerNow, LedgerOf
<1>2. AnnouncedNow' = AnnouncedNow
  BY DEF AnnouncedNow
<1> QED
  BY <1>1, <1>2 DEF Ledger!ledgerVars, LedgerNow, AnnouncedNow, AckedNow

\* The acknowledged events after a step of h that leaves the others' answers.
LEMMA AckedOthers ==
    ASSUME NEW h \in Handlers, resp[h] \notin {201, 202}, resp'[h] \notin {201, 202},
           \A k \in Handlers : k # h => env'[k] = env[k] /\ resp'[k] = resp[k]
    PROVE  AckedNow' = AckedNow
BY DEF AckedNow, Seen

LEMMA LedgerStep ==
    ASSUME EvidenceInv, OwnerInv, [Next]_vars
    PROVE  Ledger!Next \/ UNCHANGED Ledger!ledgerVars
<1> USE DEF gatewayVars, storeVars, busVars
<1>f. /\ env \in [Handlers -> Envelopes \cup {Absent}]
      /\ resp \in [Handlers -> {0, 201, 202, 400, 500}]
      /\ pc \in [Handlers -> Progress]
  BY DEF EvidenceInv, TypeOK
<1>h. \A h \in Handlers : HandlerInv(h)
  BY DEF EvidenceInv
<1>1. ASSUME NEW h \in Handlers,
             Arrive(h) \/ HangUp(h) \/ BadRequest(h) \/ SealFails(h)
               \/ InspectAndSeal(h) \/ StoreFails(h) \/ SetRawRef(h)
      PROVE  UNCHANGED Ledger!ledgerVars
  <2>1. UNCHANGED <<files, sent>>
    BY <1>1 DEF Arrive, HangUp, BadRequest, SealFails, InspectAndSeal, StoreFails,
        SetRawRef, StoreReturns
  <2>2. \A k \in Handlers : k # h => env'[k] = env[k] /\ resp'[k] = resp[k]
    BY <1>1, <1>f DEF Arrive, HangUp, BadRequest, SealFails, InspectAndSeal, StoreFails,
        SetRawRef, Answers
  <2>3. pc[h] # "done"
    BY <1>1 DEF Arrive, HangUp, BadRequest, SealFails, InspectAndSeal, StoreFails,
        SetRawRef, Answers, Goes
  <2>4. resp[h] = 0
    BY <1>h, <2>3 DEF HandlerInv
  <2>5. resp'[h] \in {0, 400, 500}
    BY <1>1, <1>f, <2>4 DEF Arrive, HangUp, BadRequest, SealFails, InspectAndSeal,
        StoreFails, SetRawRef, Answers
  <2> QED
    BY <2>1, <2>2, <2>4, <2>5, AckedOthers, LedgerStutters
<1>2. ASSUME NEW h \in Handlers, StoreRaw(h)
      PROVE  Ledger!Next \/ UNCHANGED Ledger!ledgerVars
  <2>1. pc[h] = "store" /\ UNCHANGED <<sent, env, resp>>
    BY <1>2 DEF StoreRaw
  <2>2. CASE Rename(h)
    BY <2>1, <2>2, RenameRecords
  <2>3. CASE files' = files
    BY <2>1, <2>3, LedgerStutters DEF AckedNow
  <2> QED
    BY <1>2, <2>2, <2>3 DEF StoreRaw, Stat, StoreStep, OpenTmp, OpenTmpFails, WriteTmp,
        WriteTmpFails, RenameFails
<1>3. ASSUME NEW h \in Handlers, Publish(h)
      PROVE  Ledger!Next \/ UNCHANGED Ledger!ledgerVars
  <2>1. UNCHANGED <<files, env, resp>>
    BY <1>3 DEF Publish
  <2>2. CASE sent' = sent
    BY <2>1, <2>2, LedgerStutters DEF AckedNow
  <2>3. CASE \E s \in Subscribers : sent' = sent \cup {<<s, env[h]>>}
    <3>1. env[h] \in Envelopes /\ Backed(env[h])
      BY <1>3, <1>f, <1>h DEF Publish, Goes, HandlerInv
    <3>2. PICK e \in Envelopes : e = env[h]
      BY <3>1
    <3>3. e.event_id \in EventIDs /\ <<e.raw_ref, e.digest>> \in LedgerOf(e.event_id)
      BY <3>1, <3>2, BackedInLedger
    <3>4. AnnouncedNow' = AnnouncedNow \cup {<<e.event_id, <<e.raw_ref, e.digest>>>>}
      <4>1. PICK s \in Subscribers : sent' = sent \cup {<<s, e>>}
        BY <2>3, <3>2
      <4>2. Seen(<<s, e>>[2]) = <<e.event_id, <<e.raw_ref, e.digest>>>>
        BY DEF Seen
      <4>3. \A x : x \in AnnouncedNow' <=> \E m \in sent \cup {<<s, e>>} : x = Seen(m[2])
        BY <4>1 DEF AnnouncedNow, Seen
      <4>4. \A x : x \in AnnouncedNow <=> \E m \in sent : x = Seen(m[2])
        BY DEF AnnouncedNow
      <4> HIDE DEF AnnouncedNow, Seen
      <4> QED
        BY <4>2, <4>3, <4>4
    <3>5. LedgerNow' = LedgerNow /\ AckedNow' = AckedNow
      BY <2>1 DEF LedgerNow, LedgerOf, AckedNow
    <3>6. <<e.raw_ref, e.digest>> \in LedgerNow[e.event_id]
      BY <3>3 DEF LedgerNow
    <3>7. Ledger!Announce(e.event_id)
      BY <3>4, <3>5, <3>6 DEF Ledger!Announce, LedgerNow, AnnouncedNow, AckedNow
    <3> QED
      BY <3>3, <3>7 DEF Ledger!Next
  <2>4. sent' = sent \/ \E s \in Subscribers : sent' = sent \cup {<<s, env[h]>>}
    <3>1. pending[h] \subseteq Subscribers
      BY DEF EvidenceInv, TypeOK, BusTypeOK
    <3> QED
      BY <1>3, <3>1 DEF Publish, PublishBegin, PublishVisit, PublishEnd
  <2> QED
    BY <2>2, <2>3, <2>4
<1>4. ASSUME NEW h \in Handlers, Reply(h)
      PROVE  Ledger!Next \/ UNCHANGED Ledger!ledgerVars
  <2>1. /\ UNCHANGED <<files, sent, env>> /\ pc[h] = "reply"
        /\ \E c \in {201, 202} : resp' = [resp EXCEPT ![h] = c]
    BY <1>4 DEF Reply, Answers, Goes
  <2>2. env[h] \in Envelopes /\ Backed(env[h])
    BY <1>f, <1>h, <2>1 DEF HandlerInv
  <2>3. PICK e \in Envelopes : e = env[h]
    BY <2>2
  <2>4. e.event_id \in EventIDs /\ <<e.raw_ref, e.digest>> \in LedgerOf(e.event_id)
    BY <2>2, <2>3, BackedInLedger
  <2>5. resp'[h] \in {201, 202} /\ \A k \in Handlers : k # h => resp'[k] = resp[k]
    BY <1>f, <2>1
  <2>6. AckedNow' = AckedNow \cup {<<e.event_id, <<e.raw_ref, e.digest>>>>}
    BY <2>1, <2>3, <2>5 DEF AckedNow, Seen
  <2>7. LedgerNow' = LedgerNow /\ AnnouncedNow' = AnnouncedNow
    BY <2>1 DEF LedgerNow, LedgerOf, AnnouncedNow
  <2>8. <<e.raw_ref, e.digest>> \in LedgerNow[e.event_id]
    BY <2>4 DEF LedgerNow
  <2>9. Ledger!Acknowledge(e.event_id)
    BY <2>6, <2>7, <2>8 DEF Ledger!Acknowledge, LedgerNow, AnnouncedNow, AckedNow
  <2> QED
    BY <2>4, <2>9 DEF Ledger!Next
<1>5. ASSUME NEW s \in Subscribers, SubscriberActs(s) PROVE UNCHANGED Ledger!ledgerVars
  <2>1. UNCHANGED <<files, sent, env, resp>>
    BY <1>5 DEF SubscriberActs, SubscriberStep, SubscribeCall, Subscribe,
        UnsubscribeCall, Unsubscribe, Receive
  <2> QED
    BY <2>1, LedgerStutters DEF AckedNow
<1>6. CASE Signal \/ Stop \/ Die \/ Start \/ DayPasses \/ UNCHANGED vars
  <2>1. UNCHANGED <<files, sent, env, resp>>
    BY <1>6 DEF Signal, Stop, Die, ProcessEnds, Start, DayPasses, NextDay, vars
  <2> QED
    BY <2>1, LedgerStutters DEF AckedNow
<1> QED
  BY <1>1, <1>2, <1>3, <1>4, <1>5, <1>6 DEF Next, HandlerStep, Finished

\* The gateway implements the evidence ledger: for every number of handlers and
\* subscribers, and through crashes and restarts, evidence is recorded once and
\* before its event is announced or acknowledged.
THEOREM GatewayImplementsLedger == Spec => ImplementsLedger
<1>1. EvidenceInv /\ OwnerInv /\ [Next]_vars => [Ledger!Next]_(Ledger!ledgerVars)
  BY LedgerStep
<1> QED
  BY <1>1, LedgerInitial, EvidenceCorrect, OwnerCorrect, PTL
  DEF ImplementsLedger, Ledger!Spec, Spec
=============================================================================
