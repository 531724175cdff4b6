-------------------------- MODULE IngestAPIProofs --------------------------
(***************************************************************************)
(* For every number of request threads and every capacity: types, what     *)
(* /stats may report although counters lose updates, and what a snapshot   *)
(* file holds.                                                             *)
(***************************************************************************)
EXTENDS IngestAPI, FiniteSetTheorems, SequenceTheorems, TLAPS

USE APIAssumption

PosterSteps == {"idle", "load_q", "store_q", "append", "load_e", "store_e", "reply", "done"}
StatsSteps == {"idle", "ring", "events", "quarantined", "done"}
SnapshotSteps == {"idle", "copy", "open", "write", "done"}

\* A thread serves requests of one kind.
OwnSteps ==
    /\ \A t \in Posters : pc[t] \in PosterSteps
    /\ \A t \in StatsReaders : pc[t] \in StatsSteps
    /\ \A t \in Snappers : pc[t] \in SnapshotSteps

\* A snapshot thread that writes has opened its file.
FileOpened ==
    \A t \in Snappers : pc[t] \in {"write", "done"} => files[snap[t].second] \in Seq(Events)

TypeInv == TypeOK /\ OwnSteps /\ FileOpened

QuarantinedAt == {i \in DOMAIN log : log[i].status = "QUARANTINED"}

\* The ring holds the newest events; its counts are those of the log.
RingInv ==
    /\ buffer = LastItems(log, Capacity)
    /\ total = Len(log)
    /\ quarantined = Cardinality(QuarantinedAt)

\* The events whose poster is past "events_count += 1".
Counted == {i \in DOMAIN log : log[i].from # Absent /\ pc[log[i].from] \in {"reply", "done"}}

\* Updates get lost, so the counter, and a value loaded from it, may be too small,
\* but never too large: a poster that has yet to store has its event in the log.
CounterInv ==
    /\ counters.events <= Cardinality(Counted)
    /\ \A t \in Posters :
          /\ pc[t] = "store_e" => loaded[t] <= Cardinality(Counted)
          /\ pc[t] \in {"load_e", "store_e"} => \E i \in DOMAIN log : log[i].from = t

\* What a stats thread has so far lies between the bounds.
AnswerInv ==
    \A t \in StatsReaders :
        /\ pc[t] = "ring" =>
              ackedAtCall[t].events <= total /\ ackedAtCall[t].quarantined <= quarantined
        /\ pc[t] \in {"events", "quarantined", "done"} =>
              /\ answer[t].events >= ackedAtCall[t].events
              /\ answer[t].quarantined >= ackedAtCall[t].quarantined
              /\ answer[t].events <= total

\* A snapshot thread copied the window at one moment; its file, if it is its own,
\* is empty and then holds the copy.
SnapshotInv ==
    \A t \in Snappers :
        /\ snap[t].since <= Len(log)
        /\ pc[t] \in {"open", "write", "done"} =>
              \E n \in snap[t].since..Len(log) : snap[t].items = WindowAt(n)
        /\ pc[t] = "write" /\ OwnSecond(t) => files[snap[t].second] = <<>>
        /\ pc[t] = "done" /\ OwnSecond(t) => files[snap[t].second] = snap[t].items

-----------------------------------------------------------------------------
LEMMA LastItemsType ==
    ASSUME NEW S, NEW s \in Seq(S), NEW n \in Nat \ {0}
    PROVE  /\ LastItems(s, n) \in Seq(S)
           /\ Len(LastItems(s, n)) <= n
<1>1. CASE Len(s) <= n
  BY <1>1 DEF LastItems
<1>2. CASE Len(s) > n
  <2>1. Len(s) - n + 1 \in 1..Len(s) + 1 /\ Len(s) \in Len(s) - n..Len(s)
    BY <1>2
  <2>2. SubSeq(s, Len(s) - n + 1, Len(s)) \in Seq(S)
        /\ Len(SubSeq(s, Len(s) - n + 1, Len(s))) = n
    BY <1>2, <2>1, SubSeqProperties
  <2> QED
    BY <1>2, <2>2 DEF LastItems
<1> QED
  BY <1>1, <1>2

\* A full deque loses its oldest item: the last items of a sequence that grows
\* follow from the last items it had.
LEMMA LastItemsAppend ==
    ASSUME NEW S, NEW s \in Seq(S), NEW e \in S, NEW n \in Nat \ {0}
    PROVE  LastItems(Append(LastItems(s, n), e), n) = LastItems(Append(s, e), n)
<1>1. CASE Len(s) <= n
  BY <1>1 DEF LastItems
<1>2. CASE Len(s) > n
  <2> DEFINE u == SubSeq(s, Len(s) - n + 1, Len(s))
             a == Append(u, e)
             b == Append(s, e)
             l == SubSeq(a, 2, n + 1)
             r == SubSeq(b, Len(s) - n + 2, Len(s) + 1)
  <2>1. u \in Seq(S) /\ Len(u) = n /\ \A i \in 1..n : u[i] = s[Len(s) - n + i]
    BY <1>2, SubSeqProperties
  <2>2. a \in Seq(S) /\ Len(a) = n + 1 /\ a[n + 1] = e /\ \A i \in 1..n : a[i] = u[i]
    BY <2>1, AppendProperties
  <2>3. b \in Seq(S) /\ Len(b) = Len(s) + 1 /\ b[Len(s) + 1] = e /\ \A i \in 1..Len(s) : b[i] = s[i]
    BY AppendProperties
  <2>4. LastItems(s, n) = u
    BY <1>2 DEF LastItems
  <2>5. LastItems(a, n) = l
    BY <2>2 DEF LastItems
  <2>6. LastItems(b, n) = r
    BY <1>2, <2>3 DEF LastItems
  <2> HIDE DEF u, a, b
  <2>7. l \in Seq(S) /\ Len(l) = n /\ \A i \in 1..n : l[i] = a[i + 1]
    BY <2>2, SubSeqProperties
  <2>8. r \in Seq(S) /\ Len(r) = n /\ \A i \in 1..n : r[i] = b[Len(s) - n + 1 + i]
    BY <1>2, <2>3, SubSeqProperties
  <2> HIDE DEF l, r
  <2>9. ASSUME NEW i \in 1..n PROVE l[i] = r[i]
    <3>1. CASE i = n
      BY <2>2, <2>3, <2>7, <2>8, <3>1
    <3>2. CASE i < n
      <4>1. i + 1 \in 1..n /\ Len(s) - n + 1 + i \in 1..Len(s)
        BY <1>2, <3>2
      <4>2. l[i] = u[i + 1] /\ r[i] = s[Len(s) - n + 1 + i]
        BY <2>2, <2>3, <2>7, <2>8, <4>1
      <4>3. u[i + 1] = s[Len(s) - n + (i + 1)]
        BY <2>1, <4>1
      <4> QED
        BY <4>2, <4>3
    <3> QED
      BY <3>1, <3>2
  <2>10. l = r
    BY <2>7, <2>8, <2>9, SeqEqual
  <2> QED
    BY <2>4, <2>5, <2>6, <2>10 DEF a, b
<1> QED
  BY <1>1, <1>2

\* A set of positions of a sequence.
LEMMA PositionsFinite ==
    ASSUME NEW S, NEW s \in Seq(S), NEW T \in SUBSET DOMAIN s
    PROVE  IsFiniteSet(T) /\ Cardinality(T) \in Nat /\ Cardinality(T) <= Len(s)
<1>1. DOMAIN s = 1..Len(s) /\ Len(s) \in Nat
  OBVIOUS
<1>2. IsFiniteSet(1..Len(s)) /\ Cardinality(1..Len(s)) = Len(s)
  <2>1. ASSUME NEW n \in Nat PROVE IsFiniteSet(1..n) /\ Cardinality(1..n) = n
    <3>1. IsFiniteSet(1..n) /\ Cardinality(1..n) = IF 1 > n THEN 0 ELSE n - 1 + 1
      BY FS_Interval
    <3> QED
      BY <3>1
  <2> QED
    BY <1>1, <2>1
<1>3. IsFiniteSet(T) /\ Cardinality(T) <= Cardinality(1..Len(s))
  BY <1>1, <1>2, FS_Subset
<1> QED
  BY <1>2, <1>3, FS_CardinalityType

LEMMA CardinalityMonotonic ==
    ASSUME NEW S, NEW T, S \subseteq T, IsFiniteSet(T)
    PROVE  Cardinality(S) <= Cardinality(T)
BY FS_Subset

-----------------------------------------------------------------------------
\* A thread moves on, and no other.
LEMMA GoesOn ==
    ASSUME TypeOK, NEW t \in Threads, NEW from, NEW to, Goes(t, from, to)
    PROVE  /\ pc[t] = from /\ pc'[t] = to
           /\ \A u \in Threads : u # t => pc'[u] = pc[u]
BY DEF TypeOK, Goes

LEMMA ThreadKinds ==
    /\ Posters \subseteq Threads /\ StatsReaders \subseteq Threads /\ Snappers \subseteq Threads
    /\ \A t \in Posters : t \notin StatsReaders /\ t \notin Snappers
    /\ \A t \in StatsReaders : t \notin Posters /\ t \notin Snappers
    /\ \A t \in Snappers : t \notin Posters /\ t \notin StatsReaders
BY DEF Threads

LEMMA GoesTypes ==
    ASSUME TypeOK, OwnSteps, NEW t \in Threads, NEW from, NEW to, Goes(t, from, to),
           t \in Posters => to \in PosterSteps,
           t \in StatsReaders => to \in StatsSteps,
           t \in Snappers => to \in SnapshotSteps
    PROVE  /\ pc' \in [Threads -> {"idle", "load_q", "store_q", "append", "load_e", "store_e",
                                   "reply", "ring", "events", "quarantined", "copy", "open",
                                   "write", "done"}]
           /\ OwnSteps'
<1>1. to \in {"idle", "load_q", "store_q", "append", "load_e", "store_e",
             "reply", "ring", "events", "quarantined", "copy", "open",
             "write", "done"}
  BY DEF Threads, PosterSteps, StatsSteps, SnapshotSteps
<1>2. pc' = [pc EXCEPT ![t] = to]
  BY DEF Goes
<1> QED
  BY <1>1, <1>2 DEF TypeOK, OwnSteps, Threads

LEMMA RingAppendTypes ==
    ASSUME TypeOK, NEW event \in Events, RingAppend(event)
    PROVE  /\ buffer' \in Seq(Events) /\ Len(buffer') <= Capacity
           /\ total' \in Nat /\ quarantined' \in Nat
           /\ log' = Append(log, event) /\ log' \in Seq(Events) /\ Len(log') = Len(log) + 1
           /\ \A i \in 1..Len(log) : log'[i] = log[i]
           /\ log'[Len(log) + 1] = event
<1>1. Append(buffer, event) \in Seq(Events) /\ log' \in Seq(Events)
  BY AppendProperties DEF TypeOK, RingAppend
<1>2. buffer' \in Seq(Events) /\ Len(buffer') <= Capacity
  BY <1>1, LastItemsType DEF RingAppend
<1> QED
  BY <1>1, <1>2, AppendProperties DEF TypeOK, RingAppend

LEMMA CountType == ASSUME NEW m \in Nat, NEW n \in Nat PROVE AtLeast(m, n) \in Nat /\ AtLeast(m, n) >= m
BY DEF AtLeast

LEMMA AckedType == ASSUME TypeOK PROVE Acked \in Counts /\ Acked.events <= Len(log)
                                       /\ Acked.quarantined <= Cardinality(QuarantinedAt)
<1> DEFINE acked == {i \in DOMAIN log : log[i].from # Absent /\ pc[log[i].from] = "done"}
           bad == {i \in acked : log[i].status = "QUARANTINED"}
<1>1. acked \in SUBSET DOMAIN log /\ bad \in SUBSET DOMAIN log /\ bad \subseteq QuarantinedAt
      /\ QuarantinedAt \in SUBSET DOMAIN log
  BY DEF QuarantinedAt
<1>2. Acked = [events |-> Cardinality(acked), quarantined |-> Cardinality(bad)]
  BY DEF Acked
<1>3. log \in Seq(Events)
  BY DEF TypeOK
<1> HIDE DEF acked, bad
<1>4. Cardinality(acked) \in Nat /\ Cardinality(acked) <= Len(log) /\ Cardinality(bad) \in Nat
      /\ IsFiniteSet(QuarantinedAt)
  BY <1>1, <1>3, PositionsFinite
<1>5. Cardinality(bad) <= Cardinality(QuarantinedAt)
  BY <1>1, <1>4, CardinalityMonotonic
<1> QED
  BY <1>2, <1>4, <1>5 DEF Counts

-----------------------------------------------------------------------------
LEMMA TypeInit == Init => TypeInv
BY EmptySeq DEF Init, TypeInv, TypeOK, OwnSteps, FileOpened, Counts, NoCounts, Snapshots, Statuses,
   PosterSteps, StatsSteps, SnapshotSteps, Threads

LEMMA PosterTypes ==
    ASSUME TypeInv, NEW t \in Posters, PosterStep(t)
    PROVE  TypeInv'
<1> USE DEF TypeInv
<1>0. t \in Threads /\ t \notin StatsReaders /\ t \notin Snappers
  BY ThreadKinds
<1>1. PICK from, to : to \in PosterSteps /\ Goes(t, from, to)
  BY DEF PosterStep, PostEmpty, Post, LoadQuarantined, StoreQuarantined, AppendEvent, LoadEvents,
         StoreEvents, ReplyPost, PosterSteps
<1>2. /\ pc' \in [Threads -> {"idle", "load_q", "store_q", "append", "load_e", "store_e",
                              "reply", "ring", "events", "quarantined", "copy", "open",
                              "write", "done"}]
      /\ OwnSteps'
  BY <1>0, <1>1, GoesTypes
<1>3. UNCHANGED <<second, files, answer, snap, ackedAtCall>>
  BY DEF PosterStep, PostEmpty, Post, LoadQuarantined, StoreQuarantined, AppendEvent, LoadEvents,
         StoreEvents, ReplyPost
<1>4. FileOpened'
  <2>1. \A u \in Snappers : pc'[u] = pc[u]
    BY <1>0, <1>1, GoesOn, ThreadKinds
  <2> QED
    BY <1>3, <2>1 DEF FileOpened
<1>5. counters' \in Counts /\ status' \in [Posters -> Statuses] /\ loaded' \in [Posters -> Nat]
  <2>1. CASE Post(t)
    BY <2>1 DEF Post, TypeOK
  <2>2. CASE LoadQuarantined(t) \/ LoadEvents(t)
    <3>1. counters.quarantined \in Nat /\ counters.events \in Nat
      BY DEF TypeOK, Counts
    <3> QED
      BY <2>2, <3>1 DEF LoadQuarantined, LoadEvents, TypeOK
  <2>3. CASE StoreQuarantined(t) \/ StoreEvents(t)
    <3>1. loaded[t] + 1 \in Nat
      BY DEF TypeOK
    <3>2. \E n \in Nat : counters' = [counters EXCEPT !.quarantined = n] \/ counters' = [counters EXCEPT !.events = n]
      BY <2>3, <3>1 DEF StoreQuarantined, StoreEvents
    <3>3. counters' \in Counts
      BY <3>2 DEF TypeOK, Counts
    <3>4. loaded' = [loaded EXCEPT ![t] = 0] /\ UNCHANGED status
      BY <2>3 DEF StoreQuarantined, StoreEvents
    <3> QED
      BY <3>3, <3>4 DEF TypeOK
  <2>4. CASE PostEmpty(t) \/ AppendEvent(t) \/ ReplyPost(t)
    BY <2>4 DEF PostEmpty, AppendEvent, ReplyPost, TypeOK
  <2> QED
    BY <2>1, <2>2, <2>3, <2>4 DEF PosterStep
<1>6. /\ buffer' \in Seq(Events) /\ Len(buffer') <= Capacity
      /\ total' \in Nat /\ quarantined' \in Nat /\ log' \in Seq(Events)
  <2>1. CASE AppendEvent(t)
    <3>1. [from |-> t, status |-> status[t]] \in Events
      BY DEF TypeOK, Events
    <3> QED
      BY <2>1, <3>1, RingAppendTypes DEF AppendEvent
  <2>2. CASE UNCHANGED ringVars
    BY <2>2 DEF ringVars, TypeOK
  <2> QED
    BY <2>1, <2>2 DEF PosterStep, PostEmpty, Post, LoadQuarantined, StoreQuarantined, LoadEvents,
                      StoreEvents, ReplyPost
<1> QED
  BY <1>2, <1>3, <1>4, <1>5, <1>6 DEF TypeOK

LEMMA StatsTypes ==
    ASSUME TypeInv, NEW t \in StatsReaders, StatsStep(t)
    PROVE  TypeInv'
<1> USE DEF TypeInv
<1>0. t \in Threads /\ t \notin Posters /\ t \notin Snappers
  BY ThreadKinds
<1>1. PICK from, to : to \in StatsSteps /\ Goes(t, from, to)
  BY DEF StatsStep, GetStats, StatsOfRing, StatsEvents, StatsQuarantined, StatsSteps
<1>2. /\ pc' \in [Threads -> {"idle", "load_q", "store_q", "append", "load_e", "store_e",
                              "reply", "ring", "events", "quarantined", "copy", "open",
                              "write", "done"}]
      /\ OwnSteps'
  BY <1>0, <1>1, GoesTypes
<1>3. UNCHANGED <<ringVars, counters, second, files, status, loaded, snap>>
  BY DEF StatsStep, GetStats, StatsOfRing, StatsEvents, StatsQuarantined
<1>4. FileOpened'
  <2>1. \A u \in Snappers : pc'[u] = pc[u]
    BY <1>0, <1>1, GoesOn, ThreadKinds
  <2> QED
    BY <1>3, <2>1 DEF FileOpened
<1>5. answer' \in [StatsReaders -> Counts] /\ ackedAtCall' \in [StatsReaders -> Counts]
  <2>1. CASE GetStats(t)
    BY <2>1, AckedType DEF GetStats, TypeOK
  <2>2. CASE StatsOfRing(t)
    BY <2>2 DEF StatsOfRing, TypeOK, Counts
  <2>3. CASE StatsEvents(t)
    BY <2>3, CountType DEF StatsEvents, TypeOK, Counts
  <2>4. CASE StatsQuarantined(t)
    BY <2>4, CountType DEF StatsQuarantined, TypeOK, Counts
  <2> QED
    BY <2>1, <2>2, <2>3, <2>4 DEF StatsStep
<1> QED
  BY <1>2, <1>3, <1>4, <1>5 DEF TypeOK, ringVars

LEMMA SnapshotTypes ==
    ASSUME TypeInv, NEW t \in Snappers, SnapshotStep(t)
    PROVE  TypeInv'
<1> USE DEF TypeInv
<1>0. t \in Threads /\ t \notin Posters /\ t \notin StatsReaders
  BY ThreadKinds
<1>1. PICK from, to : to \in SnapshotSteps /\ Goes(t, from, to)
  BY DEF SnapshotStep, PostSnapshot, SnapshotCopy, SnapshotOpen, SnapshotWrite, SnapshotSteps
<1>2. /\ pc' \in [Threads -> {"idle", "load_q", "store_q", "append", "load_e", "store_e",
                              "reply", "ring", "events", "quarantined", "copy", "open",
                              "write", "done"}]
      /\ OwnSteps'
  BY <1>0, <1>1, GoesTypes
<1>3. UNCHANGED <<ringVars, counters, second, status, loaded, answer, ackedAtCall>>
  BY DEF SnapshotStep, PostSnapshot, SnapshotCopy, SnapshotOpen, SnapshotWrite
<1>4. snap[t] \in Snapshots /\ snap[t].second \in 1..MaxSecond /\ snap[t].items \in Seq(Events)
  BY DEF TypeOK, Snapshots
<1>5. snap' \in [Snappers -> Snapshots]
  <2>1. CASE PostSnapshot(t)
    <3>1. [second |-> second, items |-> <<>>, since |-> Len(log)] \in Snapshots
      BY EmptySeq DEF TypeOK, Snapshots
    <3> QED
      BY <2>1, <3>1 DEF PostSnapshot, TypeOK
  <2>2. CASE SnapshotCopy(t)
    BY <2>2 DEF SnapshotCopy, TypeOK, Snapshots
  <2>3. CASE UNCHANGED snap
    BY <2>3 DEF TypeOK
  <2> QED
    BY <2>1, <2>2, <2>3 DEF SnapshotStep, SnapshotOpen, SnapshotWrite
<1>6. \/ UNCHANGED files
      \/ \E s \in Seq(Events) : files' = [files EXCEPT ![snap[t].second] = s] /\ UNCHANGED snap
  <2>1. CASE SnapshotOpen(t)
    BY <2>1, EmptySeq DEF SnapshotOpen
  <2>2. CASE SnapshotWrite(t)
    <3> DEFINE old == files[snap[t].second]
               items == snap[t].items
    <3>1. old \in Seq(Events) /\ items \in Seq(Events)
      BY <1>0, <1>4, <2>2 DEF SnapshotWrite, Goes, FileOpened
    <3>2. SubSeq(old, Len(items) + 1, Len(old)) \in Seq(Events)
      <4> HIDE DEF old, items
      <4>1. \A i \in Len(items) + 1..Len(old) : old[i] \in Events
        BY <3>1
      <4> QED
        BY <3>1, <4>1, SubSeqProperties
    <3>3. items \o SubSeq(old, Len(items) + 1, Len(old)) \in Seq(Events)
      BY <3>1, <3>2, ConcatProperties
    <3> QED
      BY <2>2, <3>3 DEF SnapshotWrite
  <2> QED
    BY <2>1, <2>2 DEF SnapshotStep, PostSnapshot, SnapshotCopy
<1>7. files' \in [1..MaxSecond -> Seq(Events) \cup {Absent}]
  BY <1>4, <1>6 DEF TypeOK
<1>8. FileOpened'
  <2>1. pc'[t] \in {"write", "done"} => files'[snap'[t].second] \in Seq(Events)
    <3>1. CASE PostSnapshot(t) \/ SnapshotCopy(t)
      BY <1>0, <3>1, GoesOn DEF PostSnapshot, SnapshotCopy
    <3>2. CASE SnapshotOpen(t)
      BY <1>4, <3>2, EmptySeq DEF SnapshotOpen, TypeOK
    <3>3. CASE SnapshotWrite(t)
      <4>1. files[snap[t].second] \in Seq(Events)
        BY <3>3 DEF SnapshotWrite, Goes, FileOpened
      <4> QED
        BY <1>4, <1>6, <3>3, <4>1 DEF SnapshotWrite, TypeOK
    <3> QED
      BY <3>1, <3>2, <3>3 DEF SnapshotStep
  <2>2. ASSUME NEW u \in Snappers, u # t, pc'[u] \in {"write", "done"}
        PROVE  files'[snap'[u].second] \in Seq(Events)
    <3>1. pc'[u] = pc[u]
      BY <1>0, <1>1, <2>2, GoesOn, ThreadKinds
    <3>2. snap'[u] = snap[u] /\ snap[u].second \in 1..MaxSecond
      BY <2>2 DEF SnapshotStep, PostSnapshot, SnapshotCopy, SnapshotOpen, SnapshotWrite, TypeOK, Snapshots
    <3>3. files[snap[u].second] \in Seq(Events)
      BY <2>2, <3>1 DEF FileOpened
    <3> QED
      BY <1>4, <1>6, <3>2, <3>3 DEF TypeOK
  <2> QED
    BY <2>1, <2>2 DEF FileOpened
<1> QED
  BY <1>2, <1>3, <1>5, <1>7, <1>8 DEF TypeOK, ringVars

LEMMA TypeStep ==
    ASSUME TypeInv, [Next]_vars
    PROVE  TypeInv'
<1>1. CASE Generate
  <2>1. [from |-> Absent, status |-> "ACCEPTED"] \in Events
    BY DEF Events, Statuses
  <2> QED
    BY <1>1, <2>1, RingAppendTypes DEF Generate, TypeInv, TypeOK, OwnSteps, FileOpened
<1>2. CASE Tick
  BY <1>2 DEF Tick, TypeInv, TypeOK, OwnSteps, FileOpened, ringVars
<1>3. CASE Idle \/ UNCHANGED vars
  BY <1>3 DEF Idle, vars, ringVars, TypeInv, TypeOK, OwnSteps, FileOpened
<1> QED
  BY <1>1, <1>2, <1>3, PosterTypes, StatsTypes, SnapshotTypes DEF Next

\* The types of the ring buffer, the counters and the files under any number of
\* request threads: the ring never exceeds its capacity (EventRingBuffer), and the
\* handlers' counters stay numbers whatever updates they lose.
THEOREM APITypes == Spec => []TypeOK
<1>1. Spec => []TypeInv
  BY TypeInit, TypeStep, PTL DEF Spec
<1> QED
  BY <1>1, PTL DEF TypeInv

-----------------------------------------------------------------------------
\* Only an append changes the ring, and then by one event.
LEMMA RingSteps ==
    ASSUME TypeInv, [Next]_vars
    PROVE  \/ UNCHANGED ringVars
           \/ \E event \in Events : RingAppend(event)
<1>1. ASSUME NEW t \in Posters, AppendEvent(t) PROVE \E event \in Events : RingAppend(event)
  <2>1. [from |-> t, status |-> status[t]] \in Events
    BY DEF TypeInv, TypeOK, Events
  <2> QED
    BY <1>1, <2>1 DEF AppendEvent
<1>2. CASE Generate
  <2>1. [from |-> Absent, status |-> "ACCEPTED"] \in Events
    BY DEF Events, Statuses
  <2> QED
    BY <1>2, <2>1 DEF Generate
<1>3. ASSUME NEW t \in Posters, PosterStep(t) PROVE UNCHANGED ringVars \/ AppendEvent(t)
  BY <1>3 DEF PosterStep, PostEmpty, Post, LoadQuarantined, StoreQuarantined, LoadEvents, StoreEvents, ReplyPost
<1>4. ASSUME NEW t \in StatsReaders, StatsStep(t) PROVE UNCHANGED ringVars
  BY <1>4 DEF StatsStep, GetStats, StatsOfRing, StatsEvents, StatsQuarantined
<1>5. ASSUME NEW t \in Snappers, SnapshotStep(t) PROVE UNCHANGED ringVars
  BY <1>5 DEF SnapshotStep, PostSnapshot, SnapshotCopy, SnapshotOpen, SnapshotWrite
<1>6. Tick \/ Idle \/ UNCHANGED vars => UNCHANGED ringVars
  BY DEF Tick, Idle, vars
<1> QED
  BY <1>1, <1>2, <1>3, <1>4, <1>5, <1>6 DEF Next

LEMMA RingStep ==
    ASSUME TypeInv, RingInv, [Next]_vars
    PROVE  RingInv'
<1>1. CASE UNCHANGED ringVars
  BY <1>1 DEF ringVars, RingInv, QuarantinedAt
<1>2. ASSUME NEW event \in Events, RingAppend(event) PROVE RingInv'
  <2>0. log \in Seq(Events) /\ DOMAIN log = 1..Len(log) /\ Len(log) \in Nat
    BY DEF TypeInv, TypeOK
  <2>1. /\ log' = Append(log, event) /\ log' \in Seq(Events) /\ Len(log') = Len(log) + 1
        /\ \A i \in 1..Len(log) : log'[i] = log[i]
        /\ log'[Len(log) + 1] = event
    BY <1>2, RingAppendTypes DEF TypeInv
  <2>2. buffer' = LastItems(log', Capacity)
    BY <1>2, <2>0, <2>1, LastItemsAppend DEF RingInv, RingAppend
  <2>3. total' = Len(log')
    BY <1>2, <2>1 DEF RingInv, RingAppend
  <2>4. QuarantinedAt' = IF event.status = "QUARANTINED" THEN QuarantinedAt \cup {Len(log) + 1}
                         ELSE QuarantinedAt
    <3>1. DOMAIN log' = 1..Len(log) + 1
      BY <2>1
    <3>2. ASSUME NEW i PROVE i \in QuarantinedAt' <=> i \in QuarantinedAt \/ (i = Len(log) + 1 /\ event.status = "QUARANTINED")
      BY <2>0, <2>1, <3>1 DEF QuarantinedAt
    <3> QED
      BY <3>2
  <2>5. IsFiniteSet(QuarantinedAt) /\ Len(log) + 1 \notin QuarantinedAt
    <3>1. QuarantinedAt \in SUBSET DOMAIN log
      BY DEF QuarantinedAt
    <3> QED
      BY <2>0, <3>1, PositionsFinite
  <2>6. Cardinality(QuarantinedAt \cup {Len(log) + 1}) = Cardinality(QuarantinedAt) + 1
    BY <2>5, FS_AddElement
  <2>7. quarantined' = Cardinality(QuarantinedAt')
    BY <1>2, <2>4, <2>6 DEF RingInv, RingAppend
  <2> QED
    BY <2>2, <2>3, <2>7 DEF RingInv
<1> QED
  BY <1>1, <1>2, RingSteps

LEMMA RingInit == Init => RingInv
<1> SUFFICES ASSUME Init PROVE RingInv
  OBVIOUS
<1>1. QuarantinedAt = {} /\ Len(log) = 0
  BY DEF Init, QuarantinedAt
<1> QED
  BY <1>1, FS_EmptySet DEF Init, RingInv, LastItems

\* The log only grows.
LEMMA LogGrows ==
    ASSUME TypeInv, [Next]_vars
    PROVE  /\ Len(log) \in Nat /\ Len(log') \in Nat /\ Len(log) <= Len(log')
           /\ \A i \in DOMAIN log : i \in DOMAIN log' /\ log'[i] = log[i]
           /\ \A n \in 0..Len(log) : WindowAt(n)' = WindowAt(n)
<1>0. log \in Seq(Events) /\ DOMAIN log = 1..Len(log) /\ Len(log) \in Nat
  BY DEF TypeInv, TypeOK
<1>1. CASE UNCHANGED ringVars
  BY <1>0, <1>1 DEF ringVars, WindowAt
<1>2. ASSUME NEW event \in Events, RingAppend(event)
      PROVE  /\ Len(log') = Len(log) + 1
             /\ \A i \in DOMAIN log : i \in DOMAIN log' /\ log'[i] = log[i]
             /\ \A n \in 0..Len(log) : WindowAt(n)' = WindowAt(n)
  <2>1. /\ log' \in Seq(Events) /\ Len(log') = Len(log) + 1
        /\ \A i \in 1..Len(log) : log'[i] = log[i]
    BY <1>2, RingAppendTypes DEF TypeInv
  <2>2. ASSUME NEW n \in 0..Len(log) PROVE SubSeq(log', 1, n) = SubSeq(log, 1, n)
    <3> DEFINE a == SubSeq(log, 1, n)
               b == SubSeq(log', 1, n)
    <3>1. a \in Seq(Events) /\ Len(a) = n /\ \A i \in 1..n : a[i] = log[i]
      BY <1>0, SubSeqProperties
    <3>2. b \in Seq(Events) /\ Len(b) = n /\ \A i \in 1..n : b[i] = log'[i]
      BY <1>0, <2>1, SubSeqProperties
    <3>3. \A i \in 1..n : a[i] = b[i]
      BY <1>0, <2>1, <3>1, <3>2
    <3> HIDE DEF a, b
    <3>4. a = b
      BY <3>1, <3>2, <3>3, SeqEqual
    <3> QED
      BY <3>4 DEF a, b
  <2>3. \A i \in DOMAIN log : i \in DOMAIN log' /\ log'[i] = log[i]
    BY <1>0, <2>1
  <2>4. \A n \in 0..Len(log) : WindowAt(n)' = WindowAt(n)
    BY <2>2 DEF WindowAt
  <2> QED
    BY <2>1, <2>3, <2>4
<1> QED
  BY <1>0, <1>1, <1>2, RingSteps

-----------------------------------------------------------------------------
LEMMA CountedFinite ==
    ASSUME TypeInv
    PROVE  /\ IsFiniteSet(Counted) /\ Cardinality(Counted) \in Nat
           /\ Cardinality(Counted) <= Len(log)
<1>1. Counted \in SUBSET DOMAIN log /\ log \in Seq(Events)
  BY DEF Counted, TypeInv, TypeOK
<1> QED
  BY <1>1, PositionsFinite

\* A poster moves by its own steps only.
LEMMA PosterMoves ==
    ASSUME TypeInv, [Next]_vars, NEW u \in Posters
    PROVE  (pc'[u] = pc[u] /\ loaded'[u] = loaded[u]) \/ PosterStep(u)
<1>1. ASSUME NEW t \in Posters, PosterStep(t), t # u PROVE pc'[u] = pc[u] /\ loaded'[u] = loaded[u]
  <2>1. pc'[u] = pc[u]
    BY <1>1, GoesOn, ThreadKinds DEF TypeInv, PosterStep, PostEmpty, Post, LoadQuarantined, StoreQuarantined,
       AppendEvent, LoadEvents, StoreEvents, ReplyPost
  <2>2. loaded'[u] = loaded[u]
    BY <1>1 DEF TypeInv, TypeOK, PosterStep, PostEmpty, Post, LoadQuarantined, StoreQuarantined,
       AppendEvent, LoadEvents, StoreEvents, ReplyPost
  <2> QED
    BY <2>1, <2>2
<1>2. ASSUME NEW t \in StatsReaders, StatsStep(t) PROVE pc'[u] = pc[u] /\ loaded'[u] = loaded[u]
  BY <1>2, GoesOn, ThreadKinds DEF TypeInv, StatsStep, GetStats, StatsOfRing, StatsEvents, StatsQuarantined
<1>3. ASSUME NEW t \in Snappers, SnapshotStep(t) PROVE pc'[u] = pc[u] /\ loaded'[u] = loaded[u]
  BY <1>3, GoesOn, ThreadKinds DEF TypeInv, SnapshotStep, PostSnapshot, SnapshotCopy, SnapshotOpen, SnapshotWrite
<1>4. Generate \/ Tick \/ Idle \/ UNCHANGED vars => pc'[u] = pc[u] /\ loaded'[u] = loaded[u]
  BY DEF Generate, Tick, Idle, vars
<1> QED
  BY <1>1, <1>2, <1>3, <1>4 DEF Next

\* The steps of a poster, as far as the counter of events sees them.
LEMMA PosterCounts ==
    ASSUME TypeInv, NEW t \in Posters, PosterStep(t)
    PROVE  \/ /\ pc[t] = "store_e" /\ pc'[t] = "reply" /\ counters'.events = loaded[t] + 1
           \/ /\ pc[t] = "load_e" /\ pc'[t] = "store_e" /\ UNCHANGED counters
              /\ loaded'[t] = counters.events
           \/ /\ pc[t] = "append" /\ pc'[t] = "load_e" /\ UNCHANGED counters
              /\ RingAppend([from |-> t, status |-> status[t]])
           \/ /\ pc[t] \in {"idle", "load_q", "store_q"} /\ counters'.events = counters.events
              /\ pc'[t] \in {"load_q", "store_q", "append", "done"}
           \/ pc[t] = "reply" /\ pc'[t] = "done" /\ UNCHANGED counters
<1>0. t \in Threads /\ TypeOK
  BY ThreadKinds DEF TypeInv
<1>1. CASE PostEmpty(t) \/ Post(t) \/ LoadQuarantined(t)
  BY <1>0, <1>1, GoesOn DEF PostEmpty, Post, LoadQuarantined
<1>2. CASE StoreQuarantined(t)
  BY <1>0, <1>2, GoesOn DEF StoreQuarantined, TypeOK, Counts
<1>3. CASE AppendEvent(t)
  BY <1>0, <1>3, GoesOn DEF AppendEvent
<1>4. CASE LoadEvents(t)
  BY <1>0, <1>4, GoesOn DEF LoadEvents, TypeOK
<1>5. CASE StoreEvents(t)
  BY <1>0, <1>5, GoesOn DEF StoreEvents, TypeOK, Counts
<1>6. CASE ReplyPost(t)
  BY <1>0, <1>6, GoesOn DEF ReplyPost
<1> QED
  BY <1>1, <1>2, <1>3, <1>4, <1>5, <1>6 DEF PosterStep

LEMMA CountedGrows ==
    ASSUME TypeInv, TypeInv', [Next]_vars
    PROVE  Counted \subseteq Counted' /\ Cardinality(Counted) <= Cardinality(Counted')
<1>1. \A u \in Posters : pc[u] \in {"reply", "done"} => pc'[u] \in {"reply", "done"}
  BY PosterMoves, PosterCounts
<1>2. ASSUME NEW i \in Counted PROVE i \in Counted'
  <2>1. i \in DOMAIN log' /\ log'[i] = log[i]
    BY <1>2, LogGrows DEF Counted
  <2>2. log[i].from \in Posters /\ pc[log[i].from] \in {"reply", "done"}
    <3>1. i \in 1..Len(log) /\ log \in Seq(Events)
      BY <1>2 DEF Counted, TypeInv, TypeOK
    <3>2. log[i] \in Events
      BY <3>1, ElementOfSeq
    <3> QED
      BY <1>2, <3>2 DEF Counted, Events
  <2> QED
    BY <1>1, <2>1, <2>2 DEF Counted
<1>3. IsFiniteSet(Counted')
  <2>1. Counted' \in SUBSET DOMAIN log' /\ log' \in Seq(Events)
    BY DEF Counted, TypeInv, TypeOK
  <2> QED
    BY <2>1, PositionsFinite
<1> QED
  BY <1>2, <1>3, CardinalityMonotonic

LEMMA CounterStep ==
    ASSUME TypeInv, TypeInv', CounterInv, [Next]_vars
    PROVE  CounterInv'
<1> DEFINE C == Cardinality(Counted)
           D == Cardinality(Counted')
<1>0. C \in Nat /\ D \in Nat /\ C <= D /\ IsFiniteSet(Counted) /\ IsFiniteSet(Counted')
  <2>1. Counted' \in SUBSET DOMAIN log' /\ log' \in Seq(Events)
    BY DEF Counted, TypeInv, TypeOK
  <2> QED
    BY <2>1, CountedFinite, CountedGrows, PositionsFinite
<1>1. counters.events <= C /\ \A t \in Posters : pc[t] = "store_e" => loaded[t] <= C
  BY DEF CounterInv
<1>2. counters.events \in Nat /\ counters'.events \in Nat /\ \A t \in Posters : loaded[t] \in Nat /\ loaded'[t] \in Nat
  BY DEF TypeInv, TypeOK, Counts
<1>3. ASSUME NEW t \in Posters, pc[t] = "store_e", pc'[t] = "reply" PROVE C + 1 <= D
  <2>1. PICK i \in DOMAIN log : log[i].from = t
    BY <1>3 DEF CounterInv
  <2>2. i \notin Counted /\ i \in Counted'
    BY <1>3, <2>1, LogGrows DEF Counted
  <2>3. Counted \cup {i} \subseteq Counted'
    BY <2>2, CountedGrows
  <2>4. Cardinality(Counted \cup {i}) = C + 1
    BY <1>0, <2>2, FS_AddElement
  <2> QED
    BY <1>0, <2>3, <2>4, CardinalityMonotonic
<1>4. counters'.events <= D
  <2>1. ASSUME NEW t \in Posters, PosterStep(t) PROVE counters'.events <= D
    <3>1. CASE pc[t] = "store_e" /\ pc'[t] = "reply" /\ counters'.events = loaded[t] + 1
      <4>1. loaded[t] <= C /\ C + 1 <= D
        BY <1>1, <1>3, <3>1
      <4> HIDE DEF C, D
      <4> QED
        BY <1>0, <1>2, <3>1, <4>1
    <3>2. CASE counters'.events = counters.events
      <4> HIDE DEF C, D
      <4> QED
        BY <1>0, <1>1, <1>2, <3>2
    <3> QED
      BY <2>1, <3>1, <3>2, PosterCounts
  <2>2. (\E t \in Posters : PosterStep(t)) \/ UNCHANGED counters
    BY DEF Next, StatsStep, GetStats, StatsOfRing, StatsEvents, StatsQuarantined, SnapshotStep, PostSnapshot,
           SnapshotCopy, SnapshotOpen, SnapshotWrite, Generate, Tick, Idle, vars
  <2> HIDE DEF C, D
  <2> QED
    BY <1>0, <1>1, <1>2, <2>1, <2>2
<1>5. ASSUME NEW t \in Posters, pc'[t] = "store_e" PROVE loaded'[t] <= D
  <2>1. loaded'[t] <= C
    <3>1. CASE pc'[t] = pc[t] /\ loaded'[t] = loaded[t]
      BY <1>1, <1>5, <3>1
    <3>2. CASE PosterStep(t)
      BY <1>1, <1>5, <3>2, PosterCounts
    <3> QED
      BY <3>1, <3>2, PosterMoves
  <2> HIDE DEF C, D
  <2> QED
    BY <1>0, <1>2, <2>1
<1>6. ASSUME NEW t \in Posters, pc'[t] \in {"load_e", "store_e"} PROVE \E i \in DOMAIN log' : log'[i].from = t
  <2>1. CASE pc[t] \in {"load_e", "store_e"}
    BY <2>1, LogGrows DEF CounterInv
  <2>2. CASE pc[t] \notin {"load_e", "store_e"}
    <3>1. RingAppend([from |-> t, status |-> status[t]])
      BY <1>6, <2>2, PosterMoves, PosterCounts
    <3>2. [from |-> t, status |-> status[t]] \in Events
      BY DEF TypeInv, TypeOK, Events
    <3>3. /\ log' \in Seq(Events) /\ Len(log') = Len(log) + 1 /\ Len(log) \in Nat
          /\ log'[Len(log) + 1] = [from |-> t, status |-> status[t]]
      BY <3>1, <3>2, RingAppendTypes DEF TypeInv, TypeOK
    <3>4. Len(log) + 1 \in DOMAIN log'
      BY <3>3
    <3> QED
      BY <3>3, <3>4
  <2> QED
    BY <2>1, <2>2
<1> QED
  BY <1>4, <1>5, <1>6 DEF CounterInv

LEMMA CounterInit == Init => CounterInv
<1> SUFFICES ASSUME Init PROVE CounterInv
  OBVIOUS
<1>1. Counted = {} /\ counters.events = 0
  BY DEF Init, Counted, NoCounts
<1>2. \A t \in Posters : pc[t] = "idle"
  BY DEF Init, Threads
<1> QED
  BY <1>1, <1>2, FS_EmptySet DEF CounterInv

-----------------------------------------------------------------------------
\* A stats thread moves by its own steps only.
LEMMA StatsMoves ==
    ASSUME TypeInv, [Next]_vars, NEW u \in StatsReaders
    PROVE  (pc'[u] = pc[u] /\ answer'[u] = answer[u] /\ ackedAtCall'[u] = ackedAtCall[u]) \/ StatsStep(u)
<1>1. ASSUME NEW t \in StatsReaders, StatsStep(t), t # u
      PROVE  pc'[u] = pc[u] /\ answer'[u] = answer[u] /\ ackedAtCall'[u] = ackedAtCall[u]
  <2>1. pc'[u] = pc[u]
    BY <1>1, GoesOn, ThreadKinds DEF TypeInv, StatsStep, GetStats, StatsOfRing, StatsEvents, StatsQuarantined
  <2>2. answer'[u] = answer[u] /\ ackedAtCall'[u] = ackedAtCall[u]
    BY <1>1 DEF TypeInv, TypeOK, StatsStep, GetStats, StatsOfRing, StatsEvents, StatsQuarantined
  <2> QED
    BY <2>1, <2>2
<1>2. ASSUME NEW t \in Posters, PosterStep(t)
      PROVE  pc'[u] = pc[u] /\ answer'[u] = answer[u] /\ ackedAtCall'[u] = ackedAtCall[u]
  BY <1>2, GoesOn, ThreadKinds DEF TypeInv, PosterStep, PostEmpty, Post, LoadQuarantined, StoreQuarantined,
     AppendEvent, LoadEvents, StoreEvents, ReplyPost
<1>3. ASSUME NEW t \in Snappers, SnapshotStep(t)
      PROVE  pc'[u] = pc[u] /\ answer'[u] = answer[u] /\ ackedAtCall'[u] = ackedAtCall[u]
  BY <1>3, GoesOn, ThreadKinds DEF TypeInv, SnapshotStep, PostSnapshot, SnapshotCopy, SnapshotOpen, SnapshotWrite
<1>4. Generate \/ Tick \/ Idle \/ UNCHANGED vars =>
        pc'[u] = pc[u] /\ answer'[u] = answer[u] /\ ackedAtCall'[u] = ackedAtCall[u]
  BY DEF Generate, Tick, Idle, vars
<1> QED
  BY <1>1, <1>2, <1>3, <1>4 DEF Next

LEMMA AnswerStep ==
    ASSUME TypeInv, TypeInv', RingInv, CounterInv, AnswerInv, [Next]_vars
    PROVE  AnswerInv'
<1>0. /\ total \in Nat /\ total' \in Nat /\ total <= total'
      /\ quarantined \in Nat /\ quarantined' \in Nat /\ quarantined <= quarantined'
  <2>1. total \in Nat /\ quarantined \in Nat
    BY DEF TypeInv, TypeOK
  <2> QED
    BY <2>1, RingSteps DEF RingAppend, ringVars
<1>1. counters.events \in Nat /\ counters.quarantined \in Nat /\ counters.events <= total
  <2>1. counters.events \in Nat /\ counters.quarantined \in Nat /\ Len(log) \in Nat
    BY DEF TypeInv, TypeOK, Counts
  <2>2. counters.events <= Cardinality(Counted) /\ Cardinality(Counted) \in Nat
        /\ Cardinality(Counted) <= Len(log)
    BY CountedFinite DEF CounterInv
  <2> QED
    BY <2>1, <2>2 DEF RingInv
<1>2. SUFFICES ASSUME NEW t \in StatsReaders
               PROVE  /\ pc'[t] = "ring" =>
                            ackedAtCall'[t].events <= total' /\ ackedAtCall'[t].quarantined <= quarantined'
                      /\ pc'[t] \in {"events", "quarantined", "done"} =>
                            /\ answer'[t].events >= ackedAtCall'[t].events
                            /\ answer'[t].quarantined >= ackedAtCall'[t].quarantined
                            /\ answer'[t].events <= total'
  BY DEF AnswerInv
<1>3. /\ answer[t].events \in Nat /\ answer[t].quarantined \in Nat
      /\ ackedAtCall[t].events \in Nat /\ ackedAtCall[t].quarantined \in Nat
  BY DEF TypeInv, TypeOK, Counts
<1>4. /\ pc[t] = "ring" => ackedAtCall[t].events <= total /\ ackedAtCall[t].quarantined <= quarantined
      /\ pc[t] \in {"events", "quarantined", "done"} =>
            /\ answer[t].events >= ackedAtCall[t].events
            /\ answer[t].quarantined >= ackedAtCall[t].quarantined
            /\ answer[t].events <= total
  BY DEF AnswerInv
<1>5. t \in Threads
  BY ThreadKinds
<1>6. CASE pc'[t] = pc[t] /\ answer'[t] = answer[t] /\ ackedAtCall'[t] = ackedAtCall[t]
  BY <1>0, <1>3, <1>4, <1>6
<1>7. CASE GetStats(t)
  <2>1. pc'[t] = "ring" /\ ackedAtCall'[t] = Acked
    BY <1>5, <1>7, GoesOn DEF GetStats, TypeInv, TypeOK
  <2>2. Acked.events \in Nat /\ Acked.quarantined \in Nat
        /\ Acked.events <= total /\ Acked.quarantined <= quarantined
    BY AckedType DEF TypeInv, RingInv, Counts
  <2> QED
    BY <1>0, <2>1, <2>2
<1>8. CASE StatsOfRing(t)
  <2>1. /\ pc[t] = "ring" /\ pc'[t] = "events" /\ ackedAtCall'[t] = ackedAtCall[t]
        /\ answer'[t] = [events |-> total, quarantined |-> quarantined]
    BY <1>5, <1>8, GoesOn DEF StatsOfRing, TypeInv, TypeOK
  <2> QED
    BY <1>0, <1>3, <1>4, <2>1
<1>9. CASE StatsEvents(t)
  <2>1. /\ pc[t] = "events" /\ pc'[t] = "quarantined" /\ ackedAtCall'[t] = ackedAtCall[t]
        /\ answer'[t].events = AtLeast(answer[t].events, counters.events)
        /\ answer'[t].quarantined = answer[t].quarantined
    BY <1>5, <1>9, GoesOn DEF StatsEvents, TypeInv, TypeOK, Counts
  <2> QED
    BY <1>0, <1>1, <1>3, <1>4, <2>1 DEF AtLeast
<1>10. CASE StatsQuarantined(t)
  <2>1. /\ pc[t] = "quarantined" /\ pc'[t] = "done" /\ ackedAtCall'[t] = ackedAtCall[t]
        /\ answer'[t].quarantined = AtLeast(answer[t].quarantined, counters.quarantined)
        /\ answer'[t].events = answer[t].events
    BY <1>5, <1>10, GoesOn DEF StatsQuarantined, TypeInv, TypeOK, Counts
  <2> QED
    BY <1>0, <1>1, <1>3, <1>4, <2>1 DEF AtLeast
<1> QED
  BY <1>6, <1>7, <1>8, <1>9, <1>10, StatsMoves DEF StatsStep

\* /stats (IngestHTTPHandler.do_GET) under any number of racing posters: although
\* "events_count += 1" loses updates, no answer reports less than had been
\* acknowledged when it was asked for, nor more than was taken in.
THEOREM StatsAreBracketed == Spec => []StatsBracketed
<1>1. Spec => []TypeInv
  BY TypeInit, TypeStep, PTL DEF Spec
<1>2. Init => RingInv /\ CounterInv /\ AnswerInv
  <2>1. ASSUME Init PROVE AnswerInv
    <3>1. \A t \in StatsReaders : pc[t] = "idle"
      BY <2>1 DEF Init, Threads
    <3> QED
      BY <3>1 DEF AnswerInv
  <2> QED
    BY <2>1, RingInit, CounterInit
<1>3. TypeInv /\ TypeInv' /\ RingInv /\ CounterInv /\ AnswerInv /\ [Next]_vars =>
        RingInv' /\ CounterInv' /\ AnswerInv'
  BY RingStep, CounterStep, AnswerStep
<1>4. TypeInv /\ RingInv /\ AnswerInv => StatsBracketed
  BY DEF RingInv, AnswerInv, StatsBracketed
<1> QED
  BY <1>1, <1>2, <1>3, <1>4, PTL DEF Spec

-----------------------------------------------------------------------------
\* A snapshot thread moves by its own steps only.
LEMMA SnapshotMoves ==
    ASSUME TypeInv, [Next]_vars, NEW u \in Snappers
    PROVE  (pc'[u] = pc[u] /\ snap'[u] = snap[u]) \/ PostSnapshot(u) \/ SnapshotCopy(u)
             \/ SnapshotOpen(u) \/ SnapshotWrite(u)
<1>1. ASSUME NEW t \in Snappers, SnapshotStep(t), t # u PROVE pc'[u] = pc[u] /\ snap'[u] = snap[u]
  <2>1. pc'[u] = pc[u]
    BY <1>1, GoesOn, ThreadKinds DEF TypeInv, SnapshotStep, PostSnapshot, SnapshotCopy, SnapshotOpen, SnapshotWrite
  <2>2. snap'[u] = snap[u]
    BY <1>1 DEF TypeInv, TypeOK, SnapshotStep, PostSnapshot, SnapshotCopy, SnapshotOpen, SnapshotWrite
  <2> QED
    BY <2>1, <2>2
<1>2. ASSUME NEW t \in Posters, PosterStep(t) PROVE pc'[u] = pc[u] /\ snap'[u] = snap[u]
  BY <1>2, GoesOn, ThreadKinds DEF TypeInv, PosterStep, PostEmpty, Post, LoadQuarantined, StoreQuarantined,
     AppendEvent, LoadEvents, StoreEvents, ReplyPost
<1>3. ASSUME NEW t \in StatsReaders, StatsStep(t) PROVE pc'[u] = pc[u] /\ snap'[u] = snap[u]
  BY <1>3, GoesOn, ThreadKinds DEF TypeInv, StatsStep, GetStats, StatsOfRing, StatsEvents, StatsQuarantined
<1>4. Generate \/ Tick \/ Idle \/ UNCHANGED vars => pc'[u] = pc[u] /\ snap'[u] = snap[u]
  BY DEF Generate, Tick, Idle, vars
<1> QED
  BY <1>1, <1>2, <1>3, <1>4 DEF Next, SnapshotStep

\* A second that is shared stays shared, and the file of a second that is not
\* changes by steps of its own thread only.
LEMMA OwnFile ==
    ASSUME TypeInv, [Next]_vars, NEW t \in Snappers, pc[t] # "idle", OwnSecond(t)'
    PROVE  /\ OwnSecond(t)
           /\ files'[snap[t].second] = files[snap[t].second] \/ SnapshotOpen(t) \/ SnapshotWrite(t)
<1>0. t \in Threads /\ snap[t].second \in 1..MaxSecond
  BY ThreadKinds DEF TypeInv, TypeOK, Snapshots
<1>1. snap'[t].second = snap[t].second
  <2>1. ~PostSnapshot(t)
    BY DEF PostSnapshot, Goes
  <2>2. SnapshotCopy(t) => snap'[t].second = snap[t].second
    BY DEF SnapshotCopy, TypeInv, TypeOK, Snapshots
  <2>3. SnapshotOpen(t) \/ SnapshotWrite(t) => snap'[t].second = snap[t].second
    BY DEF SnapshotOpen, SnapshotWrite
  <2> QED
    BY <2>1, <2>2, <2>3, SnapshotMoves
<1>2. ASSUME NEW u \in Snappers \ {t}, pc[u] # "idle" PROVE snap[u].second # snap[t].second
  <2>0. u \in Threads /\ pc'[u] # "idle" => snap'[u].second # snap'[t].second
    BY <1>2 DEF OwnSecond
  <2>1. CASE pc'[u] = pc[u] /\ snap'[u] = snap[u]
    BY <1>1, <1>2, <2>0, <2>1, ThreadKinds
  <2>2. CASE SnapshotCopy(u)
    <3>1. pc'[u] = "open" /\ snap'[u].second = snap[u].second
      BY <1>2, <2>2, GoesOn, ThreadKinds DEF SnapshotCopy, TypeInv, TypeOK, Snapshots
    <3> QED
      BY <1>1, <1>2, <2>0, <3>1, ThreadKinds
  <2>3. CASE SnapshotOpen(u) \/ SnapshotWrite(u)
    <3>1. pc'[u] \in {"write", "done"} /\ snap'[u].second = snap[u].second
      BY <1>2, <2>3, GoesOn, ThreadKinds DEF SnapshotOpen, SnapshotWrite, TypeInv
    <3> QED
      BY <1>1, <1>2, <2>0, <3>1, ThreadKinds
  <2>4. CASE PostSnapshot(u)
    BY <1>2, <2>4 DEF PostSnapshot, Goes
  <2> QED
    BY <2>1, <2>2, <2>3, <2>4, SnapshotMoves
<1>3. OwnSecond(t)
  BY <1>2 DEF OwnSecond
<1>4. ASSUME NEW u \in Snappers \ {t}, SnapshotOpen(u) \/ SnapshotWrite(u)
      PROVE  files'[snap[t].second] = files[snap[t].second]
  <2>1. pc[u] # "idle"
    BY <1>4 DEF SnapshotOpen, SnapshotWrite, Goes
  <2>2. snap[u].second # snap[t].second
    BY <1>2, <2>1
  <2> QED
    BY <1>0, <1>4, <2>2 DEF SnapshotOpen, SnapshotWrite, TypeInv, TypeOK
<1>5. (\E u \in Snappers : SnapshotOpen(u) \/ SnapshotWrite(u)) \/ UNCHANGED files
  BY DEF Next, StatsStep, GetStats, StatsOfRing, StatsEvents, StatsQuarantined, SnapshotStep, PostSnapshot,
         SnapshotCopy, Generate, Tick, Idle, vars, PosterStep, PostEmpty, Post, LoadQuarantined, StoreQuarantined,
         AppendEvent, LoadEvents, StoreEvents, ReplyPost
<1> QED
  BY <1>3, <1>4, <1>5

LEMMA SnapshotInvStep ==
    ASSUME TypeInv, TypeInv', RingInv, SnapshotInv, [Next]_vars
    PROVE  SnapshotInv'
<1> SUFFICES ASSUME NEW t \in Snappers
             PROVE  /\ snap'[t].since <= Len(log')
                    /\ pc'[t] \in {"open", "write", "done"} =>
                          \E n \in snap'[t].since..Len(log') : snap'[t].items = WindowAt(n)'
                    /\ pc'[t] = "write" /\ OwnSecond(t)' => files'[snap'[t].second] = <<>>
                    /\ pc'[t] = "done" /\ OwnSecond(t)' => files'[snap'[t].second] = snap'[t].items
  BY DEF SnapshotInv
<1>0. /\ t \in Threads /\ snap[t].since \in Nat /\ snap[t].second \in 1..MaxSecond
      /\ snap[t].items \in Seq(Events) /\ snap[t].since <= Len(log)
      /\ Len(log) \in Nat /\ Len(log') \in Nat /\ Len(log) <= Len(log')
  BY ThreadKinds, LogGrows DEF TypeInv, TypeOK, Snapshots, SnapshotInv
<1>1. ASSUME pc[t] \in {"open", "write", "done"}, snap'[t] = snap[t]
      PROVE  \E n \in snap'[t].since..Len(log') : snap'[t].items = WindowAt(n)'
  <2>1. PICK n \in snap[t].since..Len(log) : snap[t].items = WindowAt(n)
    BY <1>1 DEF SnapshotInv
  <2>2. n \in 0..Len(log) /\ n \in snap[t].since..Len(log')
    BY <1>0
  <2>3. WindowAt(n)' = WindowAt(n)
    BY <2>2, LogGrows
  <2> QED
    BY <1>1, <2>1, <2>2, <2>3
<1>2. CASE PostSnapshot(t)
  <2>1. pc'[t] = "copy" /\ snap'[t].since = Len(log)
    BY <1>0, <1>2, GoesOn DEF PostSnapshot, TypeInv, TypeOK
  <2> QED
    BY <1>0, <2>1
<1>3. CASE SnapshotCopy(t)
  <2>1. pc'[t] = "open" /\ snap'[t].since = snap[t].since /\ snap'[t].items = buffer /\ UNCHANGED log
    <3>1. pc'[t] = "open"
      BY <1>0, <1>3, GoesOn DEF SnapshotCopy, TypeInv
    <3>2. UNCHANGED log
      BY <1>3 DEF SnapshotCopy, ringVars
    <3>3. snap' = [snap EXCEPT ![t].items = buffer]
      BY <1>3 DEF SnapshotCopy
    <3>4. snap \in [Snappers -> Snapshots]
      BY DEF TypeInv, TypeOK
    <3>5. snap[t] \in Snapshots /\ snap'[t] = [snap[t] EXCEPT !.items = buffer]
      BY <3>3, <3>4
    <3>6. snap'[t].since = snap[t].since /\ snap'[t].items = buffer
      BY <3>5 DEF Snapshots
    <3> QED
      BY <3>1, <3>2, <3>6
  <2>2. SubSeq(log, 1, Len(log)) = log
    <3>1. log \in Seq(Events)
      BY DEF TypeInv, TypeOK
    <3> QED
      BY <3>1, SubSeqFull
  <2>3. buffer = WindowAt(Len(log))
    BY <2>2 DEF WindowAt, RingInv
  <2>4. buffer = WindowAt(Len(log))' /\ Len(log)' = Len(log)
    BY <2>1, <2>3 DEF WindowAt
  <2>5. \E n \in snap'[t].since..Len(log') : snap'[t].items = WindowAt(n)'
    <3>1. Len(log) \in snap'[t].since..Len(log')
      BY <1>0, <2>1
    <3>2. ASSUME NEW n, n = Len(log) PROVE WindowAt(n)' = buffer
      BY <2>1, <2>3, <3>2 DEF WindowAt
    <3> QED
      BY <2>1, <3>1, <3>2
  <2> QED
    BY <1>0, <2>1, <2>5
<1>4. CASE SnapshotOpen(t)
  <2>1. pc[t] = "open" /\ pc'[t] = "write" /\ snap'[t] = snap[t] /\ files'[snap[t].second] = <<>>
    BY <1>0, <1>4, GoesOn DEF SnapshotOpen, TypeInv, TypeOK
  <2> QED
    BY <1>0, <1>1, <2>1
<1>5. CASE SnapshotWrite(t)
  <2> DEFINE old == files[snap[t].second]
             items == snap[t].items
  <2>1. pc[t] = "write" /\ pc'[t] = "done" /\ snap'[t] = snap[t]
        /\ files'[snap[t].second] = items \o SubSeq(old, Len(items) + 1, Len(old))
    BY <1>0, <1>5, GoesOn DEF SnapshotWrite, TypeInv, TypeOK
  <2>2. ASSUME OwnSecond(t)' PROVE files'[snap[t].second] = items
    <3>1. old = <<>>
      BY <2>1, <2>2, OwnFile DEF SnapshotInv
    <3>2. items \in Seq(Events) /\ Len(items) \in Nat
      BY <1>0
    <3> HIDE DEF old, items
    <3>3. SubSeq(old, Len(items) + 1, Len(old)) = <<>>
      BY <3>1, <3>2, EmptySeq, SubSeqEmpty
    <3>4. items \o <<>> = items
      BY <3>2, ConcatEmptySeq
    <3> QED
      BY <2>1, <3>3, <3>4
  <2>3. \E n \in snap'[t].since..Len(log') : snap'[t].items = WindowAt(n)'
    BY <1>1, <2>1
  <2>4. pc'[t] = "done" /\ OwnSecond(t)' => files'[snap'[t].second] = snap'[t].items
    BY <2>1, <2>2
  <2>5. snap'[t].since <= Len(log') /\ pc'[t] # "write"
    BY <1>0, <2>1
  <2> QED
    BY <2>3, <2>4, <2>5
<1>6. CASE pc'[t] = pc[t] /\ snap'[t] = snap[t]
  <2>1. ASSUME pc[t] \in {"write", "done"}, OwnSecond(t)'
        PROVE  OwnSecond(t) /\ files'[snap[t].second] = files[snap[t].second]
    <3>1. ~SnapshotOpen(t) /\ ~SnapshotWrite(t)
      <4>1. SnapshotOpen(t) => pc[t] = "open" /\ pc'[t] = "write"
        BY <1>0, GoesOn DEF SnapshotOpen, TypeInv
      <4>2. SnapshotWrite(t) => pc[t] = "write" /\ pc'[t] = "done"
        BY <1>0, GoesOn DEF SnapshotWrite, TypeInv
      <4> QED
        BY <1>6, <4>1, <4>2
    <3> QED
      BY <2>1, <3>1, OwnFile
  <2>2. pc[t] = "write" /\ OwnSecond(t)' => files'[snap[t].second] = <<>>
    BY <2>1 DEF SnapshotInv
  <2>3. pc[t] = "done" /\ OwnSecond(t)' => files'[snap[t].second] = snap[t].items
    BY <2>1 DEF SnapshotInv
  <2> QED
    BY <1>0, <1>1, <1>6, <2>2, <2>3
<1> QED
  BY <1>2, <1>3, <1>4, <1>5, <1>6, SnapshotMoves

\* POST /api/v1/events/snapshot (IngestHTTPHandler.do_POST) for any capacity and any
\* number of threads: the file of an answered request, unless another request of
\* the same second used it, is the sliding window at one moment of the request.
THEOREM SnapshotsAreWindows == Spec => []SnapshotIsWindow
<1>1. Spec => []TypeInv
  BY TypeInit, TypeStep, PTL DEF Spec
<1>2. Init => RingInv /\ SnapshotInv
  <2>1. ASSUME Init PROVE SnapshotInv
    <3>1. \A t \in Snappers : pc[t] = "idle" /\ snap[t].since = 0
      BY <2>1 DEF Init, Threads
    <3>2. Len(log) = 0
      BY <2>1 DEF Init
    <3> QED
      BY <3>1, <3>2 DEF SnapshotInv
  <2> QED
    BY <2>1, RingInit
<1>3. TypeInv /\ TypeInv' /\ RingInv /\ SnapshotInv /\ [Next]_vars => RingInv' /\ SnapshotInv'
  BY RingStep, SnapshotInvStep
<1>4. SnapshotInv => SnapshotIsWindow
  BY DEF SnapshotInv, SnapshotIsWindow
<1> QED
  BY <1>1, <1>2, <1>3, <1>4, PTL DEF Spec
=============================================================================
