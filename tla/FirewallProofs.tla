--------------------------- MODULE FirewallProofs ---------------------------
(***************************************************************************)
(* The firewall's token walk agrees with the decoder, and its limits hold, *)
(* for every value of the limits and documents of any length.              *)
(***************************************************************************)
EXTENDS Firewall, SequenceTheorems, TLAPS

USE FirewallAssumption

Frame == {"key", "value", "elem"}

\* What the input has held so far is within the limits.
SeenWithin ==
    /\ seen.deepest <= MaxStructuralNesting
    /\ seen.keys <= MaxParsedFields
    /\ seen.longest <= MaxKeyLength

\* The event has passed the checks before the structural one.
Prechecked == payload.size <= MaxRawSizeBytes /\ (EnforceUTF8 => payload.utf8) /\ ~payload.cancelled

\* The walk over words has no containers.
KVWalk ==
    /\ depth = 0 /\ stack = <<>> /\ frames = <<>> /\ expectKey = FALSE
    /\ fieldCount = seen.keys

FirewallInv ==
    /\ TypeOK
    /\ mode # "done" => decision = "NONE"
    /\ mode = "inspect" => KVWalk /\ seen = Nothing
    /\ mode = "kv" => KVWalk
    /\ mode \in {"json", "kv"} => Prechecked /\ SeenWithin
    /\ WalkTracksDecoder
    /\ AcceptedWithinLimits
    /\ ViolationIsReal

-----------------------------------------------------------------------------
\* The end of a value in an object makes room for a key, and changes nothing else.
LEMMA ValueEndsProps ==
    ASSUME NEW f \in Seq(Frame)
    PROVE  /\ ValueEnds(f) \in Seq(Frame)
           /\ Len(ValueEnds(f)) = Len(f)
           /\ \A i \in 1..Len(f) : ValueEnds(f)[i] = "elem" <=> f[i] = "elem"
           /\ f # <<>> => (ValueEnds(f)[Len(f)] = "key" <=> f[Len(f)] # "elem")
<1>1. CASE f # <<>> /\ Top(f) = "value"
  <2>1. Len(f) \in 1..Len(f)
    BY <1>1, EmptySeq
  <2>2. ValueEnds(f) = [f EXCEPT ![Len(f)] = "key"]
    BY <1>1 DEF ValueEnds
  <2>3. "key" \in Frame
    BY DEF Frame
  <2>4. /\ ValueEnds(f) \in Seq(Frame)
        /\ Len(ValueEnds(f)) = Len(f)
        /\ \A j \in 1..Len(f) : ValueEnds(f)[j] = IF j = Len(f) THEN "key" ELSE f[j]
    BY <2>1, <2>2, <2>3, ExceptSeq
  <2> QED
    BY <1>1, <2>1, <2>4 DEF Top
<1>2. CASE ~(f # <<>> /\ Top(f) = "value")
  <2>1. ValueEnds(f) = f
    BY <1>2 DEF ValueEnds
  <2>2. ASSUME f # <<>> PROVE f[Len(f)] \in Frame \ {"value"}
    <3>1. Len(f) \in 1..Len(f)
      BY <2>2, EmptySeq
    <3>2. f[Len(f)] \in Frame
      BY <3>1, ElementOfSeq
    <3> QED
      BY <1>2, <2>2, <3>2 DEF Top
  <2> QED
    BY <2>1, <2>2 DEF Frame
<1> QED
  BY <1>1, <1>2

\* A sequence without its last element.
LEMMA FrontProps ==
    ASSUME NEW S, NEW s \in Seq(S), s # <<>>
    PROVE  /\ Front(s) \in Seq(S)
           /\ Len(Front(s)) = Len(s) - 1
           /\ \A i \in 1..(Len(s) - 1) : Front(s)[i] = s[i]
<1> DEFINE n == Len(s) - 1
<1>1. n \in Nat /\ \A i \in 1..n : s[i] \in S
  BY EmptySeq, ElementOfSeq
<1> HIDE DEF n
<1>2. /\ SubSeq(s, 1, n) \in Seq(S)
      /\ Len(SubSeq(s, 1, n)) = IF 1 <= n THEN n - 1 + 1 ELSE 0
      /\ \A i \in 1..(n - 1 + 1) : SubSeq(s, 1, n)[i] = s[1 + i - 1]
  BY <1>1, SubSeqProperties
<1>3. /\ Len(SubSeq(s, 1, n)) = n
      /\ \A i \in 1..n : SubSeq(s, 1, n)[i] = s[i]
  <2>1. n - 1 + 1 = n /\ (~(1 <= n) => n = 0) /\ \A i \in 1..n : 1 + i - 1 = i
    BY <1>1
  <2> QED
    BY <1>2, <2>1, Zenon
<1>4. Front(s) = SubSeq(s, 1, n)
  BY DEF Front, n
<1> QED
  BY <1>2, <1>3, <1>4, Zenon DEF n

\* The larger of two numbers, in the records of what was seen.
LEMMA LargerProps ==
    ASSUME NEW a \in Nat, NEW b \in Nat
    PROVE  /\ Larger(a, b) \in Nat /\ Larger(a, b) >= b
           /\ \A m \in Nat : a <= m /\ b <= m => Larger(a, b) <= m
  BY DEF Larger

LEMMA SeenDeeper ==
    ASSUME seen \in [keys : Nat, longest : Nat, deepest : Nat], NEW n \in Nat,
           seen' = [seen EXCEPT !.deepest = Larger(@, n)]
    PROVE  /\ seen' \in [keys : Nat, longest : Nat, deepest : Nat]
           /\ seen'.keys = seen.keys /\ seen'.longest = seen.longest
           /\ seen'.deepest >= n
           /\ \A m \in Nat : seen.deepest <= m /\ n <= m => seen'.deepest <= m
<1>1. Larger(seen.deepest, n) \in Nat /\ Larger(seen.deepest, n) >= n
  BY LargerProps
<1>2. seen'.deepest = Larger(seen.deepest, n)
  OBVIOUS
<1>3. \A m \in Nat : seen.deepest <= m /\ n <= m => seen'.deepest <= m
  BY <1>2, LargerProps
<1> QED
  BY <1>1, <1>2, <1>3

LEMMA SeenKey ==
    ASSUME seen \in [keys : Nat, longest : Nat, deepest : Nat], NEW n \in Nat,
           seen' = [seen EXCEPT !.keys = @ + 1, !.longest = Larger(@, n)]
    PROVE  /\ seen' \in [keys : Nat, longest : Nat, deepest : Nat]
           /\ seen'.keys = seen.keys + 1 /\ seen'.deepest = seen.deepest
           /\ seen'.longest >= n
           /\ \A m \in Nat : seen.longest <= m /\ n <= m => seen'.longest <= m
<1>1. Larger(seen.longest, n) \in Nat /\ Larger(seen.longest, n) >= n
  BY LargerProps
<1>2. seen'.longest = Larger(seen.longest, n)
  OBVIOUS
<1>3. \A m \in Nat : seen.longest <= m /\ n <= m => seen'.longest <= m
  BY <1>2, LargerProps
<1>4. seen'.keys = seen.keys + 1 /\ seen'.deepest = seen.deepest
  OBVIOUS
<1>5. seen' \in [keys : Nat, longest : Nat, deepest : Nat]
  <2> DEFINE l == Larger(seen.longest, n)
  <2>1. seen' = [keys |-> seen.keys + 1, longest |-> l, deepest |-> seen.deepest]
    OBVIOUS
  <2>2. seen.keys + 1 \in Nat /\ l \in Nat /\ seen.deepest \in Nat
    BY <1>1
  <2> HIDE DEF l
  <2> QED
    BY <2>1, <2>2
<1> QED
  BY <1>1, <1>2, <1>3, <1>4, <1>5

\* In the JSON walk the stack has an object exactly where a key may come.
LEMMA TopMatches ==
    ASSUME FirewallInv, mode = "json"
    PROVE  /\ frames # <<>> <=> stack # <<>>
           /\ frames # <<>> => Len(frames) \in 1..Len(frames) /\ Top(frames) \in Frame
           /\ frames # <<>> => (InObject <=> Top(frames) # "elem")
           /\ frames = <<>> => ~InObject
           /\ AtKey => InObject
<1>1. frames \in Seq(Frame) /\ stack \in Seq(Containers) /\ Len(stack) = Len(frames)
  BY DEF FirewallInv, TypeOK, WalkTracksDecoder, Frame
<1>2. (frames # <<>> => Len(frames) \in Nat \ {0}) /\ (stack # <<>> => Len(stack) \in Nat \ {0})
  BY <1>1, EmptySeq
<1>3. Len(<<>>) = 0
  OBVIOUS
<1>4. frames # <<>> <=> stack # <<>>
  BY <1>1, <1>2, <1>3
<1>5. ASSUME frames # <<>>
      PROVE  /\ Len(frames) \in 1..Len(frames) /\ Top(frames) \in Frame
             /\ InObject <=> Top(frames) # "elem"
  <2>1. Len(frames) \in 1..Len(frames)
    BY <1>2, <1>5
  <2>2. Top(frames) \in Frame /\ Top(stack) \in Containers
    BY <1>1, <2>1, ElementOfSeq DEF Top
  <2>3. Top(stack) = "array" <=> Top(frames) = "elem"
    BY <1>1, <2>1 DEF FirewallInv, WalkTracksDecoder, Top
  <2> QED
    BY <1>4, <1>5, <2>1, <2>2, <2>3 DEF InObject, Containers
<1> QED
  BY <1>4, <1>5 DEF InObject, AtKey

-----------------------------------------------------------------------------
LEMMA FirewallInit ==
    Init => FirewallInv
<1> SUFFICES ASSUME Init PROVE FirewallInv
  OBVIOUS
<1>1. TypeOK
  <2>1. payload \in Payloads /\ mode \in {"inspect", "json", "kv", "done"} /\ decision \in {"NONE", "ACCEPTED"} \cup Codes
    BY DEF Init
  <2>2. depth \in 0..(MaxStructuralNesting + 1) /\ fieldCount \in 0..(MaxParsedFields + 1)
    BY DEF Init
  <2>3. stack \in Seq(Containers) /\ Len(stack) <= MaxStructuralNesting /\ frames \in Seq({"key", "value", "elem"})
    BY EmptySeq DEF Init
  <2>4. seen \in [keys : Nat, longest : Nat, deepest : Nat] /\ expectKey \in BOOLEAN
    BY DEF Init, Nothing
  <2> QED
    BY <2>1, <2>2, <2>3, <2>4 DEF TypeOK
<1> QED
  BY <1>1 DEF Init, FirewallInv, Nothing, KVWalk, WalkTracksDecoder, AcceptedWithinLimits, ViolationIsReal

LEMMA InspectStep ==
    ASSUME FirewallInv, Inspect
    PROVE  FirewallInv'
<1> USE DEF Inspect, FirewallInv, Decide
<1>1. payload \in Payloads /\ seen = Nothing /\ KVWalk
  BY DEF TypeOK
<1>2. Precheck(payload) = "NONE" => Prechecked
  <2>1. Precheck(payload) = "NONE" => ~payload.cancelled /\ ~(payload.size > MaxRawSizeBytes) /\ (EnforceUTF8 => payload.utf8)
    BY Zenon DEF Precheck
  <2>2. payload.size \in Nat
    BY <1>1 DEF Payloads
  <2>3. ~(payload.size > MaxRawSizeBytes) => payload.size <= MaxRawSizeBytes
    BY <2>2
  <2> QED
    BY <2>1, <2>3, Zenon DEF Prechecked
<1>3. Precheck(payload) \in Codes \cup {"NONE"}
  BY DEF Precheck, Codes
<1>4. TypeOK'
  BY <1>1, <1>3 DEF TypeOK, Payloads, walk
<1>5. SeenWithin' /\ KVWalk' /\ seen' = Nothing
  BY <1>1 DEF SeenWithin, KVWalk, Nothing, walk
<1>6. WalkTracksDecoder'
  BY <1>5 DEF WalkTracksDecoder, KVWalk, AtKey
<1>7. AcceptedWithinLimits'
  <2>1. Precheck(payload) # "ACCEPTED"
    BY DEF Precheck
  <2> QED
    BY <1>2, <1>5, <2>1 DEF AcceptedWithinLimits, SeenWithin, Prechecked
<1>8. ViolationIsReal'
  BY DEF ViolationIsReal, Precheck
<1> QED
  BY <1>2, <1>4, <1>5, <1>6, <1>7, <1>8 DEF Payloads, Prechecked

-----------------------------------------------------------------------------
\* A container opens.
LEMMA OpenStep ==
    ASSUME FirewallInv, NEW c \in Containers, Open(c)
    PROVE  FirewallInv'
<1> USE DEF Open, GoOn, DecodeOpen
<1> DEFINE f == IF c = "object" THEN "key" ELSE "elem"
<1>1. /\ mode = "json" /\ mode' = "json" /\ decision = "NONE" /\ decision' = decision /\ payload' = payload
      /\ frames \in Seq(Frame) /\ stack \in Seq(Containers) /\ f \in Frame
      /\ depth = Len(frames) /\ Len(stack) = Len(frames) /\ Len(frames) \in Nat
      /\ seen \in [keys : Nat, longest : Nat, deepest : Nat]
  BY DEF FirewallInv, TypeOK, WalkTracksDecoder, Frame
<1>2. /\ frames' \in Seq(Frame) /\ frames' # <<>> /\ Len(frames') = Len(frames) + 1
      /\ \A i \in 1..Len(frames) : frames'[i] = frames[i]
      /\ frames'[Len(frames) + 1] = f
  BY <1>1, AppendProperties
<1>3. /\ stack' \in Seq(Containers) /\ Len(stack') = Len(frames) + 1
      /\ \A i \in 1..Len(frames) : stack'[i] = stack[i]
      /\ stack'[Len(frames) + 1] = c
  BY <1>1, AppendProperties
<1>4. /\ seen' \in [keys : Nat, longest : Nat, deepest : Nat]
      /\ seen'.keys = seen.keys /\ seen'.longest = seen.longest
      /\ seen'.deepest <= MaxStructuralNesting
  <2>1. Len(frames) + 1 \in Nat /\ Len(frames) + 1 <= MaxStructuralNesting /\ seen.deepest <= MaxStructuralNesting
    BY <1>1 DEF FirewallInv, SeenWithin
  <2> QED
    BY <1>1, <2>1, SeenDeeper
<1>5. TypeOK'
  BY <1>1, <1>2, <1>3, <1>4 DEF FirewallInv, TypeOK, Frame
<1>6. WalkTracksDecoder'
  <2>1. \A i \in 1..Len(frames') : stack'[i] = "array" <=> frames'[i] = "elem"
    <3>1. stack'[Len(frames) + 1] = "array" <=> frames'[Len(frames) + 1] = "elem"
      BY <1>2, <1>3 DEF Containers
    <3>2. \A i \in 1..Len(frames) : stack[i] = "array" <=> frames[i] = "elem"
      BY <1>1 DEF FirewallInv, WalkTracksDecoder
    <3>3. \A i \in 1..Len(frames') : i \in 1..Len(frames) \/ i = Len(frames) + 1
      BY <1>1, <1>2
    <3> QED
      BY <1>2, <1>3, <3>1, <3>2, <3>3, Zenon
  <2>2. expectKey' <=> AtKey'
    <3>1. AtKey' <=> f = "key"
      BY <1>1, <1>2 DEF AtKey, Top
    <3> QED
      BY <3>1
  <2>3. depth' = Len(frames') /\ Len(stack') = Len(frames') /\ fieldCount' = seen'.keys
    BY <1>1, <1>2, <1>3, <1>4 DEF FirewallInv, WalkTracksDecoder
  <2> QED
    BY <2>1, <2>2, <2>3 DEF WalkTracksDecoder
<1> QED
  BY <1>1, <1>4, <1>5, <1>6
  DEF FirewallInv, Prechecked, SeenWithin, AcceptedWithinLimits, ViolationIsReal

LEMMA OpenTooDeepStep ==
    ASSUME FirewallInv, NEW c \in Containers, OpenTooDeep(c)
    PROVE  FirewallInv'
<1> USE DEF OpenTooDeep, Decide, DecodeOpen
<1> DEFINE f == IF c = "object" THEN "key" ELSE "elem"
<1>1. /\ mode = "json" /\ mode' = "done" /\ decision' = "ERR_NESTING_EXCEEDED" /\ payload' = payload
      /\ frames \in Seq(Frame) /\ f \in Frame
      /\ depth = Len(frames) /\ Len(stack) = Len(frames) /\ Len(frames) \in Nat
      /\ seen \in [keys : Nat, longest : Nat, deepest : Nat]
  BY DEF FirewallInv, TypeOK, WalkTracksDecoder, Frame
<1>2. frames' \in Seq(Frame)
  BY <1>1, AppendProperties
<1>3. /\ seen' \in [keys : Nat, longest : Nat, deepest : Nat]
      /\ seen'.deepest > MaxStructuralNesting
  <2>1. Len(frames) + 1 \in Nat /\ Len(frames) + 1 > MaxStructuralNesting
    BY <1>1
  <2>2. seen' \in [keys : Nat, longest : Nat, deepest : Nat] /\ seen'.deepest >= Len(frames) + 1
    BY <1>1, <2>1, SeenDeeper
  <2> QED
    BY <2>1, <2>2
<1>4. depth' \in 0..(MaxStructuralNesting + 1)
  BY <1>1 DEF FirewallInv, TypeOK
<1>5. TypeOK'
  BY <1>1, <1>2, <1>3, <1>4 DEF FirewallInv, TypeOK, Frame, Codes
<1> QED
  BY <1>1, <1>3, <1>5 DEF FirewallInv, WalkTracksDecoder, AcceptedWithinLimits, ViolationIsReal

\* The last value of a container ends, or a value that is no container.
LEMMA CloseStep ==
    ASSUME FirewallInv, Close
    PROVE  FirewallInv'
<1> USE DEF Close, GoOn, DecodeClose
<1>1. /\ mode = "json" /\ mode' = "json" /\ decision' = decision /\ payload' = payload
      /\ frames \in Seq(Frame) /\ stack \in Seq(Containers) /\ frames # <<>> /\ stack # <<>>
      /\ depth = Len(frames) /\ Len(stack) = Len(frames) /\ Len(frames) \in Nat \ {0}
      /\ \A i \in 1..Len(frames) : stack[i] = "array" <=> frames[i] = "elem"
  <2>1. stack # <<>>
    BY TopMatches
  <2> QED
    BY <2>1, EmptySeq DEF FirewallInv, TypeOK, WalkTracksDecoder, Frame
<1> DEFINE g == Front(frames)
<1>2. /\ g \in Seq(Frame) /\ Len(g) = Len(frames) - 1
      /\ \A i \in 1..(Len(frames) - 1) : g[i] = frames[i]
  BY <1>1, FrontProps
<1>3. /\ stack' \in Seq(Containers) /\ Len(stack') = Len(frames) - 1
      /\ \A i \in 1..(Len(frames) - 1) : stack'[i] = stack[i]
  BY <1>1, FrontProps
<1> HIDE DEF g
<1>4. /\ frames' \in Seq(Frame) /\ Len(frames') = Len(frames) - 1
      /\ \A i \in 1..Len(g) : frames'[i] = "elem" <=> g[i] = "elem"
      /\ g # <<>> => (frames'[Len(g)] = "key" <=> g[Len(g)] # "elem")
  BY <1>2, ValueEndsProps DEF g
<1>5. TypeOK'
  BY <1>1, <1>3, <1>4 DEF FirewallInv, TypeOK, Frame
<1>6. WalkTracksDecoder'
  <2>1. \A i \in 1..Len(frames') : stack'[i] = "array" <=> frames'[i] = "elem"
    <3>1. \A i \in 1..Len(frames') : i \in 1..(Len(frames) - 1) /\ i \in 1..Len(g) /\ i \in 1..Len(frames)
      BY <1>1, <1>2, <1>4
    <3> QED
      BY <1>1, <1>2, <1>3, <1>4, <3>1, Zenon
  <2>2. depth' = Len(frames') /\ Len(stack') = Len(frames') /\ fieldCount' = seen'.keys
    BY <1>1, <1>3, <1>4 DEF FirewallInv, WalkTracksDecoder
  <2>3. CASE Len(frames) = 1
    <3>1. stack' = <<>> /\ frames' = <<>>
      BY <1>3, <1>4, <2>3, EmptySeq
    <3> QED
      BY <2>1, <2>2, <3>1 DEF WalkTracksDecoder, AtKey
  <2>4. CASE Len(frames) # 1
    <3>1. /\ Len(frames) - 1 \in 1..(Len(frames) - 1) /\ Len(g) = Len(frames) - 1
          /\ Len(frames') = Len(g) /\ Len(stack') = Len(g)
          /\ Len(g) \in 1..Len(frames) /\ Len(g) \in 1..Len(g)
      BY <1>1, <1>2, <1>3, <1>4, <2>4
    <3>2. g # <<>> /\ stack' # <<>> /\ frames' # <<>>
      BY <3>1
    <3>3. stack'[Len(g)] \in Containers
      BY <1>3, <3>1, ElementOfSeq
    <3>4. stack'[Len(g)] = "array" <=> g[Len(g)] = "elem"
      BY <1>1, <1>2, <1>3, <3>1
    <3>5. stack'[Len(g)] = "object" <=> frames'[Len(g)] = "key"
      BY <1>4, <3>2, <3>3, <3>4 DEF Containers
    <3>6. expectKey' <=> stack'[Len(g)] = "object"
      BY <3>1, <3>2 DEF Top
    <3>7. AtKey' <=> frames'[Len(g)] = "key"
      BY <3>1, <3>2 DEF AtKey, Top
    <3> QED
      BY <2>1, <2>2, <3>5, <3>6, <3>7 DEF WalkTracksDecoder
  <2> QED
    BY <2>3, <2>4
<1> QED
  BY <1>1, <1>5, <1>6
  DEF FirewallInv, Prechecked, SeenWithin, AcceptedWithinLimits, ViolationIsReal

\* A value that is no container ends: Scalar and StringValue.
LEMMA ValueStep ==
    ASSUME FirewallInv, mode = "json", GoOn, ScalarAllowed, frames' = ValueEnds(frames),
           UNCHANGED <<depth, fieldCount, stack, seen>>, expectKey' = (expectKey \/ InObject)
    PROVE  FirewallInv'
<1> USE DEF GoOn
<1>1. /\ mode' = "json" /\ decision' = decision /\ payload' = payload
      /\ frames \in Seq(Frame) /\ stack \in Seq(Containers)
      /\ depth = Len(frames) /\ Len(stack) = Len(frames) /\ Len(frames) \in Nat
      /\ \A i \in 1..Len(frames) : stack[i] = "array" <=> frames[i] = "elem"
      /\ fieldCount = seen.keys
  BY DEF FirewallInv, TypeOK, WalkTracksDecoder, Frame
<1>2. /\ frames' \in Seq(Frame) /\ Len(frames') = Len(frames)
      /\ \A i \in 1..Len(frames) : frames'[i] = "elem" <=> frames[i] = "elem"
      /\ frames # <<>> => (frames'[Len(frames)] = "key" <=> frames[Len(frames)] # "elem")
  BY <1>1, ValueEndsProps
<1>3. ~expectKey
  BY DEF FirewallInv, WalkTracksDecoder, ScalarAllowed
<1>4. TypeOK'
  BY <1>1, <1>2 DEF FirewallInv, TypeOK, Frame
<1>5. WalkTracksDecoder'
  <2>1. expectKey' <=> AtKey'
    <3>1. CASE frames = <<>>
      <4>1. frames' = <<>>
        BY <1>1, <1>2, <3>1, EmptySeq
      <4> QED
        BY <1>3, <3>1, <4>1, TopMatches DEF AtKey
    <3>2. CASE frames # <<>>
      <4>1. frames' # <<>> /\ (InObject <=> Top(frames) # "elem")
        BY <1>1, <1>2, <3>2, TopMatches
      <4> QED
        BY <1>2, <1>3, <3>2, <4>1 DEF AtKey, Top
    <3> QED
      BY <3>1, <3>2
  <2> QED
    BY <1>1, <1>2, <2>1 DEF WalkTracksDecoder
<1> QED
  BY <1>1, <1>4, <1>5
  DEF FirewallInv, Prechecked, SeenWithin, AcceptedWithinLimits, ViolationIsReal

LEMMA ScalarStep ==
    ASSUME FirewallInv, Scalar
    PROVE  FirewallInv'
  BY ValueStep DEF Scalar

LEMMA StringValueStep ==
    ASSUME FirewallInv, NEW n \in KeyLengths, StringValue(n)
    PROVE  FirewallInv'
<1>1. ~AtKey
  BY TopMatches DEF StringValue, FirewallInv, WalkTracksDecoder
<1> QED
  BY <1>1, ValueStep DEF StringValue, DecodeString

\* A key: expected by the walk, so one for the decoder.
LEMMA KeyStep ==
    ASSUME FirewallInv, NEW n \in KeyLengths, Key(n)
    PROVE  FirewallInv'
<1> USE DEF Key, GoOn, DecodeString
<1>1. /\ mode = "json" /\ mode' = "json" /\ decision' = decision /\ payload' = payload
      /\ frames \in Seq(Frame) /\ n \in Nat /\ "value" \in Frame
      /\ depth = Len(frames) /\ Len(stack) = Len(frames) /\ Len(frames) \in Nat
      /\ \A i \in 1..Len(frames) : stack[i] = "array" <=> frames[i] = "elem"
      /\ seen \in [keys : Nat, longest : Nat, deepest : Nat] /\ fieldCount = seen.keys
  BY DEF FirewallInv, TypeOK, WalkTracksDecoder, Frame
<1>2. AtKey
  BY DEF FirewallInv, WalkTracksDecoder
<1>3. /\ Len(frames) \in 1..Len(frames)
      /\ frames' = [frames EXCEPT ![Len(frames)] = "value"]
      /\ seen' = [seen EXCEPT !.keys = @ + 1, !.longest = Larger(@, n)]
  BY <1>2, TopMatches DEF AtKey, ScalarAllowed
<1>4. /\ frames' \in Seq(Frame) /\ Len(frames') = Len(frames)
      /\ \A j \in 1..Len(frames) : frames'[j] = IF j = Len(frames) THEN "value" ELSE frames[j]
  BY <1>1, <1>3, ExceptSeq
<1>5. /\ seen' \in [keys : Nat, longest : Nat, deepest : Nat]
      /\ seen'.keys = fieldCount + 1 /\ seen'.deepest = seen.deepest
      /\ seen'.longest <= MaxKeyLength
  BY <1>1, <1>3, SeenKey DEF FirewallInv, SeenWithin
<1>6. TypeOK'
  <2>1. fieldCount' \in 0..(MaxParsedFields + 1)
    BY <1>1
  <2>2. UNCHANGED <<depth, stack>> /\ expectKey' = FALSE
    OBVIOUS
  <2> QED
    BY <1>1, <1>4, <1>5, <2>1, <2>2 DEF FirewallInv, TypeOK, Frame
<1>7. WalkTracksDecoder'
  <2>1. frames[Len(frames)] = "key"
    BY <1>2 DEF AtKey, Top
  <2>2. \A i \in 1..Len(frames') : stack'[i] = "array" <=> frames'[i] = "elem"
    BY <1>1, <1>3, <1>4, <2>1
  <2>3. ~AtKey'
    BY <1>3, <1>4 DEF AtKey, Top
  <2> QED
    BY <1>1, <1>4, <1>5, <2>2, <2>3 DEF WalkTracksDecoder
<1>8. SeenWithin' /\ Prechecked'
  BY <1>1, <1>5 DEF FirewallInv, SeenWithin, Prechecked
<1> QED
  BY <1>1, <1>6, <1>7, <1>8
  DEF FirewallInv, AcceptedWithinLimits, ViolationIsReal

\* A key that is too long, or one too many.
LEMMA KeyRefused ==
    ASSUME FirewallInv, NEW n \in KeyLengths, KeyTooLong(n) \/ TooManyKeys(n)
    PROVE  FirewallInv'
<1>1. /\ mode = "json" /\ mode' = "done" /\ payload' = payload
      /\ decision' \in {"ERR_KEY_TOO_LONG", "ERR_FIELD_LIMIT_EXCEEDED"}
      /\ UNCHANGED <<depth, stack, expectKey>>
      /\ frames \in Seq(Frame) /\ n \in Nat /\ "value" \in Frame
      /\ seen \in [keys : Nat, longest : Nat, deepest : Nat] /\ fieldCount = seen.keys
      /\ DecodeString(n) /\ expectKey
  BY DEF KeyTooLong, TooManyKeys, Decide, walk, FirewallInv, TypeOK, WalkTracksDecoder, Frame
<1>2. AtKey
  BY <1>1 DEF FirewallInv, WalkTracksDecoder
<1>3. /\ Len(frames) \in 1..Len(frames)
      /\ frames' = [frames EXCEPT ![Len(frames)] = "value"]
      /\ seen' = [seen EXCEPT !.keys = @ + 1, !.longest = Larger(@, n)]
  BY <1>1, <1>2, TopMatches DEF AtKey, ScalarAllowed, DecodeString
<1>4. frames' \in Seq(Frame)
  BY <1>1, <1>3, ExceptSeq
<1>5. /\ seen' \in [keys : Nat, longest : Nat, deepest : Nat]
      /\ seen'.keys = fieldCount + 1 /\ seen'.longest >= n
  BY <1>1, <1>3, SeenKey
<1>6. CASE KeyTooLong(n)
  <2>1. UNCHANGED fieldCount /\ decision' = "ERR_KEY_TOO_LONG" /\ seen'.longest > MaxKeyLength
    BY <1>1, <1>5, <1>6 DEF KeyTooLong, Decide, walk
  <2>2. TypeOK'
    BY <1>1, <1>4, <1>5, <2>1 DEF FirewallInv, TypeOK, Frame, Codes
  <2> QED
    BY <1>1, <2>1, <2>2 DEF FirewallInv, WalkTracksDecoder, AcceptedWithinLimits, ViolationIsReal
<1>7. CASE TooManyKeys(n)
  <2>1. /\ fieldCount' = fieldCount + 1 /\ decision' = "ERR_FIELD_LIMIT_EXCEEDED"
        /\ seen'.keys > MaxParsedFields
    BY <1>1, <1>5, <1>7 DEF TooManyKeys, Decide
  <2>2. fieldCount' \in 0..(MaxParsedFields + 1)
    BY <1>1, <2>1 DEF FirewallInv, SeenWithin
  <2>3. TypeOK'
    BY <1>1, <1>4, <1>5, <2>1, <2>2 DEF FirewallInv, TypeOK, Frame, Codes
  <2> QED
    BY <1>1, <2>1, <2>3 DEF FirewallInv, WalkTracksDecoder, AcceptedWithinLimits, ViolationIsReal
<1> QED
  BY <1>1, <1>6, <1>7

\* The end of the input and a syntax error leave the walk alone.
LEMMA EndStep ==
    ASSUME FirewallInv, SyntaxError \/ EndOfJSON \/ EndOfKV
    PROVE  FirewallInv'
<1>1. /\ mode \in {"json", "kv"} /\ mode' = "done" /\ decision' \in {"ERR_INVALID_ENCODING", "ACCEPTED"}
      /\ UNCHANGED <<payload, depth, fieldCount, stack, expectKey, frames, seen>>
  BY DEF SyntaxError, EndOfJSON, EndOfKV, Decide, walk
<1>2. Prechecked /\ SeenWithin
  BY <1>1 DEF FirewallInv
<1>3. TypeOK'
  BY <1>1 DEF FirewallInv, TypeOK, Codes
<1> QED
  BY <1>1, <1>2, <1>3
  DEF FirewallInv, WalkTracksDecoder, Prechecked, SeenWithin, AcceptedWithinLimits, ViolationIsReal

LEMMA KVPairStep ==
    ASSUME FirewallInv, NEW n \in KeyLengths, KVPair(n)
    PROVE  FirewallInv'
<1>1. /\ mode = "kv" /\ KVWalk /\ n \in Nat /\ fieldCount' = fieldCount + 1
      /\ seen \in [keys : Nat, longest : Nat, deepest : Nat]
      /\ seen' = [seen EXCEPT !.keys = @ + 1, !.longest = Larger(@, n)]
      /\ UNCHANGED <<payload, depth, stack, expectKey, frames>>
      /\ Prechecked /\ SeenWithin /\ fieldCount = seen.keys
  BY DEF KVPair, KVSeen, FirewallInv, TypeOK, KVWalk
<1>2. /\ seen' \in [keys : Nat, longest : Nat, deepest : Nat]
      /\ seen'.keys = fieldCount + 1 /\ seen'.deepest = seen.deepest
      /\ seen'.longest >= n /\ (n <= MaxKeyLength => seen'.longest <= MaxKeyLength)
  BY <1>1, SeenKey DEF SeenWithin
<1>3. fieldCount' \in 0..(MaxParsedFields + 1)
  BY <1>1 DEF SeenWithin
<1>4. \/ n > MaxKeyLength /\ mode' = "done" /\ decision' = "ERR_KEY_TOO_LONG"
      \/ fieldCount + 1 > MaxParsedFields /\ mode' = "done" /\ decision' = "ERR_FIELD_LIMIT_EXCEEDED"
      \/ n <= MaxKeyLength /\ fieldCount + 1 <= MaxParsedFields /\ UNCHANGED <<mode, decision>>
  BY DEF KVPair, Decide
<1>5. TypeOK'
  BY <1>1, <1>2, <1>3, <1>4 DEF FirewallInv, TypeOK, Codes
<1>6. CASE n > MaxKeyLength /\ mode' = "done" /\ decision' = "ERR_KEY_TOO_LONG"
  <2>1. seen'.longest \in Nat /\ seen'.longest >= n /\ n \in Nat
    BY <1>1, <1>2
  <2>2. seen'.longest > MaxKeyLength
    BY <1>6, <2>1
  <2> QED
    BY <1>5, <1>6, <2>2 DEF FirewallInv, WalkTracksDecoder, AcceptedWithinLimits, ViolationIsReal
<1>7. CASE fieldCount + 1 > MaxParsedFields /\ mode' = "done" /\ decision' = "ERR_FIELD_LIMIT_EXCEEDED"
  <2>1. seen'.keys > MaxParsedFields
    BY <1>2, <1>7
  <2> QED
    BY <1>5, <1>7, <2>1 DEF FirewallInv, WalkTracksDecoder, AcceptedWithinLimits, ViolationIsReal
<1>8. CASE n <= MaxKeyLength /\ fieldCount + 1 <= MaxParsedFields /\ UNCHANGED <<mode, decision>>
  <2>1. mode' = "kv" /\ decision' = "NONE"
    BY <1>1, <1>8 DEF FirewallInv
  <2>2. SeenWithin' /\ Prechecked' /\ KVWalk'
    BY <1>1, <1>2, <1>8 DEF SeenWithin, Prechecked, KVWalk
  <2> QED
    BY <1>5, <2>1, <2>2 DEF FirewallInv, WalkTracksDecoder, AcceptedWithinLimits, ViolationIsReal
<1> QED
  BY <1>4, <1>6, <1>7, <1>8

-----------------------------------------------------------------------------
LEMMA FirewallNext ==
    ASSUME FirewallInv, [Next]_vars
    PROVE  FirewallInv'
<1>1. CASE Inspect
  BY <1>1, InspectStep
<1>2. CASE JSONStep
  BY <1>2, OpenStep, OpenTooDeepStep, CloseStep, ScalarStep, EndStep, KeyStep, KeyRefused, StringValueStep
  DEF JSONStep
<1>3. CASE KVStep
  BY <1>3, EndStep, KVPairStep DEF KVStep
<1>4. CASE UNCHANGED vars
  BY <1>4 DEF vars, walk, FirewallInv, TypeOK, KVWalk, Prechecked, SeenWithin, WalkTracksDecoder, AtKey,
              AcceptedWithinLimits, ViolationIsReal
<1> QED
  BY <1>1, <1>2, <1>3, <1>4 DEF Next, Done

LEMMA FirewallInvariant ==
    Spec => []FirewallInv
  BY FirewallInit, FirewallNext, PTL DEF Spec

\* Type correctness for every value of the limits: no counter of Inspect's walks goes
\* further than one past its limit.
THEOREM FirewallTypeCorrect ==
    Spec => []TypeOK
<1>1. FirewallInv => TypeOK
  BY DEF FirewallInv
<1> QED
  BY <1>1, FirewallInvariant, PTL

\* inspectJSONStructure tells keys from values, in documents of any length and nesting.
THEOREM WalkCorrect ==
    Spec => []WalkTracksDecoder
<1>1. FirewallInv => WalkTracksDecoder
  BY DEF FirewallInv
<1> QED
  BY <1>1, FirewallInvariant, PTL

\* What Inspect accepts is within every limit.
THEOREM AcceptedIsWithin ==
    Spec => []AcceptedWithinLimits
<1>1. FirewallInv => AcceptedWithinLimits
  BY DEF FirewallInv
<1> QED
  BY <1>1, FirewallInvariant, PTL

\* What Inspect quarantines for a limit exceeds that limit.
THEOREM ViolationsAreReal ==
    Spec => []ViolationIsReal
<1>1. FirewallInv => ViolationIsReal
  BY DEF FirewallInv
<1> QED
  BY <1>1, FirewallInvariant, PTL
=============================================================================
