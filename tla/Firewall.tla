------------------------------ MODULE Firewall ------------------------------
(***************************************************************************)
(* TelemetryFirewall.Inspect (apps/ingest-gateway/firewall.go) with        *)
(* inspectJSONStructure and inspectKVStructure.  The JSON walk sees one    *)
(* token after the other and keeps its own stack to tell keys from string  *)
(* values.  encoding/json is external: `frames` is what its decoder may    *)
(* accept next in each open container, `seen` what the input really held   *)
(* so far.  Documents have any length; the walk stops at the first limit.  *)
(***************************************************************************)
EXTENDS Naturals, Sequences

CONSTANTS
    MaxRawSizeBytes, MaxParsedFields, MaxKeyLength, MaxStructuralNesting, EnforceUTF8,
    Sizes,       \* payload sizes that occur
    KeyLengths   \* lengths of strings that occur, in runes

ASSUME FirewallAssumption ==
    /\ MaxRawSizeBytes \in Nat /\ MaxParsedFields \in Nat
    /\ MaxKeyLength \in Nat /\ MaxStructuralNesting \in Nat /\ EnforceUTF8 \in BOOLEAN
    /\ Sizes \subseteq Nat /\ KeyLengths \subseteq Nat

VARIABLES
    payload,     \* the raw event, as far as the first checks see it
    mode,        \* inspect, json or kv: the check at work; done
    decision,    \* the FirewallDecision: "NONE", "ACCEPTED" or a ViolationCode
    depth, fieldCount, stack, expectKey,     \* locals of the walks
    frames, seen

walk == <<depth, fieldCount, stack, expectKey>>
vars == <<payload, mode, decision, walk, frames, seen>>

Containers == {"object", "array"}
Codes == {"ERR_TIMEOUT", "ERR_OVERSIZED", "ERR_INVALID_ENCODING", "ERR_NESTING_EXCEEDED",
          "ERR_KEY_TOO_LONG", "ERR_FIELD_LIMIT_EXCEEDED"}

\* The shape is decided by the first byte that is not a space.
Payloads == [cancelled : BOOLEAN, size : Sizes, utf8 : BOOLEAN, shape : {"blank", "json", "kv"}]

Nothing == [keys |-> 0, longest |-> 0, deepest |-> 0]

TypeOK ==
    /\ payload \in Payloads
    /\ mode \in {"inspect", "json", "kv", "done"}
    /\ decision \in {"NONE", "ACCEPTED"} \cup Codes
    /\ depth \in 0..(MaxStructuralNesting + 1)
    /\ fieldCount \in 0..(MaxParsedFields + 1)
    /\ stack \in Seq(Containers) /\ Len(stack) <= MaxStructuralNesting
    /\ expectKey \in BOOLEAN
    /\ frames \in Seq({"key", "value", "elem"})
    /\ seen \in [keys : Nat, longest : Nat, deepest : Nat]

Init ==
    /\ payload \in Payloads
    /\ mode = "inspect" /\ decision = "NONE"
    /\ depth = 0 /\ fieldCount = 0 /\ stack = <<>> /\ expectKey = FALSE
    /\ frames = <<>> /\ seen = Nothing

Decide(verdict) == mode' = "done" /\ decision' = verdict
GoOn == UNCHANGED <<payload, mode, decision>>

-----------------------------------------------------------------------------
\* Checks 0 to 2 of Inspect in their order: "NONE" lets the event through.
Precheck(p) ==
    IF p.cancelled THEN "ERR_TIMEOUT"
    ELSE IF p.size > MaxRawSizeBytes THEN "ERR_OVERSIZED"
    ELSE IF EnforceUTF8 /\ ~p.utf8 THEN "ERR_INVALID_ENCODING"
    ELSE "NONE"

\* Mutant: a cancelled context is looked at after the structure only.
MutInspect ==
    /\ mode = "inspect"
    /\ LET code == Precheck([payload EXCEPT !.cancelled = FALSE])
       IN  \/ code # "NONE" /\ Decide(code)
           \/ code = "NONE" /\ payload.shape = "blank" /\ Decide("ACCEPTED")
           \/ code = "NONE" /\ payload.shape # "blank" /\ mode' = payload.shape /\ UNCHANGED decision
    /\ UNCHANGED <<payload, walk, frames, seen>>

\* Inspect up to its choice of the structural check.
Inspect ==
    /\ mode = "inspect"
    /\ LET code == Precheck(payload)
       IN  \/ code # "NONE" /\ Decide(code)
           \/ code = "NONE" /\ payload.shape = "blank" /\ Decide("ACCEPTED")
           \/ code = "NONE" /\ payload.shape # "blank" /\ mode' = payload.shape /\ UNCHANGED decision
    /\ UNCHANGED <<payload, walk, frames, seen>>

-----------------------------------------------------------------------------
\* The decoder.  A value ends: in an object, a key comes next.
Top(s) == s[Len(s)]
Front(s) == SubSeq(s, 1, Len(s) - 1)
Larger(a, b) == IF a > b THEN a ELSE b
AtKey == frames # <<>> /\ Top(frames) = "key"
ValueEnds(f) == IF f # <<>> /\ Top(f) = "value" THEN [f EXCEPT ![Len(f)] = "key"] ELSE f

\* Below the first container values may follow each other at top level.
ScalarAllowed == ~AtKey /\ (frames = <<>> => seen.deepest > 0)

DecodeOpen(c) ==
    /\ ~AtKey
    /\ frames' = Append(frames, IF c = "object" THEN "key" ELSE "elem")
    /\ seen' = [seen EXCEPT !.deepest = Larger(@, Len(frames) + 1)]

DecodeClose ==
    /\ frames # <<>> /\ Top(frames) # "value"
    /\ frames' = ValueEnds(Front(frames))
    /\ UNCHANGED seen

DecodeString(n) ==
    \/ /\ AtKey
       /\ frames' = [frames EXCEPT ![Len(frames)] = "value"]
       /\ seen' = [seen EXCEPT !.keys = @ + 1, !.longest = Larger(@, n)]
    \/ /\ ScalarAllowed
       /\ frames' = ValueEnds(frames)
       /\ UNCHANGED seen

-----------------------------------------------------------------------------
\* inspectJSONStructure: the delimiters { and [.
\* Mutant: the nesting limit is off by one.
MutOpen(c) ==
    /\ mode = "json" /\ DecodeOpen(c)
    /\ depth' = depth + 1
    /\ depth + 1 <= MaxStructuralNesting + 1
    /\ stack' = Append(stack, c) /\ expectKey' = (c = "object")
    /\ UNCHANGED fieldCount /\ GoOn

Open(c) ==
    /\ mode = "json" /\ DecodeOpen(c)
    /\ depth' = depth + 1
    /\ depth + 1 <= MaxStructuralNesting
    /\ stack' = Append(stack, c) /\ expectKey' = (c = "object")
    /\ UNCHANGED fieldCount /\ GoOn

OpenTooDeep(c) ==
    /\ mode = "json" /\ DecodeOpen(c)
    /\ depth' = depth + 1
    /\ depth + 1 > MaxStructuralNesting
    /\ Decide("ERR_NESTING_EXCEEDED")
    /\ UNCHANGED <<payload, fieldCount, stack, expectKey>>

\* The delimiters } and ].
Close ==
    /\ mode = "json" /\ DecodeClose
    /\ depth' = depth - 1
    /\ stack' = IF stack # <<>> THEN Front(stack) ELSE stack
    /\ expectKey' = (stack' # <<>> /\ Top(stack') = "object")
    /\ UNCHANGED fieldCount /\ GoOn

InObject == stack # <<>> /\ Top(stack) = "object"

\* Mutant: the next string is taken for a key as well.
MutKey(n) ==
    /\ mode = "json" /\ DecodeString(n)
    /\ InObject /\ expectKey /\ n <= MaxKeyLength
    /\ fieldCount' = fieldCount + 1
    /\ fieldCount + 1 <= MaxParsedFields
    /\ UNCHANGED <<depth, stack, expectKey>> /\ GoOn

\* A string taken for a key: its length is checked before it is counted.
Key(n) ==
    /\ mode = "json" /\ DecodeString(n)
    /\ InObject /\ expectKey /\ n <= MaxKeyLength
    /\ fieldCount' = fieldCount + 1
    /\ fieldCount + 1 <= MaxParsedFields
    /\ expectKey' = FALSE
    /\ UNCHANGED <<depth, stack>> /\ GoOn

KeyTooLong(n) ==
    /\ mode = "json" /\ DecodeString(n)
    /\ InObject /\ expectKey /\ n > MaxKeyLength
    /\ Decide("ERR_KEY_TOO_LONG")
    /\ UNCHANGED <<payload, walk>>

TooManyKeys(n) ==
    /\ mode = "json" /\ DecodeString(n)
    /\ InObject /\ expectKey /\ n <= MaxKeyLength
    /\ fieldCount' = fieldCount + 1
    /\ fieldCount + 1 > MaxParsedFields
    /\ Decide("ERR_FIELD_LIMIT_EXCEEDED")
    /\ UNCHANGED <<payload, depth, stack, expectKey>>

\* A string taken for a value.
StringValue(n) ==
    /\ mode = "json" /\ DecodeString(n)
    /\ ~(InObject /\ expectKey)
    /\ expectKey' = (expectKey \/ InObject)
    /\ UNCHANGED <<depth, fieldCount, stack>> /\ GoOn

\* Mutant: a number, boolean or null leaves expectKey as it was.
MutScalar ==
    /\ mode = "json" /\ ScalarAllowed
    /\ frames' = ValueEnds(frames) /\ UNCHANGED seen
    /\ UNCHANGED walk /\ GoOn

Scalar ==
    /\ mode = "json" /\ ScalarAllowed
    /\ frames' = ValueEnds(frames) /\ UNCHANGED seen
    /\ expectKey' = (expectKey \/ InObject)
    /\ UNCHANGED <<depth, fieldCount, stack>> /\ GoOn

\* The decoder meets a byte that fits nowhere, or a literal cut short.
SyntaxError ==
    /\ mode = "json"
    /\ Decide("ERR_INVALID_ENCODING")
    /\ UNCHANGED <<payload, walk, frames, seen>>

\* io.EOF, which the decoder also returns between two tokens of an open container.
EndOfJSON ==
    /\ mode = "json" /\ seen.deepest > 0
    /\ Decide("ACCEPTED")
    /\ UNCHANGED <<payload, walk, frames, seen>>

-----------------------------------------------------------------------------
\* inspectKVStructure: a word with "=" or ":" behind at least one character; it is
\* counted first.  Words without one change nothing.
KVSeen(n) == seen' = [seen EXCEPT !.keys = @ + 1, !.longest = Larger(@, n)]

KVPair(n) ==
    /\ mode = "kv" /\ n > 0 /\ KVSeen(n)
    /\ fieldCount' = fieldCount + 1
    /\ \/ n > MaxKeyLength /\ Decide("ERR_KEY_TOO_LONG")
       \/ n <= MaxKeyLength /\ fieldCount + 1 > MaxParsedFields /\ Decide("ERR_FIELD_LIMIT_EXCEEDED")
       \/ n <= MaxKeyLength /\ fieldCount + 1 <= MaxParsedFields /\ UNCHANGED <<mode, decision>>
    /\ UNCHANGED <<payload, depth, stack, expectKey, frames>>

EndOfKV ==
    /\ mode = "kv"
    /\ Decide("ACCEPTED")
    /\ UNCHANGED <<payload, walk, frames, seen>>

Done == mode = "done" /\ UNCHANGED vars

JSONStep ==
    \/ \E c \in Containers : Open(c) \/ OpenTooDeep(c)
    \/ Close \/ Scalar \/ SyntaxError \/ EndOfJSON
    \/ \E n \in KeyLengths : Key(n) \/ KeyTooLong(n) \/ TooManyKeys(n) \/ StringValue(n)

KVStep == EndOfKV \/ \E n \in KeyLengths : KVPair(n)

Next == Inspect \/ JSONStep \/ KVStep \/ Done

Spec == Init /\ [][Next]_vars

-----------------------------------------------------------------------------
\* The walk's own idea of the document is the decoder's, through any nesting of
\* objects and arrays: it expects a key exactly where the next string is one.
WalkTracksDecoder ==
    mode = "json" =>
        /\ depth = Len(frames) /\ Len(stack) = Len(frames)
        /\ \A i \in 1..Len(frames) : stack[i] = "array" <=> frames[i] = "elem"
        /\ expectKey <=> AtKey
        /\ fieldCount = seen.keys

\* No accepted event breaks a limit: nesting, number of fields and key length of
\* everything the input held are within the configured bounds, whatever the order
\* of containers, keys and values, and no cancelled inspection accepts.
AcceptedWithinLimits ==
    decision = "ACCEPTED" =>
        /\ seen.deepest <= MaxStructuralNesting
        /\ seen.keys <= MaxParsedFields
        /\ seen.longest <= MaxKeyLength
        /\ payload.size <= MaxRawSizeBytes /\ (EnforceUTF8 => payload.utf8) /\ ~payload.cancelled

\* The violation code tells the truth: an event is quarantined for a limit only
\* when its input exceeds that limit, so long string values and array elements are
\* never mistaken for keys.
ViolationIsReal ==
    /\ decision = "ERR_NESTING_EXCEEDED" => seen.deepest > MaxStructuralNesting
    /\ decision = "ERR_KEY_TOO_LONG" => seen.longest > MaxKeyLength
    /\ decision = "ERR_FIELD_LIMIT_EXCEEDED" => seen.keys > MaxParsedFields
    /\ decision = "ERR_OVERSIZED" => payload.size > MaxRawSizeBytes
=============================================================================
