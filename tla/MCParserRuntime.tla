-------------------------- MODULE MCParserRuntime --------------------------
(***************************************************************************)
(* Key-value events over three field names, two of them equal up to case,  *)
(* and JSON events over two names with one pointer; numbers and words as   *)
(* values; every specification of either kind over two types and paths.    *)
(***************************************************************************)
EXTENDS ParserRuntime, TLC

KVKeys == {"src", "SRC", "port"}
JSONKeys == {"a.b", "a/b"}
MCKeys == KVKeys \cup JSONKeys
MCFold == [k \in MCKeys |-> IF k = "SRC" THEN "src" ELSE k]
MCPointer ==
    "src" :> "/src" @@ "SRC" :> "/SRC" @@ "port" :> "/port" @@ "a.b" :> "/a/b" @@ "a/b" :> "/a/b"
MCValues == {"80", "443", "word"}
MCTyped == {<<v, t>> : v \in MCValues, t \in {"string", "integer"}}
MCCoerce ==
    [v \in MCValues |-> [t \in {"string", "integer"} |->
        IF v = "word" /\ t = "integer" THEN Failed ELSE <<v, t>>]]

Maps(S, T) == UNION {[D -> T] : D \in SUBSET S}

MCPayloads ==
    {[json |-> FALSE, meta |-> m, body |-> b] :
        m \in Maps({"port"}, {"80"}), b \in Maps(KVKeys, {"443", "word"})}
    \cup {[json |-> TRUE, meta |-> <<>>, body |-> b] : b \in Maps(JSONKeys, {"443", "word"})}

FieldSpecs == [type : {"string", "integer"}, map_to : {"src.ip", "src.port"}]

AllSpecs == Maps(KVKeys, FieldSpecs) \cup Maps(JSONKeys, FieldSpecs)
=============================================================================
