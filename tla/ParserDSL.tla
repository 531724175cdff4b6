----------------------------- MODULE ParserDSL -----------------------------
(***************************************************************************)
(* Parser specifications as packages/parser-runtime/dsl.go loads them: a   *)
(* function from the name of a raw field to its type and canonical path.   *)
(* Anything else of a specification is the same in all of them.            *)
(***************************************************************************)
CONSTANTS
    FieldTypes,  \* validFieldTypes
    Paths        \* the well-formed canonical paths (mapToRegex)

\* ValidateParserSpec: at least one field, each with a name, a known type and a
\* path of the dotted form.  The policy for unknown fields can only be "preserve".
ValidateParserSpec(spec) ==
    /\ DOMAIN spec # {}
    /\ "" \notin DOMAIN spec
    /\ \A f \in DOMAIN spec : spec[f].type \in FieldTypes /\ spec[f].map_to \in Paths
=============================================================================
