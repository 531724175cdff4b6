-------------------------- MODULE MCIngestGateway --------------------------
(***************************************************************************)
(* Two concurrent requests out of every kind the handler tells apart, one  *)
(* subscriber of either topic, a channel of capacity one, two days and one *)
(* restart of the process.                                                 *)
(***************************************************************************)
EXTENDS IngestGateway, TLC

MCRequests ==
    {[source |-> s, body |-> b, transport |-> "http"] : s \in Sources, b \in Bodies}
    \cup {[source |-> s, body |-> b, transport |-> "bogus"] : s \in Sources, b \in Malformed}
    \cup {NoRequest}

\* Handlers and ULIDs are only ever compared for equality.
Symmetry == Permutations(Handlers) \cup Permutations(EventIDs)
=============================================================================
