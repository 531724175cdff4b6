--------------------------- MODULE MCSelfHealing ---------------------------
(***************************************************************************)
(* One firewall source with four extracted fields, the ways a candidate    *)
(* specification can differ from the active one, and windows of lines with *)
(* and without a source address.                                           *)
(***************************************************************************)
EXTENDS SelfHealing, TLC

MCFieldOrder == <<"src", "dst", "act", "meta">>
MCValues == {"ip1", "ip2", "deny", "DENY", "permit", "x"}
MCLower == [v \in MCValues |-> IF v = "DENY" THEN "deny" ELSE v]

To(path) == [map_to |-> path, enum |-> <<>>]
Map(src, dst, act, meta) == [src |-> src, dst |-> dst, act |-> act, meta |-> meta]
Good(fields) == [conforms |-> TRUE, versioned |-> TRUE, understood |-> TRUE, fields |-> fields]

SrcOnly == Good(Map(To(SrcIP), Absent, To(Action), Absent))
DstOnly == Good(Map(Absent, To(DstIP), To(Action), Absent))
Full == Good(Map(To(SrcIP), To(DstIP), To(Action), Absent))
\* meta overwrites src.
Colliding == Good(Map(To(SrcIP), Absent, To(Action), To(SrcIP)))
\* The action in capitals, and meta mapped.
Shouting ==
    Good(Map(To(SrcIP), To(DstIP), [map_to |-> Action, enum |-> ("deny" :> "DENY")],
             To("tag")))
Broken == [Full EXCEPT !.conforms = FALSE]
Unnumbered == [Full EXCEPT !.versioned = FALSE]
WrongFormat == [Full EXCEPT !.understood = FALSE]

MCSpecs ==
    {SrcOnly, DstOnly, Full, Colliding, Shouting, Broken, Unnumbered, WrongFormat}

Line(src, dst, act, meta) == [src |-> src, dst |-> dst, act |-> act, meta |-> meta]
Both == Line("ip1", "ip2", "deny", "x")
NoSrc == Line(Absent, "ip2", "deny", "x")
NoDst == Line("ip1", Absent, "permit", Absent)

MCWindows ==
    {<<>>, NoSrc :> 1, (Both :> 3) @@ (NoSrc :> 1) @@ (NoDst :> 1)}

\* Incidents are only told apart by what has been done about them.
Symmetry == Permutations(Incidents)
=============================================================================
