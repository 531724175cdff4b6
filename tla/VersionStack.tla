---------------------------- MODULE VersionStack ----------------------------
(***************************************************************************)
(* What a deployment engine with rollback promises: per source a stack of  *)
(* the versions in force, the active one on top.  A deployment adds one, a *)
(* rollback takes the top one off, and nothing else ever changes.          *)
(***************************************************************************)
EXTENDS Naturals, Sequences

CONSTANTS Owners, Versions

VARIABLE stack

Init == stack = [o \in Owners |-> <<>>]

Push(o) == \E v \in Versions : stack' = [stack EXCEPT ![o] = Append(@, v)]

Pop(o) ==
    /\ Len(stack[o]) > 1
    /\ stack' = [stack EXCEPT ![o] = SubSeq(@, 1, Len(@) - 1)]

Next == \E o \in Owners : Push(o) \/ Pop(o)

Spec == Init /\ [][Next]_stack
=============================================================================
