------------------------------ MODULE RawStore ------------------------------
(***************************************************************************)
(* LocalFSStore (apps/ingest-gateway/raw_store.go): one file per raw       *)
(* event, written to <path>.tmp and renamed to <path>.  A Store call is    *)
(* not atomic: stat, open of the temporary file, write and rename are      *)
(* separate system calls, and calls of different handlers interleave       *)
(* between them.  The temporary file has mode 0444, so a process without   *)
(* root privileges cannot open one that is already there.                  *)
(***************************************************************************)
EXTENDS GatewayData

VARIABLES
    day,     \* today, as time.Now().UTC() reports it
    files,   \* content of the file at every raw_ref
    tmps,    \* content of the temporary file beside every raw_ref
    call     \* the Store call each handler is in

storeVars == <<day, files, tmps, call>>

NoCall == [at |-> "none", ref |-> Absent, bytes |-> Absent]

Calls ==
    [at : {"none", "open", "write", "rename", "ok", "error"},
     ref : Refs \cup {Absent}, bytes : Bodies \cup {Absent}]

StoreTypeOK ==
    /\ day \in Days
    /\ files \in [Refs -> Bodies \cup {Absent}]   \* never a torn file
    /\ tmps \in [Refs -> Bodies \cup {Absent, Torn}]
    /\ call \in [Handlers -> Calls]

StoreInit ==
    /\ day = 1
    /\ files = [r \in Refs |-> Absent]
    /\ tmps = [r \in Refs |-> Absent]
    /\ call = [h \in Handlers |-> NoCall]

\* The outcome of a step of h's call, with the path and the bytes it is about.
Moves(h, at) == call' = [call EXCEPT ![h].at = at]

-----------------------------------------------------------------------------
\* The path is computed from today's date, and refused when a file is there.
Stat(h, id, source, bytes) ==
    LET ref == [day |-> day, source |-> source, event |-> id]
    IN  /\ call[h].at = "none"
        /\ call' = [call EXCEPT ![h] =
                      [at |-> IF files[ref] = Absent THEN "open" ELSE "error",
                       ref |-> ref, bytes |-> bytes]]
        /\ UNCHANGED <<day, files, tmps>>

\* Mutant: the rename follows the open.
MutWriteForgotten(h) ==
    /\ call[h].at = "open"
    /\ tmps[call[h].ref] = Absent
    /\ tmps' = [tmps EXCEPT ![call[h].ref] = Torn]
    /\ Moves(h, "rename")
    /\ UNCHANGED <<day, files>>

\* MkdirAll, then the open of os.WriteFile: it creates an empty file.
OpenTmp(h) ==
    /\ call[h].at = "open"
    /\ tmps[call[h].ref] = Absent
    /\ tmps' = [tmps EXCEPT ![call[h].ref] = Torn]
    /\ Moves(h, "write")
    /\ UNCHANGED <<day, files>>

\* MkdirAll or the open fails: a full disk, or a temporary file left there.
OpenTmpFails(h) ==
    /\ call[h].at = "open"
    /\ Moves(h, "error")
    /\ UNCHANGED <<day, files, tmps>>

WriteTmp(h) ==
    /\ call[h].at = "write"
    /\ tmps' = [tmps EXCEPT ![call[h].ref] = call[h].bytes]
    /\ Moves(h, "rename")
    /\ UNCHANGED <<day, files>>

\* os.WriteFile fails half way; Store leaves the temporary file behind.
WriteTmpFails(h) ==
    /\ call[h].at = "write"
    /\ Moves(h, "error")
    /\ UNCHANGED <<day, files, tmps>>

\* rename(2) replaces whatever is at the final path.
Rename(h) ==
    /\ call[h].at = "rename"
    /\ files' = [files EXCEPT ![call[h].ref] = tmps[call[h].ref]]
    /\ tmps' = [tmps EXCEPT ![call[h].ref] = Absent]
    /\ Moves(h, "ok")
    /\ UNCHANGED day

\* The rename fails; os.Remove drops the temporary file.
RenameFails(h) ==
    /\ call[h].at = "rename"
    /\ tmps' = [tmps EXCEPT ![call[h].ref] = Absent]
    /\ Moves(h, "error")
    /\ UNCHANGED <<day, files>>

StoreStep(h) ==
    \/ OpenTmp(h)
    \/ OpenTmpFails(h)
    \/ WriteTmp(h)
    \/ WriteTmpFails(h)
    \/ Rename(h)
    \/ RenameFails(h)

NextDay ==
    /\ day < MaxDay
    /\ day' = day + 1
    /\ UNCHANGED <<files, tmps, call>>

-----------------------------------------------------------------------------
(***************************************************************************)
(* The store on its own: callers that choose event IDs as they like, as    *)
(* the RawStore interface lets them (and its tests do).                    *)
(***************************************************************************)
StoreCall(h) ==
    \E id \in EventIDs, source \in Sources, bytes \in Bodies :
        Stat(h, id, source, bytes)

StoreReturns(h) ==
    /\ call[h].at \in {"ok", "error"}
    /\ call' = [call EXCEPT ![h] = NoCall]
    /\ UNCHANGED <<day, files, tmps>>

StoreNext ==
    \/ \E h \in Handlers : StoreCall(h) \/ StoreStep(h) \/ StoreReturns(h)
    \/ NextDay

StoreSpec == StoreInit /\ [][StoreNext]_storeVars

\* "Overwriting an existing file is forbidden" (raw_store.go): once a raw
\* event is at its path, no later step changes what is there.
WriteOnce ==
    [][\A r \in Refs : files[r] # Absent => files'[r] = files[r]]_files
=============================================================================
