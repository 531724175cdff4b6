---------------------------- MODULE MCOnboarding ----------------------------
(***************************************************************************)
(* Two fields, the one a port by name, the other an action; the measured   *)
(* similarities of their names.  A reviewer may override one of them, with *)
(* a path the runtime refuses too, a field whose name holds a line break   *)
(* or a quote, or one without a name.                                      *)
(***************************************************************************)
EXTENDS Onboarding

MCNames == {"sport", "act"}
Alike(ratios, path) ==
    [kind |-> "similar", ratio |-> IF path \in DOMAIN ratios THEN ratios[path] ELSE 300]
Alias == [kind |-> "alias", ratio |-> 0]
SportRatios ==
    "dst.port" :> 900 @@ "network.protocol" :> 900 @@ "device.hostname" :> 600 @@ "src.ip" :> 545
ActRatios ==
    "user.name" :> 750 @@ "event.class" :> 667 @@ "network.packets" :> 600 @@ "user.id" :> 600 @@ "http.url" :> 571
MCLexical ==
    "sport" :> [p \in DOMAIN Catalog |-> IF p = "src.port" THEN Alias ELSE Alike(SportRatios, p)]
      @@ "act" :> [p \in DOMAIN Catalog |-> IF p = "event.action" THEN Alias ELSE Alike(ActRatios, p)]
MCValues == "sport" :> {"zero", "word", "null", "address"} @@ "act" :> {"word", "address"}

MCReplies ==
    {<<>>, "sport" :> "dest.port", "act" :> "made.up", "" :> "event.type",
     "sport" :> "src.ip" @@ "act" :> "event.type"}
MCOverrides ==
    {<<>>, "act" :> "event.class", "act" :> "Event Class", "" :> "event.class",
     "two lines" :> "event.action", "in quotes" :> "event.action"}

MCTypes == {"string", "integer", "float", "boolean", "ip", "timestamp"}
MCPaths == DOMAIN Catalog \cup Registry
MCPathWords ==
    [p \in MCPaths \cup {"Event Class"} |->
        CASE p \in {"src.ip", "dst.ip", "dest.ip", "device.ip"} -> {"ip"}
          [] p \in {"src.port", "dst.port", "dest.port"} -> {"port"}
          [] p \in {"http.status_code", "http.response.status_code"} -> {"status_code"}
          [] p = "event.time" -> {"time"}
          [] OTHER -> {}]
=============================================================================
