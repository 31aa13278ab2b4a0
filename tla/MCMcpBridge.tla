------------------------------ MODULE MCMcpBridge ------------------------------
(* Instances of McpBridge: two builds of the viewer with the module, of which *)
(* the newer no longer speaks the older's last revision and does not let      *)
(* agents load, and one without the module.                                   *)
EXTENDS McpBridge

Msg(k, v, g) == [kind |-> k, version |-> v, good |-> g]

MCMessages ==
  {Msg("initialize", "2025-03", TRUE), Msg("query", "", FALSE), Msg("load", "", TRUE)}
    \cup {Msg(k, "", TRUE) : k \in {"big", "notification", "nullid",
                                    "garbled", "oldnote", "blank", "toolong"}}

MCBuilds ==
  {[versions |-> <<"2025-06", "2025-03">>, module |-> TRUE, token |-> "t", load |-> TRUE],
   [versions |-> <<"2025-11", "2025-06">>, module |-> TRUE, token |-> "", load |-> FALSE],
   [versions |-> <<"2025-11">>, module |-> FALSE, token |-> "", load |-> TRUE]}

MCFolder == <<[name |-> "a", kind |-> "log"], [name |-> "sub", kind |-> "dir"],
              [name |-> "z", kind |-> "zip"], [name |-> "b", kind |-> "bad"]>>
===============================================================================
