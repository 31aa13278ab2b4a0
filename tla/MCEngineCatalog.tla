--------------------------- MODULE MCEngineCatalog ---------------------------
(* Instances of EngineCatalog for TLC. *)
EXTENDS EngineCatalog

CONSTANTS c1, c2, c3, p1, p2

MCClients == {c1, c2, c3}

\* Two clients that load, two that query, one that changes files and fields.
MCOpsOf == (c1 :> {"load", "loaders"}) @@ (c2 :> {"load", "query"})
           @@ (c3 :> {"unload", "enable", "field", "query"})

\* For QueryNeverFails: nobody overrides the timestamp field.
SortOpsOf == (c1 :> {"load"}) @@ (c2 :> {"unload", "enable"}) @@ (c3 :> {"query"})

MCPaths == {p1, p2}

MCFields == {"@timestamp", "ts"}

\* Two files whose timestamp columns differ.
MCSchema == (p1 :> <<"@timestamp", "ts">>) @@ (p2 :> <<"ts">>)

MCCandidates == <<"@timestamp">>

MCTimeLike == {"ts"}

\* A registry that streams p1 and reads p2 by SQL (a nil one reads JSON).
MCRegistries == {(p1 :> "stream") @@ (p2 :> "sql")}

=============================================================================
