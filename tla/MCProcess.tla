------------------------------ MODULE MCProcess ------------------------------
(* Instances of Process for TLC. *)
EXTENDS Process

CONSTANTS t1, t2

MCTabs == {t1, t2}

Symmetry == Permutations(MCTabs)

\* "off" has no section; "remote" stands for a module with a busy check, which
\* mcp has not.
MCModules == <<"off", "mcp", "remote">>

MCConfigured == {"mcp", "remote"}

MCWatchers == {"remote"}

=============================================================================
