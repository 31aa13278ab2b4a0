------------------------------- MODULE MCLoads -------------------------------
(* Instances of Loads for TLC. *)
EXTENDS Loads

CONSTANTS c1, c2, zipdir, outdir

MCCallers == {c1, c2}

Symmetry == Permutations(MCCallers)

MCDirs == {zipdir, outdir}

MCNames == {"a", "b", "c"}

\* A directory; two entries of one name and size, of which one has more than it
\* declares, and than the cap; one that declares more than the cap.
MCEntries ==
  <<[base |-> "a", isDir |-> TRUE,  declared |-> 0, actual |-> 0],
    [base |-> "b", isDir |-> FALSE, declared |-> 2, actual |-> 2],
    [base |-> "a", isDir |-> FALSE, declared |-> 2, actual |-> 4],
    [base |-> "a", isDir |-> FALSE, declared |-> 2, actual |-> 2],
    [base |-> "a", isDir |-> FALSE, declared |-> 3, actual |-> 3]>>

MCHidden == {"c"}

\* The user has a file of the name of an entry, and one no loader takes.
MCBefore == [n \in MCNames |-> IF n = "a" THEN Absent ELSE <<Users>>]

MCPosted == {[last_directory |-> Keep, auto_load_previous |-> TRUE]}

=============================================================================
