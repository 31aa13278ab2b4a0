---------------------------- MODULE MCSelfUpdate ----------------------------
(* Instances of SelfUpdate for TLC. *)
EXTENDS SelfUpdate, TLC

CONSTANTS t1, t2

OneTab == {t1}

TwoTabs == {t1, t2}

TabSymmetry == Permutations(TwoTabs)

MCRules == {"changed", "withdrawn", "added"}

\* The second release changes a rule and adds one, the third changes the first
\* again and withdraws another.
MCShips ==
  <<[changed |-> 1, withdrawn |-> 1, added |-> 0],
    [changed |-> 2, withdrawn |-> 1, added |-> 2],
    [changed |-> 3, withdrawn |-> 0, added |-> 2]>>

\* The third release ships again the rule that the second withdrew.
MCReturning ==
  <<[changed |-> 1, withdrawn |-> 1, added |-> 0],
    [changed |-> 2, withdrawn |-> 0, added |-> 2],
    [changed |-> 3, withdrawn |-> 1, added |-> 2]>>

=============================================================================
