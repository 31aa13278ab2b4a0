--------------------------- MODULE MCRuleManager ---------------------------
(* Instances of RuleManager for TLC. *)
EXTENDS RuleManager, TLC

CONSTANTS s1, s2, n1, n2, d1, d2

TwoSavers == {s1, s2}

MCNames == {n1, n2}

TwoDrafts == {d1, d2}

\* Savers and drafts are interchangeable; names are not (NoJob picks one).
Symmetric == Permutations(TwoSavers) \cup Permutations(TwoDrafts)

=============================================================================
