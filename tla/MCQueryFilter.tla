---------------------------- MODULE MCQueryFilter ----------------------------
(* Instances of QueryFilter and Reports for TLC. *)
EXTENDS Reports

MCFields == {"host", "node.type"}

MCTexts == {"", "a", "b"}

MCSearches == {{"a", "b"}}

MCInstants == {4, 8}

F(field, operator, value, logic) ==
  [field |-> field, operator |-> operator, value |-> value, logic |-> logic]

\* Every way to be kept or dropped that the viewer's operators allow, and every kind
\* of condition.
MCFilters ==
  {F("host", "is", {"a"}, "and"), F("node.type", "contains", {"a", "b"}, "or"),
   F("host", "is_not", {"a"}, "or"), F("host", "exists", NoValue, "and"),
   F("node.type", "is_not_one_of", {"b"}, "and"), F("node.type", "is", NoValue, "and"),
   F(NoField, "is", {"a"}, "or"), F("host", "is_one_of", {}, "and")}

MCNames == {"time", "TIME", "host", "Host", "modified", "Modified", "node", "node.type", "struct"}

MCLower ==
  [n \in MCNames |-> CASE n = "TIME" -> "time" [] n = "Host" -> "host"
                      [] n = "Modified" -> "modified" [] OTHER -> n]

MCDatedNames == {"time", "modified"}

\* A second dated column, in another case than some files have it.
MCSortFields == {"time", "modified"}

MCRoot == [n \in MCNames |-> IF n = "node.type" THEN "node" ELSE n]

Table(on, cols, paths, rows) ==
  [enabled |-> on, cols |-> cols, paths |-> paths,
   rows |-> [j \in DOMAIN rows |->
              [n \in ToSet(cols) \cup ToSet(paths) |->
                IF n = "node" THEN "struct"
                ELSE rows[j][CHOOSE k \in DOMAIN rows[j] : (cols \o paths)[k] = n]]]]

Lines == Table(TRUE, <<"TIME", "Host">>, << >>,
               << <<1, "a">>, <<Garbage, "b">>, <<9, "">> >>)

Nodes == Table(TRUE, <<"host", "node", "time", "Modified">>, <<"node.type">>,
               << <<"a", "", 8, 30, "a">>, <<Null, "", 4, Garbage, "b">>, <<"b", "", Null, 2, Null>> >>)

\* Two columns that differ in case.
Folded == Table(TRUE, <<"time", "Host", "host">>, << >>,
                << <<3, Null, "a">>, <<5, "b", Null>>, <<8, "a", "b">>, <<11, Null, "">>, <<14, "", "a">> >>)

\* A column named as others' path; no time.
Dotted(on) == Table(on, <<"node.type", "host">>, << >>, << <<"b", "a">>, <<"a", "b">> >>)

Years == Table(TRUE, <<"time", "host">>, << >>,
               << <<0, "a">>, <<40, "b">>, <<100, "">>, <<130, "b">> >>)

Bare == Table(TRUE, <<"host", "node">>, <<"node.type">>, << <<"b", "", "b">> >>)

MCCatalogs ==
  {<<Lines, Nodes>>, <<Nodes, Folded>>, <<Dotted(FALSE), Nodes>>, <<Dotted(TRUE), Nodes>>,
   <<Years, [Lines EXCEPT !.enabled = FALSE], Bare>>}

MCIntervals == <<1, 2, 5>>

=============================================================================
