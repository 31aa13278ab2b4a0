------------------------------ MODULE QueryFilter ------------------------------
(***************************************************************************)
(* The WHERE clause of a query (buildWhereClause and buildFilterCondition  *)
(* in internal/engine/engine.go), shared by Query, GetHistogram,           *)
(* GetProfile, GetFieldValues and ExportFiltered.  The clause is built     *)
(* left to right as a list of conditions and connectives, which DuckDB     *)
(* then reads with its own precedence and three-valued logic.              *)
(*                                                                         *)
(* Abstractions.  A filter's value is the set of texts it matches: one     *)
(* text for "is", the members of a list for "is_one_of", the texts a       *)
(* pattern fits for the rest.  Texts are equal up to letter case.  A       *)
(* condition in the clause stands for its SQL.  All fields are columns.    *)
(*                                                                         *)
(* An operator whose name ends in Bug is a faulty variant of the one that  *)
(* follows it.  No specification uses it: it stands for the slip that the  *)
(* property named in its comment catches.                                  *)
(***************************************************************************)
EXTENDS Naturals, Sequences

CONSTANTS
  Fields,     \* columns of the union
  Texts,      \* values of a column, EmptyText among them
  EmptyText,  \* the empty string
  Null,       \* SQL NULL
  Instants,   \* instants a timestamp may have, as numbers
  Garbage,    \* a time bound that is not a timestamp
  NoBound,    \* an absent or empty time bound
  NoField,    \* a filter without field
  NoValue,    \* a filter with an empty value
  NoSearch,   \* no search text
  Filters,    \* the filters a request may carry
  Searches,   \* the sets of texts a search may fit
  MaxFilters  \* bound on their number

Containing == {"is", "contains", "wildcard", "is_one_of"}

Excluding == {"is_not", "not_contains", "not_wildcard"}

Listing == {"is_one_of", "is_not_one_of"}

Valueless == {"exists", "does_not_exist"}

Operators == Containing \cup Excluding \cup Listing \cup Valueless

\* Any other operator name is "unknown".
Filter == [field: Fields \cup {NoField}, operator: Operators \cup {"unknown"},
           value: {NoValue} \cup SUBSET Texts, logic: {"and", "or"}]

Bounds == Instants \cup {Garbage, NoBound}

Request == [from: Bounds, to: Bounds,
            filters: UNION {[1..n -> Filters] : n \in 0..MaxFilters},
            search: {NoSearch} \cup Searches]

\* A row of the union: its timestamp, and its columns as text.
Row == [time: Instants \cup {Null}, cols: [Fields -> Texts \cup {Null}]]

ASSUME FilterAssumption ==
  /\ EmptyText \in Texts /\ Null \notin Texts
  /\ Instants \subseteq Nat /\ Instants \cap {Garbage, NoBound, Null} = {}
  /\ Garbage # NoBound
  /\ NoField \notin Fields
  /\ \A texts \in SUBSET Texts : texts # NoValue /\ texts # NoSearch
  /\ Filters \subseteq Filter /\ Searches \subseteq SUBSET Texts
  /\ MaxFilters \in Nat

VARIABLES
  req,      \* the request
  stage,    \* what is looked at next: "from", "to", "filters", "search", "done"
  next,     \* index of the next filter
  clauses   \* the list built so far

vars == <<req, stage, next, clauses>>

-----------------------------------------------------------------------------
(* SQL conditions.  A row is selected when the clause is TRUE, so of the    *)
(* three truth values it is enough to know when a condition is.  AND and OR *)
(* are TRUE when all, or one, of their operands are.                        *)

\* buildFilterCondition returns "" for these.
Unconditional(f) ==
  \/ f.operator = "unknown"
  \/ f.operator \in Listing /\ f.value = {}

\* Bug (OppositesSplit): a list's complement leaves out the missing values.
SatisfiesBug(row, f) ==
  LET v == row.cols[f.field]
  IN  \/ f.operator \in Containing /\ v # Null /\ v \in f.value
      \/ f.operator \in Excluding \cup {"is_not_one_of"} /\ v # Null /\ v \notin f.value
      \/ f.operator = "exists" /\ v # Null /\ v # EmptyText
      \/ f.operator = "does_not_exist" /\ (v = Null \/ v = EmptyText)

\* When the condition of f is TRUE.  A comparison with NULL never is, so the
\* excluding operators drop rows without the field, except is_not_one_of.
Satisfies(row, f) ==
  LET v == row.cols[f.field]
  IN  \/ f.operator \in Containing /\ v # Null /\ v \in f.value
      \/ f.operator \in Excluding /\ v # Null /\ v \notin f.value
      \/ f.operator = "is_not_one_of" /\ (v = Null \/ v \notin f.value)
      \/ f.operator = "exists" /\ v # Null /\ v # EmptyText
      \/ f.operator = "does_not_exist" /\ (v = Null \/ v = EmptyText)

\* TRY_CAST makes NULL of what is not a timestamp, on either side.
NotBefore(row, bound) == row.time # Null /\ bound # Garbage /\ row.time >= bound

NotAfter(row, bound) == row.time # Null /\ bound # Garbage /\ row.time <= bound

\* One OR over all columns.
Found(row, texts) == \E f \in Fields : row.cols[f] # Null /\ row.cols[f] \in texts

\* When the condition at one place of the clause is TRUE.  "present" is what the
\* values of a field append to the clause.
True(row, c) ==
  CASE c[1] = "from"   -> NotBefore(row, req.from)
    [] c[1] = "to"     -> NotAfter(row, req.to)
    [] c[1] = "filter" -> Satisfies(row, req.filters[c[2]])
    [] c[1] = "search" -> Found(row, req.search)
    [] c[1] = "present" -> row.cols[c[2]] # Null /\ row.cols[c[2]] # EmptyText

And == <<"AND">>

Or == <<"OR">>

Connective == {And, Or}

\* The clause is a condition, or conditions with a connective between each two.
WellFormed(c) ==
  \/ c = << >>
  \/ /\ Len(c) % 2 = 1
     /\ \A k \in 1..Len(c) : c[k] \in Connective <=> k % 2 = 0

\* AND binds more tightly than OR: some stretch between ORs holds throughout.
Selected(row, c) ==
  \/ c = << >>
  \/ \E a, b \in 1..Len(c) :
       /\ a <= b
       /\ a = 1 \/ c[a - 1] = Or
       /\ b = Len(c) \/ c[b + 1] = Or
       /\ \A k \in a..b : c[k] # Or /\ (c[k] # And => True(row, c[k]))

-----------------------------------------------------------------------------
(* buildWhereClause *)

\* Bug (WellFormedAfterFirst): the upper bound forgets its connective.
ToClauseBug ==
  /\ stage = "to"
  /\ clauses' = IF req.to = NoBound THEN clauses ELSE Append(clauses, <<"to">>)
  /\ stage' = "filters"
  /\ UNCHANGED <<req, next>>

FromClause ==
  /\ stage = "from"
  /\ clauses' = IF req.from = NoBound THEN clauses ELSE Append(clauses, <<"from">>)
  /\ stage' = "to"
  /\ UNCHANGED <<req, next>>

ToClause ==
  /\ stage = "to"
  /\ clauses' = IF req.to = NoBound THEN clauses
                ELSE IF clauses = << >> THEN << <<"to">> >>
                ELSE clauses \o <<And, <<"to">> >>
  /\ stage' = "filters"
  /\ UNCHANGED <<req, next>>

\* A filter without field, without the value its operator needs, or without a
\* condition contributes nothing.
Dropped(f) ==
  \/ f.field = NoField
  \/ f.value = NoValue /\ f.operator \notin Valueless
  \/ Unconditional(f)

FilterDropped ==
  /\ stage = "filters" /\ next <= Len(req.filters)
  /\ Dropped(req.filters[next])
  /\ next' = next + 1
  /\ UNCHANGED <<req, stage, clauses>>

\* Bug (ConjunctionMeansAll): the connectives are swapped.
ConnectiveOfBug(f) == IF f.logic = "and" THEN Or ELSE And

\* The connective is the filter's own and goes before it.
ConnectiveOf(f) == IF f.logic = "or" THEN Or ELSE And

FilterAdded ==
  LET f == req.filters[next]
  IN  /\ stage = "filters" /\ next <= Len(req.filters)
      /\ ~Dropped(f)
      /\ clauses' = clauses \o (IF clauses # << >> \/ next > 1
                                THEN <<ConnectiveOf(f), <<"filter", next>> >>
                                ELSE << <<"filter", next>> >>)
      /\ next' = next + 1
      /\ UNCHANGED <<req, stage>>

FiltersDone ==
  /\ stage = "filters" /\ next > Len(req.filters)
  /\ stage' = "search"
  /\ UNCHANGED <<req, next, clauses>>

SearchClause ==
  /\ stage = "search"
  /\ clauses' = IF req.search = NoSearch THEN clauses
                ELSE IF clauses = << >> THEN << <<"search">> >>
                ELSE clauses \o <<And, <<"search">> >>
  /\ stage' = "done"
  /\ UNCHANGED <<req, next>>

Init ==
  /\ req \in Request
  /\ stage = "from" /\ next = 1 /\ clauses = << >>

Next ==
  FromClause \/ ToClause \/ FilterDropped \/ FilterAdded \/ FiltersDone \/ SearchClause

Spec == Init /\ [][Next]_vars

-----------------------------------------------------------------------------
(* Properties *)

Kept == {k \in 1..Len(req.filters) : ~Dropped(req.filters[k])}

InWindow(row) ==
  /\ req.from # NoBound => NotBefore(row, req.from)
  /\ req.to # NoBound => NotAfter(row, req.to)

InSearch(row) == req.search # NoSearch => Found(row, req.search)

\* Whatever is dropped after it, a clause that does not begin with a dropped
\* filter is one DuckDB can parse.
WellFormedAfterFirst ==
  stage = "done" /\ (req.from # NoBound \/ req.to # NoBound \/ 1 \in Kept \/ Kept = {})
    => WellFormed(clauses)

\* Without an "or", exactly the rows are selected that lie in the time range,
\* satisfy every filter that was not dropped and contain the search text -
\* however many of these parts are missing.
ConjunctionMeansAll ==
  stage = "done" /\ (\A k \in Kept : req.filters[k].logic = "and") /\ WellFormed(clauses)
    => \A row \in Row :
         Selected(row, clauses) <=>
           /\ InWindow(row) /\ InSearch(row)
           /\ \A k \in Kept : Satisfies(row, req.filters[k])

\* A field exists in a row or it does not, and its value is one of a list or it
\* is not: the opposite operators split the rows, those without the field too.
OppositesSplit ==
  stage = "done" => \A k \in Kept, row \in Row :
    LET f == req.filters[k]
        As(operator) == Satisfies(row, [f EXCEPT !.operator = operator])
    IN  /\ f.operator \in Valueless => As("exists") # As("does_not_exist")
        /\ f.operator \in Listing => As("is_one_of") # As("is_not_one_of")

\* A filter is dropped "to keep half-typed filter rows from poisoning the WHERE
\* clause" (engine.go:1677-1679): what is left can still be parsed.
DroppedFiltersHarmless == stage = "done" => WellFormed(clauses)

\* "Those rows drop out of a time range, which is correct - a row with no
\* usable instant is not inside any window" (engine.go:1657-1659).
UndatedRowsDropOut ==
  stage = "done" /\ WellFormed(clauses) /\ (req.from # NoBound \/ req.to # NoBound)
    => \A row \in Row : row.time = Null => ~Selected(row, clauses)

=============================================================================
