------------------------------- MODULE Reports -------------------------------
(***************************************************************************)
(* What the engine makes of a request besides its page of rows: the total, *)
(* the histogram, the profile of the fields, the values and samples of one *)
(* field, the export (internal/engine/engine.go).  Each builds SQL of its  *)
(* own from the WHERE clause of QueryFilter, over one union of the enabled *)
(* files in which columns are the same when their names are up to case.    *)
(*                                                                         *)
(* Abstractions.  The catalog does not change during a report, which holds *)
(* the read lock (EngineCatalog).  A table is its columns, the paths into  *)
(* its STRUCT columns and its rows, a row the value at each.  The root of  *)
(* a path is a STRUCT wherever it is.  Only what the columns of DatedNames *)
(* hold may read as an instant.  The profile's distinct count, which       *)
(* approx_count_distinct estimates, is left out.  The order of equal       *)
(* counts is any.                                                          *)
(*                                                                         *)
(* An operator whose name ends in Bug is a faulty variant of the one that  *)
(* follows it, for the property named in its comment.                      *)
(***************************************************************************)
EXTENDS QueryFilter, SequencesExt

CONSTANTS
  Names,           \* names of columns and paths
  Lower,           \* the lower-case form of each name
  Root,            \* the column a path leads into
  TimeField,       \* the engine's timestamp field
  DatedNames,      \* columns that may hold instants, in lower case
  SortFields,      \* columns a request sorts by: TimeField, as without one, and others
  Catalogs,        \* loaded files: sequences of tables
  Intervals,       \* widths of a bar, increasing, in seconds
  MaxBuckets,      \* bars the histogram aims at
  DayWidth,        \* seconds of a day
  Tick,            \* units of a timestamp in a second
  SampleCap,       \* values a field may have to be worth a sample
  MaxValues,       \* values the list of one field shows
  MaxFields        \* fields a profile covers

\* Columns are the same when their names are up to letter case.
SameName(a, b) == Lower[a] = Lower[b]

\* A column that may hold instants.
IsDated(name) == Lower[name] \in DatedNames

ASSUME ReportsAssumption ==
  /\ Null \notin Nat /\ Garbage \notin Nat
  /\ Fields \cup SortFields \subseteq Names /\ TimeField \in SortFields
  /\ IsDated(TimeField)
  /\ {Lower, Root} \subseteq [Names -> Names]
  /\ Intervals \in Seq(Nat \ {0}) \ {<< >>} /\ Intervals[1] = 1
  /\ {MaxBuckets, DayWidth, Tick, SampleCap, MaxValues, MaxFields} \subseteq Nat \ {0}
  /\ \A cat \in Catalogs :
       /\ DOMAIN cat = 1..Len(cat) /\ Len(cat) \in Nat
       /\ \A k \in DOMAIN cat :
            /\ cat[k].enabled \in BOOLEAN
            /\ {cat[k].cols, cat[k].paths} \subseteq Seq(Names)
            /\ DOMAIN cat[k].rows = 1..Len(cat[k].rows) /\ Len(cat[k].rows) \in Nat
       /\ \A k \in DOMAIN cat : \A j \in DOMAIN cat[k].rows, c \in ToSet(cat[k].cols) :
            IsDated(c) => cat[k].rows[j][c] \in Nat \cup {Null, Garbage}

-----------------------------------------------------------------------------
(* The union of the enabled files *)

\* The first spelling of each name, in order of appearance.
FirstSpellings(names) ==
  FoldLeft(LAMBDA out, n : IF \E k \in DOMAIN out : SameName(out[k], n)
                           THEN out ELSE Append(out, n),
           << >>, names)

\* What the tables of enabledTables have, their "cols" or their "paths".
Gathered(cat, part) ==
  FoldLeft(LAMBDA out, t : IF t.enabled THEN out \o t[part] ELSE out, << >>, cat)

CanonicalColumns(cat) == FirstSpellings(Gathered(cat, "cols"))

\* What the field picker offers.
GetFields(cat) == FirstSpellings(CanonicalColumns(cat) \o Gathered(cat, "paths"))

\* The places of a name among a table's columns.
ColumnsNamed(t, f) == {i \in DOMAIN t.cols : SameName(t.cols[i], f)}

TableHasField(t, f) == \E n \in ToSet(t.cols) \cup ToSet(t.paths) : SameName(n, f)

\* A name is a column when some loaded file, enabled or not, has that column.
IsColumn(cat, f) == \E k \in DOMAIN cat : ColumnsNamed(cat[k], f) # {}

\* It is a column of the union when an enabled file has it.
InUnion(cat, f) == \E k \in DOMAIN cat : cat[k].enabled /\ ColumnsNamed(cat[k], f) # {}

\* The expression quoteFieldRef makes of a name is over a column of the union.
RefersToUnion(cat, f) ==
  IF IsColumn(cat, f) THEN InUnion(cat, f)
  ELSE \E k \in DOMAIN cat : \E p \in ToSet(cat[k].paths) :
         SameName(p, f) /\ InUnion(cat, Root[p])

Answerables == [cat \in Catalogs |-> {f \in Fields : RefersToUnion(cat, f)}]

Answerable(cat, f) == f \in Answerables[cat]

\* The timestamp field is quoted as it is, and may be no path.
HasTime(cat) == InUnion(cat, TimeField)

\* Bug (RowsFound): of columns that differ in case only, the first one counts.
CoalescedBug(t, row, f) ==
  IF ColumnsNamed(t, f) = {} THEN Null ELSE row[t.cols[Min(ColumnsNamed(t, f))]]

\* The projection of a table on a canonical column: the first value among its
\* columns of that name, NULL when it has none.
Coalesced(t, row, f) ==
  LET filled == {i \in ColumnsNamed(t, f) : row[t.cols[i]] # Null}
  IN  IF filled = {} THEN Null ELSE row[t.cols[Min(filled)]]

\* quoteFieldRef over the projection of one row.  Of the spellings of a path one is
\* taken, whichever comes first in a Go map.
UnionValue(cat, t, row, f) ==
  IF IsColumn(cat, f) THEN Coalesced(t, row, f)
  ELSE LET spellings == {p \in UNION {ToSet(cat[k].paths) : k \in DOMAIN cat} : SameName(p, f)}
           path == CHOOSE p \in spellings : TRUE
       IN  IF path \in spellings \cap ToSet(t.paths) THEN row[path] ELSE Null

TryCast(value) == IF value \in {Null, Garbage} THEN Null ELSE value

\* The column a request for one is shown by: that one when an enabled file has it.
SortColumn(cat, requested) == IF InUnion(cat, requested) THEN requested ELSE TimeField

\* The instant a row has there.
InstantOf(cat, t, row, requested) ==
  LET column == SortColumn(cat, requested)
  IN  IF IsDated(column) THEN TryCast(Coalesced(t, row, column)) ELSE Null

UnionRow(cat, t, row) ==
  [time |-> TryCast(Coalesced(t, row, TimeField)),
   at |-> [s \in SortFields |-> InstantOf(cat, t, row, s)],
   cols |-> [f \in Fields |-> UnionValue(cat, t, row, f)]]

Places(cat) ==
  UNION {{<<k, j>> : j \in DOMAIN cat[k].rows} : k \in {i \in DOMAIN cat : cat[i].enabled}}

Union == [cat \in Catalogs |->
            [p \in Places(cat) |-> UnionRow(cat, cat[p[1]], cat[p[1]].rows[p[2]])]]

RowAt(cat, p) == Union[cat][p]

-----------------------------------------------------------------------------
(* The reports on a request whose clause is built *)

\* Where the rows are that a clause selects.
Matching(cat, c) == {p \in Places(cat) : Selected(RowAt(cat, p), c)}

Total(cat) == Cardinality(Matching(cat, clauses))

Present(row, f) == True(row, <<"present", f>>)

ProfileOf(cat, f) ==
  LET rows == {p \in Matching(cat, clauses) : Present(RowAt(cat, p), f)}
  IN  [name |-> f,
       present |-> Cardinality(rows),
       files |-> Cardinality({k \in DOMAIN cat : cat[k].enabled /\ TableHasField(cat[k], f)})]

\* Of the fields asked for, which are all columns when the request names none.
GetProfile(cat, fields) ==
  [total |-> Total(cat), truncated |-> Len(fields) > MaxFields,
   fields |-> [k \in 1..Min({Len(fields), MaxFields}) |-> ProfileOf(cat, fields[k])]]

\* Bug (PanelsAgree): the values are those of all rows.
ValuesClauseBug(f) == << <<"present", f>> >>

ValuesClause(f) ==
  IF clauses = << >> THEN << <<"present", f>> >> ELSE clauses \o <<And, <<"present", f>> >>

\* A row without the field may get through when the request has an "or": its
\* group is listed as the empty string.
GroupsOf(cat, f) ==
  LET rows == Matching(cat, ValuesClause(f))
      ValueAt(p) == RowAt(cat, p).cols[f]
  IN  {[value |-> v, count |-> Cardinality({p \in rows : ValueAt(p) = v})] :
         v \in {ValueAt(p) : p \in rows}}

\* The lists GetFieldValues may answer with: the most frequent values.
FieldValues(cat, f, limit) ==
  LET groups == GroupsOf(cat, f)
      size == IF limit \in 1..MaxValues THEN limit ELSE MaxValues
  IN  {S \in SUBSET groups :
         /\ Cardinality(S) = Min({size, Cardinality(groups)})
         /\ \A g \in S, h \in groups \ S : g.count >= h.count}

\* Sampled without the request's conditions.
FieldSamples(cat, f) ==
  LET values == {RowAt(cat, p).cols[f] : p \in {q \in Places(cat) : Present(RowAt(cat, q), f)}}
  IN  IF Cardinality(values) > SampleCap THEN {} ELSE values

ExportFiltered(cat) ==
  IF HasTime(cat) THEN Cardinality(Matching(cat, clauses)) ELSE 0

\* The files whose first column of the name holds instants.
TimesInFiles(cat) ==
  LET ColumnOf(t) == t.cols[Min(ColumnsNamed(t, TimeField))]
  IN  {TryCast(cat[p[1]].rows[p[2]][ColumnOf(cat[p[1]])]) :
         p \in {q \in Places(cat) : ColumnsNamed(cat[q[1]], TimeField) # {}}} \ {Null}

GetTimeRange(cat) ==
  LET times == TimesInFiles(cat)
  IN  IF times = {} THEN << >> ELSE <<Min(times), Max(times)>>

\* Bug (BarsBounded): the width before the one that fits.
PickIntervalBug(seconds) ==
  LET fit == {k \in DOMAIN Intervals : seconds \div Intervals[k] <= MaxBuckets}
  IN  IF fit = {} THEN ((seconds \div MaxBuckets) \div DayWidth) * DayWidth + 1
      ELSE Intervals[IF Min(fit) > 1 THEN Min(fit) - 1 ELSE 1]

PickInterval(seconds) ==
  LET fit == {k \in DOMAIN Intervals : seconds \div Intervals[k] <= MaxBuckets}
  IN  IF fit = {} THEN ((seconds \div MaxBuckets) \div DayWidth + 1) * DayWidth
      ELSE Intervals[Min(fit)]

\* The histogram of a request that sorts by s is over what s resolves to.
DatedBy(cat, s) == {p \in Matching(cat, clauses) : RowAt(cat, p).at[s] # Null}

Bars(cat, s) ==
  LET dated == DatedBy(cat, s)
      times == {RowAt(cat, p).at[s] : p \in dated}
      width == PickInterval((Max(times) - Min(times)) \div Tick) * Tick
      Bucket(p) == RowAt(cat, p).at[s] \div width
  IN  IF times = {} THEN {}
      ELSE {[start |-> b * width, count |-> Cardinality({p \in dated : Bucket(p) = b})] :
              b \in {Bucket(p) : p \in dated}}

-----------------------------------------------------------------------------
(* Properties *)

\* The request is one DuckDB answers over this catalog.
Answered(cat) ==
  /\ stage = "done" /\ WellFormed(clauses)
  /\ req.from # NoBound \/ req.to # NoBound => HasTime(cat)
  /\ \A k \in Kept : Answerable(cat, req.filters[k].field)

Conjunctive == \A k \in Kept : req.filters[k].logic = "and"

\* The values a table has itself under a name: its columns, or a path.
OwnValues(t, row, f) ==
  {row[n] : n \in {m \in ToSet(t.cols) \cup ToSet(t.paths) : SameName(m, f)}} \ {Null}

\* What a row says by the table it comes from, when that is clear.
Clear(t, row) == \A f \in Fields \cup {TimeField} : Cardinality(OwnValues(t, row, f)) <= 1

OwnValue(t, row, f) ==
  IF OwnValues(t, row, f) = {} THEN Null ELSE CHOOSE v \in OwnValues(t, row, f) : TRUE

OwnRow(t, row) == [time |-> TryCast(OwnValue(t, row, TimeField)),
                   cols |-> [f \in Fields |-> OwnValue(t, row, f)]]

\* No file has as a column what another has as a path.
NoClash(cat) ==
  \A i, k \in DOMAIN cat : \A c \in ToSet(cat[i].cols), p \in ToSet(cat[k].paths) : ~SameName(c, p)

\* A path is spelt one way in all files.
OneSpelling(cat) ==
  \A i, k \in DOMAIN cat : \A p \in ToSet(cat[i].paths), q \in ToSet(cat[k].paths) :
    SameName(p, q) => p = q

\* A row of a file is among the results exactly when it is by its own columns,
\* whatever their case, and whatever other files have or lack.
RowsFound ==
  \A cat \in Catalogs : Answered(cat) /\ NoClash(cat) /\ OneSpelling(cat) =>
    LET found == Matching(cat, clauses)
    IN  \A p \in Places(cat) :
          LET t == cat[p[1]]
              row == t.rows[p[2]]
          IN  Clear(t, row) => (p \in found <=> Selected(OwnRow(t, row), clauses))

\* What the field picker offers of the fields requests are about.
Offers ==
  [cat \in Catalogs |->
     FoldLeft(LAMBDA out, n : IF n \in Fields THEN Append(out, n) ELSE out, << >>, GetFields(cat))]

Offered(cat) == Offers[cat]

SumOfCounts(S) == MapThenSumSet(LAMBDA g : g.count, S)

\* The panels tell one story: whatever the request sorts by, the bars and the rows
\* without an instant there add up to the total; what is exported is what was
\* found; and, in a request without "or", the values of a field add up to the rows
\* the profile counts for it, which are all rows when a filter says that the field
\* exists.
PanelsAgree ==
  \A cat \in Catalogs : Answered(cat) /\ HasTime(cat) /\ OneSpelling(cat) =>
    LET found == Matching(cat, clauses)
        total == Total(cat)
    IN
    /\ \A s \in SortFields :
         total = SumOfCounts(Bars(cat, s)) + Cardinality({p \in found : RowAt(cat, p).at[s] = Null})
    /\ ExportFiltered(cat) = total
    /\ Conjunctive => \A entry \in ToSet(GetProfile(cat, Offered(cat)).fields) :
         LET f == entry.name
             groups == GroupsOf(cat, f)
         IN  /\ \A list \in FieldValues(cat, f, 1) \cup FieldValues(cat, f, 0) :
                  /\ SumOfCounts(list) <= entry.present
                  /\ list = groups => SumOfCounts(list) = entry.present
             /\ clauses = << >> /\ FieldSamples(cat, f) # {} =>
                  FieldSamples(cat, f) = {g.value : g \in groups}
             /\ entry.files > 0
             /\ \A k \in Kept : req.filters[k].field = f =>
                  /\ req.filters[k].operator = "exists" => entry.present = total
                  /\ req.filters[k].operator = "does_not_exist" => entry.present = 0

OneTimeColumn(t) == Cardinality(ColumnsNamed(t, TimeField)) <= 1

\* However long the time it shows and whichever column it is over, a histogram has
\* two bars at most over what it aims at, and one over the timestamp field starts
\* no bar after the range the viewer shows for the files.
BarsBounded ==
  \A cat \in Catalogs, s \in SortFields : Answered(cat) /\ HasTime(cat) =>
    LET bars == Bars(cat, s)
    IN  /\ Cardinality(bars) <= MaxBuckets + 2
        /\ SameName(SortColumn(cat, s), TimeField) /\ (\A k \in DOMAIN cat : OneTimeColumn(cat[k])) =>
             \A bar \in bars : bar.start <= GetTimeRange(cat)[2]

\* "Empty and NULL are excluded" (engine.go:1075) from the values of a field.
NoEmptyValues ==
  \A cat \in Catalogs : Answered(cat) =>
    \A f \in Fields : \A g \in GroupsOf(cat, f) : g.value \notin {Null, EmptyText}

\* The histogram's width "keeps the bar count within the cap" (engine.go:877).
BarsWithinCap ==
  \A cat \in Catalogs, s \in SortFields : Answered(cat) => Cardinality(Bars(cat, s)) <= MaxBuckets

=============================================================================
