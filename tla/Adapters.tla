------------------------------- MODULE Adapters -------------------------------
(***************************************************************************)
(* What the adapters (internal/ingest/...) say of a file before they read  *)
(* it, how the registry chooses among them (dispatch.go), and what they    *)
(* make of one line, block or element.                                     *)
(*                                                                         *)
(* A file is a sequence of lines as ReadLineBounded returns them; a line   *)
(* is what the rules tell apart:                                           *)
(*   stamp  a line the line rules of its form match; "at" is when it was   *)
(*          written, and ok says that its timestamp parses                 *)
(*   sep, field   a separator and a "key: value" line of the block rule    *)
(*   open, close  a tag; attr is the time attribute of an opening tag      *)
(*   chunk  a chunk of an event log: the times of its events, or damaged;  *)
(*          NoDict for one that is not a dictionary                        *)
(*   elf, par1, object   the first bytes of an event log, of Parquet, and  *)
(*          a line that is a whole JSON object                             *)
(*   blank, text, long    no text; any other text; more than MaxLineBytes  *)
(* The heads of files are counted in lines and not in bytes.  The rule of  *)
(* a stamp whose layout names the time zone counts as one of UTC.          *)
(*                                                                         *)
(* An operator whose name ends in Bug is a faulty variant of the one that  *)
(* follows it, for the property named in its comment.                      *)
(***************************************************************************)
EXTENDS Calendar, SequencesExt

CONSTANTS
  LineRules,      \* rules of the line adapter, in the order of their files
  BlockPriority,  \* priority of the block rule
  XmlPriority,    \* priority of the XML rule
  Registered,     \* names of the adapters in the order of registration
  SniffLines,     \* lines in the head every adapter is given
  LineSniffLines, \* lines in the head the line adapter reads itself
  XmlSample,      \* lines in the head the XML adapter looks for rows in
  NoTime          \* no time

\* Names in the order of the alphabet.
Alphabet == <<"block", "evtx", "line", "ndjson", "parquet", "xml">>

Forms == {"full", "tod", "monthday"}

ASSUME RegistryAssumption ==
  /\ LineRules \in Seq([name: STRING, form: Forms, priority: Nat, tz: Zones])
  /\ {BlockPriority, XmlPriority, SniffLines, LineSniffLines, XmlSample} \subseteq Nat
  /\ NoTime \notin Int
  /\ Registered \in Seq(Range(Alphabet))
  /\ \A i, j \in DOMAIN Registered : Registered[i] = Registered[j] => i = j

HeadOf(file, n) == SubSeq(file, 1, IF n < Len(file) THEN n ELSE Len(file))

MaxOr(S, default) == IF S = {} THEN default ELSE Max(S)

\* The positions of S, in order: the n-th has n - 1 of them before it.
InOrder(S) ==
  [n \in 1 .. Cardinality(S) |->
     Min({x \in S : Cardinality({y \in S : y < x}) = n - 1})]

-----------------------------------------------------------------------------
\* The line adapter.

Matches(rule, line) == line.kind = "stamp" /\ line.form = rule.form

AnyLineMatches(rule, lines) == \E i \in DOMAIN lines : Matches(rule, lines[i])

LineDetect(file) ==
  LET head == HeadOf(file, LineSniffLines) IN
  MaxOr({r.priority : r \in {q \in Range(LineRules) : AnyLineMatches(q, head)}}, 0)

\* The first of the rules of highest priority that match the head.
PickRule(rules, file) ==
  LET head == HeadOf(file, LineSniffLines)
      fits == {i \in DOMAIN rules : AnyLineMatches(rules[i], head)}
      best == {i \in fits : \A j \in fits : rules[j].priority <= rules[i].priority}
  IN IF fits = {} THEN <<>> ELSE <<rules[Min(best)]>>

\* A reading without a year, in the zone z: the year of the file, or the one
\* before.
WithMtimeYear(z, w, mtime) ==
  LET out == FromClock(z, InYear(w, YearOf(ToClock(z, mtime))))
      shown == ToClock(z, out)
  IN IF out - mtime > DayLen THEN FromClock(z, InYear(shown, YearOf(shown) - 1)) ELSE out

-----------------------------------------------------------------------------
\* The block adapter.

BlockDetect(head) ==
  IF \E i \in DOMAIN head : head[i].kind = "sep" THEN BlockPriority ELSE 0

\* The timestamp of a block: that of the first candidate that parses.  A value
\* that was continued is more than one line and does not.
BlockTime(file, fields, candidates) ==
  LET parsed == {i \in DOMAIN candidates :
                   /\ candidates[i] \in DOMAIN fields
                   /\ Len(fields[candidates[i]]) = 1
                   /\ file[fields[candidates[i]][1]].kind = "field"
                   /\ file[fields[candidates[i]][1]].ok}
  IN IF parsed = {} THEN NoTime ELSE file[fields[candidates[Min(parsed)]][1]].at

-----------------------------------------------------------------------------
\* The XML adapter.  The whole is read in an element of the adapter's own, so a
\* tag that is not closed is closed at the end.

XmlDetect(head) ==
  LET full == {i \in DOMAIN head : head[i].kind # "blank"} IN
  IF full # {} /\ head[Min(full)].kind \in {"open", "close"} THEN XmlPriority ELSE 0

Tags(file, from, to, kind) == {i \in from .. to : file[i].kind = kind}

\* Where the element opened at i ends.
CloseOf(file, i) ==
  LET ends == {j \in i .. Len(file) :
                 Cardinality(Tags(file, i, j, "open"))
                   = Cardinality(Tags(file, i, j, "close"))}
  IN IF ends = {} THEN Len(file) + 1 ELSE Min(ends)

\* The elements that are open at k.
Around(file, k) == {i \in Tags(file, 1, k - 1, "open") : CloseOf(file, i) > k}

\* 0 is the adapter's own root.
Parent(file, i) == MaxOr(Around(file, i), 0)

\* The most elements of that name under one parent.
Siblings(file, name) ==
  LET named == {i \in Tags(file, 1, Len(file), "open") : file[i].name = name} IN
  Max({Cardinality({j \in named : Parent(file, j) = Parent(file, i)}) : i \in named})

\* How deep the first element of that name is.
FirstDepth(file, name) ==
  Cardinality(Around(file, Min({i \in Tags(file, 1, Len(file), "open") :
                                  file[i].name = name})))

MinRowSiblings == 3

\* The names that may be taken for that of a row: the loop runs over a map, and
\* Go does not say in which order.
RowNames(file) ==
  LET names == {file[i].name : i \in Tags(file, 1, Len(file), "open")}
      rows  == {n \in names : Siblings(file, n) >= MinRowSiblings}
      most  == {n \in rows : \A m \in rows : Siblings(file, m) <= Siblings(file, n)}
  IN {n \in most : \A m \in most : FirstDepth(file, n) <= FirstDepth(file, m)}

\* The names of the elements inside row that are open at k, outermost first.
PathIn(file, row, k) ==
  LET inside == {i \in Around(file, k) : i > row} IN
  [n \in 1 .. Cardinality(inside) |-> file[InOrder(inside)[n]].name]

\* The values of a row, each with its path: its own attribute, the attributes of
\* the elements in it and the texts of these.  The row's own text is left out.
Values(file, row) ==
  LET in == row + 1 .. CloseOf(file, row) - 1
      Here(i) == IF i = row THEN <<>> ELSE Append(PathIn(file, row, i), file[i].name)
      inside == {i \in in : file[i].kind = "open"}
      texts == {i \in inside :
                  \E k \in in : file[k].kind = "text" /\ Max(Around(file, k)) = i}
  IN {<<Append(Here(i), "@"), i>> : i \in {j \in {row} \cup inside : file[j].attr # NoTime}}
       \cup {<<Here(i), i>> : i \in texts}

\* Bug, for RowsKept: a repeated path keeps its last value only.
FlattenBug(file, row) ==
  [key \in {v[1] : v \in Values(file, row)} |->
     <<Max({v[2] : v \in {w \in Values(file, row) : w[1] = key}})>>]

\* Repeated paths are collapsed into a list.
Flatten(file, row) ==
  [key \in {v[1] : v \in Values(file, row)} |->
     InOrder({v[2] : v \in {w \in Values(file, row) : w[1] = key}})]

\* The candidates of the shipped rule are attributes of the row.
RowTime(file, row) == file[row].attr

-----------------------------------------------------------------------------
\* Adapters without rules.

FirstIs(head, kind) == head # <<>> /\ head[1].kind = kind

EvtxDetect(head) == IF FirstIs(head, "elf") THEN 100 ELSE 0

ParquetDetect(head, ext) ==
  CASE FirstIs(head, "par1") -> 100
    [] ~FirstIs(head, "par1") /\ ext = "parquet" -> 90
    [] OTHER -> 0

NdjsonDetect(head, ext) ==
  LET full == {i \in DOMAIN head : head[i].kind # "blank"} IN
  CASE ext = "ndjson" -> 90
    [] ext # "ndjson" /\ full # {} /\ head[Min(full)].kind = "object"
         -> IF ext = "json" THEN 70 ELSE 90
    [] OTHER -> 0

-----------------------------------------------------------------------------
\* The registry.  A hint has the extension, how many lines the head had when it
\* was taken, and the time of the file; the line adapter opens the file again.

Detect(name, hint, file) ==
  LET head == HeadOf(file, hint.sniffed) IN
  CASE name = "line" -> LineDetect(file)
    [] name = "block" -> BlockDetect(head)
    [] name = "xml" -> XmlDetect(head)
    [] name = "evtx" -> EvtxDetect(head)
    [] name = "parquet" -> ParquetDetect(head, hint.ext)
    [] name = "ndjson" -> NdjsonDetect(head, hint.ext)

\* The answers of all; no two are registered under one name.
Verdicts(hint, file) ==
  {[name |-> name, score |-> Detect(name, hint, file)] : name \in Range(Registered)}

ByScore(v, w) ==
  \/ v.score > w.score
  \/ /\ v.score = w.score
     /\ \E i, j \in DOMAIN Alphabet : Alphabet[i] = v.name /\ Alphabet[j] = w.name /\ i < j

\* Bug, for ChosenReads: of equal scores the one registered first is taken.
PickBug(hint, file) ==
  LET Score(i) == Detect(Registered[i], hint, file)
      willing == {i \in DOMAIN Registered : Score(i) > 0}
  IN IF willing = {} THEN "none"
     ELSE Registered[Min({i \in willing : \A j \in willing : Score(j) <= Score(i)})]

Pick(hint, file) ==
  LET willing == {v \in Verdicts(hint, file) : v.score > 0} IN
  IF willing = {} THEN "none"
  ELSE (CHOOSE v \in willing : \A w \in willing \ {v} : ByScore(v, w)).name

\* The diagnosis ranks all, those that decline too.
Explain(hint, file) ==
  LET all == Verdicts(hint, file)
      ranked == [n \in 1 .. Cardinality(all) |->
                   CHOOSE v \in all : Cardinality({w \in all : ByScore(w, v)}) = n - 1]
  IN [adapters |-> ranked,
      chosen   |-> IF ranked # <<>> /\ ranked[1].score > 0 THEN ranked[1].name ELSE "none"]
===============================================================================
