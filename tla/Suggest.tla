-------------------------------- MODULE Suggest --------------------------------
(***************************************************************************)
(* The rule builder's suggestion (internal/parsers/suggest.go): from a     *)
(* sample of a log, the timestamp's shape and its layout, and a regular    *)
(* expression for the line, built by a walk over the samples' tokens in    *)
(* lockstep.                                                               *)
(*                                                                         *)
(* A line is a sequence of atoms: the runs of digits, of letters and of    *)
(* spaces, and single punctuation marks.  A regular expression is a        *)
(* sequence of elements, each of which takes whole atoms.                  *)
(*                                                                         *)
(* Abstractions.  A timestamp begins and ends at the edge of a run.  Of    *)
(* the seven shapes there are four: "iso" and "dmy", whose variants with   *)
(* slashes and dots differ in the mark alone, "syslog" and "time"; clf,    *)
(* whose layout is fixed, and the colon before milliseconds are left out.  *)
(* The warnings but the one on the order of day and month are left out.    *)
(*                                                                         *)
(* An operator whose name ends in Bug is a faulty variant of the one that  *)
(* follows it, for the property named in its comment.                      *)
(***************************************************************************)
EXTENDS Naturals, FiniteSets, SequencesExt, TLC

CONSTANTS
  Samples,      \* samples: sequences of lines
  One, Two, Four, \* runs of so many digits
  Value,        \* the number a run of two digits stands for
  Months,       \* names of months
  Levels,       \* level words
  Slug,         \* the slug of each word that has one
  MaxSampleLines, MaxTokens, MaxCaptures  \* as in the source

ASSUME SuggestAssumption ==
  /\ {MaxSampleLines, MaxTokens, MaxCaptures} \subseteq Nat \ {0}
  /\ Two \subseteq DOMAIN Value

VARIABLES
  sample,   \* the lines of the sample
  stage,    \* "sample", "picked", "walk", "done"; "none" when no shape was found
  cand,     \* the timestamp's shape, in a sequence of its own
  layout,   \* what the rule says of it
  lines,    \* the token streams compared
  anywhere, \* the pattern begins with .*? and not at the line's start
  pos,      \* the next token
  pattern   \* the elements so far; .* to the line's end is understood

vars == <<sample, stage, cand, layout, lines, anywhere, pos, pattern>>

-----------------------------------------------------------------------------
(* Timestamps *)

Atoms(kind, texts) == [kind: {kind}, text: texts]

Mark(text) == Atoms("punct", {text})

Number(texts) == Atoms("digits", texts)

Letters(texts) == Atoms("letters", texts)

Gap == Atoms("space", {" "})

Clock == <<Number(Two), Mark(":"), Number(Two), Mark(":"), Number(Two)>>

Seconds == {Clock, Clock \o <<Mark("."), Number(One)>>}

Zones == {<< >>, <<Letters({"Z"})>>, <<Mark("+"), Number(Two), Mark(":"), Number(Two)>>,
          <<Mark("+"), Number(Four)>>}

Between == {Letters({"T"}), Gap}

\* The texts each shape's expression matches, as sequences of sets of atoms.
Spellings ==
  [iso    |-> {<<Number(Four), Mark("-"), Number(Two), Mark("-"), Number(Two), sep>> \o t \o z :
                 sep \in Between, t \in Seconds, z \in Zones},
   dmy    |-> {<<Number(Two), Mark("-"), Number(Two), Mark("-"), Number(Four), sep>> \o t :
                 sep \in Between, t \in Seconds},
   syslog |-> {<<Letters(Months), Gap, Number(Two), Gap>> \o Clock,
               <<Letters(Months), Atoms("space", {"  "}), Number(One), Gap>> \o Clock},
   time   |-> Seconds]

Spelt(line, i, s) ==
  i + Len(s) - 1 <= Len(line) /\ \A k \in DOMAIN s : line[i + k - 1] \in s[k]

\* Where a shape occurs in a line.
Spans(line, shape) ==
  UNION {{<<i, i + Len(s) - 1>> : s \in {t \in Spellings[shape] : Spelt(line, i, t)}} :
           i \in DOMAIN line}

\* The first and longest, or <<0, 0>>.
FindStamp(line, shape) ==
  LET spans == Spans(line, shape)
  IN  IF spans = {} THEN <<0, 0>>
      ELSE CHOOSE s \in spans : \A t \in spans : s[1] < t[1] \/ (s[1] = t[1] /\ s[2] >= t[2])

Stamped(line, shape) == FindStamp(line, shape) # <<0, 0>>

StampIn(line, shape) == LET s == FindStamp(line, shape) IN SubSeq(line, s[1], s[2])

Candidates == <<"iso", "dmy", "syslog", "time">>

Matches(text, shape) ==
  LET found == SelectSeq(text, LAMBDA line : Stamped(line, shape))
  IN  [k \in DOMAIN found |-> StampIn(found[k], shape)]

\* The first shape that is in a majority of the lines, in a sequence of its own.
PickCandidate(text) ==
  LET common == SelectSeq(Candidates, LAMBDA c : Len(Matches(text, c)) >= (Len(text) + 1) \div 2)
  IN  IF common = << >> THEN << >> ELSE <<Head(common)>>

\* The zone fragment: Z07:00 reads Z and +02:00, Z0700 reads Z and +0200.
ZoneLayout(match) ==
  CASE Last(match).text = "Z" -> "Z07:00"
    [] Last(match).text \in Four -> "Z0700"
    [] Len(match) > 4 /\ match[Len(match) - 3].text = "+" -> "Z07:00"
    [] OTHER -> ""

\* Bug (DatesRight): only the first line is asked.
DateOrderBug(matches) ==
  CASE Value[matches[1][1].text] > 12 -> "day"
    [] Value[matches[1][3].text] > 12 -> "month"
    [] OTHER -> "guess"

\* Which of day and month comes first, by the first line that tells.
DateOrder(matches) ==
  LET telling == SelectSeq(matches, LAMBDA m : Value[m[1].text] > 12 \/ Value[m[3].text] > 12)
  IN  IF telling = << >> THEN "guess"
      ELSE IF Value[telling[1][1].text] > 12 THEN "day" ELSE "month"

\* The layout is derived from the first text found, except the order.
LayoutOf(shape, matches) ==
  [sep  |-> IF shape \in {"iso", "dmy"} THEN matches[1][6].text ELSE "",
   zone |-> IF shape = "iso" THEN ZoneLayout(matches[1]) ELSE "",
   order |-> IF shape = "dmy" THEN DateOrder(matches) ELSE ""]

-----------------------------------------------------------------------------
(* Tokens *)

Blank(line) == \A i \in DOMAIN line : line[i].kind = "space"

SampleLines(text) ==
  LET some == SelectSeq(text, LAMBDA line : ~Blank(line))
  IN  SubSeq(some, 1, Min({MaxSampleLines, Len(some)}))

KindOf(atom) ==
  CASE atom.kind = "digits" -> "number"
    [] atom.kind = "letters" -> IF atom.text \in Levels THEN "level" ELSE "word"
    [] OTHER -> atom.kind

\* Letters take the digits after them into their word.
Extends(out, atom) ==
  out # << >> /\ Last(out).kind \in {"word", "level"} /\ atom.kind \in {"letters", "digits"}

\* The timestamp is a token of its own, and no run crosses into it.
AddAtom(out, line, stamp, i) ==
  CASE i = stamp[1] -> Append(out, [kind |-> "timestamp", text |-> << >>])
    [] i \in stamp[1] + 1 .. stamp[2] -> out
    [] i \notin stamp[1] .. stamp[2] /\ Extends(out, line[i]) ->
         Front(out) \o <<[kind |-> "word", text |-> Append(Last(out).text, line[i].text)]>>
    [] OTHER -> Append(out, [kind |-> KindOf(line[i]), text |-> <<line[i].text>>])

Tokenize(line, shape) ==
  LET stamp == FindStamp(line, shape)
      all == FoldLeft(LAMBDA out, i : AddAtom(out, line, stamp, i), << >>,
                      [i \in DOMAIN line |-> i])
  IN  SubSeq(all, 1, Min({MaxTokens, Len(all)}))

TimestampIndex(stream) == SelectInSeq(stream, LAMBDA t : t.kind = "timestamp")

\* Every line has its timestamp at the same place.
Aligned(streams) ==
  /\ \A s \in ToSet(streams) : TimestampIndex(s) > 0
  /\ Cardinality({TimestampIndex(s) : s \in ToSet(streams)}) = 1

\* The lines from their timestamps on, those without one dropped.
Realign(streams) ==
  LET dated == SelectSeq(streams, LAMBDA s : TimestampIndex(s) > 0)
  IN  IF dated = << >> THEN streams
      ELSE [k \in DOMAIN dated |-> SubSeq(dated[k], TimestampIndex(dated[k]), Len(dated[k]))]

-----------------------------------------------------------------------------
(* The walk: what the lines have in common at a place *)

Shortest == Min({Len(s) : s \in ToSet(lines)})

At(i) == {lines[k][i] : k \in DOMAIN lines}

Count(i, kind) == Cardinality({k \in DOMAIN lines : lines[k][i].kind = kind})

\* The kind all lines have there.  Words and levels mix: the majority decides.
CommonKind(i) ==
  LET kinds == {t.kind : t \in At(i)}
  IN  IF i > Shortest THEN "none"
      ELSE IF kinds \subseteq {"word", "level"}
      THEN IF 2 * Count(i, "level") >= Len(lines) THEN "level" ELSE "word"
      ELSE IF Cardinality(kinds) = 1 THEN CHOOSE kind \in kinds : TRUE ELSE "none"

AllSame(i) == Cardinality({t.text : t \in At(i)}) = 1

IsPoint(i) == \A t \in At(i) : t.kind = "punct" /\ t.text = <<".">>

\* Where the dotted numbers that begin at i end.
DottedNumberRun(i) ==
  Max({i} \cup {e \in i + 2 .. Shortest :
                  /\ (e - i) % 2 = 0
                  /\ \A k \in i + 1 .. e : IF (k - i) % 2 = 1 THEN IsPoint(k)
                                           ELSE CommonKind(k) = "number"})

\* Every line has the same mark after the place.
Delimited(i) ==
  /\ \A k \in DOMAIN lines : i < Len(lines[k])
  /\ \A t \in At(i + 1) : t.kind = "punct"
  /\ AllSame(i + 1)

-----------------------------------------------------------------------------
(* The walk: the pattern.  An element is an expression, its argument, and  *)
(* the name of its group, << >> for none.                                  *)

Element(e, arg, name, anon) == [exp |-> e, arg |-> arg, name |-> name, anon |-> anon]

Names == {<<"ts">>, <<"message">>} \cup {e.name : e \in ToSet(pattern)}

\* A name that is not used yet, by a number after it if need be.
Take(want) ==
  IF want \notin Names THEN want
  ELSE Append(want, ToString(Min({i \in 2 .. Cardinality(Names) + 2 :
                                    Append(want, ToString(i)) \notin Names})))

Captured == {k \in DOMAIN pattern : pattern[k].name \notin {<< >>, <<"ts">>}}

Emitted == \E k \in DOMAIN pattern : pattern[k].exp = "ts"

\* A label is a word and a : or = just before the place.
LabelName ==
  LET n == Len(pattern)
  IN  IF /\ n >= 2 /\ {pattern[n].exp, pattern[n - 1].exp} = {"literal"}
         /\ pattern[n].arg \in {<<":">>, <<"=">>}
         /\ pattern[n - 1].arg \in DOMAIN Slug
      THEN Slug[pattern[n - 1].arg] ELSE << >>

\* The group for a value: its own name, or a numbered field.
Capture(exp, arg, want) ==
  LET anon == 1 + Cardinality({k \in DOMAIN pattern : pattern[k].anon})
  IN  Element(exp, arg, Take(IF want = << >> THEN <<"field", ToString(anon)>> ELSE want),
              want = << >>)

Init ==
  /\ sample \in Samples
  /\ stage = "sample" /\ cand = << >> /\ layout = [sep |-> "", zone |-> "", order |-> ""]
  /\ lines = << >> /\ anywhere = FALSE /\ pos = 1 /\ pattern = << >>

Usable == SampleLines(sample)

Pick ==
  /\ stage = "sample"
  /\ cand' = IF Usable = << >> THEN << >> ELSE PickCandidate(Usable)
  /\ stage' = "picked"
  /\ UNCHANGED <<sample, layout, lines, anywhere, pos, pattern>>

\* No line, or no timestamp: the user is told to write the expression.
NothingFound ==
  /\ stage = "picked" /\ cand = << >>
  /\ stage' = "none"
  /\ UNCHANGED <<sample, cand, layout, lines, anywhere, pos, pattern>>

Streams == [k \in DOMAIN Usable |-> Tokenize(Usable[k], cand[1])]

\* The walk begins at the lines' starts when their timestamps are in step.
ShapeFound ==
  /\ stage = "picked" /\ cand # << >>
  /\ layout' = LayoutOf(cand[1], Matches(Usable, cand[1]))
  /\ LET streams == Streams
     IN  /\ anywhere' = ~Aligned(streams)
         /\ lines' = IF Aligned(streams) THEN streams ELSE Realign(streams)
  /\ stage' = "walk"
  /\ UNCHANGED <<sample, cand, pos, pattern>>

Here == CommonKind(pos)

\* A place the walk may go on at.
MayGoOn ==
  /\ stage = "walk"
  /\ Here \in {"space", "timestamp"} \/ Cardinality(Captured) < MaxCaptures

Emit(element, next) ==
  /\ pattern' = Append(pattern, element)
  /\ pos' = next
  /\ UNCHANGED <<sample, stage, cand, layout, lines, anywhere>>

WalkTimestamp ==
  MayGoOn /\ Here = "timestamp" /\ ~Emitted /\ Emit(Element("ts", << >>, <<"ts">>, FALSE), pos + 1)

WalkSpace == MayGoOn /\ Here = "space" /\ Emit(Element("spaces", << >>, << >>, FALSE), pos + 1)

WalkLevel == MayGoOn /\ Here = "level" /\ Emit(Capture("letters", << >>, <<"level">>), pos + 1)

\* Bug (RestFits): a number that is the same everywhere is copied.
WalkNumberBug ==
  /\ MayGoOn /\ Here = "number" /\ DottedNumberRun(pos) = pos
  /\ Emit(IF AllSame(pos) THEN Element("literal", lines[1][pos].text, << >>, FALSE)
          ELSE Capture("digits", << >>, LabelName), pos + 1)

WalkNumber ==
  /\ MayGoOn /\ Here = "number" /\ DottedNumberRun(pos) = pos
  /\ Emit(Capture("digits", << >>, LabelName), pos + 1)

WalkDottedNumber ==
  /\ MayGoOn /\ Here = "number" /\ DottedNumberRun(pos) > pos
  /\ Emit(Capture("dotted", << >>, LabelName), DottedNumberRun(pos) + 1)

\* A word that stays is copied, one that changes is captured, up to the mark
\* after it.
WalkSameWord ==
  /\ MayGoOn /\ Here = "word" /\ AllSame(pos) /\ Delimited(pos)
  /\ Emit(Element("literal", lines[1][pos].text, << >>, FALSE), pos + 1)

WalkOtherWord ==
  /\ MayGoOn /\ Here = "word" /\ ~AllSame(pos) /\ Delimited(pos)
  /\ Emit(Capture("upto", lines[1][pos + 1].text, LabelName), pos + 1)

\* Bug (RuleFits): the first line's mark is copied, whatever the others have.
WalkMarkBug ==
  /\ MayGoOn /\ Here = "punct"
  /\ Emit(Element("literal", lines[1][pos].text, << >>, FALSE), pos + 1)

WalkMark ==
  /\ MayGoOn /\ Here = "punct" /\ AllSame(pos)
  /\ Emit(Element("literal", lines[1][pos].text, << >>, FALSE), pos + 1)

Stops ==
  /\ stage = "walk"
  /\ \/ Here = "none" \/ ~MayGoOn
     \/ Here = "timestamp" /\ Emitted
     \/ Here = "word" /\ ~Delimited(pos)
     \/ Here = "punct" /\ ~AllSame(pos)

\* Everything after the place is the message.
Finished ==
  /\ Stops /\ Emitted
  /\ stage' = "done"
  /\ UNCHANGED <<sample, cand, layout, lines, anywhere, pos, pattern>>

\* Short of the timestamp the walk begins again, there.
Again ==
  /\ Stops /\ ~Emitted /\ ~anywhere
  /\ lines' = Realign(lines) /\ anywhere' = TRUE /\ pos' = 1 /\ pattern' = << >>
  /\ UNCHANGED <<sample, stage, cand, layout>>

\* The timestamp alone, and any space after it.
Fallback ==
  /\ Stops /\ ~Emitted /\ anywhere
  /\ pattern' = <<Element("ts", << >>, <<"ts">>, FALSE), Element("maybe", << >>, << >>, FALSE)>>
  /\ stage' = "done"
  /\ UNCHANGED <<sample, cand, layout, lines, anywhere, pos>>

Next ==
  \/ Pick \/ NothingFound \/ ShapeFound
  \/ WalkTimestamp \/ WalkSpace \/ WalkLevel \/ WalkNumber \/ WalkDottedNumber
  \/ WalkSameWord \/ WalkOtherWord \/ WalkMark
  \/ Finished \/ Again \/ Fallback

Spec == Init /\ [][Next]_vars

-----------------------------------------------------------------------------
(* Properties *)

(* The places of a line an element may lead to from a place. *)
Runs(line, i, allowed) ==
  {j \in i + 1 .. Len(line) + 1 : \A k \in i .. j - 1 : line[k] \in allowed}

Single(line, i, kind) == IF i <= Len(line) /\ line[i].kind = kind THEN {i + 1} ELSE {}

After(line, i, e) ==
  CASE e.exp = "ts" -> {i + Len(s) : s \in {t \in Spellings[cand[1]] : Spelt(line, i, t)}}
    [] e.exp = "spaces" -> Single(line, i, "space")
    [] e.exp = "maybe" -> {i} \cup Single(line, i, "space")
    [] e.exp = "letters" -> Single(line, i, "letters")
    [] e.exp = "digits" -> Single(line, i, "digits")
    [] e.exp = "dotted" ->
         Runs(line, i, {a \in ToSet(line) : a.kind = "digits" \/ a.text = "."})
    [] e.exp = "upto" ->
         Runs(line, i, {a \in ToSet(line) : a.kind # "space" /\ a.text # e.arg[1]})
    [] e.exp = "literal" ->
         IF /\ i + Len(e.arg) - 1 <= Len(line)
            /\ \A k \in DOMAIN e.arg : line[i + k - 1].text = e.arg[k]
         THEN {i + Len(e.arg)} ELSE {}

\* Where the pattern may find the timestamp of a line.
Captures(line) ==
  LET starts == IF anywhere THEN 1 .. Len(line) ELSE {1}
      Move(states, e) ==
        UNION {{<<j, IF e.exp = "ts" THEN s[1] ELSE s[2]>> : j \in After(line, s[1], e)} :
                 s \in states}
      TimesFrom(i) == {s[2] : s \in FoldLeft(Move, {<<i, 0>>}, pattern)}
      matching == {i \in starts : TimesFrom(i) # {}}
  IN  IF matching = {} THEN {} ELSE TimesFrom(Min(matching))

Reads(line) == Captures(line) = {FindStamp(line, cand[1])[1]}

\* Lines with a timestamp the walk could see.
Dated == {line \in ToSet(Usable) : TimestampIndex(Tokenize(line, cand[1])) > 0}

\* A word with a digit in it does not fit a place where levels are read.
PlainWords(line) == \A t \in ToSet(Tokenize(line, cand[1])) : Len(t.text) <= 1

Plain == {line \in Dated : PlainWords(line)}

Compiles == \A i, k \in DOMAIN pattern :
              i # k /\ pattern[i].name # << >> =>
                pattern[i].name # pattern[k].name /\ pattern[i].name # <<"message">>

\* The suggested expression compiles, matches every line of the sample that has
\* the timestamp and plain words, and finds in it the timestamp it was made from.
RuleFits == stage = "done" => Compiles /\ \A line \in Plain : Reads(line)

Other == [kind \in {"digits", "level", "space"} |->
            CASE kind = "digits" -> "8" [] kind = "level" -> "warn" [] kind = "space" -> "   "]

\* The line as it might be elsewhere in the file: of other numbers, levels, padding.
Elsewhere(line) ==
  LET stamp == FindStamp(line, cand[1])
      Kind(a) == IF a.text \in Levels THEN "level" ELSE a.kind
  IN  [i \in DOMAIN line |->
         IF i \in stamp[1] .. stamp[2] \/ Kind(line[i]) \notin DOMAIN Other THEN line[i]
         ELSE [line[i] EXCEPT !.text = Other[Kind(line[i])]]]

\* What merely happened to be the same in the sample is not frozen: a line that
\* differs in its numbers, its level and its padding fits as well.
RestFits == stage = "done" => \A line \in Plain : Reads(Elsewhere(line))

\* A date there is when day and month are in an order.
Valid(match, order) ==
  cand[1] = "dmy" => Value[match[IF order = "day" THEN 3 ELSE 1].text] <= 12

ZoneOf(match) ==
  CASE Last(match).text = "Z" -> "Z"
    [] Last(match).text \in Four /\ cand[1] = "iso" -> "plain"
    [] Len(match) > 4 /\ match[Len(match) - 3].text = "+" -> "colon"
    [] OTHER -> "none"

Accepted == [zone \in {"Z07:00", "Z0700", ""} |->
               CASE zone = "Z07:00" -> {"Z", "colon"} [] zone = "Z0700" -> {"Z", "plain"}
                 [] OTHER -> {"none"}]

\* Stamps with one separator, and zones written one way but that some say Z
\* for +00:00.
Alike(matches) ==
  LET zones == {ZoneOf(m) : m \in ToSet(matches)}
  IN  /\ zones \subseteq {"Z", "colon"} \/ Cardinality(zones) = 1
      /\ cand[1] \in {"iso", "dmy"} => Cardinality({m[6].text : m \in ToSet(matches)}) = 1

\* Stamps written alike are all read, day and month in the order they can only
\* have; it is called a guess when they could have either.
DatesRight ==
  stage = "done" =>
    LET matches == Matches(Usable, cand[1])
        orders == {o \in {"day", "month"} : \A m \in ToSet(matches) : Valid(m, o)}
    IN  Alike(matches) =>
          /\ \A m \in ToSet(matches) : /\ ZoneOf(m) \in Accepted[layout.zone]
                                         /\ layout.sep # "" => layout.sep = m[6].text
          /\ cand[1] = "dmy" /\ orders # {} =>
               /\ layout.order \in {"day", "month"} => orders = {layout.order}
               /\ layout.order = "guess" => orders = {"day", "month"}

\* "Every sample line produced a record" (suggest_test.go:13).
SampleParses == stage = "done" => \A line \in Dated : Reads(line)

=============================================================================
