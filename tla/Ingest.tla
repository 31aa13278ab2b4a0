-------------------------------- MODULE Ingest --------------------------------
(***************************************************************************)
(* One file on its way through the ingest layer: the hint, the choice of   *)
(* an adapter, and the adapter's Stream line by line, element by element   *)
(* or chunk by chunk, into records.  The file is a log that may still be   *)
(* growing.  A job is the load of a file, or the preview of a draft rule   *)
(* (internal/parsers/preview.go), which stages a sample as a file and runs *)
(* the line adapter over it.                                               *)
(*                                                                         *)
(* A record has its source, its timestamp and, under each field, the lines *)
(* its value was made of.  Where to load it is EngineCatalog's matter.     *)
(*                                                                         *)
(* An operator whose name ends in Bug is a faulty variant of the one that  *)
(* follows it, for the property named in its comment.                      *)
(***************************************************************************)
EXTENDS Adapters

CONSTANTS
  Files,       \* files a job may begin with: [lines, ext, mtime]
  Samples,     \* samples the rule builder may be given: [lines, now]
  BlockTsKeys, \* ts_field of the block rule
  Growth,      \* lines a program may add to a log while it is read
  MaxGrowth,   \* bound on them
  NoDict       \* in a chunk, an event that is not a dictionary

\* No field.
NoKey == ""

\* The lines a file may have.
Lines == Growth \cup UNION {Range(x.lines) : x \in Files \cup Samples}

\* Times are within the calendar in every zone, and the year of a file, which may
\* be borrowed, is in the midst of it.
ASSUME IngestAssumption ==
  /\ NoDict \notin Int \cup {NoTime}
  /\ \A x \in Files \cup Samples : x.lines \in Seq(Lines)
  /\ \A line \in Lines :
       /\ line.kind = "stamp" =>
            /\ line.form \in Forms /\ line.ok \in BOOLEAN /\ line.at \in Int
            /\ \A z \in Zones : ToClock(z, line.at) \in Instants
       /\ line.kind = "field" => line.key # NoKey
       /\ line.kind = "chunk" => line.times \in Seq(Int \cup {NoTime, NoDict})
  /\ \A t \in {f.mtime : f \in Files} \cup {s.now : s \in Samples} :
       /\ t \in Int
       /\ \A z \in Zones :
            /\ ToClock(z, t) \in Instants
            /\ YearOf(ToClock(z, t)) \in FirstYear + 2 .. FirstYear + Years - 2

VARIABLES
  job,      \* "load" or "preview"
  file,     \* the lines of the file
  ext,      \* its extension
  mtime,    \* when it was last written, as the hint has it
  hint,     \* LoadHint
  phase,    \* how far the job is: "stat", "pick", "open", "stream"; it ends "done",
            \* "direct" (to DuckDB), "refused", "norule" or "failed"
  chosen,   \* the adapter
  rule,     \* the rule of the line adapter, in a sequence of its own
  row,      \* the name of the XML adapter's row element
  pos,      \* lines read
  open,     \* the record not yet emitted
  lastKey,  \* the field of the block that was read last
  working,  \* workingDate, the beginning of a day in the zone of the rule
  lastTod,  \* lastTOD, or NoTime
  damaged,  \* a chunk could not be parsed
  out       \* records emitted

vars == <<job, file, ext, mtime, hint, phase, chosen, rule, row, pos, open,
          lastKey, working, lastTod, damaged, out>>

source == <<job, ext, mtime>>
memory == <<lastKey, working, lastTod, damaged>>
choice == <<hint, chosen, rule, row>>

NoFields == [key \in {} |-> <<>>]

NoRecord == [src |-> "none", ts |-> NoTime, body |-> NoFields]

Begin(j, lines, e, m) ==
  /\ job = j /\ file = lines /\ ext = e /\ mtime = m
  /\ hint = [ext |-> e, sniffed |-> 0]
  /\ phase = "stat" /\ chosen = "none" /\ rule = <<>> /\ row = "" /\ pos = 0
  /\ open = NoRecord /\ lastKey = NoKey /\ working = 0 /\ lastTod = NoTime
  /\ damaged = FALSE /\ out = <<>>

Init ==
  \/ \E f \in Files : Begin("load", f.lines, f.ext, f.mtime)
  \/ \E s \in Samples : Begin("preview", s.lines, "log", s.now)

-----------------------------------------------------------------------------
\* Another program: the log grows until its end was read.
Grow ==
  /\ job = "load" /\ ext = "log" /\ phase \in {"stat", "pick", "open", "stream"}
  /\ chosen \in {"none", "line", "block"}
  /\ Len(file) < MaxGrowth
  /\ \E line \in Growth : file' = Append(file, line)
  /\ UNCHANGED <<source, memory, choice, phase, pos, open, out>>

\* HintForFile, which fails if the file cannot be read.
HintForFile ==
  /\ job = "load" /\ phase = "stat"
  /\ \/ /\ hint' = [hint EXCEPT !.sniffed = IF Len(file) < SniffLines THEN Len(file)
                                            ELSE SniffLines]
        /\ phase' = "pick"
     \/ phase' = "failed" /\ UNCHANGED hint
  /\ UNCHANGED <<source, memory, file, chosen, rule, row, pos, open, out>>

\* The load goes to the adapter picked, to DuckDB, or nowhere.
Choose ==
  /\ phase = "pick"
  /\ chosen' = Pick(hint, file)
  /\ phase' = CASE chosen' = "none" -> "refused"
                [] chosen' \in {"ndjson", "parquet"} -> "direct"
                [] OTHER -> "open"
  /\ UNCHANGED <<source, memory, file, hint, rule, row, pos, open, out>>

\* PreviewDraft: the draft is the only rule of a line adapter.
Preview ==
  /\ job = "preview" /\ phase = "stat"
  /\ \E i \in DOMAIN LineRules : rule' = <<LineRules[i]>>
  /\ chosen' = "line" /\ phase' = "open"
  /\ UNCHANGED <<source, memory, file, hint, row, pos, open, out>>

\* The beginning of the line adapter's Stream.
OpenLine ==
  /\ phase = "open" /\ chosen = "line"
  /\ rule' = PickRule(IF job = "preview" THEN rule ELSE LineRules, file)
  /\ \/ rule' = <<>> /\ phase' = "norule" /\ UNCHANGED working
     \/ rule' # <<>> /\ phase' = "stream" /\ working' = Midnight(rule'[1].tz, mtime)
  /\ UNCHANGED <<source, file, hint, chosen, row, pos, open, lastKey, lastTod, damaged, out>>

\* That of the block adapter, and of the event log's.
OpenOther ==
  /\ phase = "open" /\ chosen \in {"block", "evtx"}
  /\ phase' = "stream"
  /\ UNCHANGED <<source, memory, choice, file, pos, open, out>>

\* That of the XML adapter: the row element is looked for first.
OpenXml ==
  /\ phase = "open" /\ chosen = "xml"
  /\ LET names == RowNames(HeadOf(file, XmlSample)) IN
     \/ \E name \in names : row' = name /\ phase' = "stream"
     \/ names = {} /\ phase' = "failed" /\ UNCHANGED row
  /\ UNCHANGED <<source, memory, file, hint, chosen, rule, pos, open, out>>

-----------------------------------------------------------------------------
\* Streaming.

Reading(adapter) == phase = "stream" /\ chosen = adapter /\ pos < Len(file)

Line == file[pos + 1]

Advance(records, next) ==
  /\ out' = out \o records /\ open' = next /\ pos' = pos + 1
  /\ UNCHANGED <<source, choice, file, phase, damaged>>

\* A line over MaxLineBytes is dropped and the next is read.
SkipLong ==
  /\ \E adapter \in {"line", "block"} : Reading(adapter) /\ Line.kind = "long"
  /\ Advance(<<>>, open) /\ UNCHANGED <<lastKey, working, lastTod>>

Extended(record, key) == [record EXCEPT !.body[key] = Append(@, pos + 1)]

\* A line that does not match goes to the message of the record that is open.
ContinueMessage ==
  /\ Reading("line") /\ Line.kind # "long" /\ ~Matches(rule[1], Line)
  /\ Advance(<<>>, IF open # NoRecord /\ Line.kind # "blank"
                   THEN Extended(open, "message") ELSE open)
  /\ UNCHANGED <<lastKey, working, lastTod>>

\* The zone of the rule, whose clocks the log was written by.
Zone == rule[1].tz

\* A time of day more than half a day before the last one is of the next day.
\* Bug, for TimesRecovered: any step back is.
RolledOverBug(tod) == lastTod # NoTime /\ tod < lastTod

RolledOver(tod) == lastTod # NoTime /\ tod + DayLen \div 2 < lastTod

\* Flushed, the record of the line adapter.
Pending == IF open = NoRecord THEN <<>> ELSE <<open>>

LineRecord(ts) ==
  [src |-> rule[1].name, ts |-> ts, body |-> [key \in {"message"} |-> <<pos + 1>>]]

\* A line that matches closes the record that is open and opens the next.
\* Bug, for LinesKept: the record that is open is lost.
StampLineBug ==
  /\ Reading("line") /\ Matches(rule[1], Line)
  /\ Advance(<<>>, LineRecord(NoTime)) /\ UNCHANGED <<lastKey, working, lastTod>>

StampLine ==
  /\ Reading("line") /\ Matches(rule[1], Line)
  /\ LET shown == ToClock(Zone, Line.at)
         tod == TimeOfDay(shown)
         day == IF RolledOver(tod) THEN FromClock(Zone, ToClock(Zone, working) + DayLen)
                ELSE working
     IN \/ /\ Line.ok /\ rule[1].form = "tod"
           /\ working' = day /\ lastTod' = tod
           /\ Advance(Pending, LineRecord(day + tod))
        \/ /\ ~(Line.ok /\ rule[1].form = "tod")
           /\ Advance(Pending, LineRecord(
                CASE ~Line.ok -> NoTime
                  [] Line.ok /\ rule[1].form = "monthday" -> WithMtimeYear(Zone, shown, mtime)
                  [] Line.ok /\ rule[1].form = "full" -> FromClock(Zone, shown)))
           /\ UNCHANGED <<working, lastTod>>
  /\ UNCHANGED lastKey

\* buildRecord; a block without fields is not a record.
Built == IF open.body = NoFields THEN <<>>
         ELSE <<[open EXCEPT !.ts = BlockTime(file, open.body, BlockTsKeys)]>>

\* A separator closes the block that is open and opens the next.
\* Bug, for BlocksKept: the next block does not forget the last field.
StartBlockBug ==
  /\ Reading("block") /\ Line.kind = "sep"
  /\ Advance(Built, [NoRecord EXCEPT !.src = "block"])
  /\ UNCHANGED <<lastKey, working, lastTod>>

StartBlock ==
  /\ Reading("block") /\ Line.kind = "sep"
  /\ Advance(Built, [NoRecord EXCEPT !.src = "block"])
  /\ lastKey' = NoKey /\ UNCHANGED <<working, lastTod>>

\* A field takes the place of one of its name.
ReadField ==
  /\ Reading("block") /\ Line.kind = "field"
  /\ \/ /\ open # NoRecord
        /\ Advance(<<>>, [open EXCEPT !.body =
             [key \in DOMAIN open.body \cup {Line.key} |->
                IF key = Line.key THEN <<pos + 1>> ELSE open.body[key]]])
        /\ lastKey' = Line.key
     \/ open = NoRecord /\ Advance(<<>>, open) /\ UNCHANGED lastKey
  /\ UNCHANGED <<working, lastTod>>

\* Any other line goes on with the last field, if there is one.
ContinueField ==
  /\ Reading("block") /\ Line.kind \notin {"sep", "field", "long"}
  /\ \/ /\ lastKey # NoKey /\ Line.kind # "blank"
        /\ Advance(<<>>, IF lastKey \in DOMAIN open.body THEN Extended(open, lastKey)
                         ELSE [open EXCEPT !.body =
                                [key \in DOMAIN open.body \cup {lastKey} |->
                                   IF key = lastKey THEN <<pos + 1>> ELSE open.body[key]]])
     \/ (lastKey = NoKey \/ Line.kind = "blank") /\ Advance(<<>>, open)
  /\ UNCHANGED <<lastKey, working, lastTod>>

\* A row is read to its end and emitted.
ReadRow ==
  /\ Reading("xml") /\ Line.kind = "open" /\ Line.name = row
  /\ out' = Append(out, [src |-> row, ts |-> RowTime(file, pos + 1),
                         body |-> Flatten(file, pos + 1)])
  /\ pos' = IF CloseOf(file, pos + 1) > Len(file) THEN Len(file) ELSE CloseOf(file, pos + 1)
  /\ UNCHANGED <<source, memory, choice, file, phase, open>>

\* Any other token is passed over.
SkipToken ==
  /\ Reading("xml") /\ ~(Line.kind = "open" /\ Line.name = row)
  /\ Advance(<<>>, open) /\ UNCHANGED <<lastKey, working, lastTod>>

\* The events of a chunk; one without a time has that of the file.  An event that
\* is not a dictionary and a chunk that does not parse are passed over.
ReadChunk ==
  /\ Reading("evtx")
  /\ LET times == IF Line.kind = "chunk" /\ Line.ok THEN Line.times ELSE <<>>
         dicts == InOrder({i \in DOMAIN times : times[i] # NoDict})
         Time(i) == IF times[i] = NoTime THEN mtime ELSE times[i]
     IN out' = out \o [n \in DOMAIN dicts |->
                         [src |-> "evtx", ts |-> Time(dicts[n]),
                          body |-> [key \in {"event"} |-> <<pos + 1>>]]]
  /\ damaged' = (damaged \/ (Line.kind = "chunk" /\ ~Line.ok))
  /\ pos' = pos + 1
  /\ UNCHANGED <<source, choice, file, phase, open, lastKey, working, lastTod>>

\* The end of the file: the record that is open is flushed.
EndOfFile ==
  /\ phase = "stream" /\ pos = Len(file)
  /\ phase' = IF damaged /\ out = <<>> THEN "failed" ELSE "done"
  /\ out' = out \o (CASE chosen = "line" -> Pending
                      [] chosen = "block" -> Built
                      [] OTHER -> <<>>)
  /\ open' = NoRecord
  /\ UNCHANGED <<source, memory, choice, file, pos>>

\* The client is gone, a read failed, the record could not be written.
Abort ==
  /\ phase \in {"open", "stream"} /\ phase' = "failed"
  /\ UNCHANGED <<source, memory, choice, file, pos, open, out>>

Next ==
  \/ Grow \/ HintForFile \/ Choose \/ Preview \/ OpenLine \/ OpenOther \/ OpenXml
  \/ SkipLong \/ ContinueMessage \/ StampLine \/ StartBlock \/ ReadField
  \/ ContinueField \/ ReadRow \/ SkipToken \/ ReadChunk \/ EndOfFile \/ Abort

Spec == Init /\ [][Next]_vars

-----------------------------------------------------------------------------
\* classify: what the preview says of the sample's lines.
\* Bug, for PreviewTallies: a line that does not match is not passed over.
ClassifyBug ==
  [i \in DOMAIN file |->
     [parsed |-> Matches(rule[1], file[i]),
      tsError |-> file[i].kind = "stamp" /\ ~file[i].ok]]

Classify ==
  [i \in DOMAIN file |->
     [parsed |-> Matches(rule[1], file[i]),
      tsError |-> Matches(rule[1], file[i]) /\ ~file[i].ok]]

Parsed == Cardinality({i \in DOMAIN file : Classify[i].parsed})

TimestampErrors == Cardinality({i \in DOMAIN file : Classify[i].tsError})

-----------------------------------------------------------------------------
\* Properties.

Streamed(adapter) == chosen = adapter /\ phase \in {"stream", "done"}

HasText(line) == line.kind \notin {"blank", "long"}

LineOf(record) == file[record.body["message"][1]]

\* No line is lost, repeated or moved: from the first line that matches, the
\* lines with text are in the records emitted and the one that is open, in their
\* order, and a line that matches is the first of its record (line.go, Stream).
LinesKept ==
  Streamed("line") =>
    LET records == out \o Pending
        messages == [i \in DOMAIN records |-> records[i].body["message"]]
    IN /\ FlattenSeq(messages)
            = InOrder({k \in 1 .. pos : HasText(file[k])
                                        /\ \E s \in 1 .. k : Matches(rule[1], file[s])})
       /\ \A i \in DOMAIN messages : \A j \in DOMAIN messages[i] :
            Matches(rule[1], file[messages[i][j]]) <=> j = 1

\* Of the blocks read so far: their first lines, and of the block that begins at
\* s its last line, its fields and the lines of the value under a key.
Separators == {s \in 1 .. pos : file[s].kind = "sep"}

EndOf(s) ==
  IF \E t \in Separators : t > s THEN Min({t \in Separators : t > s}) - 1 ELSE pos

FieldsOf(s) == {k \in s .. EndOf(s) : file[k].kind = "field"}

ValueOf(s, key) ==
  LET last == Max({k \in FieldsOf(s) : file[k].key = key})
      next == {k \in FieldsOf(s) : k > last}
  IN InOrder({k \in last .. (IF next = {} THEN EndOf(s) ELSE Min(next) - 1) :
                HasText(file[k])})

\* There is one record for each block with a field; under each field it has the
\* last line of that name and the lines that go on with it, and none of another
\* block (block.go, Stream).
BlocksKept ==
  Streamed("block") =>
    LET full == InOrder({s \in Separators : FieldsOf(s) # {}})
        records == out \o Built
    IN [i \in DOMAIN records |-> records[i].body]
         = [i \in DOMAIN full |->
              [key \in {file[k].key : k \in FieldsOf(full[i])} |-> ValueOf(full[i], key)]]

\* Every row that is in no other row is emitted, and each text inside it is under
\* a path that ends with its element (xml.go, setOrAppend: "so information is
\* never silently dropped").  Of an event log, every event that is a dictionary,
\* of the chunks that parse, is emitted once and has a time, whatever chunk is
\* damaged (evtx.go, Stream).
RowsKept ==
  /\ (chosen = "xml" /\ phase = "done") =>
       LET named == {i \in DOMAIN file : file[i].kind = "open" /\ file[i].name = row}
           rows == InOrder({i \in named : Around(file, i) \cap named = {}})
       IN /\ Len(out) = Len(rows)
          /\ \A n \in DOMAIN rows : \A k \in rows[n] .. CloseOf(file, rows[n]) - 1 :
               (file[k].kind = "text" /\ Max(Around(file, k)) # rows[n]) =>
                 \E key \in DOMAIN out[n].body :
                   /\ Max(Around(file, k)) \in Range(out[n].body[key])
                   /\ key[Len(key)] = file[Max(Around(file, k))].name
  /\ (chosen = "evtx" /\ phase = "done") =>
       /\ \A k \in DOMAIN file : (file[k].kind = "chunk" /\ file[k].ok) =>
            Cardinality({i \in DOMAIN out : out[i].body["event"] = <<k>>})
              = Cardinality({i \in DOMAIN file[k].times : file[k].times[i] # NoDict})
       /\ \A i \in DOMAIN out : out[i].ts # NoTime

\* What the clocks showed at the stamps read so far that have a time.
StampClocks ==
  LET stamps == InOrder({k \in 1 .. pos : Matches(rule[1], file[k]) /\ file[k].ok}) IN
  [i \in DOMAIN stamps |-> ToClock(Zone, file[stamps[i]].at)]

\* When the time a line was written can be told from what the clocks showed, and
\* from the date or the year borrowed from the file (line.go):
\*  - by a whole timestamp, if the clocks showed it once;
\*  - by a time of day, if the log begins on the day the file was last written, has
\*    no pause of half a day and is out of order only within a day, by half a day
\*    at most, no day begins without a midnight, and the clocks were not changed
\*    between midnight and the line: the code counts from midnight on;
\*  - by a month and a day, if the line was written in the year before the file
\*    was, not on a leap day, the clocks showed it once, and show it in the year
\*    of the file too.
Recoverable(at) ==
  LET shown == ToClock(Zone, at)
      written == ToClock(Zone, mtime)
  IN CASE rule[1].form = "full" -> Unambiguous(Zone, at)
       [] rule[1].form = "tod" ->
            /\ DayOf(StampClocks[1]) = DayOf(written)
            /\ \A i \in 2 .. Len(StampClocks) :
                 /\ StampClocks[i] - StampClocks[i - 1]
                      \in -(DayLen \div 2) .. DayLen \div 2 - 1
                 /\ DayOf(StampClocks[i - 1]) <= DayOf(StampClocks[i])
            /\ \A i \in DOMAIN StampClocks : Shown(Zone, DayOf(StampClocks[i]) * DayLen)
            /\ shown - at = DayOf(shown) * DayLen - FromClock(Zone, DayOf(shown) * DayLen)
       [] rule[1].form = "monthday" ->
            /\ written - 363 * DayLen < shown /\ shown <= written
            /\ <<MonthOf(shown), DayOfMonth(shown)>> # <<2, 29>>
            /\ Unambiguous(Zone, at)
            /\ Shown(Zone, InYear(shown, YearOf(written)))

TimesRecovered ==
  Streamed("line") =>
    \A record \in Range(out \o Pending) :
      LET line == LineOf(record) IN
      (line.ok /\ Recoverable(line.at)) => record.ts = line.at

\* The diagnosis names the adapter that a load takes, and that adapter finds a
\* rule when it streams, though the log may have grown since (dispatch.go:
\* "the first entry is always the adapter that would have won").
ChosenReads ==
  /\ phase = "pick" => Explain(hint, file).chosen = Pick(hint, file)
  /\ job = "load" => phase # "norule"

\* What the preview counts is what the adapter did: as many rows as lines parsed,
\* as many rows without a time as timestamps refused (preview.go: "the preview
\* cannot disagree with the result").
PreviewTallies ==
  (job = "preview" /\ phase = "done") =>
    /\ Parsed = Len(out)
    /\ TimestampErrors = Cardinality({i \in DOMAIN out : out[i].ts = NoTime})

\* The times of those stamps.
StampTimes ==
  {file[k].at : k \in {i \in 1 .. pos : Matches(rule[1], file[i]) /\ file[i].ok}}

\* What line.go says of withMtimeYear: "a log line cannot postdate the file it
\* lives in".  Violated by a time of day: a log that passed midnight has its
\* first lines on the day the file was last written, and the rest a day later.
LinePredatesFile ==
  (Streamed("line") /\ \A t \in StampTimes : t <= mtime) =>
    \A record \in Range(out \o Pending) : record.ts # NoTime => record.ts <= mtime
===============================================================================
