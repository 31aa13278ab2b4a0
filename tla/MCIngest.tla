------------------------------- MODULE MCIngest -------------------------------
(* Instances of Ingest: a day has eight units of three hours.  The files are *)
(* small, and of every kind: logs of times of day over three days, logs of   *)
(* months and days about two ends of a year and a leap day, blocks, XML,     *)
(* event logs and what DuckDB reads itself.  The clocks of the zone of the   *)
(* line rules go forward on the second day of the logs of times of day, and  *)
(* back on one of the dates: what they show is skipped there, and here shown *)
(* twice.                                                                    *)
EXTENDS Ingest

MCRegistered == <<"ndjson", "parquet", "evtx", "line", "block", "xml">>

Kind(k) == [kind |-> k]
Stamp(f, t, o) == [kind |-> "stamp", form |-> f, at |-> t, ok |-> o]
Field(k, t) == [kind |-> "field", key |-> k, at |-> t, ok |-> t # NoTime]
Tag(n, t) == [kind |-> "open", name |-> n, attr |-> t]
Chunk(o, times) == [kind |-> "chunk", ok |-> o, times |-> times]

SeqsUpTo(S, n) == UNION {[1 .. k -> S] : k \in 0 .. n}

At(y, m, d, tod) == Day(y, m, d) * DayLen + tod

Forward == At(2024, 1, 2, 5)
Back == At(2024, 3, 1, 4)

Summer == [base |-> 0, changes |-> [c \in {Forward, Back} |-> IF c = Forward THEN 1 ELSE 0]]
UTC == [base |-> 0, changes |-> [c \in {} |-> 0]]

MCZones == {Summer, UTC}

MCLineRules ==
  <<[name |-> "dotdate", form |-> "full", priority |-> 90, tz |-> Summer],
    [name |-> "tod", form |-> "tod", priority |-> 70, tz |-> Summer],
    [name |-> "syslog", form |-> "monthday", priority |-> 50, tz |-> Summer],
    [name |-> "draft", form |-> "tod", priority |-> 10, tz |-> UTC]>>

Noise == {Kind("blank"), Kind("text"), Kind("long")}

(* Times of day: from the evening before the second day of 2024 on. *)
Base == At(2024, 1, 2, 0)

TodLogs ==
  {[lines |-> l, ext |-> "log", mtime |-> m] :
     l \in SeqsUpTo({Stamp("tod", Base + t, TRUE) : t \in {-1, 0, 3, 6, 8, 10}}
                      \cup {Stamp("tod", Base, FALSE)} \cup Noise, 3),
     m \in {Base + 2, Base + 7, Base + 11}}

Dates == {At(2023, 12, 31, 7), At(2024, 1, 1, 0), At(2024, 2, 28, 4), At(2024, 2, 29, 4),
          Back - 1, At(2024, 12, 31, 7), At(2025, 1, 1, 0), At(2025, 3, 1, 4)}

YearLogs ==
  {[lines |-> l, ext |-> "log", mtime |-> m] :
     l \in SeqsUpTo({Stamp("monthday", d, TRUE) : d \in Dates} \cup {Kind("text")}, 2),
     m \in Dates}

Mixed ==
  {[lines |-> l, ext |-> "log", mtime |-> Base] :
     l \in SeqsUpTo({Stamp("full", Base, TRUE), Stamp("full", Back - 1, TRUE),
                     Stamp("tod", Base, TRUE), Kind("sep"), Field("a", Base), Kind("text")}, 4)}

Blocks ==
  {[lines |-> <<Kind("sep")>> \o l, ext |-> "txt", mtime |-> Base] :
     l \in SeqsUpTo({Kind("sep"), Field("a", Base), Field("b", NoTime), Kind("text"),
                     Kind("blank"), Kind("long")}, 4)}

Row1 == <<Tag("A", Base), Tag("B", NoTime), Kind("text"), Kind("close"),
          Tag("B", Base), Kind("text"), Kind("close"), Kind("close")>>
Row2 == <<Tag("A", NoTime), Kind("text"), Kind("close")>>
Row3 == <<Tag("A", Base), Tag("A", NoTime), Kind("text"), Kind("close"), Kind("close")>>
Other == <<Tag("B", NoTime), Kind("close")>>
Torn == <<Tag("A", Base), Tag("B", NoTime), Kind("text")>>

Documents ==
  {[lines |-> FlattenSeq(l), ext |-> "xml", mtime |-> Base] :
     l \in SeqsUpTo({Row1, Row2, Row3, Other}, 3)}
    \cup {[lines |-> Row1 \o Row2 \o Torn, ext |-> "xml", mtime |-> Base],
          [lines |-> Other \o Row2 \o Row2 \o Row2 \o Other \o Other, ext |-> "xml", mtime |-> Base],
          [lines |-> <<Tag("R", NoTime)>> \o Row2 \o Row3 \o Row1 \o <<Kind("close")>>,
           ext |-> "xml", mtime |-> Base]}

EventLogs ==
  {[lines |-> <<Kind("elf")>> \o l, ext |-> "evtx", mtime |-> Base] :
     l \in SeqsUpTo({Chunk(TRUE, <<Base, NoDict, NoTime>>), Chunk(TRUE, <<>>), Chunk(FALSE, <<>>)}, 2)}

Direct ==
  {[lines |-> l, ext |-> e, mtime |-> Base] :
     l \in {<<>>, <<Kind("par1")>>, <<Kind("blank"), Kind("object")>>, <<Kind("text")>>},
     e \in {"log", "ndjson", "json", "parquet"}}

MCFiles == TodLogs \cup YearLogs \cup Mixed \cup Blocks \cup Documents \cup EventLogs \cup Direct

MCSamples ==
  {[lines |-> l, now |-> Base] :
     l \in SeqsUpTo({Stamp("tod", Base, TRUE), Stamp("tod", Base, FALSE),
                     Stamp("full", Base, FALSE), Kind("text")}, 3) \ {<<>>}}

MCBlockTsKeys == <<"b", "a">>

MCGrowth == {Stamp("tod", Base + 8, TRUE), Kind("sep")}
===============================================================================
