# A verification project for kopusha

kopusha is a log viewer in one executable: a Go HTTP server that serves a browser
UI, reads log files of many formats into an embedded DuckDB, answers queries over
them, lets the user write parsing rules, and updates itself in place. This
directory holds TLA+ modules of its parts, the TLC configurations that check them
on small instances, and proofs that TLAPS checks for every instance.

1. [The system](#1-the-system)
2. [Modules](#2-modules)
3. [Runs, bounds and results](#3-runs-bounds-and-results)
4. [Where the code and its comments part](#4-where-the-code-and-its-comments-part)
5. [Fairness](#5-fairness)
6. [Proofs](#6-proofs)
7. [What is not modelled](#7-what-is-not-modelled)
8. [Plan](#8-plan)

To run: `tlc -config EngineCatalog.cfg MCEngineCatalog`, and likewise for the other
configurations (section 3 lists them); `tlapm EngineCatalogProofs.tla`, and likewise
for the other modules of proofs (section 6).

## 1. The system

| Component | State | Operations | Hard because | Correct when |
|---|---|---|---|---|
| Engine catalog (`internal/engine`) | `files`, `fileOrder`, `pathIndex`, `tableCols`, `timestampField`, `nextID`, the loader registry, DuckDB's tables, temporary files; one `sync.RWMutex` | load, unload, enable, set timestamp field, set loaders, query and the other readers | requests overlap; a load has many steps and early returns, minutes apart; a query is two SQL statements | the indexes agree with each other and with the tables; a result comes from one state; nothing is left behind; every call returns |
| WHERE clause (`internal/engine`) | none; a function of the request | time range, filters, search | SQL's precedence and NULL; filters are dropped while half typed | the rows selected are those the request describes, and the clause parses |
| Reports (`internal/engine`) | none; functions of the request and the files | page and total, histogram, profile, values and samples of a field, export, time range | files name a column in different case, as a column or a STRUCT path, or lack it; each report builds SQL of its own | a row is found by its own columns; the panels count the same rows; the bars are bounded |
| Self-update (`internal/selfupdate`, `internal/server/selfupdate.go`) | the executable and its backup, `parsers.d/`, the prepared plan, the process | prepare, apply (swap, rules, samples), restart, sweep | a plan is minutes old when used; every file operation may fail; power may fail; the user edits the same files | the user's rules survive; what starts is never older than what ran, nor than its rules |
| Rule manager (`internal/parsers/manager.go`) | rule files, `Manager.reg`, the engine's registry | save, reload | no lock spans write, re-read, publish and apply | what is saved is in force; what is refused leaves no trace |
| Rule builder (`internal/parsers/suggest.go`, `preview.go`) | none; functions of a sample | suggest, preview | a few lines agree by accident; the preview classifies lines beside the adapter | the suggested rule reads the sample and lines like it; the preview shows what the adapter will read |
| Ingest dispatch (`internal/ingest`) | the registry of loaders | pick, explain | scores and ties | the picked loader is the one explained |
| Adapters (`internal/ingest/line`, `block`, `xml`, `evtx`, `ndjson`, `parquet`) | the record under construction, a working date | detect, stream | continuation lines, midnight, missing years, over-long lines | no line is lost or counted twice; a time without a date or a year is recovered where the file determines it |
| HTTP server and lifetime (`internal/server`, `main.go`, `internal/module`) | last activity, mounted modules, the goroutines that wait to end the process | start, handlers, shutdown with grace, idle exit | timers race with requests | the process ends when unused and only then |
| Archives and directory loads (`internal/server`) | extracted files beside the archive | load an entry, an archive, a folder | requests overlap, copies fail or are cut off, what they leave is reused | an entry is loaded with its own contents, under a cap, and each is reported once |
| Update checker (`internal/update`) | the last status | poll, compare versions | forms of version numbers | offers exactly newer releases |
| Settings (`internal/settings`) | a record and a file | load, save, update | write order, half-written files | what was set is what is read |
| Configuration, logging | a file | load | - | - |
| MCP endpoint and bridge (`modules/mcp`) | one request in flight | forward a line, answer it | failures of the endpoint, over-long lines | one reply to every request |
| Browser UI, build scripts | - | - | - | - |

How they interact:

- The HTTP handlers run on goroutines of their own and call the engine, the rule
  manager, the updater and the settings store. Each of those has a lock of its own;
  no lock spans two of them.
- The rule manager reads `parsers.d/` into a registry and hands it to the engine by
  a callback (`Engine.SetLoaders`). A load that starts later uses it.
- The updater rewrites the same `parsers.d/`. The rule manager learns of it at the
  next reload, which is the start of the new process.
- A load goes from a handler (`Loads`) to the engine (`EngineCatalog`), which asks the
  dispatcher for an adapter and streams its records (`Ingest`) into a table, over
  which requests are answered (`QueryFilter`, `Reports`).
- The handlers record the last activity; main's idle loop and a shutdown request
  read it before they end the process (`Process`), with whatever is under way.
- The bridge and the UI reach the program over HTTP only, so the models see them as
  the requests they may send.

`PROJECT.json` lists every component and, under `hazards`, what is hard to test in
them, line by line, with the properties that would catch it.

## 2. Modules

| Module | Models | Extends |
|---|---|---|
| `CatalogSpec` | the abstract promise of the catalog: one list of entries, whole operations, a query over one state | - |
| `EngineCatalog` | the engine: indexes, tables, temporary files, `RWMutex`; implements `CatalogSpec` | instance of `CatalogSpec` |
| `EngineCatalogProofs` | its theorems, and that it implements `CatalogSpec` | `EngineCatalog` |
| `QueryFilter` | the construction of the WHERE clause and what DuckDB makes of it | - |
| `Reports` | the union of the files, and every report drawn from it | `QueryFilter` |
| `QueryFilterProofs` | the theorems of both | `Reports` |
| `SelfUpdate` | prepare, apply, restart, and the world around them | - |
| `SelfUpdateProofs` | its theorems | `SelfUpdate` |
| `RuleManager` | save and reload | - |
| `RuleManagerProofs` | its theorems | `RuleManager` |
| `Suggest` | the inference of a rule from a sample | - |
| `Calendar` | dates, and the clocks of time zones, as Go computes them | - |
| `Adapters` | what each adapter says of a file's head, the choice among them, what they make of a line | `Calendar` |
| `Ingest` | one file from its hint to its last record, and the preview of a rule | `Adapters` |
| `IngestProofs` | its theorems, and those of the adapters and the calendar they rest on | `Ingest` |
| `SettingsStore` | the settings, in memory and on disk | - |
| `Loads` | requests that load files, over overlapping clients and restarts | `SettingsStore` |
| `LoadsProofs` | its theorems, and those of the settings it composes | `Loads` |
| `Process` | start, tabs, timers and ends of the process | - |
| `ProcessProofs` | its theorems | `Process` |
| `McpBridge` | agent, bridge and endpoint | - |
| `McpBridgeProofs` | its theorems | `McpBridge` |
| `MC...` | the instances for TLC | the module of that name |

In every module an operator whose name ends in `Bug` is a faulty variant of the one
that follows it. No specification uses it: it records the slip that the property
named in its comment would catch.

### EngineCatalog

Variables bear the names of the Go fields. `tables` is DuckDB's catalog (a table is
named after its file's id), `tmpFiles` the temporary NDJSON files, and
`wHolder`, `readers` and `blocked` the inside of `sync.RWMutex`: a writer takes an
inner mutex (`LockW`), which parks later readers, waits for the active readers
(`Drained`), works, and at `Unlock` lets all parked readers in.

| Actions | Code |
|---|---|
| `LoadRejected`, `LoadDirect`, `LoadStreamed`, `StreamDone`, `StreamFailed`, `CreateTable`, `CreateFailed`, `Normalised`, `NormaliseFailed`, `Register` | `LoadFileCtx` step by step, with each early return |
| `UnloadFile`, `UnloadRefused`, `SetFileEnabled`, `SetTimestampField`, `SetLoaders` | the other write operations, one step each since they hold the lock |
| `QueryCount`, `QueryData`, `QueryRejected`, `QueryReturn` | `Query`: the count and the page are separate statements |
| `ReturnW` | the deferred calls of a write operation: remove the temporary file, unlock |

A failed normalisation leaves its table in DuckDB (`NormaliseFailed`), as the code
does; `NamesFresh` says why that is harmless. Rows are abstracted to the set of
files they come from, column names are equal up to case, and the argument of a call
is chosen where it is first read.

### QueryFilter

`buildWhereClause` appends to a flat list of strings. The module keeps that list as
a sequence of conditions and connectives, one action for each part of the request
(`FromClause`, `ToClause`, `FilterDropped`, `FilterAdded`, `FiltersDone`,
`SearchClause`), and reads it the way SQL does: AND binds tighter than OR, and a
condition on a missing value is not true (`Selected`, `Satisfies`).

### SelfUpdate

A release is a number. `Ships[v][r]` is the release that last changed the content
with which release `v` ships rule `r`; equal numbers mean equal hashes. `exe` and
`old` are the executable and its backup; `running` is what the process runs.
`edited` is a history variable: the rules whose last change was the user's; so are
`installed`, the newest release that has been in the place of the executable, and
`overlapped`, whether an apply was ever taken while another request was at work.

| Actions | Code |
|---|---|
| `PrepareStart`, `PrepareFailed`, `PreparePlanned`, `PrepareStored` | `handleUpdatePrepare`, `Updater.Prepare`, `PlanRules` |
| `ApplyRefused`, `ApplyTaken`, `PlanExpires` | the slot and its time limit in `handleUpdateApply` |
| `Staged`, `SwapFailed`, `BackupSwept`, `MovedAside`, `Installed`, `InstallFailed`, `Restored` | `replaceBinary`, one step for each file operation |
| `RuleApplied`, `RuleTorn`, `RulesFailed`, `RulesDone`, `SamplesDone` | `ApplyRules`, `ApplySamples` |
| `Restart`, `StartUp` | `RestartInto`, `SweepBackup` |
| `Release`, `UserWrites`, `UserDeletes`, `UserRestores`, `Crash` | the world |

### RuleManager

`Save` is a `Stat`, a write that first truncates, and a `Reload`; `Reload` lists the
directory, reads each file, publishes the registry and applies it. Each is a step,
since no lock spans two of them, and each step of one save may fall between any two
of another. `Meddle` is an editor or an update that changes the directory.
`before` and `alone` in a job are history: the file the save met, and whether
anything else has touched the directory since; so is `torn`, the names whose file is
what a failed write left. `os.WriteFile` may fail with a head of the rule on disk, which
may parse or not (`WriteFailed`); `Save` returns and does not remove it.

### Reports

What a request returns besides its rows, over a *catalog*: a sequence of tables, each
with its columns, the paths into its STRUCT columns, and rows. `CanonicalColumns`,
`Coalesced` and `UnionRow` are the union (`buildUnionSelect`) with its folding of
letter case; `UnionValue` is the choice between a literal column and a path
(`quoteFieldRef`). `Total`, `Bars`, `GetProfile`, `GroupsOf`, `FieldSamples`,
`ExportFiltered` and `GetTimeRange` each stand for the SQL the method of that name
builds, with the conditions it adds to the clause of its own (`ValuesClause`,
`Present`). These are pure: the module adds no action to `QueryFilter`, and its
properties are evaluated on each clause that is complete, over every catalog of the
instance. The timestamp field is quoted as a plain column and never as a path
(`HasTime`), unlike the other fields (`Answerable`). The histogram is by the column the
request sorts by, when the union has it (`SortColumn`), which need not hold instants
(`InstantOf`). The profile's count of distinct values is left out: DuckDB only
estimates it (`engine.go:998`).

### Suggest

A line is a sequence of atoms - runs of digits, letters and spaces, and punctuation -
and the suggested expression a sequence of elements that take whole atoms.

| Definitions | Code |
|---|---|
| `Pick`, `NothingFound`, `ShapeFound` | `Suggest`, `pickCandidate`, the layouts |
| `Tokenize`, `CommonKind`, `DottedNumberRun`, `Delimited`, `LabelName`, `Take` | the helpers of those names |
| `WalkTimestamp`, `WalkSpace`, `WalkLevel`, `WalkNumber`, `WalkDottedNumber`, `WalkSameWord`, `WalkOtherWord`, `WalkMark`, `Finished` | one turn of the loop in `walkPattern`, one action for each way it goes |
| `Again`, `Fallback` | the second walk and the last resort of `buildPattern` |

The properties run the expression over the lines (`Captures`) as Go's matcher would:
leftmost start, then the timestamp it captures.

### Ingest

| Actions | Code |
|---|---|
| `HintForFile`, `Choose` | `HintForFile`, the registry's pick and its ties |
| `OpenLine`, `OpenOther`, `OpenXml` | what an adapter does before its first record |
| `StampLine`, `ContinueMessage` | the line adapter: a new record, or a line more for the last |
| `StartBlock`, `ReadField`, `ContinueField` | the block adapter |
| `ReadRow`, `SkipToken` | the XML adapter |
| `ReadChunk` | the EVTX adapter; a damaged chunk is skipped, and an event that is not a dictionary |
| `SkipLong`, `EndOfFile`, `Abort` | over-long lines, the last record, errors |
| `Preview` | `PreviewDraft` stages its sample and runs the line adapter |
| `Grow` | the log is written to while it is read |

A line has the time it was written; what it says of it is what the clocks of the
rule's zone showed (`ToClock`), and the adapter reads that back as Go does (`FromClock`,
which has to choose when the clocks showed it twice or never, and `Midnight`). The
XML adapter looks for its row element in the first mebibyte (`XmlSample` tokens).

A record has its source, its time and, under each field, the *lines* its value was
made of, so that "nothing is lost or read twice" can be stated without text.
`InOrder` lists a set of lines by how many are before each, and the registry's answers
are a set in an order (`ByScore`), since no two adapters have one name.

### Process

Time is discrete; counters hold the time since the last request, until a tab polls,
until the idle loop wakes and of each grace. `Tick` lets a unit pass only when nothing
that takes no time is due (`Urgent`). `RequestArrives` is `APIHandler`, the only place
that records activity. The idle loop has two looks, at the busy checks and then at
`LastActivity` (`IdleChecks`, `IdleExit`), and a request may come between.

### Loads and SettingsStore

`Loads` has one action for each step of `extractZipFile` (`Reused`, `NotCached`, `Created`,
`Copied` cell by cell, `CopyFails`, `HeaderLied`, `Extracted`) and of the handlers around
it (`NextItem`, `Refused`, `Loaded`, `LoadFails`, `Remember`, `Replied`, the totals). An
archive that cannot be opened, or whose folder cannot be made, is answered with one error
(`ArchiveUnread`). A file is a sequence of
cells that say which entry they are of, so that a mixture of two entries can be told
from either. `End` and `Start` end the process between any two steps and start it
again over the same disk, with the preload. `SettingsStore` is `Update` and `Save`
step by step; `Loads` composes it with the requests that change the last directory.

### McpBridge

`ReadLine` and `Forward` are the bridge's loop; `ServeHTTP`, `LoadNext` and `LoadEnds`
the endpoint's handler with its checks in their order; `StartViewer`, `EndViewer`,
`KillBridge` and `CloseInput` what the world does to them. A message is its kind; its
id is its number.

## 3. Runs, bounds and results

Passing runs:

| Run | Configuration | Instance | States | Shows |
|---|---|---|---|---|
| `catalog` | `EngineCatalog.cfg` | 3 clients, 2 files, 2 columns, at most 3 tables | 717 000 | lock, indexes, tables, names, temporary files; refinement of `CatalogSpec` |
| `catalog_live` | `EngineCatalogLive.cfg` | the same with at most 1 table | 22 000 | every call returns |
| `update` | `SelfUpdate.cfg` | 2 tabs, 3 rules, 3 releases, 2 plans, 1 edit, 1 power failure | 363 000 | plans spare edits, plans are used once, no older release starts, rules not ahead of the executable, the old process ends |
| `rules` | `RuleManager.cfg` | 2 savers, 2 names, 2 drafts and a flawed one, 2 saves, 1 change behind the manager | 4 900 000, up to symmetry | nothing flawed is left but by a write that failed, a saved rule is in force |
| `query` | `QueryFilter.cfg` | 2 instants, 2 columns, 3 texts, up to 3 filters of 8 kinds; 5 catalogs of 2 or 3 files, sorted by either of 2 columns | 147 000 | the clause parses and selects what the request says; rows are found by their own columns; the panels agree; the bars are bounded |
| `process` | `Process.cfg` | 2 tabs, 3 pages, 1 request a tab, 1 module at work, 1 start; grace 2, poll 3, period 3, timeout 4 | 2 700 000, up to symmetry | an unused server ends, an open page keeps it, a young request is spared |
| `loads` | `Loads.cfg` | 2 requests, 5 entries (a directory, two of one name and size, two that break the caps), 1 failure, 1 end of the process | 575 000, up to symmetry | an entry is loaded with its own contents, a batch stays under its cap, and each entry is reported once; the settings on disk are the last |
| `ingest` | `Ingest.cfg` | files of up to 4 lines, documents of up to 3 rows, logs of 2 chunks; 4 line rules in 2 zones, 2 changes of the clocks; growth by up to the fourth line | 351 000 | no line lost or read twice, times recovered, the choice is right, the preview tallies |
| `bridge` | `McpBridge.cfg` | 3 messages of 10 kinds, 3 builds of the viewer, 2 ends of viewer or bridge | 950 000 | one reply to each request, in order and with its id, or a null one where that is lost; each answered; every file of a directory load accounted for |
| `suggest` | `Suggest.cfg` | some thousand samples of 2 and 3 lines; 12 tokens, 3 captures | 40 000 | the suggested rule reads its sample and lines like it, and dates them |

Why these bounds are enough for what they show:

- Three clients are a writer at work, a writer that waits and a reader that is
  parked, in every combination; the roles `OpsOf` are cut so that each operation
  has a client that competes with it. Two files let the indexes disagree and let the
  first file (which decides the timestamp field) go away while another stays. Three
  tables allow a failed load between two good ones, and an unload and a second load
  of the same path. The proofs then lift every one of the invariants to any number.
- For liveness one table is enough: what could starve is the lock, and every
  operation takes it, whether or not it goes on to create a table.
- Three releases are the fewest where an update follows an update, so that what the
  first left behind meets the second. The three rules are one that changes twice,
  one that is withdrawn and one that is added. Two plans are an update that fails and
  its retry, an update and the next, or, in two tabs, two that overlap; one edit falls
  before, between or after them. Two larger instances are kept beside the run and pass:
  `SelfUpdateTabs.cfg` has a third plan, for an update that fails, its retry and the
  next, two of which may overlap (4 100 000 states, up to symmetry, safety only), and
  `SelfUpdateHistory.cfg` one tab, three plans and two edits (354 000). The safety
  properties are proved for any number.
- Two saves and one outside change are the pairs of actors that may overlap; with
  two names they may be of one file or of two.
- The eight filters of `MCFilters` cover each reason to drop one that the viewer's
  operators allow and each group of operators, with either connective; three of them in a row give a clause with both
  precedences on both sides. The rows are all rows of the two columns. The five
  catalogs are: columns in different case; both spellings in one file; a literal
  column named as another file's path, disabled and enabled; a span of many days with
  a disabled file and one without the time column.
- Times in `process` keep the order of the real ones where it matters: the grace (2 s)
  is shorter than the poll (30 s), the timeout (minutes) longer than the poll and the
  loop's period. Three pages let a tab be closed and opened again beside another.
- `loads` has a caller at work while another is at any step on the same name; one
  failure and one end suffice, since what is left on disk by either meets every step
  of the next request.
- A day of `ingest` is eight units, so that jumps back of less, equal and more than
  half a day exist; times run over two midnights, dates over two ends of a year and
  a leap day. In the zone of most rules the clocks go forward by a unit on a day of the
  logs of times of day, and back on one of the dates. Four lines allow a record, a continuation, something that should break
  it, and another record. Two chunks let a damaged one come before or after a good one,
  which may hold an event that is not a dictionary.
- In `bridge` the three builds differ in what they accept: protocol versions, the
  token, permission to load, the module itself. Three messages are an initialize, a
  request after it, and one more across a restart.
- The samples of `suggest` pair eighteen tails with each other behind the same stamp, nine heads
  before it, all pairs of ISO zones and separators, all triples of dates of the 10th, the
  12th and the 13th, and lines without a stamp or with another.

`CHECK_DEADLOCK FALSE` stands where the system really may stop: nobody has to press
a button again once the bounds are used up, and a clause, a file or a suggestion that
is complete stays so. The engine's runs check deadlock.

Each property has a mutant in `PROJECT.json` - a dropped guard, a missing reset, a
swapped order in one action - under which the run finds it violated.

The type of a variable is told where it is declared. The modules of proofs state the
types as formulas, and prove them.

## 4. Where the code and its comments part

Two runs check a sentence the repository says of itself, and TLC finds a behaviour of
the code against it. Lines are quoted in `PROJECT.json`.

| Run | Property | The behaviour |
|---|---|---|
| `update_edits` | `EditsSurvive` | a rule edited between prepare and apply is overwritten |
| `process_tabs` | `OtherTabSurvives` | a tab is closed; the other's next poll is after the grace, and its server is gone |

Thirteen more configurations show disagreements that matter less. They are kept beside
the modules and run the same way; each ends with a counterexample.

| Configuration | Property | The behaviour |
|---|---|---|
| `EngineCatalogSort.cfg` | `QueryNeverFails` | the file that gave the engine its timestamp field is disabled or unloaded; queries then sort by a column no enabled file has |
| `SelfUpdateReport.cfg` | `ReportIsTrue` | after rules that could not be written, untouched rules are called "edited" and no longer updated |
| `SelfUpdateBackup.cfg` | `BinaryRecoverable` | a retry after a swap that could not be put back removes the only copy of the executable |
| `SelfUpdateReturned.cfg` | `PlanSparesEdits` | the user deletes a rule, a release withdraws it and a later one ships it again: the plan writes it (`rules.go:112-117`: "you deleted it, so it stays deleted") |
| `RuleManagerTorn.cfg` | `DirectoryLoads` | a write that fails midway leaves the head of a rule, which may not parse, and `Save` returns without removing it (`manager.go:224`: "A rule that cannot be loaded must not be left behind") |
| `RuleManagerRace.cfg` | `ExistingKept` | two saves of one name both find no file before either writes; the second replaces the first's rule without the flag (`rules.go:177`: "Existing files are only replaced when overwrite is set") |
| `RuleManagerReject.cfg` | `RejectedNotSaved` | a save with overwrite that is rejected deletes the rule it was to replace |
| `QueryFilterDropped.cfg` | `DroppedFiltersHarmless` | a half-typed first filter gives `WHERE AND ...` |
| `QueryFilterRange.cfg` | `UndatedRowsDropOut` | a filter joined by `or` is an alternative to the time range as well |
| `QueryFilterValues.cfg` | `NoEmptyValues` | in a request with an `or`, the condition on empty values binds to its last part only (`engine.go:1075`: "Empty and NULL are excluded") |
| `QueryFilterBars.cfg` | `BarsWithinCap` | the cap of bars is on the quotient of span and width, so one or two more may appear (`engine.go:877`) |
| `IngestMidnight.cfg` | `LinePredatesFile` | a log of times of day begun before midnight and last written after it is dated from the day of its last line on, so a day late (`line.go:293`: "a log line cannot postdate the file it lives in") |
| `SuggestSample.cfg` | `SampleParses` | a place where most lines have a level becomes `[A-Za-z]+`; a line of the sample with a word that has a digit there is not read (`suggest_test.go:13`: "every sample line produced a record") |

Other things met while reading, which no configuration checks:

- `Filter.Logic` is documented as "how this connects to next filter"
  (`engine.go:49`, also `ARCHITECTURE.md:436`, `docs/MCP.md:110-111`,
  `modules/mcp/tools.go:98`); the code puts a filter's own connective before it.
  `ConnectiveOf` follows the code.
- Two saves that race (`manager.go:135-142`) may publish and apply their registries
  in the opposite order, or the registry of the earlier reading last.
- `GetFiles` returns live `*FileInfo` which a handler encodes without the lock.
- Two tabs may apply at once, since no lock spans `Apply` (`server/selfupdate.go:142`). One may
  remove, as left over, the backup the other has just made, and the older of two releases
  may be installed last, over the rules of the newer one; `RulesNotAhead` therefore has its
  second half only where no apply overlapped another.
- A time of day is added to midnight (`line.go:262`), so on a day the clocks change the lines
  after the change come out off by it.
- Versions are compared part by part: `1.2` and `1.2.0` differ (`update.go:187`).
- A filter on a STRUCT path fails while a *disabled* file has a literal column of that
  name: the choice is made over all files, the union over the enabled ones. Two
  columns of one file that differ in case are one to `COALESCE`, which hides the
  second. Of two spellings of a STRUCT path `quoteFieldRef` takes one, in the order of a
  Go map (`engine.go:1446`), so the rows of a file with the other spelling have no value
  and two panels may take different ones. `GetTimeRange` looks at the first spelling of the time column only.
- A page that reloads may poll before its own beacon arrives; the beacon then ends the
  server under the reloaded page.
- Two requests for one entry truncate each other's file. Two entries of one base name
  and size are taken for each other. A kill in the middle of a copy leaves a partial
  `.ndjson`, which the next start preloads as a whole.
- A torn settings file is replaced by the defaults.
- A line of 29 February in a file of the next year is dated 1 March of the year
  before. A line of 1 January whose clock runs ahead of a file last written on 31
  December is dated a year early.
- `loader.go` says records MUST have `@timestamp`; those whose time does not parse
  have none. Which of two equally frequent elements is XML's row is decided by the
  order of a Go map (`xml.go:387-397`). An XML file without repeated rows fails though
  another adapter would read it. A CRLF line of exactly the bound counts as too long.
- The bridge keeps the protocol version of its first `initialize`; when a viewer of
  another version takes over, even a new `initialize` is refused until the bridge is
  started again. A tool may have run although the agent gets an error. The bridge's
  HTTP client has no timeout.
- The suggested layout takes its zone and separator from the first line that matches;
  a sample that mixes `Z` and `+0200` leaves lines undated. The branch of
  `walkPattern` that absorbs white space where the walk stopped cannot be reached:
  the walk never stops at a space.

## 5. Fairness

Only liveness properties use it; safety is checked and proved without.

- Engine: `WF(Proceed(c))` - a goroutine inside the engine is scheduled, and a
  statement or a file operation returns, with success or without. `SF(LockW(c))` -
  `sync.Mutex` goes into starvation mode after a millisecond and then hands itself
  to the waiter at the head of its queue, so a writer is not passed over for ever
  though the mutex is released and taken again between. Nothing is assumed of
  requests: nobody need make one. Readers need no strong fairness, since `Unlock`
  releases those that are parked; `CallsReturn` depends on that
  (its mutant lets readers slip in while a writer waits).
- Updater: `WF(Proceed(t))` - a handler runs to its end; `WF(Restart)` - the
  goroutine that sleeps 750 ms wakes up. The user, the releases and power failures
  are under no fairness.
- Bridge: `WF` of `ReadLine`, `Forward`, `ServeHTTP`, `LoadNext` and `LoadEnds` - the
  bridge's loop goes on while it has a line or a reply, and a viewer that runs answers.
  Nothing is assumed of the agent or of who starts and ends viewers: a viewer that is
  gone is an answer too (the connection is refused). `RequestsAnswered` needs no more,
  and is claimed only while the bridge lives.
- `Process` has no fairness: its bounds on time are safety properties, since `Tick`
  cannot pass what is due.

## 6. Proofs

`EngineCatalogProofs` proves, for every value of the constants that satisfies
`ConstantsAssumption`:

| Theorem | States |
|---|---|
| `TypeCorrect` | `Spec => []TypeOK` |
| `MutualExclusion` | `Spec => []LockExclusion` |
| `IndexConsistency` | `Spec => []IndexesAgree` |
| `FreshNames` | `Spec => []NamesFresh` |
| `TempFilesRemoved` | `Spec => []NoTempLeft` |

`ConstantsAssumption` gives the constants their types: `None` is no client,
`Schema` and `Candidates` are sequences of column names, `DefaultField` is one,
and `NoRegistry` is no registry. The sets of clients, paths and columns may be infinite.

The argument:

1. `TypeInv` is `TypeOK` with the fact that a load past its first step has a path
   (`job[c].path \in Paths`): `Register` puts that path in the indexes, so without it
   the types of `files` and `pathIndex` are not preserved. `TypeStep` goes through
   the actions one at a time. The types of `timestampField` and `fileOrder` need
   lemmas on the operators: `PickTimestampFieldType` (with the least index that
   `FirstIn` chooses, from `NatMin`) and `RemoveFirstType`.
2. `LockExclusion` is inductive with the types (`LockStep`): it ties each program
   counter to the lock, and only its last two conjuncts are what one would ask for -
   the others are what makes them inductive.
3. The indexes are not inductive on their own. `Register` appends an id, and
   `fileOrder` stays ascending only if that id is the newest; `CreateTable` keeps the
   name fresh only if no other load is between its `CREATE TABLE` and its
   registration; and the registered path must not be indexed already, which was
   checked several steps earlier. `IndexInv` is therefore `IndexesAgree`
   and `NamesFresh` with `LoadFresh`: the path of a load in progress
   is not indexed. Each of these is preserved by the *other* clients because of
   `LockExclusion`: two clients are never both past `Drained` (`OneWriter`), so when
   one takes a step nobody else is inside a load (`NoLoadAfter`). For
   `UnloadFile`, `RemoveFirstAscending` shows that removing an id from an ascending
   sequence leaves exactly the other ids, ascending.
4. `NoTempLeft` (`TempStep`): a load leaves `LoadPCs` only by `ReturnW`, which removes its
   file; the other clients that `Unlock` lets go on were parked, hence by
   `LockExclusion` not inside a load, and have no file.

`QueryFilterProofs` proves, for every value of the constants that satisfies
`FilterAssumption` - any columns, texts, instants, filters and number of filters - and,
for the last three, `ReportsAssumption` - any loaded files, intervals and caps:

| Theorem | States |
|---|---|
| `ClauseParses` | `Spec => []WellFormedAfterFirst` |
| `ConjunctionExact` | `Spec => []ConjunctionMeansAll` |
| `OppositesComplement` | `Spec => []OppositesSplit` |
| `UnionFindsRows` | `Spec => []RowsFound` |
| `PanelsTellOneStory` | `Spec => []PanelsAgree` |
| `BarsFew` | `Spec => []BarsBounded` |

`ReportsAssumption` says besides the types that the columns of `DatedNames`, the time
column among them, hold instants, values that are none, or nothing. `RowsFound` and `PanelsAgree` speak of loaded files that spell
each STRUCT path one way (`OneSpelling`); why is said in section 4.

The argument:

1. The properties are of the complete clause and say nothing of one under
   construction. `IInv` does: the clause consists of connectives and of just the
   conditions of what has been looked at (`PartsInv`); if the request makes it begin
   with a condition (`Begun`) it alternates (`ShapeInv`); if no filter that is kept has
   an "or", no OR is in it (`AndInv`).
2. A step leaves the clause alone, begins it, or extends it by a connective and a
   condition. `Unchanged`, `Started` and `Grown` show that each preserves the three,
   once, given which condition joins `Parts`; `StepKeeps` goes through the actions.
   The step that could go wrong is the first filter that is kept after others were
   dropped, which gets a connective though nothing is before it: `BegunInTime` shows
   that the request then is not `Begun`, which is why `WellFormedAfterFirst` has to
   except such requests.
3. Without an OR the one stretch between ORs is the whole clause (`SelectedByAll`), so
   it is TRUE of a row when all its conditions are; by `PartsInv` these are the
   request's.
4. `RowsFound` compares the row of the union with the row as its own file has it, one
   field after the other (`FieldOfRow`, `TimeOfRow`): `COALESCE` over the spellings of a
   column finds the one value a clear row has (`ColumnValue`), and a path is looked up
   where no file has a column of that name. Rows alike in the fields a clause names are
   both selected or neither (`SelectedAlike`).
5. `PanelsAgree`: the bars partition the matching rows with an instant in the column the
   request sorts by (`BarsAddUp`) and the
   groups those that have the field (`GroupsAddUp`), so their counts add up to the
   totals (`SumOfParts`). The rows of a field's values are those of the profile
   because, without an OR, `AND` adds a condition and changes nothing else
   (`SelectedWith`); a field on offer is one that an enabled file has (`OfferedHad`),
   which needs what the folds over columns and paths gather (`FoldStays`).
6. `BarsBounded`: the interval chosen is at least the span over the number of bars
   aimed at (`IntervalFits`), and the instants of the matching rows are within the time
   range (`TimesInRange`), so the quotients they fall on are few (`BarsOfTimes`).

`ProcessProofs` proves, for every value of the constants that satisfies `LifeAssumption`
- any number of tabs, grace, sleep, poll interval and timeout, 0 for none included:

| Theorem | States |
|---|---|
| `UnusedServerIsGone` | `Spec => []UnusedServerEnds` |
| `YoungRequestsAreSpared` | `Spec => YoungRequestsSpared` |
| `OpenPageIsKept` | `Poll <= Timeout` gives `Spec => OpenPageKeepsServer` |

The hypothesis of the last is needed, and nothing in the code sees to it: under a
configured timeout shorter than the 30 s between two polls, the loop may wake between
them. The default, 180 s, meets it.

The argument:

1. The properties speak of the step that ends the process, and the clocks that decide it
   were read before. `IInv` therefore relates every pair of clocks: a request is as old as
   the last activity or older than the timeout (`RequestInv`); while a grace runs
   undisturbed, the age of a request and what is left of the grace make up the grace
   (`GraceInv`); the idle time and the time to a page's next poll make up at most the
   interval (`PollInv`); and if the idle time will be too long when the loop wakes, a
   module is busy or was lately (`LoopInv`). `RequestInv`, `GraceInv` and `PollInv` also
   say what holds between the decision to end and the end.
2. A step other than `Tick` restarts clocks or leaves them (`StartSafe`, `BrowserSafe`,
   `ServeSafe`, `WorkSafe`, `IdleLoopSafe`); a step that ends the process leaves the clocks
   of a process that is off (`ExitSafe`). `TickSafe` moves them all: it is enabled only when
   nothing is due, so each sum keeps its value or moves the right way.
3. `WaysToEnd` shows that a process ends itself only by a shutdown whose grace was quiet
   or by an idle loop that has decided to; the parts of `IInv` then say what it cuts off.

`EngineCatalogProofs` also proves `CatalogImplemented`: `Spec => ImplementsCatalog`, that
the engine is the abstract catalog, under the same assumptions. The mapping reads the
abstract list off `fileOrder` and `files`. `Register` and each of the other write
operations is one step of the abstract catalog, a query answers in one, and every other
step is a stutter; there is a lemma for each step the abstract catalog sees. Two facts
join the invariant. `QueryConsistent`: between the count and the
page of a query the enabled files are those it counted, because it holds the lock.
`LoadBounded`: a load in progress keeps to the bound on ids, so that the abstract step is
enabled when it registers.

`SelfUpdateProofs` proves, under `ShipsAssumption` - any number of releases, any rules,
and a release ships nothing of a later one:

| Theorem | For | States |
|---|---|---|
| `PlanAppliedOnce` | any tabs | `Spec => []PlanHeldOnce` |
| `NeverDowngraded` | any tabs | `Spec => []NoDowngrade` |
| `SparedUnlessReturned` | any tabs | `Spec => []SparesInv` |
| `UserRulesSpared` | any tabs, `NoReturn` | `Spec => []PlanSparesEdits` |
| `RulesFollowBinary` | any tabs | `Spec => []RulesNotAhead` |

`NoReturn` says that no release ships a rule again after one that did not; without it
`SelfUpdateReturned.cfg` refutes the conclusion. What holds then is `SparedUnlessReturned`:
a plan removes nothing the user touched, and writes only such a rule. No theorem assumes
that one tab updates, since nothing in the code sees to that. The argument:

1. `PlansInv`: a plan is numbered, leads from the running release to a later one, and is
   with the request that makes it, in the slot, or with the request that applies it. An
   apply empties the slot in the step that takes the plan, which is what makes two
   requests hold plans of different numbers.
2. `SwapInv`: the executable is out of its place between the two renames of one request
   only, and what is in its place or beside it is not older than what runs. That needs the
   sweep before the first rename: without it the rename could leave an older backup.
3. `EditsInv`: what the user wrote is there, and what the user deleted was shipped by a
   release that is not newer than any that may come to run - the manifest the next plan
   compares with. With `PlansInv` it gives `SparesInv`, which compares a plan with the
   edits made before it (`spare`).
4. `InstalledInv`: the rules are of releases up to the newest that was installed, since the
   program writes them only in an apply, after `Installed`, and `RuleApplied` writes what
   the release of its own plan ships. `RulesInv` says, until an apply overlaps another
   request, that they are of releases up to the executable, up to its backup while there is
   no executable, and up to those that the plans lead to: then one request applies, and
   what the others prepare leads no less far (`PairInv`).

`RuleManagerProofs` proves, for any number of savers, names and drafts
(`ContentsAssumption`):

| Theorem | States |
|---|---|
| `TypeCorrect` | `Spec => []TypeOK` |
| `NothingFlawedStays` | `Spec => []NoFlawedRuleLeft` |
| `SavedRuleActive` | `Spec => []SavedIsActive` |

The properties are about saves that have returned. `FlawsFound` says what makes the first
true while they run: every flawed file is what a failed write left, or has a save of that name that has yet to
list or to read it, or to take it back.
`AloneKnows` follows a save that nothing disturbs through its steps: what its file holds,
that what it has read is what is on disk so far, that what it published is what it read.
Whoever else touches the directory clears `alone`, and the invariant then claims nothing.

`LoadsProofs` proves, for any archive, set of callers and caps (`ArchiveAssumption`,
`StoreAssumption`; the set of names is finite, and the user's files have names):

| Theorem | States |
|---|---|
| `TypeCorrect` | `Spec => []TypeInv` |
| `SettingsSaved` | `Spec => []SavedIsCurrent` |
| `EveryEntryAccountedFor` | `Spec => []EntriesAccountedFor` |
| `EntryLoadedWhole` | `Spec => []LoadedIsTheEntry` |
| `BatchWithinCap` | `Spec => []BatchBounded` |

1. `StoreInv`: while any `Save` is under way nobody changes the record, so all that are
   under way write the same one; and if the file differs from the record, somebody has
   yet to save it.
2. `BatchesAccounted`: the entries to do, done and failed are those of the listing, no two of
   these sets meet, and none is to be done twice; or there is the one error of the archive,
   which is no entry (`ArchiveNoItem`), and nothing else.
3. `CopiesHeld`: under a name that no two requests have extracted to, and that one entry
   has, there is what the user had there, nothing, or a beginning of the entry - and its
   size is the declared one only if it is the whole entry. The request that copies knows
   how far it is. Two requests at once void this, by truncating each other's file.
4. `CountInv`: the total counts the entries done. The other half is `CellsPlaced`: what a
   file holds of an entry, whoever wrote it, is in its place in a file of that entry's
   name, so the cells on disk can be counted entry by entry. An entry whose header lies
   is admitted by its header and copied up to the cap of one entry, which is why the bound
   has the slack of one `EntryCap` unless all headers are true. Found on disk it is counted
   by its header, and another request may copy the rest of it later, which is why the
   cells compared with the total are those of entries with a true header.

`McpBridgeProofs` proves, for any messages, builds of the viewer, directory, and number of
ends of viewers and bridges (`BridgeAssumption`):

| Theorem | States |
|---|---|
| `EveryFileToldOf` | `Spec => []LoadsAccounted` |
| `RequestsAnsweredInOrder` | `Spec => []RepliesMatch` |

1. `AtHand` are the types, with what the steps rely on: a call is with a viewer that
   runs, for a message that was posted. Messages keep their numbers (`Kept`).
2. `Split`: of each kind of file, those the call has told of and those it has still to
   look at are all there are; a response, on its way or written, is `Complete`.
3. `Turn`: the bridge has read the first messages and no others; the one it posts is the
   last of these; while it is posted there is its call or its response, and not both;
   the response `Answers` it - with its number, or null where the endpoint could not know
   it. A bridge that was killed has no response, and the call it left goes on for nobody.
4. By `Turn`, the messages handled are those read but the one at hand (`Unread`), so each
   step handles none, or the next one (`HandlesOne`), and writes what that one is due.
   The order of the replies and the count of those with a null id follow line by line.

`IngestProofs` proves, for any line rules, registry, files, samples and growth of the log
(`RegistryAssumption`, `IngestAssumption`), any calendar of whole years with an even
number of units in a day, and any time zones (`CalendarAssumption`): an offset is less than
a day, a change not more than one, and four days at least are between two changes:

| Theorem | States |
|---|---|
| `DiagnosisHolds` | `Spec => []ChosenReads` |
| `NoLineLost` | `Spec => []LinesKept` |
| `TimesRight` | `Spec => []TimesRecovered` |
| `PreviewExact` | `Spec => []PreviewTallies` |
| `NoBlockLost` | `Spec => []BlocksKept` |
| `NoRowLost` | `Spec => []RowsKept` |

Of the assumptions three are not types. Adapters are registered under different names
(`internal/parsers/manager.go:117-122`). The key of a field of a block is not empty: the shipped rule's key
begins with a letter (`parsers.d/00-block-keyvalue-dash.yaml`), and with an empty one
`block.go` could not tell "no field yet". Times are within the calendar in every zone, and
those of files and samples not in its first years or its last, since a date may be moved to
the year before. The argument:

1. `ChoiceInv` carries what was detected to where it is used, though the log may grow
   between: what fits the head of a file fits the head of a longer one (`HeadStays`).
   `Pick` and `Explain` agree because both take the first in one order of the same
   answers (`FirstVerdict`, `PickExplained`).
2. The records emitted and the one that is open, taken together (`Records`), are changed
   by a step of the line adapter in one of five ways (`LineSteps`): opened, left alone,
   passed over, continued, or a new one stamped. `TextInv` says that the lines of
   these records are the lines with text since the first match, in order; `CountInv` that there
   are as many as matches, and as many undated as refused timestamps.
3. A date is recovered because a time is made of its year, month, day and time of day and
   of no others (`DateAlone`), a reading that the clocks of the zone showed once is read as
   the time it was written (`ReadingTold`: one change at most is near, `OneChange`, so at most
   two offsets are in question), the year of a line within a year of the file is the one
   `WithMtimeYear` picks (`YearBorrowed`), and, for a time of day, because the working date
   is the day of the last stamp as long as the log has kept to the conditions of the
   property (`ClockInv`, `ClockGoes`): a step back of more than half a day is then
   a midnight and no other step is. `DatedInv` keeps what the records were given.
4. `BlockInv`: the bodies emitted are those of the blocks closed so far, and the record
   that is open is what the lines since the last separator say (`Reached`): under each name the
   last field of that name and what goes on with it, and `lastKey` is the field that
   the next line would go on with.
5. `XmlInv`: the records are the rows up to the place read, and every element of that
   name begun by then has ended. Elements nest (`ElementsNest`): the depth counted from
   an opening tag is positive up to its end (`DeepInside`) and adds up over pieces
   (`DepthJoins`), so an element that begins in another ends in it. Hence what begins in a
   row is in that row, and reading on from its end misses no row of its own (`RowRead`).
   `RowTexts` follows a text to its path. `EvtxInv` counts the records of each chunk,
   which follow those there are (`ChunkRead`).

An induction over data is possible where the predicate can be given as a *set*:
`Counting` (over the naturals) and `SubsetInduction` (over the subsets of a finite set)
take one, and what a fold of the community modules computes follows from them. The
library's induction theorems, and those about `SelectSeq`, take an operator
instead, which no installed prover can instantiate.

Only model-checked, and why:

- `CallsReturn`, `StopsServingOld` and `RequestsAnswered` are liveness under fairness,
  out of the prover's reach.
- `RuleFits`, `RestFits` and `DatesRight`, the properties of `Suggest`. They run the
  expression that a walk has built over every line of the sample, along all the ways it can match,
  and both are folds over lines that were picked by `SelectSeq`.

## 7. What is not modelled

- The contents of rows and files, quoting and escaping of SQL, the wording of messages:
  data that no property here tells apart. Of STRUCT columns, one level of paths.
- The regular expressions of rules and the layouts of timestamps, but for what
  `Suggest` writes; EVTX's binary records; DuckDB's readers of JSON and Parquet.
  A timestamp that names its zone or offset: times are read in the zone of the rule.
- The profile's estimate of distinct values, of which the code promises no number.
- Comparison of checksums and attestations of a download. Their failure is an
  outcome of `PrepareFailed`.
- `Rollback`, which nothing calls. `Draft.Validate` and the YAML of a draft; a draft is
  one that loads or is `Flawed`.
- The comparison of version numbers; the manifest's file format; the syntax of the
  configuration; the log file.
- The UI, but for its polls and beacons, and the build scripts, which run outside the
  program. `internal/server/docs` is generated.

## 8. Plan

All the modules planned are written, and every safety property of a passing run is proved
but the three of `Suggest`. What is left, in order:

1. `DatesRight`, by restating `Matches` and `DateOrder` with sets of lines in place of
   `SelectSeq`; then the two properties that run the expression.
2. The order of version numbers (`internal/update`), a pure operator against a reference
   definition over bounded inputs.
3. The syntax of a draft (`internal/parsers/draft.go`), of which the models have only
   whether it loads.
