---------------------------- MODULE EngineCatalog ----------------------------
(***************************************************************************)
(* The engine's catalog of loaded files (internal/engine/engine.go): four  *)
(* in-memory indexes and the DuckDB tables behind them, kept in step by    *)
(* one sync.RWMutex.                                                       *)
(*                                                                         *)
(* A load holds the write lock over every one of its steps - the duplicate *)
(* check, the conversion to a temporary NDJSON file, CREATE TABLE, the     *)
(* timestamp normalisation and the registration - and any of them may      *)
(* fail and return early.  A query holds the read lock over two separate   *)
(* SQL statements.  Clients are the goroutines that serve HTTP requests.   *)
(*                                                                         *)
(* Abstractions.  A table is named after its file's id, so the id stands   *)
(* for it.  Column names are equal up to letter case.  The argument of a   *)
(* call is chosen in the step that first reads it: until then nothing      *)
(* depends on it.  Rows are abstracted to the set of files they come from. *)
(*                                                                         *)
(* An operator whose name ends in Bug is a faulty variant of the one that  *)
(* follows it.  No specification uses it: it stands for the slip that the  *)
(* property named in its comment catches.                                  *)
(***************************************************************************)
EXTENDS Naturals, SequencesExt

CONSTANTS
  Clients,      \* goroutines calling the engine
  OpsOf,        \* OpsOf[c]: the operations client c may request
  Paths,        \* absolute paths
  Fields,       \* column names
  Schema,       \* Schema[p]: the columns DuckDB infers for the file at p, in order
  Candidates,   \* well-known timestamp columns, best first
  TimeLike,     \* columns whose name looks like a timestamp
  DefaultField, \* the literal "@timestamp"
  Registries,   \* loader registries: which kind of loader is picked for a path
  NoRegistry,   \* a nil registry
  None,         \* no client
  MaxLoads      \* bound on the number of tables a behaviour creates

WriteOps == {"load", "unload", "enable", "field", "loaders"}

ReadOps == {"query"}

(***************************************************************************)
(* What Registry.Pick and the interface assertions after it come to for a  *)
(* path: read as JSON, read by a loader's own SQL expression, converted by *)
(* a streaming adapter, or refused (sniffing failed, no loader matched, or *)
(* the loader is neither direct nor streaming).                            *)
(***************************************************************************)
LoaderKinds == {"json", "sql", "stream", "refused"}

ASSUME ConstantsAssumption ==
  /\ None \notin Clients
  /\ OpsOf \in [Clients -> SUBSET (WriteOps \cup ReadOps)]
  /\ DefaultField \in Fields
  /\ Schema \in [Paths -> Seq(Fields)]
  /\ Candidates \in Seq(Fields)
  /\ TimeLike \subseteq Fields
  /\ Registries \subseteq [Paths -> LoaderKinds]
  /\ NoRegistry \notin Registries
  /\ MaxLoads \in Nat

VARIABLES
  files,           \* id -> FileInfo of every loaded file
  fileOrder,       \* ids in load order
  pathIndex,       \* absolute path -> id
  tableCols,       \* id -> cached columns of its table
  timestampField,
  nextID,
  loaders,
  tables,          \* ids whose table exists in DuckDB
  tmpFiles,        \* clients whose temporary NDJSON file is on disk
  wHolder,         \* client holding the writers' mutex inside the RWMutex
  readers,         \* clients holding the read lock
  blocked,         \* readers parked behind a pending or running writer
  pc,
  job,             \* job[c]: local variables of c's call
  answer           \* answer[c]: what c's query is about to return

catalog == <<files, fileOrder, pathIndex, tableCols, timestampField>>
lock == <<wHolder, readers, blocked>>
vars == <<files, fileOrder, pathIndex, tableCols, timestampField, nextID,
          loaders, tables, tmpFiles, wHolder, readers, blocked, pc, job, answer>>

-----------------------------------------------------------------------------
(* Types *)

FileInfo == [path: Paths, enabled: BOOLEAN]

Job == [op: WriteOps \cup ReadOps, path: Paths \cup {None}, id: Nat,
        kind: LoaderKinds, counted: SUBSET Paths]

NoJob == [op |-> "query", path |-> None, id |-> 0, kind |-> "refused",
          counted |-> {}]

Answers == [status: {"none", "rows", "error", "rejected"},
            count: SUBSET Paths, data: SUBSET Paths]

NoAnswer == [status |-> "none", count |-> {}, data |-> {}]

\* The program counters of a client inside the write lock, and of a load there.
LoadPCs == {"stream", "create", "naive", "register"}
WriterPCs == {"run"} \cup LoadPCs
ReaderPCs == {"count", "data", "reply"}
PCs == {"idle", "lock", "drain", "rlock", "blocked"} \cup WriterPCs \cup ReaderPCs

-----------------------------------------------------------------------------
(* Functions of the catalog *)

\* enabledTables: the tables a query reads, here as their files' paths.
EnabledPaths == {files[id].path : id \in {i \in DOMAIN files : files[i].enabled}}

\* canonicalColumns: the columns a UNION over the enabled files projects.
EnabledColumns ==
  UNION {ToSet(tableCols[id]) : id \in {i \in DOMAIN files : files[i].enabled}}

\* pickTimestampField: best candidate present, else the first column that
\* looks like a timestamp, else the first column, else the default.
FirstIn(seq, S) == seq[CHOOSE i \in 1..Len(seq) :
                         seq[i] \in S /\ \A j \in 1..(i - 1) : seq[j] \notin S]

PickTimestampField(cols) ==
  IF ToSet(Candidates) \cap ToSet(cols) # {} THEN FirstIn(Candidates, ToSet(cols))
  ELSE IF TimeLike \cap ToSet(cols) # {} THEN FirstIn(cols, TimeLike)
  ELSE IF cols # << >> THEN cols[1]
  ELSE DefaultField

\* Registry.Pick as LoadFileCtx uses it; a nil registry reads NDJSON.
Pick(p) == IF loaders = NoRegistry THEN "json" ELSE loaders[p]

-----------------------------------------------------------------------------
(* sync.RWMutex: a writer first takes the inner mutex, which parks every   *)
(* reader that comes later, then waits for the active readers to leave.    *)
(* Unlock lets all parked readers in before the next writer can start.     *)

LockW(c) ==
  /\ pc[c] = "lock"
  /\ wHolder = None
  /\ wHolder' = c
  /\ pc' = [pc EXCEPT ![c] = "drain"]
  /\ UNCHANGED <<catalog, nextID, loaders, tables, tmpFiles, readers, blocked,
                 job, answer>>

\* Bug (LockExclusion): the writer does not wait for the active readers.
DrainedBug(c) ==
  /\ pc[c] = "drain"
  /\ pc' = [pc EXCEPT ![c] = "run"]
  /\ UNCHANGED <<catalog, nextID, loaders, tables, tmpFiles, lock, job, answer>>

Drained(c) ==
  /\ pc[c] = "drain"
  /\ readers = {}
  /\ pc' = [pc EXCEPT ![c] = "run"]
  /\ UNCHANGED <<catalog, nextID, loaders, tables, tmpFiles, lock, job, answer>>

Unlock(c) ==
  /\ wHolder' = None
  /\ readers' = blocked
  /\ blocked' = {}
  /\ pc' = [d \in Clients |-> IF d = c THEN "idle"
                              ELSE IF d \in blocked THEN "count"
                              ELSE pc[d]]

\* Bug (NoTempLeft): the deferred os.Remove is missing.
ReturnWBug(c) ==
  /\ Unlock(c)
  /\ job' = [job EXCEPT ![c] = NoJob]
  /\ UNCHANGED <<tmpFiles, answer>>

\* The deferred calls that run when a write operation of c returns: remove
\* the temporary file (a no-op when there is none), then Unlock.
ReturnW(c) ==
  /\ tmpFiles' = tmpFiles \ {c}
  /\ Unlock(c)
  /\ job' = [job EXCEPT ![c] = NoJob]
  /\ UNCHANGED answer

\* Bug (CallsReturn): a reader slips in while a writer waits for its turn.
RLockBug(c) ==
  /\ pc[c] = "rlock"
  /\ \A d \in Clients : d = wHolder => pc[d] = "drain"
  /\ readers' = readers \cup {c}
  /\ pc' = [pc EXCEPT ![c] = "count"]
  /\ UNCHANGED <<catalog, nextID, loaders, tables, tmpFiles, wHolder, blocked,
                 job, answer>>

RLock(c) ==
  /\ pc[c] = "rlock"
  /\ IF wHolder = None
     THEN /\ readers' = readers \cup {c}
          /\ pc' = [pc EXCEPT ![c] = "count"]
          /\ UNCHANGED blocked
     ELSE /\ blocked' = blocked \cup {c}
          /\ pc' = [pc EXCEPT ![c] = "blocked"]
          /\ UNCHANGED readers
  /\ UNCHANGED <<catalog, nextID, loaders, tables, tmpFiles, wHolder, job, answer>>

-----------------------------------------------------------------------------
(* LoadFileCtx *)

Goto(c, to) == pc' = [pc EXCEPT ![c] = to] /\ UNCHANGED <<lock, answer>>

\* An early return before anything was created: the path is already loaded,
\* os.Stat fails, or no usable loader is picked.  Stat may fail at any time.
LoadRejected(c) ==
  /\ pc[c] = "run" /\ job[c].op = "load"
  /\ ReturnW(c)
  /\ UNCHANGED <<catalog, nextID, loaders, tables>>

\* Bug (IndexesAgree): the duplicate check is missing.
LoadDirectBug(c, p) ==
  /\ pc[c] = "run" /\ job[c].op = "load"
  /\ Pick(p) \in {"json", "sql"}
  /\ nextID < MaxLoads
  /\ job' = [job EXCEPT ![c].path = p, ![c].kind = Pick(p)]
  /\ Goto(c, "create")
  /\ UNCHANGED <<catalog, nextID, loaders, tables, tmpFiles>>

LoadDirect(c, p) ==
  /\ pc[c] = "run" /\ job[c].op = "load"
  /\ p \notin DOMAIN pathIndex
  /\ Pick(p) \in {"json", "sql"}
  /\ nextID < MaxLoads
  /\ job' = [job EXCEPT ![c].path = p, ![c].kind = Pick(p)]
  /\ Goto(c, "create")
  /\ UNCHANGED <<catalog, nextID, loaders, tables, tmpFiles>>

\* streamToTempNDJSON creates its file before the adapter emits a record.
LoadStreamed(c, p) ==
  /\ pc[c] = "run" /\ job[c].op = "load"
  /\ p \notin DOMAIN pathIndex
  /\ Pick(p) = "stream"
  /\ nextID < MaxLoads
  /\ job' = [job EXCEPT ![c].path = p, ![c].kind = "stream"]
  /\ tmpFiles' = tmpFiles \cup {c}
  /\ Goto(c, "stream")
  /\ UNCHANGED <<catalog, nextID, loaders, tables>>

StreamDone(c) ==
  /\ pc[c] = "stream"
  /\ Goto(c, "create")
  /\ UNCHANGED <<catalog, nextID, loaders, tables, tmpFiles, job>>

\* The adapter fails, the request's context is cancelled, or the file does
\* not close: streamToTempNDJSON removes the file itself.
StreamFailed(c) ==
  /\ pc[c] = "stream"
  /\ ReturnW(c)
  /\ UNCHANGED <<catalog, nextID, loaders, tables>>

\* nextID++ and CREATE TABLE ... AS SELECT.  Only JSON input, which includes
\* the output of the streaming adapters, goes on to naiveTimestamps.
CreateTable(c) ==
  /\ pc[c] = "create"
  /\ nextID' = nextID + 1
  /\ tables' = tables \cup {nextID + 1}
  /\ job' = [job EXCEPT ![c].id = nextID + 1]
  /\ Goto(c, IF job[c].kind = "sql" THEN "register" ELSE "naive")
  /\ UNCHANGED <<catalog, loaders, tmpFiles>>

CreateFailed(c) ==
  /\ pc[c] = "create"
  /\ nextID' = nextID + 1
  /\ ReturnW(c)
  /\ UNCHANGED <<catalog, loaders, tables>>

Normalised(c) ==
  /\ pc[c] = "naive"
  /\ Goto(c, "register")
  /\ UNCHANGED <<catalog, nextID, loaders, tables, tmpFiles, job>>

\* Bug (NamesFresh): a failed load gives its id back.
NormaliseFailedBug(c) ==
  /\ pc[c] = "naive"
  /\ nextID' = nextID - 1
  /\ ReturnW(c)
  /\ UNCHANGED <<catalog, loaders, tables>>

\* ALTER TABLE fails: the load returns and its table stays in DuckDB.
NormaliseFailed(c) ==
  /\ pc[c] = "naive"
  /\ ReturnW(c)
  /\ UNCHANGED <<catalog, nextID, loaders, tables>>

\* The in-memory tail of LoadFileCtx.  fetchTableColumns' error is dropped:
\* the file is then registered without columns.
Register(c, fetched) ==
  LET id == job[c].id
      p  == job[c].path
      cols == IF fetched THEN Schema[p] ELSE << >>
  IN  /\ pc[c] = "register"
      /\ tableCols' = [i \in DOMAIN tableCols \cup {id} |->
                         IF i = id THEN cols ELSE tableCols[i]]
      /\ timestampField' = IF DOMAIN files = {} THEN PickTimestampField(cols)
                           ELSE timestampField
      /\ files' = [i \in DOMAIN files \cup {id} |->
                     IF i = id THEN [path |-> p, enabled |-> TRUE] ELSE files[i]]
      /\ fileOrder' = Append(fileOrder, id)
      /\ pathIndex' = [q \in DOMAIN pathIndex \cup {p} |->
                         IF q = p THEN id ELSE pathIndex[q]]
      /\ ReturnW(c)
      /\ UNCHANGED <<nextID, loaders, tables>>

-----------------------------------------------------------------------------
(* The other write operations *)

\* A file id that is not loaded, a DROP TABLE that fails: nothing changes.
UnloadRefused(c) ==
  /\ pc[c] = "run" /\ job[c].op = "unload"
  /\ ReturnW(c)
  /\ UNCHANGED <<catalog, nextID, loaders, tables>>

UnloadFile(c, id) ==
  /\ pc[c] = "run" /\ job[c].op = "unload"
  /\ id \in DOMAIN files
  /\ tables' = tables \ {id}
  /\ tableCols' = [i \in DOMAIN tableCols \ {id} |-> tableCols[i]]
  /\ pathIndex' = [q \in DOMAIN pathIndex \ {files[id].path} |-> pathIndex[q]]
  /\ files' = [i \in DOMAIN files \ {id} |-> files[i]]
  /\ fileOrder' = RemoveFirst(fileOrder, id)
  /\ ReturnW(c)
  /\ UNCHANGED <<timestampField, nextID, loaders>>

SetFileEnabled(c, id, on) ==
  /\ pc[c] = "run" /\ job[c].op = "enable"
  /\ files' = IF id \in DOMAIN files THEN [files EXCEPT ![id].enabled = on]
              ELSE files
  /\ ReturnW(c)
  /\ UNCHANGED <<fileOrder, pathIndex, tableCols, timestampField, nextID,
                 loaders, tables>>

SetTimestampField(c, f) ==
  /\ pc[c] = "run" /\ job[c].op = "field"
  /\ timestampField' = f
  /\ ReturnW(c)
  /\ UNCHANGED <<files, fileOrder, pathIndex, tableCols, nextID, loaders, tables>>

SetLoaders(c, r) ==
  /\ pc[c] = "run" /\ job[c].op = "loaders"
  /\ loaders' = r
  /\ ReturnW(c)
  /\ UNCHANGED <<catalog, nextID, tables>>

-----------------------------------------------------------------------------
(* Query: a count and a SELECT over the same UNION, both under one         *)
(* RLock.  The SELECT fails when DuckDB does not find the ORDER BY column. *)

\* The request's field when it is a column of the union, else the engine's.
ResolveSortField(requested) ==
  IF requested \in EnabledColumns THEN requested ELSE timestampField

\* Bug (ImplementsCatalog): the read lock is dropped between the statements.
QueryCountBug(c) ==
  /\ pc[c] = "count"
  /\ job' = [job EXCEPT ![c].counted = EnabledPaths]
  /\ pc' = [pc EXCEPT ![c] = "data"]
  /\ readers' = readers \ {c}
  /\ UNCHANGED <<catalog, nextID, loaders, tables, tmpFiles, wHolder, blocked,
                 answer>>

QueryCount(c) ==
  /\ pc[c] = "count"
  /\ IF EnabledPaths = {}
     THEN /\ answer' = [answer EXCEPT ![c] = [NoAnswer EXCEPT !.status = "rows"]]
          /\ pc' = [pc EXCEPT ![c] = "reply"]
          /\ UNCHANGED job
     ELSE /\ job' = [job EXCEPT ![c].counted = EnabledPaths]
          /\ pc' = [pc EXCEPT ![c] = "data"]
          /\ UNCHANGED answer
  /\ UNCHANGED <<catalog, nextID, loaders, tables, tmpFiles, lock>>

QueryData(c) ==
  /\ pc[c] = "data"
  /\ \E requested \in Fields \cup {None} :
       answer' = [answer EXCEPT ![c] =
         IF ResolveSortField(requested) \in EnabledColumns
         THEN [status |-> "rows", count |-> job[c].counted, data |-> EnabledPaths]
         ELSE [NoAnswer EXCEPT !.status = "error"]]
  /\ pc' = [pc EXCEPT ![c] = "reply"]
  /\ UNCHANGED <<catalog, nextID, loaders, tables, tmpFiles, lock, job>>

\* DuckDB rejects a statement for any other reason: a WHERE clause it cannot
\* parse (QueryFilter), a filter on a field no file has.
QueryRejected(c) ==
  /\ pc[c] \in {"count", "data"} /\ EnabledPaths # {}
  /\ answer' = [answer EXCEPT ![c] = [NoAnswer EXCEPT !.status = "rejected"]]
  /\ pc' = [pc EXCEPT ![c] = "reply"]
  /\ UNCHANGED <<catalog, nextID, loaders, tables, tmpFiles, lock, job>>

\* The deferred RUnlock; the answer leaves the engine with the return.
QueryReturn(c) ==
  /\ pc[c] = "reply"
  /\ readers' = readers \ {c}
  /\ pc' = [pc EXCEPT ![c] = "idle"]
  /\ job' = [job EXCEPT ![c] = NoJob]
  /\ answer' = [answer EXCEPT ![c] = NoAnswer]
  /\ UNCHANGED <<catalog, nextID, loaders, tables, tmpFiles, wHolder, blocked>>

-----------------------------------------------------------------------------
Request(c, op) ==
  /\ pc[c] = "idle"
  /\ op \in OpsOf[c]
  /\ job' = [job EXCEPT ![c].op = op]
  /\ pc' = [pc EXCEPT ![c] = IF op \in ReadOps THEN "rlock" ELSE "lock"]
  /\ UNCHANGED <<catalog, nextID, loaders, tables, tmpFiles, lock, answer>>

\* New: an empty in-memory database.
Init ==
  /\ files = << >> /\ fileOrder = << >> /\ pathIndex = << >> /\ tableCols = << >>
  /\ timestampField = DefaultField
  /\ nextID = 0
  /\ loaders = NoRegistry
  /\ tables = {} /\ tmpFiles = {}
  /\ wHolder = None /\ readers = {} /\ blocked = {}
  /\ pc = [c \in Clients |-> "idle"]
  /\ job = [c \in Clients |-> NoJob]
  /\ answer = [c \in Clients |-> NoAnswer]

Load(c) ==
  \/ LoadRejected(c)
  \/ \E p \in Paths : LoadDirect(c, p) \/ LoadStreamed(c, p)
  \/ StreamDone(c) \/ StreamFailed(c)
  \/ CreateTable(c) \/ CreateFailed(c)
  \/ Normalised(c) \/ NormaliseFailed(c)
  \/ \E fetched \in BOOLEAN : Register(c, fetched)

Mutate(c) ==
  \/ UnloadRefused(c)
  \/ \E id \in 1..MaxLoads :
       \/ UnloadFile(c, id)
       \/ \E on \in BOOLEAN : SetFileEnabled(c, id, on)
  \/ \E f \in Fields : SetTimestampField(c, f)
  \/ \E r \in Registries \cup {NoRegistry} : SetLoaders(c, r)

Query(c) == QueryCount(c) \/ QueryData(c) \/ QueryRejected(c) \/ QueryReturn(c)

\* Everything client c does once it has called the engine.
Proceed(c) == LockW(c) \/ Drained(c) \/ RLock(c) \/ Load(c) \/ Mutate(c) \/ Query(c)

Next == \E c \in Clients : Proceed(c) \/ \E op \in OpsOf[c] : Request(c, op)

(***************************************************************************)
(* A goroutine inside the engine keeps running and every statement returns *)
(* (weak fairness); the inner sync.Mutex hands itself to a waiter that has *)
(* waited for a millisecond, so no writer is passed over for ever (strong  *)
(* fairness of LockW).  Nobody is obliged to make a request.               *)
(***************************************************************************)
Fairness == \A c \in Clients : WF_vars(Proceed(c)) /\ SF_vars(LockW(c))

Spec == Init /\ [][Next]_vars

FairSpec == Spec /\ Fairness

-----------------------------------------------------------------------------
(* Properties *)

\* The catalog and the tables behind it hold what their Go types say.
CatalogTypeOK ==
  /\ DOMAIN files \subseteq Nat
  /\ \A id \in DOMAIN files : files[id] \in FileInfo
  /\ fileOrder \in Seq(Nat)
  /\ DOMAIN pathIndex \subseteq Paths
  /\ \A p \in DOMAIN pathIndex : pathIndex[p] \in Nat
  /\ DOMAIN tableCols \subseteq Nat
  /\ \A id \in DOMAIN tableCols : tableCols[id] \in Seq(Fields)
  /\ timestampField \in Fields
  /\ nextID \in Nat
  /\ loaders \in Registries \cup {NoRegistry}
  /\ tables \subseteq Nat

\* The lock and the calls in progress are well formed.
ControlTypeOK ==
  /\ tmpFiles \subseteq Clients
  /\ wHolder \in Clients \cup {None}
  /\ readers \subseteq Clients /\ blocked \subseteq Clients
  /\ pc \in [Clients -> PCs]
  /\ job \in [Clients -> Job]
  /\ answer \in [Clients -> Answers]

\* Every variable has the type the code gives it.
TypeOK == CatalogTypeOK /\ ControlTypeOK

\* The write lock excludes readers and other writers, and the program
\* counters agree with the lock: a call is inside the engine only while it
\* holds the lock it took (sync.RWMutex under engine.go's Lock/RLock pairs).
LockExclusion ==
  /\ \A c \in Clients : (pc[c] \in WriterPCs \cup {"drain"}) <=> (c = wHolder)
  /\ \A c \in Clients : (pc[c] \in ReaderPCs) <=> (c \in readers)
  /\ \A c \in Clients : (pc[c] = "blocked") <=> (c \in blocked)
  /\ \A c \in Clients : pc[c] \in WriterPCs => readers = {}
  /\ wHolder = None => blocked = {}

\* The four indexes describe one set of files: fileOrder lists exactly the ids
\* of files, oldest first; pathIndex is the inverse of "path of", so no path is
\* loaded twice although the duplicate check and the registration are
\* separated by the whole ingest; and every file has its cached columns, and its
\* table: no UNION names one that an unload or a failed load has dropped.
IndexesAgree ==
  /\ {fileOrder[k] : k \in 1..Len(fileOrder)} = DOMAIN files
  /\ \A j, k \in 1..Len(fileOrder) : j < k => fileOrder[j] < fileOrder[k]
  /\ \A id \in DOMAIN files : /\ files[id].path \in DOMAIN pathIndex
                             /\ pathIndex[files[id].path] = id
  /\ \A p \in DOMAIN pathIndex : /\ pathIndex[p] \in DOMAIN files
                                /\ files[pathIndex[p]].path = p
  /\ DOMAIN tableCols = DOMAIN files
  /\ DOMAIN files \subseteq tables

\* The next CREATE TABLE never meets an existing table, not even one that a
\* failed normalisation left behind, and the id a load is about to register
\* is the newest one issued: an id a client still remembers after an unload
\* never comes to name another file.
NamesFresh ==
  /\ \A id \in tables \cup DOMAIN files : id <= nextID
  /\ \A c \in Clients : pc[c] \in {"naive", "register"} =>
       /\ job[c].id = nextID
       /\ nextID \in tables \ DOMAIN files

\* A temporary NDJSON file exists only while the load that made it runs: every
\* early return, whatever the step that failed, has removed it.
NoTempLeft == \A c \in tmpFiles : pc[c] \in LoadPCs

\* The catalog implements CatalogSpec: the list of entries is fileOrder with
\* each id's FileInfo.
AbstractCatalog == INSTANCE CatalogSpec WITH
  Ids <- 1..MaxLoads,
  sortField <- timestampField,
  entries <- [k \in 1..Len(fileOrder) |->
                [id |-> fileOrder[k],
                 path |-> files[fileOrder[k]].path,
                 enabled |-> files[fileOrder[k]].enabled]]

\* Loads, unloads and toggles take effect as a whole or not at all, and the
\* total and the rows of one query come from the same set of files.
ImplementsCatalog == AbstractCatalog!AbsSpec

\* Every call into the engine returns, whatever the others keep requesting: a
\* stream of queries does not starve a load, nor loads a query.
CallsReturn == \A c \in Clients : pc[c] # "idle" ~> pc[c] = "idle"

\* "unknown/absent fields fall back to the engine's auto-detected timestamp so
\* the query never fails on a missing column" (engine.go:642-646).  A file
\* whose columns could not be read back is left out of the claim.
QueryNeverFails ==
  (\A id \in DOMAIN files : tableCols[id] = Schema[files[id].path])
    => \A c \in Clients : answer[c].status # "error"

=============================================================================
