-------------------------------- MODULE Loads --------------------------------
(***************************************************************************)
(* Requests that load files (internal/server/server.go): one entry of a    *)
(* zip archive, every entry of it, or every file of a folder; and what     *)
(* they leave behind: extracted files, kept as a cache next to the archive *)
(* in a folder with its name, loaded files, and the last directory in the  *)
(* settings.  Requests overlap, clients go away, copies fail, and the      *)
(* process may end at any moment and start again over what is on disk.     *)
(*                                                                         *)
(* Abstractions.  The contents of a file is a sequence of cells, the unit  *)
(* of its size; the cells of an entry bear its number.  archive/zip may or *)
(* may not notice that an entry does not have the size it declares, so the *)
(* model lets both happen.  Files are removed as on Unix: who has one open *)
(* goes on writing to what has no name.  LoadFileCtx reads a file at one   *)
(* moment: EngineCatalog holds its steps.  The folder beside the archive   *)
(* is the only one that is loaded as a folder.                             *)
(*                                                                         *)
(* An operator whose name ends in Bug is a faulty variant of the one that  *)
(* follows it, for the property named in its comment.                      *)
(***************************************************************************)
EXTENDS SettingsStore, Integers, Sequences, SequencesExt

CONSTANTS
  Entries,     \* the archive: its entries in order, see Entry
  Archive,     \* what an error about the archive as a whole is listed under
  Names,       \* file names in the folder
  Hidden,      \* names the file browser does not show
  Unreadable,  \* names of files no loader takes
  Before,      \* the folder before anything is extracted
  EntryCap,    \* defaultZipEntryCap
  TotalCap,    \* defaultZipTotalCap
  ZipDir,      \* the directory of the archive
  OutDir,      \* the folder the entries are extracted to
  Posted,      \* patches the settings page posts
  MaxRequests, \* bound on requests
  MaxFailures, \* bound on failures of a copy, a load, a client or a save
  MaxEnds      \* bound on ends of the process

Absent == <<-1>>  \* no file of that name

Hole == 0         \* a cell nobody wrote

Users == -2       \* a cell of a file the user put there

Entry == [base: Names, isDir: BOOLEAN, declared: Nat, actual: Nat]

ASSUME ArchiveAssumption ==
  /\ Entries \in Seq(Entry)
  /\ IsFiniteSet(Names) /\ Hidden \subseteq Names /\ Unreadable \subseteq Names
  /\ Before \in [Names -> Seq({Users}) \cup {Absent}]
  /\ {EntryCap, TotalCap, MaxRequests, MaxFailures, MaxEnds} \subseteq Nat
  /\ {ZipDir, OutDir} \subseteq Dirs /\ Posted \subseteq Patches

VARIABLES
  up,        \* the process runs
  disk,      \* disk[n]: contents of the file of name n, or Absent
  loaded,    \* loaded[n]: the contents the engine loaded from it, or Absent
  pc,        \* pc[c]: progress of c's request
  kind,      \* kind[c]: "one", "archive", "folder" or "settings"
  todo,      \* todo[c]: the items still to do, each with its entry or 0
  at,        \* at[c]: cells copied of the entry at hand
  linked,    \* linked[c]: the file c writes still has its name
  total,     \* total[c]: totalExtracted
  done,      \* done[c]: items reported as loaded
  errors,    \* errors[c]: items reported as failed
  gone,      \* gone[c]: the client of the request went away
  clashed,   \* names two requests have extracted at once (history)
  wrong,     \* items loaded with contents that are not theirs (history)
  requests, failures, ends

files == <<disk, loaded>>
request == <<pc, kind, todo, at, linked, total, done, errors, gone>>
history == <<clashed, wrong>>
bounds == <<requests, failures, ends>>
vars == <<store, up, files, request, history, bounds>>

-----------------------------------------------------------------------------
(* What a file may hold *)

Cells == {Hole, Users} \cup DOMAIN Entries

-----------------------------------------------------------------------------
(* Listings *)

EntryItem(i) == [entry |-> i, base |-> Entries[i].base]

ASSUME ArchiveNoItem == \A i \in DOMAIN Entries : EntryItem(i) # Archive

\* What the browser offers of an archive, and what loading all of it goes
\* through: every entry that is not a directory.
ZipListing ==
  LET shown == {i \in DOMAIN Entries : ~Entries[i].isDir}
      order == CHOOSE s \in SetToSeqs(shown) :
                 \A j, k \in DOMAIN s : j < k => s[j] < s[k]
  IN  [k \in DOMAIN order |-> EntryItem(order[k])]

\* os.ReadDir: all that is there, in one order.
FolderListing ==
  LET there == SetToSeq({n \in Names : disk[n] # Absent})
  IN  [k \in DOMAIN there |-> [entry |-> 0, base |-> there[k]]]

\* The single files a user is offered.
Offered ==
  ToSet(ZipListing) \cup {i \in ToSet(FolderListing) : i.base \notin Hidden}

-----------------------------------------------------------------------------
(* Requests *)

Item(c) == Head(todo[c])

Here(c) == Item(c).base

EntryOf(c) == Entries[Item(c).entry]

Batch(c) == kind[c] \in {"archive", "folder"}

Goto(c, to) == pc' = [pc EXCEPT ![c] = to]

Fail == failures < MaxFailures /\ failures' = failures + 1

\* A request with the items to load; its step is "next" before each of them.
Begin(c, what, items) ==
  /\ up /\ pc[c] = "idle" /\ requests < MaxRequests
  /\ requests' = requests + 1
  /\ kind' = [kind EXCEPT ![c] = what]
  /\ todo' = [todo EXCEPT ![c] = items]
  /\ Goto(c, "next")
  /\ UNCHANGED <<store, up, files, at, linked, total, done, errors, gone, history,
                 failures, ends>>

LoadFile(c) == \E i \in Offered : Begin(c, "one", <<i>>)

LoadDir(c) == Begin(c, "folder", FolderListing)

LoadArchive(c) == Begin(c, "archive", ZipListing)

\* The archive cannot be opened, or its folder not be made: the one error of a
\* batch without entries, which is remembered and answered like any other.
ArchiveUnread(c) ==
  /\ up /\ pc[c] = "idle" /\ requests < MaxRequests /\ Fail
  /\ requests' = requests + 1
  /\ kind' = [kind EXCEPT ![c] = "archive"]
  /\ todo' = [todo EXCEPT ![c] = << >>]
  /\ errors' = [errors EXCEPT ![c] = {Archive}]
  /\ Goto(c, "update")
  /\ UNCHANGED <<store, up, files, at, linked, total, done, gone, history, ends>>

\* POST /api/settings.
PostSettings(c, p) ==
  /\ up /\ pc[c] = "idle" /\ requests < MaxRequests
  /\ requests' = requests + 1
  /\ kind' = [kind EXCEPT ![c] = "settings"]
  /\ Goto(c, "saving")
  /\ Mutate(c, p)
  /\ UNCHANGED <<up, files, todo, at, linked, total, done, errors, gone, history, failures, ends>>

ClientGone(c) ==
  /\ pc[c] # "idle" /\ kind[c] # "settings" /\ ~gone[c] /\ Fail
  /\ gone' = [gone EXCEPT ![c] = TRUE]
  /\ UNCHANGED <<store, up, files, pc, kind, todo, at, linked, total, done, errors,
                 history, requests, ends>>

Reply(c) ==
  /\ Goto(c, "idle")
  /\ kind' = [kind EXCEPT ![c] = "none"]
  /\ todo' = [todo EXCEPT ![c] = <<>>]
  /\ at' = [at EXCEPT ![c] = 0] /\ linked' = [linked EXCEPT ![c] = FALSE]
  /\ total' = [total EXCEPT ![c] = 0]
  /\ done' = [done EXCEPT ![c] = {}] /\ errors' = [errors EXCEPT ![c] = {}]
  /\ gone' = [gone EXCEPT ![c] = FALSE]

\* Bug (EntriesAccountedFor): the first failure ends the batch.
ItemFailedBug(c) ==
  IF Batch(c)
    THEN /\ errors' = [errors EXCEPT ![c] = @ \cup {Item(c)}]
         /\ Goto(c, "update")
         /\ UNCHANGED <<kind, todo, at, linked, total, done, gone>>
    ELSE Reply(c)

\* The item at hand failed: a batch notes it and goes on, a single load answers.
ItemFailed(c) ==
  IF Batch(c)
    THEN /\ errors' = [errors EXCEPT ![c] = @ \cup {Item(c)}]
         /\ todo' = [todo EXCEPT ![c] = Tail(@)]
         /\ Goto(c, "next")
         /\ at' = [at EXCEPT ![c] = 0] /\ linked' = [linked EXCEPT ![c] = FALSE]
         /\ UNCHANGED <<kind, total, done, gone>>
    ELSE Reply(c)

-----------------------------------------------------------------------------
(* extractZipFile *)

\* Others that are extracting, or about to load, an entry of that name.
Extracting(n) ==
  {c \in Callers : /\ pc[c] \in {"stat", "open", "copy", "load"}
                   /\ Item(c).entry # 0 /\ Here(c) = n}

\* The next item: an entry is extracted first.  A batch looks for its client
\* before each item.
NextItem(c) ==
  /\ pc[c] = "next" /\ todo[c] # <<>>
  /\ ~(Batch(c) /\ gone[c])
  /\ Goto(c, IF Item(c).entry = 0 THEN "load" ELSE "stat")
  /\ clashed' = IF Item(c).entry = 0 \/ Extracting(Here(c)) = {}
                  THEN clashed ELSE clashed \cup {Here(c)}
  /\ UNCHANGED <<store, up, files, kind, todo, at, linked, total, done, errors, gone,
                 wrong, bounds>>

\* The end of the list, or of the client, whose absence is one more error.
BatchEnds(c) ==
  /\ pc[c] = "next" /\ Batch(c)
  /\ todo[c] = <<>> \/ gone[c]
  /\ Goto(c, "update")
  /\ UNCHANGED <<store, up, files, kind, todo, at, linked, total, done, errors, gone,
                 history, bounds>>

\* Bug (BatchBounded): nothing is counted.
CountedBug(c, n) == UNCHANGED total

\* A single entry is not counted.
Counted(c, n) ==
  total' = IF Batch(c) THEN [total EXCEPT ![c] = @ + n] ELSE total

\* The declared size is over the cap, or would put the batch over its own.
OverCap(c) ==
  \/ EntryOf(c).declared > EntryCap
  \/ Batch(c) /\ total[c] + EntryOf(c).declared > TotalCap

Refused(c) ==
  /\ pc[c] = "stat" /\ OverCap(c)
  /\ ItemFailed(c)
  /\ UNCHANGED <<store, up, files, history, bounds>>

\* Bug (LoadedIsTheEntry): a file of the name is good enough.
CachedBug(c) == disk[Here(c)] # Absent

\* A file of that name and size is taken for the entry.
Cached(c) == disk[Here(c)] # Absent /\ Len(disk[Here(c)]) = EntryOf(c).declared

Reused(c) ==
  /\ pc[c] = "stat" /\ ~OverCap(c) /\ Cached(c)
  /\ Counted(c, EntryOf(c).declared)
  /\ Goto(c, "load")
  /\ UNCHANGED <<store, up, files, kind, todo, at, linked, done, errors, gone, history, bounds>>

NotCached(c) ==
  /\ pc[c] = "stat" /\ ~OverCap(c) /\ ~Cached(c)
  /\ Goto(c, "open")
  /\ UNCHANGED <<store, up, files, kind, todo, at, linked, total, done, errors, gone,
                 history, bounds>>

Writers(n) == {c \in Callers : pc[c] = "copy" /\ linked[c] /\ Here(c) = n}

\* os.Create, on a file that others may be writing.
Created(c) ==
  /\ pc[c] = "open"
  /\ disk' = [disk EXCEPT ![Here(c)] = <<>>]
  /\ linked' = [linked EXCEPT ![c] = TRUE]
  /\ Goto(c, "copy")
  /\ UNCHANGED <<store, up, loaded, kind, todo, at, total, done, errors, gone, history, bounds>>

CreateFails(c) ==
  /\ pc[c] = "open" /\ Fail
  /\ ItemFailed(c)
  /\ UNCHANGED <<store, up, files, history, requests, ends>>

\* The file with its cell k written: past the end, the gap is filled.
Put(old, k, cell) ==
  [j \in 1..(IF k > Len(old) THEN k ELSE Len(old)) |->
     IF j = k THEN cell ELSE IF j <= Len(old) THEN old[j] ELSE Hole]

\* The copy is limited to one cell more than the cap.
CopyEnd(c) ==
  IF EntryOf(c).actual > EntryCap THEN EntryCap + 1 ELSE EntryOf(c).actual

Copied(c) ==
  /\ pc[c] = "copy" /\ at[c] < CopyEnd(c)
  /\ at' = [at EXCEPT ![c] = @ + 1]
  /\ disk' = IF linked[c]
               THEN [disk EXCEPT ![Here(c)] = Put(@, at[c] + 1, Item(c).entry)]
               ELSE disk
  /\ UNCHANGED <<store, up, loaded, pc, kind, todo, linked, total, done, errors, gone,
                 history, bounds>>

\* os.Remove: whoever else writes the file writes it without a name from now on.
Removed(c) ==
  /\ disk' = [disk EXCEPT ![Here(c)] = Absent]
  /\ IF Batch(c)
       THEN /\ errors' = [errors EXCEPT ![c] = @ \cup {Item(c)}]
            /\ todo' = [todo EXCEPT ![c] = Tail(@)]
            /\ Goto(c, "next")
            /\ at' = [at EXCEPT ![c] = 0]
            /\ UNCHANGED <<kind, total, done, gone>>
       ELSE /\ Goto(c, "idle")
            /\ kind' = [kind EXCEPT ![c] = "none"]
            /\ todo' = [todo EXCEPT ![c] = <<>>]
            /\ at' = [at EXCEPT ![c] = 0]
            /\ gone' = [gone EXCEPT ![c] = FALSE]
            /\ UNCHANGED <<total, done, errors>>
  /\ linked' = [d \in Callers |-> linked[d] /\ d # c /\ d \notin Writers(Here(c))]

\* A read or write error, or an entry that archive/zip finds to be damaged.
CopyFails(c) ==
  /\ pc[c] = "copy" /\ Fail
  /\ Removed(c)
  /\ UNCHANGED <<store, up, loaded, history, requests, ends>>

HeaderLied(c) ==
  /\ pc[c] = "copy" /\ at[c] > EntryCap
  /\ Removed(c)
  /\ UNCHANGED <<store, up, loaded, history, bounds>>

Extracted(c) ==
  /\ pc[c] = "copy" /\ at[c] = EntryOf(c).actual /\ at[c] <= EntryCap
  /\ Counted(c, at[c])
  /\ at' = [at EXCEPT ![c] = 0] /\ linked' = [linked EXCEPT ![c] = FALSE]
  /\ Goto(c, "load")
  /\ UNCHANGED <<store, up, files, kind, todo, done, errors, gone, history, bounds>>

-----------------------------------------------------------------------------
(* Loading *)

\* The contents an item should have: those of its entry.
Whole(i) == [k \in 1..Entries[i].actual |-> i]

Loadable(c) ==
  /\ loaded[Here(c)] = Absent /\ disk[Here(c)] # Absent
  /\ Here(c) \notin Unreadable /\ ~gone[c]

\* LoadFileCtx: already loaded, not there, no loader, the client gone, or bad.
LoadFails(c) ==
  /\ pc[c] = "load"
  /\ \/ ~Loadable(c) /\ UNCHANGED failures
     \/ Loadable(c) /\ Fail
  /\ ItemFailed(c)
  /\ UNCHANGED <<store, up, files, history, requests, ends>>

Loaded(c) ==
  /\ pc[c] = "load" /\ Loadable(c)
  /\ loaded' = [loaded EXCEPT ![Here(c)] = disk[Here(c)]]
  /\ wrong' = IF Item(c).entry # 0 /\ disk[Here(c)] # Whole(Item(c).entry)
                THEN wrong \cup {Item(c)} ELSE wrong
  /\ done' = [done EXCEPT ![c] = @ \cup {Item(c)}]
  /\ todo' = [todo EXCEPT ![c] = Tail(@)]
  /\ Goto(c, IF Batch(c) THEN "next" ELSE "update")
  /\ UNCHANGED <<store, up, disk, kind, at, linked, total, errors, gone, clashed, bounds>>

Unload(n) ==
  /\ up /\ loaded[n] # Absent
  /\ loaded' = [loaded EXCEPT ![n] = Absent]
  /\ UNCHANGED <<store, up, disk, request, history, bounds>>

\* The directory to remember: that of the archive after a batch over it, else
\* that of the files.
LastDirectory(c) ==
  [last_directory |-> IF kind[c] = "archive" THEN ZipDir ELSE OutDir,
   auto_load_previous |-> Keep]

Remember(c) ==
  /\ pc[c] = "update"
  /\ Mutate(c, LastDirectory(c))
  /\ Goto(c, "saving")
  /\ UNCHANGED <<up, files, kind, todo, at, linked, total, done, errors, gone, history, bounds>>

SaveStep(c) ==
  /\ \/ (Marshal(c) \/ Truncate(c) \/ Write(c)) /\ UNCHANGED failures
     \/ SaveFails(c) /\ Fail
  /\ UNCHANGED <<up, files, request, history, requests, ends>>

\* A load answers ok whether or not the settings could be saved.
Replied(c) ==
  /\ pc[c] = "saving" /\ save[c] = "none"
  /\ Reply(c)
  /\ UNCHANGED <<store, up, files, history, bounds>>

-----------------------------------------------------------------------------
(* The process ends and starts *)

End ==
  /\ up /\ ends < MaxEnds
  /\ ends' = ends + 1
  /\ up' = FALSE
  /\ loaded' = [n \in Names |-> Absent]
  /\ pc' = [c \in Callers |-> "idle"] /\ kind' = [c \in Callers |-> "none"]
  /\ todo' = [c \in Callers |-> <<>>]
  /\ at' = [c \in Callers |-> 0] /\ linked' = [c \in Callers |-> FALSE]
  /\ total' = [c \in Callers |-> 0]
  /\ done' = [c \in Callers |-> {}] /\ errors' = [c \in Callers |-> {}]
  /\ gone' = [c \in Callers |-> FALSE]
  /\ StoreLost
  /\ UNCHANGED <<disk, history, requests, failures>>

\* collectPreloadFiles: what the folder holds, if it is the last directory and
\* the user wants it back.
Preloaded ==
  {n \in Names \ Unreadable :
     /\ settings'.auto_load_previous /\ settings'.last_directory = OutDir
     /\ disk[n] # Absent}

Start ==
  /\ ~up
  /\ up' = TRUE
  /\ LoadSettings
  /\ loaded' = [n \in Names |-> IF n \in Preloaded THEN disk[n] ELSE Absent]
  /\ UNCHANGED <<disk, request, history, bounds>>

Init ==
  /\ StoreInit
  /\ up = FALSE
  /\ disk = Before /\ loaded = [n \in Names |-> Absent]
  /\ pc = [c \in Callers |-> "idle"] /\ kind = [c \in Callers |-> "none"]
  /\ todo = [c \in Callers |-> <<>>]
  /\ at = [c \in Callers |-> 0] /\ linked = [c \in Callers |-> FALSE]
  /\ total = [c \in Callers |-> 0]
  /\ done = [c \in Callers |-> {}] /\ errors = [c \in Callers |-> {}]
  /\ gone = [c \in Callers |-> FALSE]
  /\ clashed = {} /\ wrong = {}
  /\ requests = 0 /\ failures = 0 /\ ends = 0

Work(c) ==
  \/ NextItem(c) \/ BatchEnds(c)
  \/ Refused(c) \/ Reused(c) \/ NotCached(c)
  \/ Created(c) \/ CreateFails(c) \/ Copied(c) \/ CopyFails(c)
  \/ HeaderLied(c) \/ Extracted(c)
  \/ LoadFails(c) \/ Loaded(c) \/ Remember(c) \/ SaveStep(c) \/ Replied(c)

Ask(c) ==
  \/ LoadFile(c) \/ LoadDir(c) \/ LoadArchive(c) \/ ArchiveUnread(c)
  \/ \E p \in Posted : PostSettings(c, p)
  \/ ClientGone(c)

Next ==
  \/ \E c \in Callers : Work(c) \/ Ask(c)
  \/ \E n \in Names : Unload(n)
  \/ End \/ Start

Spec == Init /\ [][Next]_vars

-----------------------------------------------------------------------------
(* Properties *)

\* An entry has the size its header declares.
Honest(i) == Entries[i].declared = Entries[i].actual

\* No other entry goes by the name of this one, its header is true, and the user
\* had no file of its name and size.
Plain(i) ==
  /\ \A j \in DOMAIN Entries \ {i} : Entries[j].isDir \/ Entries[j].base # Entries[i].base
  /\ Honest(i)
  /\ Len(Before[Entries[i].base]) # Entries[i].declared \/ Before[Entries[i].base] = Absent

\* An entry is loaded with its own contents, whatever copies failed or were cut
\* off by the end of the process before, as long as no two requests extracted to
\* its name at once.  extractZipFile trusts a file of the declared size: what a
\* copy that was cut off leaves must never have it.
LoadedIsTheEntry ==
  \A i \in wrong : Plain(i.entry) => i.base \in clashed

\* A batch over an archive stays under the cap, and the count it goes by covers
\* all it has put, or found, on disk and loaded of the entries whose header is
\* true, whoever else extracts to the same names.  server.go: "Aggregate size cap
\* is enforced via a running total so a 10k-entry archive can't quietly dump 100
\* GiB even if each individual entry is under the per-entry cap".
BatchBounded ==
  \A c \in Callers :
    kind[c] = "archive" =>
      /\ total[c] <= TotalCap + (IF \A i \in DOMAIN Entries : Honest(i) THEN 0 ELSE EntryCap)
      /\ Cardinality({cell \in Names \X (1..EntryCap + 1) :
                        LET n == cell[1]
                            k == cell[2]
                        IN  /\ disk[n] # Absent /\ k <= Len(disk[n])
                            /\ \E i \in done[c] : i.entry = disk[n][k] /\ Honest(i.entry)})
           <= total[c]

\* When a batch over an archive answers, each of its entries is in exactly one of
\* the two lists, unless the client went away or the archive could not be read at
\* all, which is then all the answer says.  server.go: "unsupported entries land in
\* errors rather than aborting the load".
EntriesAccountedFor ==
  \A c \in Callers :
    kind[c] = "archive" /\ pc[c] = "update" =>
      /\ done[c] \cap errors[c] = {}
      /\ \/ gone[c]
         \/ done[c] \cup errors[c] = ToSet(ZipListing)
         \/ done[c] = {} /\ errors[c] = {Archive}

\* Whatever order requests update and save the settings in, once no save is under
\* way the file holds what the program holds, unless a write or the load at start
\* failed.  settings.go: "Update applies a mutation function and saves to disk".
SavedIsCurrent ==
  up /\ intact /\ (\A c \in Callers : save[c] = "none") => file = settings

=============================================================================
