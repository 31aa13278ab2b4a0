CONSTANTS
  c1 = c1  c2 = c2  zipdir = zipdir  outdir = outdir
  NoDir = NoDir
  Keep = Keep
  Torn = Torn
  NoFile = NoFile
  Archive = Archive
  Callers <- MCCallers
  Dirs <- MCDirs
  Entries <- MCEntries
  Names <- MCNames
  Hidden <- MCHidden
  Unreadable <- MCHidden
  Before <- MCBefore
  EntryCap = 2
  TotalCap = 3
  ZipDir = zipdir
  OutDir = outdir
  Posted <- MCPosted
  MaxRequests = 2
  MaxFailures = 1
  MaxEnds = 1

SPECIFICATION Spec

SYMMETRY Symmetry

INVARIANTS
  LoadedIsTheEntry
  BatchBounded
  EntriesAccountedFor
  SavedIsCurrent

\* The user need not ask for anything more.
CHECK_DEADLOCK FALSE
