---------------------------- MODULE SettingsStore ----------------------------
(***************************************************************************)
(* The user's preferences (internal/settings): a record in memory under a  *)
(* sync.RWMutex, and kopusha_settings.json, truncated and rewritten in     *)
(* place.  Update changes the record under the write lock, lets go of it,  *)
(* and writes the file under the read lock; so several updates may write   *)
(* at once, and another may change the record before the first one writes. *)
(* The process may end between any two of these steps.                     *)
(*                                                                         *)
(* Abstractions.  A file is a whole record, or Torn when a write did not   *)
(* get to its end, or NoFile.  A directory is a model value.               *)
(*                                                                         *)
(* This module holds the store's state and steps; Loads composes them with *)
(* the requests that call Update and with the ends of the process.         *)
(* An operator whose name ends in Bug is a faulty variant of the one that  *)
(* follows it, for the property named in its comment.                      *)
(***************************************************************************)
EXTENDS Naturals, FiniteSets

CONSTANTS
  Callers,  \* goroutines that may call Update
  Dirs,     \* directories a user may load from
  NoDir,    \* the empty LastDirectory
  Keep,     \* a field a patch does not mention
  Torn,     \* a file whose last write did not get to its end
  NoFile    \* no file

ASSUME StoreAssumption ==
  /\ NoDir \notin Dirs /\ Keep \notin Dirs \cup {NoDir} \cup BOOLEAN
  /\ Torn # NoFile

VARIABLES
  settings,  \* Store.settings
  file,      \* kopusha_settings.json
  save,      \* save[c]: progress of c's call of Update
  image,     \* image[c]: what c's Save marshalled
  intact     \* no load or write has failed since the last one that succeeded

store == <<settings, file, save, image, intact>>

Settings == [last_directory: Dirs \cup {NoDir}, auto_load_previous: BOOLEAN]

Defaults == [last_directory |-> NoDir, auto_load_previous |-> FALSE]

\* A patch of POST /api/settings, or of a load: {"last_directory": ""} is
\* ignored like an absent field.
Patches == [last_directory: Dirs \cup {Keep}, auto_load_previous: BOOLEAN \cup {Keep}]

Files == Settings \cup {Torn, NoFile}

Patched(s, p) == [f \in DOMAIN s |-> IF p[f] = Keep THEN s[f] ELSE p[f]]

\* Save holds the read lock from the marshalling to the end of the write.
SaveSteps == {"open", "write"}

Saving == {c \in Callers : save[c] \in SaveSteps}

StoreInit ==
  /\ settings = Defaults /\ file = NoFile
  /\ save = [c \in Callers |-> "none"]
  /\ image = [c \in Callers |-> Defaults]
  /\ intact = TRUE

-----------------------------------------------------------------------------
\* Load, once, at start.  A file that is there but cannot be read, or does not
\* parse, leaves the zero value of the record and a warning; it is not touched.
LoadSettings ==
  \/ /\ file = NoFile
     /\ settings' = Defaults
     /\ \/ file' = Defaults /\ intact' = TRUE
        \/ file' \in {NoFile, Torn} /\ intact' = FALSE
     /\ UNCHANGED <<save, image>>
  \/ /\ file # NoFile
     /\ settings' = Defaults /\ intact' = FALSE
     /\ UNCHANGED <<file, save, image>>
  \/ /\ file \in Settings
     /\ settings' = file /\ intact' = TRUE
     /\ UNCHANGED <<file, save, image>>

\* Bug (SavedIsCurrent): the write lock does not wait for the savers.
MutateBug(c, p) ==
  /\ save[c] = "none"
  /\ settings' = Patched(settings, p)
  /\ save' = [save EXCEPT ![c] = "save"]
  /\ UNCHANGED <<file, image, intact>>

\* The mutation of Update: the write lock waits until no Save is under way.
Mutate(c, p) ==
  /\ save[c] = "none"
  /\ Saving = {}
  /\ settings' = Patched(settings, p)
  /\ save' = [save EXCEPT ![c] = "save"]
  /\ UNCHANGED <<file, image, intact>>

\* Save takes the read lock and marshals the record as it is by now.
Marshal(c) ==
  /\ save[c] = "save"
  /\ image' = [image EXCEPT ![c] = settings]
  /\ save' = [save EXCEPT ![c] = "open"]
  /\ UNCHANGED <<settings, file, intact>>

\* os.WriteFile opens with O_TRUNC ...
Truncate(c) ==
  /\ save[c] = "open"
  /\ file' = Torn
  /\ save' = [save EXCEPT ![c] = "write"]
  /\ UNCHANGED <<settings, image, intact>>

\* ... and writes from the start of the file: whatever another writer put
\* there is overwritten, byte by byte.
Write(c) ==
  /\ save[c] = "write"
  /\ file' = image[c]
  /\ intact' = TRUE
  /\ save' = [save EXCEPT ![c] = "none"]
  /\ image' = [image EXCEPT ![c] = Defaults]
  /\ UNCHANGED settings

\* The file cannot be opened, or the disk is full.
SaveFails(c) ==
  /\ save[c] \in SaveSteps
  /\ intact' = FALSE
  /\ save' = [save EXCEPT ![c] = "none"]
  /\ file' = IF save[c] = "write" THEN Torn ELSE file
  /\ image' = [image EXCEPT ![c] = Defaults]
  /\ UNCHANGED settings

\* The end of the process ends every call where it is.
StoreLost ==
  /\ settings' = Defaults
  /\ save' = [c \in Callers |-> "none"]
  /\ image' = [c \in Callers |-> Defaults]
  /\ UNCHANGED <<file, intact>>

=============================================================================
