------------------------------ MODULE SelfUpdate ------------------------------
(***************************************************************************)
(* Updating a running kopusha in place (internal/selfupdate and            *)
(* internal/server/selfupdate.go).  A browser tab asks the server to       *)
(* prepare an update - download, verify, work out what happens to every    *)
(* rule file in parsers.d/ - and later to apply the prepared plan: swap    *)
(* the executable by renames, then rewrite the rule files, then restart.   *)
(* Meanwhile the user edits rule files, releases appear, any step fails    *)
(* and the machine may lose power.                                         *)
(*                                                                         *)
(* Abstractions.  A release is a number; Ships[v][r] is the release that   *)
(* last changed the content with which v ships rule file r, so equal       *)
(* numbers are equal hashes.  The archive a plan carries is its release.   *)
(* ApplyRules goes through its changes by name, the model in any order.    *)
(* samples/ is inert data: only the outcome of writing it is modelled.     *)
(*                                                                         *)
(* An operator whose name ends in Bug is a faulty variant of the one that  *)
(* follows it.  No specification uses it: it stands for the slip that the  *)
(* property named in its comment catches.                                  *)
(***************************************************************************)
EXTENDS Naturals, FiniteSets

CONSTANTS
  Tabs,       \* browser tabs calling the update endpoints
  Rules,      \* names of rule files
  Newest,     \* the last release
  Ships,      \* Ships[v][r]: the content of r in release v, Absent if not shipped
  Mine,       \* content written by the user
  Torn,       \* what a write that failed half-way leaves of a rule file
  NoPlan,     \* an empty plan slot
  MaxPlans,   \* bound on the number of prepared plans
  MaxEdits,   \* bound on the user's edits
  MaxCrashes  \* bound on power failures

Releases == 1..Newest

Absent == 0

Down == 0

ASSUME ShipsAssumption ==
  /\ Newest \in Nat \ {0}
  /\ Ships \in [Releases -> [Rules -> 0..Newest]]
  /\ \A v \in Releases, r \in Rules : Ships[v][r] <= v
  /\ Mine \notin Nat /\ Torn \notin Nat /\ Mine # Torn /\ NoPlan \notin Nat
  /\ MaxPlans \in Nat /\ MaxEdits \in Nat /\ MaxCrashes \in Nat

VARIABLES
  running,     \* release of the running process, or Down
  exe,         \* release at ExePath, or Absent
  old,         \* release at ExePath.old, or Absent
  installed,   \* the newest release that was ever at ExePath (history)
  latest,      \* newest release the update checker knows
  disk,        \* disk[r]: content of r in parsers.d/, or Absent
  edited,      \* rules whose last change, or removal, was the user's (history)
  slot,        \* updateState.plan: its number, the releases it leads from and to,
               \* the rules it writes, removes and spares
  fresh,       \* the plan in the slot is younger than planTTL
  pc,          \* pc[t]: progress of t's request
  job,         \* job[t]: the plan t works on, or NoPlan
  todo,        \* todo[t]: rule changes t has still to make
  restarting,  \* the restart goroutine is waiting
  overlapped,  \* an apply began before another request had ended (history)
  plans, edits, crashes

install == <<exe, old, installed>>
rules == <<disk, edited>>
ghosts == <<overlapped, plans, edits, crashes>>
vars == <<running, exe, old, installed, latest, disk, edited, slot, fresh, pc, job,
          todo, restarting, overlapped, plans, edits, crashes>>

-----------------------------------------------------------------------------
(* Progress of a request *)

SwapPCs == {"stage", "sweep", "aside", "install", "restore"}
ApplyPCs == SwapPCs \cup {"rules", "samples"}
-----------------------------------------------------------------------------
(* PlanRules *)

\* A binary without a manifest cannot tell its rules from the user's.
Frozen(from) == \A r \in Rules : Ships[from][r] = Absent

\* The file is exactly what the running release shipped.
Untouched(from, r) == Ships[from][r] # Absent /\ disk[r] = Ships[from][r]

Replaced(from, to) ==
  {r \in Rules : /\ Untouched(from, r)
                 /\ Ships[to][r] \notin {Absent, disk[r]}}

Withdrawn(from, to) == {r \in Rules : Untouched(from, r) /\ Ships[to][r] = Absent}

\* Bug (PlanSparesEdits): a file of that name is not looked for.
AddedBug(from, to) ==
  {r \in Rules : Ships[from][r] = Absent /\ Ships[to][r] # Absent}

\* A rule deleted by the user is still in Ships[from], so it is not added.
Added(from, to) ==
  {r \in Rules : Ships[from][r] = Absent /\ disk[r] = Absent /\ Ships[to][r] # Absent}

\* The rules PlanRules reports as kept because "you edited it".
ReportedEdited(from) ==
  {r \in Rules : Ships[from][r] # Absent /\ disk[r] \notin {Absent, Ships[from][r]}}

\* spare is history: what the user had edited when the plan was made.
PlanRules(no, from, to) ==
  [no |-> no, from |-> from, to |-> to,
   write  |-> IF Frozen(from) THEN {} ELSE Replaced(from, to) \cup Added(from, to),
   remove |-> IF Frozen(from) THEN {} ELSE Withdrawn(from, to),
   spare  |-> edited]

-----------------------------------------------------------------------------
Goto(t, to) == pc' = [pc EXCEPT ![t] = to]

\* The request of t ends: a failure reported, or a plan returned.
Reply(t) ==
  /\ pc' = [pc EXCEPT ![t] = "idle"]
  /\ job' = [job EXCEPT ![t] = NoPlan]
  /\ todo' = [todo EXCEPT ![t] = {}]

\* The version to fetch is decided before the download.
Target == [no |-> plans + 1, from |-> running, to |-> latest,
           write |-> {}, remove |-> {}, spare |-> {}]

\* POST /api/update/prepare: a newer release must be known.
PrepareStart(t) ==
  /\ running # Down /\ pc[t] = "idle"
  /\ latest > running
  /\ plans < MaxPlans
  /\ plans' = plans + 1
  /\ job' = [job EXCEPT ![t] = Target]
  /\ Goto(t, "fetch")
  /\ UNCHANGED <<running, install, latest, rules, slot, fresh, todo, restarting,
                 overlapped, edits, crashes>>

\* Not writable, no download, no attestation, a bad archive, unreadable rules.
PrepareFailed(t) ==
  /\ pc[t] = "fetch"
  /\ Reply(t)
  /\ UNCHANGED <<running, install, latest, rules, slot, fresh, restarting, ghosts>>

\* The rest of Updater.Prepare: the plan is made from the files as they are now.
PreparePlanned(t) ==
  /\ pc[t] = "fetch"
  /\ job' = [job EXCEPT ![t] = PlanRules(@.no, @.from, @.to)]
  /\ Goto(t, "store")
  /\ UNCHANGED <<running, install, latest, rules, slot, fresh, todo, restarting,
                 ghosts>>

PrepareStored(t) ==
  /\ pc[t] = "store"
  /\ slot' = job[t] /\ fresh' = TRUE
  /\ Reply(t)
  /\ UNCHANGED <<running, install, latest, rules, restarting, ghosts>>

PlanExpires ==
  /\ slot # NoPlan /\ fresh
  /\ fresh' = FALSE
  /\ UNCHANGED <<running, install, latest, rules, slot, pc, job, todo, restarting,
                 ghosts>>

-----------------------------------------------------------------------------
(* POST /api/update/apply *)

\* No plan, or one past its time: refused, and the slot is empty either way.
ApplyRefused(t) ==
  /\ running # Down /\ pc[t] = "idle"
  /\ slot = NoPlan \/ ~fresh
  /\ slot' = NoPlan
  /\ UNCHANGED <<running, install, latest, rules, fresh, pc, job, todo, restarting,
                 ghosts>>

\* No lock spans Apply: nothing makes it wait for a request of another tab.
Overlaps(t) == overlapped' = (overlapped \/ \E u \in Tabs \ {t} : pc[u] # "idle")

\* Bug (PlanHeldOnce): a plan is left in the slot for a retry.
ApplyTakenBug(t) ==
  /\ running # Down /\ pc[t] = "idle"
  /\ slot # NoPlan /\ fresh
  /\ job' = [job EXCEPT ![t] = slot]
  /\ todo' = [todo EXCEPT ![t] = slot.write \cup slot.remove]
  /\ Goto(t, "stage")
  /\ Overlaps(t)
  /\ UNCHANGED <<running, install, latest, rules, slot, fresh, restarting, plans,
                 edits, crashes>>

ApplyTaken(t) ==
  /\ running # Down /\ pc[t] = "idle"
  /\ slot # NoPlan /\ fresh
  /\ slot' = NoPlan
  /\ job' = [job EXCEPT ![t] = slot]
  /\ todo' = [todo EXCEPT ![t] = slot.write \cup slot.remove]
  /\ Goto(t, "stage")
  /\ Overlaps(t)
  /\ UNCHANGED <<running, install, latest, rules, fresh, restarting, plans, edits,
                 crashes>>

(* replaceBinary: stage the new file, remove an older backup, move the      *)
(* executable aside, move the new one in, or put the old one back.          *)

Staged(t) ==
  /\ pc[t] = "stage"
  /\ Goto(t, "sweep")
  /\ UNCHANGED <<running, install, latest, rules, slot, fresh, job, todo,
                 restarting, ghosts>>

\* Staging or moving aside fails; a rename of a missing file always does.
SwapFailed(t) ==
  /\ pc[t] \in {"stage", "aside"}
  /\ Reply(t)
  /\ UNCHANGED <<running, install, latest, rules, slot, fresh, restarting, ghosts>>

\* os.Remove(backup), whose error is ignored: Windows refuses while the file
\* is the image of a running process.
BackupSwept(t) ==
  /\ pc[t] = "sweep"
  /\ old' \in {old, Absent}
  /\ Goto(t, "aside")
  /\ UNCHANGED <<running, exe, installed, latest, rules, slot, fresh, job, todo,
                 restarting, ghosts>>

\* Bug (NoDowngrade): a backup that could not be removed is kept as the backup.
MovedAsideKeptBug(t) ==
  /\ pc[t] = "aside"
  /\ exe # Absent
  /\ old' = (IF old = Absent THEN exe ELSE old) /\ exe' = Absent
  /\ Goto(t, "install")
  /\ UNCHANGED <<running, installed, latest, rules, slot, fresh, job, todo,
                 restarting, ghosts>>

MovedAside(t) ==
  /\ pc[t] = "aside"
  /\ exe # Absent
  /\ old' = exe /\ exe' = Absent
  /\ Goto(t, "install")
  /\ UNCHANGED <<running, installed, latest, rules, slot, fresh, job, todo,
                 restarting, ghosts>>

Installed(t) ==
  /\ pc[t] = "install"
  /\ exe' = job[t].to
  /\ installed' = (IF installed < exe' THEN exe' ELSE installed)
  /\ Goto(t, "rules")
  /\ UNCHANGED <<running, old, latest, rules, slot, fresh, job, todo, restarting,
                 ghosts>>

\* Bug (RulesNotAhead): the rules are written although the swap failed.
InstallFailedBug(t) ==
  /\ pc[t] = "install"
  /\ exe' = old /\ old' = Absent
  /\ Goto(t, "rules")
  /\ UNCHANGED <<running, installed, latest, rules, slot, fresh, job, todo,
                 restarting, ghosts>>

InstallFailed(t) ==
  /\ pc[t] = "install"
  /\ Goto(t, "restore")
  /\ UNCHANGED <<running, install, latest, rules, slot, fresh, job, todo,
                 restarting, ghosts>>

\* The rename back; when it fails too, the error says where the binary is.
Restored(t) ==
  /\ pc[t] = "restore"
  /\ \/ old # Absent /\ exe' = old /\ old' = Absent
     \/ UNCHANGED <<exe, old>>
  /\ Reply(t)
  /\ UNCHANGED <<running, installed, latest, rules, slot, fresh, restarting, ghosts>>

-----------------------------------------------------------------------------
(* ApplyRules, ApplySamples and the restart *)

RuleApplied(t, r) ==
  /\ pc[t] = "rules" /\ r \in todo[t]
  /\ disk' = [disk EXCEPT ![r] =
                IF r \in job[t].write THEN Ships[job[t].to][r] ELSE Absent]
  /\ edited' = edited \ {r}
  /\ todo' = [todo EXCEPT ![t] = @ \ {r}]
  /\ UNCHANGED <<running, install, latest, slot, fresh, pc, job, restarting, ghosts>>

\* os.WriteFile truncates the file before it writes: the disk fills up in
\* between (or the power fails, which is this step and then Crash).
RuleTorn(t, r) ==
  /\ pc[t] = "rules" /\ r \in todo[t] /\ r \in job[t].write
  /\ disk' = [disk EXCEPT ![r] = Torn]
  /\ edited' = edited \ {r}
  /\ Reply(t)
  /\ UNCHANGED <<running, install, latest, slot, fresh, restarting, ghosts>>

\* The directory cannot be made, or a file cannot be opened or removed: what
\* was done stays done, the binary stays new, and the process goes on.
RulesFailed(t) ==
  /\ pc[t] = "rules" /\ todo[t] # {}
  /\ Reply(t)
  /\ UNCHANGED <<running, install, latest, rules, slot, fresh, restarting, ghosts>>

RulesDone(t) ==
  /\ pc[t] = "rules" /\ todo[t] = {}
  /\ Goto(t, "samples")
  /\ UNCHANGED <<running, install, latest, rules, slot, fresh, job, todo,
                 restarting, ghosts>>

\* The last write of an update fails, or it succeeds and the server answers
\* and starts the goroutine that restarts it.
SamplesDone(t) ==
  /\ pc[t] = "samples"
  /\ restarting' \in {restarting, TRUE}
  /\ Reply(t)
  /\ UNCHANGED <<running, install, latest, rules, slot, fresh, ghosts>>

\* The process image goes away, and all that only its memory held.
Vanish ==
  /\ slot' = NoPlan /\ fresh' = FALSE /\ restarting' = FALSE
  /\ pc' = [t \in Tabs |-> "idle"]
  /\ job' = [t \in Tabs |-> NoPlan]
  /\ todo' = [t \in Tabs |-> {}]

\* Bug (StopsServingOld): a failed exec is logged and the process goes on.
RestartBug ==
  /\ restarting
  /\ restarting' = FALSE
  /\ UNCHANGED <<running, install, latest, rules, slot, fresh, pc, job, todo, ghosts>>

\* RestartInto: exec the new binary, whose main sweeps the backup; where that
\* is not possible, exit.
Restart ==
  /\ restarting
  /\ \/ exe # Absent /\ running' = exe /\ old' \in {old, Absent}
     \/ running' = Down /\ UNCHANGED old
  /\ Vanish
  /\ UNCHANGED <<exe, installed, latest, rules, ghosts>>

-----------------------------------------------------------------------------
(* The world around the process *)

\* Somebody starts kopusha: SweepBackup may or may not remove the backup.
StartUp ==
  /\ running = Down /\ exe # Absent
  /\ running' = exe
  /\ old' \in {old, Absent}
  /\ UNCHANGED <<exe, installed, latest, rules, slot, fresh, pc, job, todo,
                 restarting, ghosts>>

\* The user undoes a broken update by renaming one file.
UserRestores ==
  /\ running = Down /\ exe = Absent /\ old # Absent
  /\ exe' = old /\ old' = Absent
  /\ UNCHANGED <<running, installed, latest, rules, slot, fresh, pc, job, todo,
                 restarting, ghosts>>

Crash ==
  /\ running # Down /\ crashes < MaxCrashes
  /\ crashes' = crashes + 1
  /\ running' = Down
  /\ Vanish
  /\ UNCHANGED <<install, latest, rules, overlapped, plans, edits>>

Release ==
  /\ latest < Newest
  /\ latest' = latest + 1
  /\ UNCHANGED <<running, install, rules, slot, fresh, pc, job, todo, restarting,
                 ghosts>>

\* The user writes a rule, with an editor or with the rule builder.  An edit
\* made while the process is down is the same to it as one made after.
UserWrites(r) ==
  /\ running # Down /\ edits < MaxEdits
  /\ edits' = edits + 1
  /\ disk' = [disk EXCEPT ![r] = Mine]
  /\ edited' = edited \cup {r}
  /\ UNCHANGED <<running, install, latest, slot, fresh, pc, job, todo, restarting,
                 overlapped, plans, crashes>>

\* Deleting a shipped rule disables it; deleting any other leaves the name free.
UserDeletes(r) ==
  /\ running # Down /\ edits < MaxEdits /\ disk[r] # Absent
  /\ edits' = edits + 1
  /\ disk' = [disk EXCEPT ![r] = Absent]
  /\ edited' = IF Ships[running][r] # Absent THEN edited \cup {r} ELSE edited \ {r}
  /\ UNCHANGED <<running, install, latest, slot, fresh, pc, job, todo, restarting,
                 overlapped, plans, crashes>>

\* A fresh install of the first release.
Init ==
  /\ running = 1 /\ exe = 1 /\ old = Absent /\ installed = 1 /\ latest = 1
  /\ disk = Ships[1] /\ edited = {}
  /\ slot = NoPlan /\ fresh = FALSE /\ restarting = FALSE
  /\ pc = [t \in Tabs |-> "idle"]
  /\ job = [t \in Tabs |-> NoPlan]
  /\ todo = [t \in Tabs |-> {}]
  /\ overlapped = FALSE /\ plans = 0 /\ edits = 0 /\ crashes = 0

Prepare(t) == PrepareFailed(t) \/ PreparePlanned(t) \/ PrepareStored(t)

Swap(t) ==
  \/ Staged(t) \/ SwapFailed(t) \/ BackupSwept(t) \/ MovedAside(t)
  \/ Installed(t) \/ InstallFailed(t) \/ Restored(t)

ApplyRules(t) ==
  \/ \E r \in Rules : RuleApplied(t, r) \/ RuleTorn(t, r)
  \/ RulesFailed(t) \/ RulesDone(t)

\* A request in progress goes on.
Proceed(t) == Prepare(t) \/ Swap(t) \/ ApplyRules(t) \/ SamplesDone(t)

Request(t) == PrepareStart(t) \/ ApplyRefused(t) \/ ApplyTaken(t)

World ==
  \/ PlanExpires \/ StartUp \/ UserRestores \/ Crash \/ Release
  \/ \E r \in Rules : UserWrites(r) \/ UserDeletes(r)

Next == (\E t \in Tabs : Request(t) \/ Proceed(t)) \/ Restart \/ World

\* Handlers run to their end and the restart goroutine wakes up; nobody has to
\* press a button, start the program or publish a release.
Fairness == WF_vars(Restart) /\ \A t \in Tabs : WF_vars(Proceed(t))

Spec == Init /\ [][Next]_vars

FairSpec == Spec /\ Fairness

-----------------------------------------------------------------------------
(* Properties *)

Plans == {job[t] : t \in Tabs} \cup {slot}

\* "someone who edited a shipped rule", disabled one, or wrote one of their own
\* whose name a release takes later, never has it in a plan's changes - in the
\* first update and in those that follow, unless a release takes up again
\* a rule that an earlier one withdrew (rules.go PlanRules).
PlanSparesEdits ==
  \A p \in Plans \ {NoPlan} : (p.write \cup p.remove) \cap p.spare = {}

\* A plan is consumed by the apply that takes it: it is never in the slot or in
\* another request while one works on it, so a half-changed directory is never
\* met by the same plan again (handleUpdateApply).
PlanHeldOnce ==
  \A t \in Tabs : pc[t] \in ApplyPCs =>
    /\ slot = NoPlan \/ slot.no # job[t].no
    /\ \A u \in Tabs \ {t} : job[u] = NoPlan \/ job[u].no # job[t].no

\* A failure or a power failure anywhere in an update leaves no rule file of a
\* release that never reached ExePath (Updater.Apply: a swap that fails leaves
\* parsers.d/ alone), and, as long as no apply overlapped another request, none
\* newer than the executable a start would run.  With overlapping applies the
\* older release may be installed last, over the rules of the newer one.
RulesNotAhead ==
  \A r \in Rules : disk[r] \in Releases =>
    /\ disk[r] <= installed
    /\ ~overlapped /\ exe # Absent => disk[r] <= exe

\* However the renames of two applies interleave and whatever fails, what a start
\* would run, or the user puts back, is not older than what runs (replaceBinary):
\* the backup is of the executable it was made of, never one left by an
\* earlier update.
NoDowngrade ==
  /\ running # Down /\ exe # Absent => running <= exe
  /\ running # Down /\ exe = Absent /\ old # Absent => running <= old

\* After a reported success the process stops serving the release it ran
\* (RestartInto): it becomes the new one, or it exits.
StopsServingOld ==
  \A v \in Releases : (restarting /\ running = v) ~> (running # v)

\* "replaced only when byte-identical to what shipped" (selfupdate.go:14-16):
\* an update does not overwrite or remove a rule the user has edited.
EditsSurvive ==
  [][\A t \in Tabs, r \in Rules :
       pc[t] = "rules" /\ r \in todo[t] /\ r \notin todo'[t] /\ r \in edited
         => disk'[r] = disk[r]]_vars

\* "you edited it" (rules.go:117-121): a rule the report keeps for that reason
\* is one the user did edit.
ReportIsTrue ==
  \A t \in Tabs : pc[t] = "fetch" => ReportedEdited(running) \subseteq edited

\* The backup "is kept rather than deleted so a failed update can be undone by
\* renaming one file" (replace.go:12-15): with no executable there is a backup.
BinaryRecoverable == exe # Absent \/ old # Absent

=============================================================================
