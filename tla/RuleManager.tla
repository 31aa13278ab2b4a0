------------------------------ MODULE RuleManager ------------------------------
(***************************************************************************)
(* The rule manager (internal/parsers/manager.go): it keeps the loader     *)
(* registry in step with the rule files of parsers.d/.  A save from the    *)
(* rule builder writes a file, reads the whole directory back, publishes   *)
(* the registry built from it and hands it to the engine.  No lock spans   *)
(* these steps: saves run on the goroutines of their requests, and files   *)
(* also change behind the manager's back (an editor, an update).           *)
(*                                                                         *)
(* Abstractions.  A rule file is its content, a rule set the contents of   *)
(* the files it was read from.  Flawed stands for what LoadRules or an     *)
(* adapter's constructor rejects.  os.WriteFile truncates and then writes; *)
(* a file met in between is Empty, and LoadRules skips it.  LoadRules      *)
(* reads the files by name, the model in any order.                        *)
(*                                                                         *)
(* An operator whose name ends in Bug is a faulty variant of the one that  *)
(* follows it.  No specification uses it: it stands for the slip that the  *)
(* property named in its comment catches.                                  *)
(***************************************************************************)
EXTENDS Naturals, FiniteSets, Functions

CONSTANTS
  Savers,      \* goroutines serving POST /api/rules/save
  Names,       \* rule names, after Slug
  Drafts,      \* rules that load
  Flawed,      \* a rule that passes Validate or was written by hand, and does not load
  Absent,      \* no file
  Empty,       \* a truncated file
  MaxSaves,    \* bound on saves
  MaxMeddles   \* bound on changes made behind the manager's back

ASSUME ContentsAssumption ==
  /\ Cardinality({Flawed, Absent, Empty}) = 3
  /\ {Flawed, Absent, Empty} \cap Drafts = {}
  /\ MaxSaves \in Nat /\ MaxMeddles \in Nat

VARIABLES
  disk,     \* disk[n]: content of n's file
  reg,      \* Manager.reg: name -> rule
  engine,   \* the engine's registry (Engine.SetLoaders)
  pc,       \* pc[s]: progress of s's save
  job,      \* job[s]: its name, draft and overwrite flag, its outcome, and, as
            \* history, the file when the save began and whether nothing else
            \* has touched the directory since
  todo,     \* todo[s]: files LoadRules has listed and not read yet
  read,     \* read[s]: rules LoadRules has read so far
  torn,     \* names whose file is what a failed write left of it (history)
  saves, meddles

vars == <<disk, reg, engine, pc, job, todo, read, torn, saves, meddles>>

-----------------------------------------------------------------------------
(* Constants of the state *)

NoJob == [name |-> CHOOSE n \in Names : TRUE, draft |-> Flawed, overwrite |-> FALSE,
          rejected |-> FALSE, outcome |-> "none", before |-> Absent, alone |-> FALSE]

NoRules == [n \in {} |-> Flawed]

-----------------------------------------------------------------------------
(* What a complete LoadRules returns for a directory that holds still. *)

Loadable == \A n \in Names : disk[n] # Flawed

RulesOnDisk == Restrict(disk, {n \in Names : disk[n] \in Drafts})

\* The files LoadRules lists.
Listed == {n \in Names : disk[n] # Absent}

Goto(s, to) == pc' = [pc EXCEPT ![s] = to]

\* Somebody is about to touch the directory: no save in progress is alone.
Disturb(others) ==
  [s \in Savers |-> IF s \in others THEN [job[s] EXCEPT !.alone = FALSE] ELSE job[s]]

Busy == {s \in Savers : pc[s] # "idle"}

-----------------------------------------------------------------------------
(* Save *)

SaveRequested(s, n, d, overwrite) ==
  /\ pc[s] = "idle" /\ saves < MaxSaves
  /\ saves' = saves + 1
  /\ job' = [Disturb(Busy) EXCEPT ![s] =
       [NoJob EXCEPT !.name = n, !.draft = d, !.overwrite = overwrite,
                     !.before = disk[n], !.alone = (Busy = {})]]
  /\ Goto(s, "stat")
  /\ UNCHANGED <<disk, reg, engine, todo, read, torn, meddles>>

\* os.Stat finds the file and overwrite is not set.
RuleExists(s) ==
  /\ pc[s] = "stat"
  /\ disk[job[s].name] # Absent /\ ~job[s].overwrite
  /\ job' = [job EXCEPT ![s].outcome = "exists"]
  /\ Goto(s, "reply")
  /\ UNCHANGED <<disk, reg, engine, todo, read, torn, saves, meddles>>

MayWrite(s) ==
  /\ pc[s] = "stat"
  /\ disk[job[s].name] = Absent \/ job[s].overwrite
  /\ Goto(s, "truncate")
  /\ UNCHANGED <<disk, reg, engine, job, todo, read, torn, saves, meddles>>

\* The directory cannot be made or the file not opened: the save is rejected
\* before anything changed.
WriteRefused(s) ==
  /\ pc[s] = "truncate"
  /\ job' = [job EXCEPT ![s].outcome = "rejected"]
  /\ Goto(s, "reply")
  /\ UNCHANGED <<disk, reg, engine, todo, read, torn, saves, meddles>>

Truncated(s) ==
  /\ pc[s] = "truncate"
  /\ disk' = [disk EXCEPT ![job[s].name] = Empty]
  /\ torn' = torn \ {job[s].name}
  /\ Goto(s, "write")
  /\ UNCHANGED <<reg, engine, job, todo, read, saves, meddles>>

\* What a write to the open file of content c leaves: nothing if the file has
\* been removed, and if somebody wrote since the truncation their text, ours,
\* or ours over the head of theirs.  (A file removed and made anew in between
\* is taken for the same file.)
AfterWrite(c, d) ==
  CASE c = Empty  -> {d}
    [] c = Absent -> {Absent}
    [] OTHER      -> {c, d, Flawed}

Written(s) ==
  /\ pc[s] = "write"
  /\ \E c \in AfterWrite(disk[job[s].name], job[s].draft) :
       disk' = [disk EXCEPT ![job[s].name] = c]
  /\ torn' = torn \ {job[s].name}
  /\ Goto(s, "list")
  /\ UNCHANGED <<reg, engine, job, todo, read, saves, meddles>>

\* What a write that fails may leave of content c: what was there, or a head of
\* ours, which may be a rule of its own, or not parse.  A removed file stays so.
AfterFailedWrite(c) == IF c = Absent THEN {Absent} ELSE {c, Flawed} \cup Drafts

\* Disk full: Save returns the error and leaves the file.
WriteFailed(s) ==
  /\ pc[s] = "write"
  /\ \E c \in AfterFailedWrite(disk[job[s].name]) :
       disk' = [disk EXCEPT ![job[s].name] = c]
  /\ torn' = torn \cup {job[s].name}
  /\ job' = [job EXCEPT ![s].outcome = "rejected"]
  /\ Goto(s, "reply")
  /\ UNCHANGED <<reg, engine, todo, read, saves, meddles>>

-----------------------------------------------------------------------------
(* Reload: LoadRules lists the directory, then reads file by file. *)

RulesListed(s) ==
  /\ pc[s] = "list"
  /\ todo' = [todo EXCEPT ![s] = Listed]
  /\ read' = [read EXCEPT ![s] = NoRules]
  /\ Goto(s, "read")
  /\ UNCHANGED <<disk, reg, engine, job, torn, saves, meddles>>

RuleRead(s, n) ==
  /\ pc[s] = "read" /\ n \in todo[s]
  /\ disk[n] \in Drafts \cup {Empty}
  /\ todo' = [todo EXCEPT ![s] = @ \ {n}]
  /\ read' = IF disk[n] = Empty THEN read
             ELSE [read EXCEPT ![s] =
                     [m \in DOMAIN @ \cup {n} |-> IF m = n THEN disk[n] ELSE @[m]]]
  /\ UNCHANGED <<disk, reg, engine, pc, job, torn, saves, meddles>>

\* A listed file is gone, does not parse, or its adapter rejects it: the first
\* time the save takes its file back, the second time it gives up.
RuleUnreadable(s, n) ==
  /\ pc[s] = "read" /\ n \in todo[s]
  /\ disk[n] \in {Absent, Flawed}
  /\ IF job[s].rejected
     THEN /\ job' = [job EXCEPT ![s].outcome = "rejected"]
          /\ Goto(s, "reply")
     ELSE /\ Goto(s, "revert")
          /\ UNCHANGED job
  /\ UNCHANGED <<disk, reg, engine, todo, read, torn, saves, meddles>>

RulesRead(s) ==
  /\ pc[s] = "read" /\ todo[s] = {}
  /\ Goto(s, "publish")
  /\ UNCHANGED <<disk, reg, engine, job, todo, read, torn, saves, meddles>>

\* m.reg and m.stats, under m.mu.
Published(s) ==
  /\ pc[s] = "publish"
  /\ reg' = read[s]
  /\ Goto(s, "apply")
  /\ UNCHANGED <<disk, engine, job, todo, read, torn, saves, meddles>>

\* Bug (SavedIsActive): the engine is not told.
AppliedBug(s) ==
  /\ pc[s] = "apply"
  /\ job' = [job EXCEPT ![s].outcome = IF job[s].rejected THEN "rejected" ELSE "saved"]
  /\ Goto(s, "reply")
  /\ UNCHANGED <<disk, reg, engine, todo, read, torn, saves, meddles>>

\* m.apply, after m.mu is released.
Applied(s) ==
  /\ pc[s] = "apply"
  /\ engine' = read[s]
  /\ job' = [job EXCEPT ![s].outcome = IF job[s].rejected THEN "rejected" ELSE "saved"]
  /\ Goto(s, "reply")
  /\ UNCHANGED <<disk, reg, todo, read, torn, saves, meddles>>

\* Bug (NoFlawedRuleLeft): the rejected file stays.
RevertedBug(s) ==
  /\ pc[s] = "revert"
  /\ job' = [job EXCEPT ![s].rejected = TRUE]
  /\ Goto(s, "list")
  /\ UNCHANGED <<disk, reg, engine, todo, read, torn, saves, meddles>>

\* os.Remove(path), whether or not there was a file before, and a second Reload.
Reverted(s) ==
  /\ pc[s] = "revert"
  /\ disk' = [disk EXCEPT ![job[s].name] = Absent]
  /\ torn' = torn \ {job[s].name}
  /\ job' = [job EXCEPT ![s].rejected = TRUE]
  /\ Goto(s, "list")
  /\ UNCHANGED <<reg, engine, todo, read, saves, meddles>>

Replied(s) ==
  /\ pc[s] = "reply"
  /\ job' = [job EXCEPT ![s] = NoJob]
  /\ todo' = [todo EXCEPT ![s] = {}] /\ read' = [read EXCEPT ![s] = NoRules]
  /\ Goto(s, "idle")
  /\ UNCHANGED <<disk, reg, engine, torn, saves, meddles>>

-----------------------------------------------------------------------------
\* An editor or an update writes or removes a rule file.
Meddle(n, content) ==
  /\ meddles < MaxMeddles
  /\ meddles' = meddles + 1
  /\ disk' = [disk EXCEPT ![n] = content]
  /\ torn' = torn \ {n}
  /\ job' = Disturb(Busy)
  /\ UNCHANGED <<reg, engine, pc, todo, read, saves>>

\* main: a directory that loads, read before anything is served.
Init ==
  /\ disk \in [Names -> Drafts \cup {Absent}]
  /\ reg = RulesOnDisk /\ engine = RulesOnDisk
  /\ pc = [s \in Savers |-> "idle"]
  /\ job = [s \in Savers |-> NoJob]
  /\ todo = [s \in Savers |-> {}]
  /\ read = [s \in Savers |-> NoRules]
  /\ torn = {} /\ saves = 0 /\ meddles = 0

Reload(s) ==
  \/ RulesListed(s) \/ RulesRead(s) \/ Published(s) \/ Applied(s)
  \/ \E n \in Names : RuleRead(s, n) \/ RuleUnreadable(s, n)

Save(s) ==
  \/ RuleExists(s) \/ MayWrite(s) \/ WriteRefused(s) \/ Truncated(s)
  \/ Written(s) \/ WriteFailed(s) \/ Reload(s) \/ Reverted(s) \/ Replied(s)

Next ==
  \/ \E s \in Savers : Save(s)
  \/ \E s \in Savers, n \in Names, d \in Drafts \cup {Flawed}, overwrite \in BOOLEAN :
       SaveRequested(s, n, d, overwrite)
  \/ \E n \in Names, content \in Drafts \cup {Flawed, Absent} : Meddle(n, content)

Spec == Init /\ [][Next]_vars

-----------------------------------------------------------------------------
(* Properties *)

\* When every save has returned, whatever the saves did to each other, a
\* directory that nobody else spoilt holds no rule that does not load, save the
\* head of one whose write failed (Manager.Save).
NoFlawedRuleLeft ==
  Busy = {} /\ meddles = 0 => \A n \in Names : disk[n] = Flawed => n \in torn

\* "A rule that cannot be loaded must not be left behind: it would make the
\* next start fail" (manager.go:224): when every save has returned, a directory
\* that nobody else spoilt loads.
DirectoryLoads == Busy = {} /\ meddles = 0 => Loadable

\* A save that succeeds, undisturbed, "applies to files loaded afterwards
\* without a restart": the manager and the engine both use exactly the rules
\* on disk, the new one among them.
SavedIsActive ==
  \A s \in Savers : pc[s] = "reply" /\ job[s].alone /\ job[s].outcome = "saved" =>
    /\ disk[job[s].name] = job[s].draft
    /\ engine = RulesOnDisk /\ reg = engine

\* "Existing files are only replaced when overwrite is set" (rules.go:177): a
\* save without the flag truncates no file that exists.
ExistingKept ==
  [][\A s \in Savers : Truncated(s) /\ ~job[s].overwrite => disk[job[s].name] = Absent]_vars

\* "rule rejected and not saved" (manager.go:235): a save that is undone because
\* the reload failed leaves, undisturbed, the file of that name as it met it.
RejectedNotSaved ==
  \A s \in Savers : pc[s] = "reply" /\ job[s].alone /\ job[s].rejected =>
    disk[job[s].name] = job[s].before

=============================================================================
