--------------------------- MODULE SelfUpdateProofs ---------------------------
(***************************************************************************)
(* Theorems about SelfUpdate, for every sequence of releases, set of rules *)
(* and number of tabs.  Nothing in the code makes an apply wait for other  *)
(* requests; what holds only while none overlapped says so in its          *)
(* statement.                                                              *)
(***************************************************************************)
EXTENDS SelfUpdate, TLAPS

\* A release ships r again after one that did not.
Returns(r) ==
  \E u, v, w \in Releases :
    u < v /\ v < w /\ Ships[u][r] # Absent /\ Ships[v][r] = Absent /\ Ships[w][r] # Absent

\* A rule that was withdrawn stays withdrawn.
NoReturn == \A r \in Rules : ~Returns(r)

-----------------------------------------------------------------------------
(* Types *)

Plan == [no: Nat, from: Releases, to: Releases,
         write: SUBSET Rules, remove: SUBSET Rules, spare: SUBSET Rules]

PCs == {"idle", "fetch", "store"} \cup ApplyPCs

TypeOK ==
  /\ running \in Releases \cup {Down}
  /\ exe \in Releases \cup {Absent} /\ old \in Releases \cup {Absent}
  /\ installed \in Releases
  /\ latest \in Releases
  /\ disk \in [Rules -> Releases \cup {Absent, Mine, Torn}]
  /\ edited \subseteq Rules
  /\ slot \in Plan \cup {NoPlan}
  /\ pc \in [Tabs -> PCs]
  /\ job \in [Tabs -> Plan \cup {NoPlan}]
  /\ todo \in [Tabs -> SUBSET Rules]
  /\ plans \in Nat

-----------------------------------------------------------------------------
(* The plans.  Each is numbered, leads from the running release to a later   *)
(* one, and is in one place at a time: with the request that makes it, in    *)
(* the slot, or with the request that applies it.                            *)

PlanMade(p) ==
  /\ p \in Plan
  /\ p.no <= plans
  /\ running # Down /\ p.from = running /\ running < p.to /\ p.to <= latest

PlansInv ==
  /\ slot # NoPlan => PlanMade(slot)
  /\ \A t \in Tabs :
       /\ pc[t] = "idle" => job[t] = NoPlan
       /\ pc[t] # "idle" => PlanMade(job[t]) /\ (slot # NoPlan => slot.no # job[t].no)
  /\ \A t, u \in Tabs : t # u /\ pc[t] # "idle" /\ pc[u] # "idle" => job[t].no # job[u].no

-----------------------------------------------------------------------------
(* The executable.  It is out of its place between the two renames of one    *)
(* request only, and whatever is, or can be put, in its place is not older   *)
(* than what runs.                                                           *)

\* What a start would run, now or after the backup is put back, is v or newer.
NotOlder(v) ==
  /\ running # Down => v <= running
  /\ exe # Absent => v <= exe
  /\ exe = Absent /\ old # Absent => v <= old

SwapInv ==
  /\ running # Down => NotOlder(running)
  /\ \A t \in Tabs : pc[t] \in {"install", "restore"} =>
       exe = Absent /\ \A u \in Tabs \ {t} : pc[u] \notin {"install", "restore"}

-----------------------------------------------------------------------------
(* The user's rules.  What the user wrote is there; what the user deleted    *)
(* was shipped by a release that is not newer than any that may run.         *)

EditsInv ==
  \A r \in edited :
    /\ disk[r] \in {Mine, Absent}
    /\ disk[r] = Absent => \E v \in Releases : Ships[v][r] # Absent /\ NotOlder(v)

\* Of what the user had edited, a plan removes nothing, and it writes only a rule
\* that came back.
Spares(p) ==
  /\ p.remove \cap p.spare = {}
  /\ \A r \in p.write \cap p.spare : Returns(r)

SparesInv == \A p \in Plans \ {NoPlan} : Spares(p)

-----------------------------------------------------------------------------
(* The rules are those of releases that were installed.  As long as no apply *)
(* overlapped another request, they are of releases up to the one that a     *)
(* start would run, and up to those that a plan leads to.                    *)

UpTo(v) == \A r \in Rules : disk[r] \in Releases => disk[r] <= v

InstalledInv ==
  /\ UpTo(installed)
  /\ \A t \in Tabs : pc[t] \in {"rules", "samples"} => job[t].to <= installed

\* What it says of the files, of the slot, of tab t, and of tab u beside an apply of t.
FilesInv ==
  /\ UpTo(latest)
  /\ exe # Absent => UpTo(exe)
  /\ exe = Absent /\ old # Absent => UpTo(old)

SlotInv ==
  slot # NoPlan =>
    /\ UpTo(slot.to)
    /\ \A t \in Tabs : pc[t] \in ApplyPCs => job[t].to <= slot.to

TabInv(t) ==
  /\ pc[t] # "idle" => UpTo(job[t].to)
  /\ pc[t] \in {"rules", "samples"} => exe = job[t].to
  /\ pc[t] \in {"install", "restore"} => old # Absent

PairInv(t, u) ==
  t # u /\ pc[t] \in ApplyPCs /\ pc[u] # "idle" =>
    pc[u] \notin ApplyPCs /\ job[t].to <= job[u].to

RulesInv ==
  ~overlapped =>
    /\ FilesInv /\ SlotInv
    /\ \A t \in Tabs : TabInv(t)
    /\ \A t, u \in Tabs : PairInv(t, u)

-----------------------------------------------------------------------------
(* What the constants give each proof. *)

LEMMA Contents ==
  /\ Newest \in Nat /\ Releases \subseteq Nat /\ 1 \in Releases
  /\ \A v \in Releases : v \in Nat /\ v # 0
  /\ Absent \notin Releases /\ Down \notin Releases
  /\ Mine \notin Releases \cup {Absent} /\ Torn \notin Releases \cup {Absent}
  /\ \A v \in Releases, r \in Rules :
       Ships[v][r] \in Releases \cup {Absent} /\ Ships[v][r] <= v
  /\ Ships[1] \in [Rules -> Releases \cup {Absent}]
<1>1. Absent \in Nat /\ Releases \subseteq Nat /\ Mine \notin Nat /\ Torn \notin Nat
  BY ShipsAssumption DEF ShipsAssumption, Releases, Absent
<1>2. Mine \notin Releases \cup {Absent} /\ Torn \notin Releases \cup {Absent}
  BY <1>1
<1> QED
  BY <1>2, ShipsAssumption DEF ShipsAssumption, Releases, Absent, Down

-----------------------------------------------------------------------------
(* Types are kept. *)

LEMMA TypeInit == Init => TypeOK
BY Contents DEF Init, TypeOK, PCs, Plan

\* The plan PlanRules makes of a target.
LEMMA PlanTyped ==
  ASSUME NEW no \in Nat, NEW from \in Releases, NEW to \in Releases, TypeOK
  PROVE  PlanRules(no, from, to) \in Plan
BY DEF TypeOK, Plan, PlanRules, Replaced, Added, Withdrawn

\* A request that ends leaves the types of its own state alone.
LEMMA ReplyTyped ==
  ASSUME TypeOK, NEW t \in Tabs, Reply(t)
  PROVE  /\ pc' \in [Tabs -> PCs] /\ job' \in [Tabs -> Plan \cup {NoPlan}]
         /\ todo' \in [Tabs -> SUBSET Rules]
BY DEF TypeOK, Reply, PCs

LEMMA VanishTyped ==
  ASSUME Vanish
  PROVE  /\ pc' \in [Tabs -> PCs] /\ job' \in [Tabs -> Plan \cup {NoPlan}]
         /\ todo' \in [Tabs -> SUBSET Rules] /\ slot' = NoPlan
BY DEF Vanish, PCs

LEMMA GotoTyped ==
  ASSUME TypeOK, NEW t \in Tabs, NEW p \in PCs, Goto(t, p)
  PROVE  pc' \in [Tabs -> PCs]
BY DEF TypeOK, Goto

\* What the pc of a tab says of its job needs the plans to be made.
LEMMA TypeStep ==
  ASSUME TypeOK, PlansInv, [Next]_vars
  PROVE  TypeOK'
<1> USE Contents
<1>1. ASSUME NEW t \in Tabs, PrepareStart(t) PROVE TypeOK'
  <2>1. Target \in Plan
    BY <1>1 DEF PrepareStart, Target, Plan, TypeOK, Down
  <2>2. pc' \in [Tabs -> PCs]
    BY <1>1, GotoTyped DEF PrepareStart, PCs
  <2>3. plans' \in Nat
    BY <1>1 DEF PrepareStart, TypeOK
  <2>4. job' \in [Tabs -> Plan \cup {NoPlan}]
    BY <1>1, <2>1 DEF PrepareStart, TypeOK
  <2> HIDE Contents
  <2> QED
    BY <1>1, <2>2, <2>3, <2>4 DEF PrepareStart, TypeOK, install, rules
<1>2. ASSUME NEW t \in Tabs, PrepareFailed(t) PROVE TypeOK'
  BY <1>2, ReplyTyped DEF PrepareFailed, TypeOK, install, rules, ghosts
<1>3. ASSUME NEW t \in Tabs, PreparePlanned(t) PROVE TypeOK'
  <2>1. PlanMade(job[t])
    BY <1>3 DEF PreparePlanned, PlansInv
  <2>2. PlanRules(job[t].no, job[t].from, job[t].to) \in Plan
    BY <2>1, PlanTyped DEF PlanMade, Plan
  <2>3. pc' \in [Tabs -> PCs]
    BY <1>3, GotoTyped DEF PreparePlanned, PCs
  <2> QED
    BY <1>3, <2>2, <2>3 DEF PreparePlanned, TypeOK, install, rules, ghosts
<1>4. ASSUME NEW t \in Tabs, PrepareStored(t) PROVE TypeOK'
  BY <1>4, ReplyTyped DEF PrepareStored, TypeOK, install, rules, ghosts
<1>5. CASE PlanExpires
  BY <1>5 DEF PlanExpires, TypeOK, install, rules, ghosts
<1>6. ASSUME NEW t \in Tabs, ApplyRefused(t) PROVE TypeOK'
  BY <1>6 DEF ApplyRefused, TypeOK, install, rules, ghosts
<1>7. ASSUME NEW t \in Tabs, ApplyTaken(t) PROVE TypeOK'
  <2>1. pc' \in [Tabs -> PCs]
    BY <1>7, GotoTyped DEF ApplyTaken, PCs, ApplyPCs, SwapPCs
  <2>2. slot \in Plan /\ slot.write \cup slot.remove \subseteq Rules
    BY <1>7 DEF ApplyTaken, TypeOK, Plan
  <2> QED
    BY <1>7, <2>1, <2>2 DEF ApplyTaken, TypeOK, install, rules, ghosts
<1>8. ASSUME NEW t \in Tabs, Staged(t) PROVE TypeOK'
  BY <1>8, GotoTyped DEF Staged, TypeOK, install, rules, ghosts, PCs, ApplyPCs, SwapPCs
<1>9. ASSUME NEW t \in Tabs, SwapFailed(t) PROVE TypeOK'
  BY <1>9, ReplyTyped DEF SwapFailed, TypeOK, install, rules, ghosts
<1>10. ASSUME NEW t \in Tabs, BackupSwept(t) PROVE TypeOK'
  BY <1>10, GotoTyped DEF BackupSwept, TypeOK, rules, ghosts, PCs, ApplyPCs, SwapPCs
<1>11. ASSUME NEW t \in Tabs, MovedAside(t) PROVE TypeOK'
  BY <1>11, GotoTyped DEF MovedAside, TypeOK, rules, ghosts, PCs, ApplyPCs, SwapPCs
<1>12. ASSUME NEW t \in Tabs, Installed(t) PROVE TypeOK'
  <2>1. job[t].to \in Releases
    BY <1>12 DEF Installed, PlansInv, PlanMade, Plan
  <2> QED
    BY <1>12, <2>1, GotoTyped DEF Installed, TypeOK, rules, ghosts, PCs, ApplyPCs, SwapPCs
<1>13. ASSUME NEW t \in Tabs, InstallFailed(t) PROVE TypeOK'
  BY <1>13, GotoTyped DEF InstallFailed, TypeOK, install, rules, ghosts, PCs, ApplyPCs, SwapPCs
<1>14. ASSUME NEW t \in Tabs, Restored(t) PROVE TypeOK'
  BY <1>14, ReplyTyped DEF Restored, TypeOK, install, rules, ghosts
<1>15. ASSUME NEW t \in Tabs, NEW r \in Rules, RuleApplied(t, r) PROVE TypeOK'
  <2>1. job[t].to \in Releases
    BY <1>15 DEF RuleApplied, PlansInv, PlanMade, Plan
  <2>2. Ships[job[t].to][r] \in Releases \cup {Absent}
    BY <2>1
  <2> QED
    BY <1>15, <2>2 DEF RuleApplied, TypeOK, install, ghosts
<1>16. ASSUME NEW t \in Tabs, NEW r \in Rules, RuleTorn(t, r) PROVE TypeOK'
  BY <1>16, ReplyTyped DEF RuleTorn, TypeOK, install, ghosts
<1>17. ASSUME NEW t \in Tabs, RulesFailed(t) PROVE TypeOK'
  BY <1>17, ReplyTyped DEF RulesFailed, TypeOK, install, rules, ghosts
<1>18. ASSUME NEW t \in Tabs, RulesDone(t) PROVE TypeOK'
  BY <1>18, GotoTyped DEF RulesDone, TypeOK, install, rules, ghosts, PCs, ApplyPCs
<1>19. ASSUME NEW t \in Tabs, SamplesDone(t) PROVE TypeOK'
  BY <1>19, ReplyTyped DEF SamplesDone, TypeOK, install, rules, ghosts
<1>20. CASE Restart
  BY <1>20, VanishTyped DEF Restart, TypeOK, rules, ghosts
<1>21. CASE StartUp
  BY <1>21 DEF StartUp, TypeOK, rules, ghosts
<1>22. CASE UserRestores
  BY <1>22 DEF UserRestores, TypeOK, rules, ghosts
<1>23. CASE Crash
  BY <1>23, VanishTyped DEF Crash, TypeOK, install, rules
<1>24. CASE Release
  <2>1. latest' \in Releases
    BY <1>24 DEF Release, TypeOK, Releases
  <2> QED
    BY <1>24, <2>1 DEF Release, TypeOK, install, rules, ghosts
<1>25. ASSUME NEW r \in Rules, UserWrites(r) PROVE TypeOK'
  BY <1>25 DEF UserWrites, TypeOK, install
<1>26. ASSUME NEW r \in Rules, UserDeletes(r) PROVE TypeOK'
  BY <1>26 DEF UserDeletes, TypeOK, install
<1>27. CASE UNCHANGED vars
  BY <1>27 DEF vars, TypeOK
<1> QED
  BY <1>1, <1>2, <1>3, <1>4, <1>5, <1>6, <1>7, <1>8, <1>9, <1>10, <1>11, <1>12, <1>13,
     <1>14, <1>15, <1>16, <1>17, <1>18, <1>19, <1>20, <1>21, <1>22, <1>23, <1>24, <1>25,
     <1>26, <1>27
  DEF Next, Request, Proceed, Prepare, Swap, ApplyRules, World

-----------------------------------------------------------------------------
(* The plans *)

\* What the actions do with the jobs, outside the one that makes a plan, the one
\* that keeps it and the one that takes it: a request goes on with its job, or
\* ends.
JobsCarried ==
  \A t \in Tabs : \/ pc'[t] = "idle" /\ job'[t] = NoPlan
                  \/ pc[t] # "idle" /\ pc'[t] # "idle" /\ job'[t] = job[t]
                  \/ pc'[t] = pc[t] /\ job'[t] = job[t]

LEMMA ReplyCarries ==
  ASSUME TypeOK, NEW t \in Tabs, Reply(t)
  PROVE  JobsCarried
BY DEF TypeOK, Reply, JobsCarried

LEMMA GotoCarries ==
  ASSUME TypeOK, NEW t \in Tabs, NEW p \in PCs \ {"idle"}, Goto(t, p), pc[t] # "idle",
         UNCHANGED job
  PROVE  JobsCarried
BY DEF TypeOK, Goto, JobsCarried

LEMMA PlansCarried ==
  ASSUME TypeOK, TypeOK', PlansInv, JobsCarried,
         UNCHANGED <<running, plans>>, slot' \in {slot, NoPlan}, latest <= latest'
  PROVE  PlansInv'
<1> USE Contents
<1>1. ASSUME NEW p, PlanMade(p) PROVE PlanMade(p)'
  <2>1. p.to \in Nat /\ latest \in Nat /\ latest' \in Nat
    BY <1>1 DEF PlanMade, TypeOK, Plan
  <2>2. p.to <= latest'
    BY <1>1, <2>1 DEF PlanMade
  <2> QED
    BY <1>1, <2>2 DEF PlanMade
<1>2. slot' # NoPlan => PlanMade(slot)'
  BY <1>1 DEF PlansInv
<1>3. ASSUME NEW t \in Tabs
      PROVE  /\ pc'[t] = "idle" => job'[t] = NoPlan
             /\ pc'[t] # "idle" => PlanMade(job[t])' /\ pc[t] # "idle" /\ job'[t] = job[t]
  BY <1>1 DEF PlansInv, JobsCarried
<1> QED
  BY <1>2, <1>3 DEF PlansInv

LEMMA PlansInit == Init => PlansInv
BY DEF Init, PlansInv

LEMMA PlansStep ==
  ASSUME TypeOK, TypeOK', PlansInv, [Next]_vars
  PROVE  PlansInv'
<1> USE Contents
<1>0. latest <= latest
  BY DEF TypeOK
<1>1. ASSUME NEW t \in Tabs, PrepareStart(t) PROVE PlansInv'
  <2>1. PICK q : q = Target
    OBVIOUS
  <2>2. /\ pc' = [pc EXCEPT ![t] = "fetch"] /\ job' = [job EXCEPT ![t] = q]
        /\ UNCHANGED <<running, latest, slot>> /\ plans' = plans + 1
        /\ running # Down /\ latest > running
    BY <1>1, <2>1 DEF PrepareStart, Goto
  <2>3. ASSUME NEW p, PlanMade(p) PROVE PlanMade(p)' /\ p.no # q.no
    BY <2>1, <2>2, <2>3 DEF PlanMade, TypeOK, Plan, Target
  <2>4. PlanMade(q)'
    BY <2>1, <2>2 DEF PlanMade, TypeOK, Target, Plan, Down
  <2>5. pc'[t] = "fetch" /\ job'[t] = q
    BY <2>2 DEF TypeOK
  <2>6. \A u \in Tabs \ {t} : pc'[u] = pc[u] /\ job'[u] = job[u]
    BY <2>2 DEF TypeOK
  <2>7. \A u \in Tabs \ {t} : pc[u] # "idle" => PlanMade(job[u])' /\ job[u].no # q.no
    BY <2>3, <2>6 DEF PlansInv
  <2>8. slot # NoPlan => PlanMade(slot)' /\ slot.no # q.no
    BY <2>3, <2>2 DEF PlansInv
  <2> QED
    BY <2>2, <2>4, <2>5, <2>6, <2>7, <2>8 DEF PlansInv
<1>2. ASSUME NEW t \in Tabs, PreparePlanned(t) PROVE PlansInv'
  <2>1. PlanMade(job[t]) /\ pc[t] = "fetch"
    BY <1>2 DEF PreparePlanned, PlansInv
  <2>2. PICK q : q = PlanRules(job[t].no, job[t].from, job[t].to)
    OBVIOUS
  <2>3. /\ pc' = [pc EXCEPT ![t] = "store"] /\ job' = [job EXCEPT ![t] = q]
        /\ UNCHANGED <<running, latest, slot, plans>>
    BY <1>2, <2>2 DEF PreparePlanned, Goto, ghosts
  <2>4. q \in Plan
    BY <2>1, <2>2, PlanTyped DEF PlanMade, Plan
  <2>5. q.no = job[t].no /\ q.from = job[t].from /\ q.to = job[t].to
    BY <2>2 DEF PlanRules
  <2>6. \A p : PlanMade(p) => PlanMade(p)'
    BY <2>3 DEF PlanMade
  <2>7. PlanMade(q)'
    BY <2>1, <2>3, <2>4, <2>5 DEF PlanMade
  <2>8. pc'[t] = "store" /\ job'[t] = q
    BY <2>3 DEF TypeOK
  <2>9. \A u \in Tabs \ {t} : pc'[u] = pc[u] /\ job'[u] = job[u]
    BY <2>3 DEF TypeOK
  <2>10. \A u \in Tabs : pc'[u] = "idle" <=> pc[u] = "idle"
    BY <2>1, <2>8, <2>9
  <2>11. \A u \in Tabs : pc[u] # "idle" => job'[u].no = job[u].no /\ PlanMade(job[u])'
    BY <2>5, <2>6, <2>7, <2>8, <2>9 DEF PlansInv
  <2>12. \A u \in Tabs : pc[u] = "idle" => job'[u] = NoPlan
    BY <2>1, <2>9 DEF PlansInv
  <2> QED
    BY <2>3, <2>6, <2>10, <2>11, <2>12 DEF PlansInv
<1>3. ASSUME NEW t \in Tabs, PrepareStored(t) PROVE PlansInv'
  <2>1. PlanMade(job[t]) /\ pc[t] = "store"
    BY <1>3 DEF PrepareStored, PlansInv
  <2>2. /\ pc' = [pc EXCEPT ![t] = "idle"] /\ job' = [job EXCEPT ![t] = NoPlan]
        /\ slot' = job[t] /\ UNCHANGED <<running, latest, plans>>
    BY <1>3 DEF PrepareStored, Reply, ghosts
  <2>3. \A p : PlanMade(p) => PlanMade(p)'
    BY <2>2 DEF PlanMade
  <2>4. pc'[t] = "idle" /\ job'[t] = NoPlan
    BY <2>2 DEF TypeOK
  <2>5. \A u \in Tabs \ {t} : pc'[u] = pc[u] /\ job'[u] = job[u]
    BY <2>2 DEF TypeOK
  <2>6. \A u \in Tabs \ {t} : pc[u] # "idle" => PlanMade(job[u])' /\ job[u].no # slot'.no
    BY <2>1, <2>2, <2>3, <2>5 DEF PlansInv
  <2> QED
    BY <2>1, <2>2, <2>3, <2>4, <2>5, <2>6 DEF PlansInv
<1>4. ASSUME NEW t \in Tabs, ApplyTaken(t) PROVE PlansInv'
  <2>1. PlanMade(slot) /\ pc[t] = "idle" /\ slot # NoPlan
    BY <1>4 DEF ApplyTaken, PlansInv
  <2>2. /\ pc' = [pc EXCEPT ![t] = "stage"] /\ job' = [job EXCEPT ![t] = slot]
        /\ slot' = NoPlan /\ UNCHANGED <<running, latest, plans>>
    BY <1>4 DEF ApplyTaken, Goto, ghosts
  <2>3. \A p : PlanMade(p) => PlanMade(p)'
    BY <2>2 DEF PlanMade
  <2>4. pc'[t] = "stage" /\ job'[t] = slot
    BY <2>2 DEF TypeOK
  <2>5. \A u \in Tabs \ {t} : pc'[u] = pc[u] /\ job'[u] = job[u]
    BY <2>2 DEF TypeOK
  <2>6. \A u \in Tabs \ {t} : pc[u] # "idle" => PlanMade(job[u])' /\ job[u].no # slot.no
    BY <2>1, <2>3, <2>5 DEF PlansInv
  <2> QED
    BY <2>1, <2>2, <2>3, <2>4, <2>5, <2>6 DEF PlansInv
<1>5. ASSUME NEW t \in Tabs,
             PrepareFailed(t) \/ SwapFailed(t) \/ Restored(t) \/ RulesFailed(t)
               \/ SamplesDone(t) \/ \E r \in Rules : RuleTorn(t, r)
      PROVE  PlansInv'
  <2>1. Reply(t) /\ UNCHANGED <<running, latest, plans, slot>>
    BY <1>5 DEF PrepareFailed, SwapFailed, Restored, RulesFailed, SamplesDone, RuleTorn, ghosts
  <2> QED
    BY <1>0, <2>1, ReplyCarries, PlansCarried
<1>6. ASSUME NEW t \in Tabs,
             Staged(t) \/ BackupSwept(t) \/ MovedAside(t) \/ Installed(t)
               \/ InstallFailed(t) \/ RulesDone(t)
      PROVE  PlansInv'
  <2>1. pc[t] # "idle" /\ UNCHANGED <<running, latest, plans, slot, job>>
    BY <1>6 DEF Staged, BackupSwept, MovedAside, Installed, InstallFailed, RulesDone, ghosts
  <2>2. PICK p \in PCs \ {"idle"} : Goto(t, p)
    BY <1>6 DEF Staged, BackupSwept, MovedAside, Installed, InstallFailed, RulesDone,
                PCs, ApplyPCs, SwapPCs
  <2> QED
    BY <1>0, <2>1, <2>2, GotoCarries, PlansCarried
<1>7. ASSUME \/ PlanExpires \/ \E t \in Tabs : ApplyRefused(t)
             \/ \E t \in Tabs, r \in Rules : RuleApplied(t, r)
             \/ \E r \in Rules : UserWrites(r) \/ UserDeletes(r)
             \/ UNCHANGED vars
      PROVE  PlansInv'
  <2>1. UNCHANGED <<running, latest, plans, job, pc>> /\ slot' \in {slot, NoPlan}
    BY <1>7 DEF PlanExpires, ApplyRefused, RuleApplied, UserWrites, UserDeletes, vars, ghosts
  <2>2. JobsCarried
    BY <2>1 DEF JobsCarried
  <2> QED
    BY <1>0, <2>1, <2>2, PlansCarried
<1>8. CASE Release
  <2>1. UNCHANGED <<running, plans, job, pc, slot>> /\ latest <= latest'
    BY <1>8 DEF Release, TypeOK, ghosts
  <2>2. JobsCarried
    BY <2>1 DEF JobsCarried
  <2> QED
    BY <2>1, <2>2, PlansCarried
<1>9. CASE Restart \/ Crash
  BY <1>9 DEF Restart, Crash, Vanish, PlansInv
<1>10. CASE StartUp \/ UserRestores
  <2>1. running = Down /\ UNCHANGED <<job, pc, slot>>
    BY <1>10 DEF StartUp, UserRestores
  <2>2. slot = NoPlan /\ \A u \in Tabs : pc[u] = "idle" /\ job[u] = NoPlan
    BY <2>1 DEF PlansInv, PlanMade
  <2> QED
    BY <2>1, <2>2 DEF PlansInv
<1> QED
  BY <1>1, <1>2, <1>3, <1>4, <1>5, <1>6, <1>7, <1>8, <1>9, <1>10
  DEF Next, Request, Proceed, Prepare, Swap, ApplyRules, World

\* Types are kept, and every plan is of one release of the process and in one place
\* at a time: PlansInv is inductive with TypeOK, for any number of tabs.
THEOREM PlansHeld == Spec => [](TypeOK /\ PlansInv)
<1>1. Init => TypeOK /\ PlansInv
  BY TypeInit, PlansInit
<1>2. TypeOK /\ PlansInv /\ [Next]_vars => (TypeOK /\ PlansInv)'
  BY TypeStep, PlansStep
<1> QED
  BY <1>1, <1>2, PTL DEF Spec

\* A prepared plan is applied at most once: the request that works on it is the only
\* place that holds it, however many tabs prepare and apply, and in whatever
\* order their requests end (handlePrepareUpdate, handleUpdateApply).
THEOREM PlanAppliedOnce == Spec => []PlanHeldOnce
<1>1. TypeOK /\ PlansInv => PlanHeldOnce
  BY DEF PlansInv, PlanHeldOnce, ApplyPCs, SwapPCs
<1> QED
  BY <1>1, PlansHeld, PTL

-----------------------------------------------------------------------------
(* The steps that touch the executable *)

Between == {"install", "restore"}

\* Nothing is moved, and no request gets between the two renames.
InPlace ==
  /\ UNCHANGED <<running, exe, old>>
  /\ \A u \in Tabs : pc'[u] \in Between => pc[u] \in Between

LEMMA ReplyInPlace ==
  ASSUME TypeOK, NEW t \in Tabs, Reply(t), UNCHANGED <<running, exe, old>>
  PROVE  InPlace
BY DEF TypeOK, Reply, InPlace, Between

LEMMA GotoInPlace ==
  ASSUME TypeOK, NEW t \in Tabs, NEW p \in PCs \ Between, Goto(t, p),
         UNCHANGED <<running, exe, old>>
  PROVE  InPlace
BY DEF TypeOK, Goto, InPlace

LEMMA SwapSteps ==
  ASSUME TypeOK, [Next]_vars
  PROVE  \/ \E t \in Tabs : \/ BackupSwept(t) \/ MovedAside(t) \/ Installed(t)
                            \/ InstallFailed(t) \/ Restored(t)
         \/ Restart \/ Crash \/ StartUp \/ UserRestores
         \/ InPlace
<1>1. ASSUME NEW t \in Tabs, PrepareStart(t) \/ PreparePlanned(t) \/ ApplyTaken(t)
                               \/ Staged(t) \/ RulesDone(t)
      PROVE  InPlace
  <2>1. PICK p \in PCs \ Between : Goto(t, p)
    BY <1>1 DEF PrepareStart, PreparePlanned, ApplyTaken, Staged, RulesDone, PCs, ApplyPCs,
                SwapPCs, Between
  <2>2. UNCHANGED <<running, exe, old>>
    BY <1>1 DEF PrepareStart, PreparePlanned, ApplyTaken, Staged, RulesDone, install
  <2> QED
    BY <2>1, <2>2, GotoInPlace
<1>2. ASSUME NEW t \in Tabs, \/ PrepareFailed(t) \/ PrepareStored(t) \/ SwapFailed(t)
                             \/ RulesFailed(t) \/ SamplesDone(t)
                             \/ \E r \in Rules : RuleTorn(t, r)
      PROVE  InPlace
  BY <1>2, ReplyInPlace DEF PrepareFailed, PrepareStored, SwapFailed, RulesFailed, SamplesDone,
                            RuleTorn, install
<1>3. ASSUME \/ PlanExpires \/ Release \/ UNCHANGED vars
             \/ \E t \in Tabs : ApplyRefused(t) \/ \E r \in Rules : RuleApplied(t, r)
             \/ \E r \in Rules : UserWrites(r) \/ UserDeletes(r)
      PROVE  InPlace
  BY <1>3 DEF PlanExpires, Release, vars, ApplyRefused, RuleApplied, UserWrites, UserDeletes,
              install, InPlace
<1> QED
  BY <1>1, <1>2, <1>3 DEF Next, Request, Proceed, Prepare, Swap, ApplyRules, World

\* No step makes what a start would run older than v.
LEMMA NotOlderStep ==
  ASSUME TypeOK, PlansInv, SwapInv, [Next]_vars, NEW v \in Releases, NotOlder(v)
  PROVE  NotOlder(v)'
<1> USE Contents
<1>1. CASE InPlace
  BY <1>1 DEF InPlace, NotOlder
<1>2. ASSUME NEW t \in Tabs, BackupSwept(t) PROVE NotOlder(v)'
  BY <1>2 DEF BackupSwept, NotOlder
<1>3. ASSUME NEW t \in Tabs, MovedAside(t) PROVE NotOlder(v)'
  BY <1>3 DEF MovedAside, NotOlder
<1>4. ASSUME NEW t \in Tabs, Installed(t) PROVE NotOlder(v)'
  <2>1. /\ running \in Nat /\ job[t].to \in Nat /\ running # Down /\ running < job[t].to
        /\ job[t].to # Absent
    BY <1>4 DEF Installed, PlansInv, PlanMade, Plan, TypeOK
  <2>2. exe' = job[t].to /\ UNCHANGED <<running, old>>
    BY <1>4 DEF Installed
  <2>3. v <= job[t].to
    BY <2>1 DEF NotOlder
  <2> QED
    BY <2>1, <2>2, <2>3 DEF NotOlder
<1>5. ASSUME NEW t \in Tabs, InstallFailed(t) \/ Restored(t) PROVE NotOlder(v)'
  BY <1>5 DEF InstallFailed, Restored, NotOlder, SwapInv, install
<1>6. CASE Restart \/ Crash
  BY <1>6 DEF Restart, Crash, NotOlder, install
<1>7. CASE StartUp \/ UserRestores
  BY <1>7 DEF StartUp, UserRestores, NotOlder
<1> QED
  BY <1>1, <1>2, <1>3, <1>4, <1>5, <1>6, <1>7, SwapSteps

LEMMA SwapInit == Init => SwapInv
BY Contents DEF Init, SwapInv, NotOlder, Absent, Down

LEMMA SwapStep ==
  ASSUME TypeOK, TypeOK', PlansInv, SwapInv, [Next]_vars
  PROVE  SwapInv'
<1> USE Contents
<1> DEFINE Out(t) == pc[t] \in Between =>
                       exe = Absent /\ \A u \in Tabs \ {t} : pc[u] \notin Between
<1>1. (running # Down => NotOlder(running))'
  <2>1. CASE running' = running
    BY <2>1, NotOlderStep DEF SwapInv, TypeOK
  <2>2. CASE running' # running
    <3>1. running' = Down \/ running' = exe'
      BY <2>2, SwapSteps DEF InPlace, BackupSwept, MovedAside, Installed, InstallFailed,
         Restored, Restart, Crash, StartUp, UserRestores
    <3>2. running' = exe' /\ exe' # Absent => exe' \in Nat
      BY DEF TypeOK
    <3> QED
      BY <3>1, <3>2 DEF NotOlder, Absent, Down
  <2> QED
    BY <2>1, <2>2
<1>2. ASSUME InPlace PROVE \A u \in Tabs : Out(u)'
  BY <1>2 DEF InPlace, SwapInv, Between
<1>3. ASSUME NEW t \in Tabs, \/ BackupSwept(t) \/ MovedAside(t) \/ Installed(t)
                             \/ InstallFailed(t) \/ Restored(t)
      PROVE  \A u \in Tabs : Out(u)'
  <2>1. \A u \in Tabs \ {t} : pc'[u] = pc[u]
    BY <1>3 DEF BackupSwept, MovedAside, Installed, InstallFailed, Restored, Goto, Reply, TypeOK
  <2>2. CASE BackupSwept(t)
    <3>1. exe' = exe /\ pc'[t] = "aside"
      BY <2>2 DEF BackupSwept, Goto, TypeOK
    <3> QED
      BY <2>1, <3>1 DEF SwapInv, Between
  <2>3. CASE MovedAside(t)
    BY <2>1, <2>3 DEF MovedAside, SwapInv, Between
  <2>4. CASE InstallFailed(t)
    BY <2>1, <2>4 DEF InstallFailed, SwapInv, Between, install
  <2>5. CASE Installed(t) \/ Restored(t)
    <3>1. pc'[t] \in {"rules", "idle"} /\ pc[t] \in Between
      BY <2>5 DEF Installed, Restored, Goto, Reply, TypeOK, Between
    <3> QED
      BY <2>1, <3>1 DEF SwapInv, Between
  <2> QED
    BY <1>3, <2>2, <2>3, <2>4, <2>5
<1>4. ASSUME Restart \/ Crash PROVE \A u \in Tabs : Out(u)'
  BY <1>4 DEF Restart, Crash, Vanish, Between
<1>5. ASSUME StartUp \/ UserRestores PROVE \A u \in Tabs : Out(u)'
  <2>1. UNCHANGED pc /\ running = Down
    BY <1>5 DEF StartUp, UserRestores
  <2> QED
    BY <2>1 DEF PlansInv, PlanMade, Between
<1>6. SwapInv' <=> (running # Down => NotOlder(running))' /\ \A u \in Tabs : Out(u)'
  BY DEF SwapInv, Between
<1>7. \A u \in Tabs : Out(u)'
  BY <1>2, <1>3, <1>4, <1>5, SwapSteps
<1> QED
  BY <1>1, <1>6, <1>7

\* What a start would run, or the user puts back, is never older than what runs,
\* however many tabs apply at once, and whichever renames fail (replaceBinary).
THEOREM NeverDowngraded == Spec => []NoDowngrade
<1>1. Init => TypeOK /\ PlansInv /\ SwapInv
  BY TypeInit, PlansInit, SwapInit
<1>2. TypeOK /\ PlansInv /\ SwapInv /\ [Next]_vars => (TypeOK /\ PlansInv /\ SwapInv)'
  BY TypeStep, PlansStep, SwapStep
<1>3. SwapInv => NoDowngrade
  BY DEF SwapInv, NotOlder, NoDowngrade
<1> QED
  BY <1>1, <1>2, <1>3, PTL DEF Spec

-----------------------------------------------------------------------------
(* The user's rules *)

LEMMA EditsInit == Init => EditsInv
BY DEF Init, EditsInv

LEMMA EditsStep ==
  ASSUME TypeOK, PlansInv, SwapInv, EditsInv, [Next]_vars
  PROVE  EditsInv'
<1> USE Contents
<1> DEFINE Ok(r) == /\ disk[r] \in {Mine, Absent}
                    /\ disk[r] = Absent => \E v \in Releases : Ships[v][r] # Absent /\ NotOlder(v)
<1>1. ASSUME NEW r \in edited, disk'[r] = disk[r] PROVE Ok(r)'
  <2>1. \A v \in Releases : NotOlder(v) => NotOlder(v)'
    BY NotOlderStep
  <2>2. Ok(r)
    BY DEF EditsInv
  <2> QED
    BY <1>1, <2>1, <2>2
<1>2. ASSUME UNCHANGED rules PROVE EditsInv'
  BY <1>1, <1>2 DEF rules, EditsInv
<1>3. ASSUME NEW t \in Tabs, NEW q \in Rules, RuleApplied(t, q) \/ RuleTorn(t, q)
      PROVE  EditsInv'
  <2>1. edited' = edited \ {q} /\ \A r \in Rules \ {q} : disk'[r] = disk[r]
    BY <1>3 DEF RuleApplied, RuleTorn, TypeOK
  <2> QED
    BY <1>1, <2>1 DEF EditsInv, TypeOK
<1>4. ASSUME NEW q \in Rules, UserWrites(q) PROVE EditsInv'
  <2>1. /\ edited' = edited \cup {q} /\ disk'[q] = Mine
        /\ \A r \in Rules \ {q} : disk'[r] = disk[r]
    BY <1>4 DEF UserWrites, TypeOK
  <2>2. Mine # Absent
    BY DEF Absent
  <2> QED
    BY <1>1, <2>1, <2>2 DEF EditsInv, TypeOK
<1>5. ASSUME NEW q \in Rules, UserDeletes(q) PROVE EditsInv'
  <2>1. /\ disk'[q] = Absent /\ \A r \in Rules \ {q} : disk'[r] = disk[r]
        /\ edited' = IF Ships[running][q] # Absent THEN edited \cup {q} ELSE edited \ {q}
        /\ running # Down
    BY <1>5 DEF UserDeletes, TypeOK
  <2>2. running \in Releases /\ NotOlder(running)
    BY <2>1 DEF TypeOK, SwapInv
  <2>3. NotOlder(running)'
    <3>1. PICK v \in Releases : v = running
      BY <2>2
    <3> QED
      BY <2>2, <3>1, NotOlderStep, <1>5 DEF UserDeletes
  <2>4. Ships[running][q] # Absent => Ok(q)'
    <3>1. PICK v \in Releases : v = running
      BY <2>2
    <3>2. NotOlder(v)'
      BY <2>2, <3>1, NotOlderStep
    <3> QED
      BY <2>1, <3>1, <3>2
  <2> QED
    BY <1>1, <2>1, <2>4 DEF EditsInv, TypeOK
<1>6. UNCHANGED rules \/ \E q \in Rules : \/ UserWrites(q) \/ UserDeletes(q)
                                          \/ \E t \in Tabs : RuleApplied(t, q) \/ RuleTorn(t, q)
  BY DEF Next, Request, Proceed, Prepare, Swap, ApplyRules, World, PrepareStart,
     ApplyRefused, ApplyTaken, PrepareFailed, PreparePlanned, PrepareStored, Staged,
     SwapFailed, BackupSwept, MovedAside, Installed, InstallFailed, Restored, RulesFailed,
     RulesDone, SamplesDone, Restart, PlanExpires, StartUp, UserRestores, Crash, Release, vars,
     rules
<1> QED
  BY <1>2, <1>3, <1>4, <1>5, <1>6

\* The plan PlanRules makes takes a rule the user edited only where a release ships
\* the name again.
LEMMA PlanRulesSpares ==
  ASSUME TypeOK, SwapInv, EditsInv, running # Down,
         NEW no \in Nat, NEW to \in Releases, running < to
  PROVE  Spares(PlanRules(no, running, to))
<1> USE Contents
<1> DEFINE p == PlanRules(no, running, to)
<1>1. running \in Releases
  BY DEF TypeOK
<1> SUFFICES ASSUME NEW r \in (p.write \cup p.remove) \cap p.spare
             PROVE  r \notin p.remove /\ Returns(r)
  BY DEF Spares
<1>2. r \in edited /\ r \in Rules
  BY DEF PlanRules, TypeOK
<1>3. disk[r] = Mine \/ disk[r] = Absent
  BY <1>2 DEF EditsInv
<1>4. ~Untouched(running, r)
  <2>1. Ships[running][r] \in Releases \cup {Absent}
    BY <1>1, <1>2
  <2> QED
    BY <1>3, <2>1 DEF Untouched
<1>5. r \in Added(running, to) /\ r \notin p.remove
  BY <1>4 DEF PlanRules, Replaced, Withdrawn
<1>6. Ships[running][r] = Absent /\ disk[r] = Absent /\ Ships[to][r] # Absent
  BY <1>5 DEF Added
<1>7. PICK v \in Releases : Ships[v][r] # Absent /\ NotOlder(v)
  BY <1>2, <1>6 DEF EditsInv
<1>8. v < running
  <2>1. v <= running /\ v # running
    BY <1>6, <1>7 DEF NotOlder
  <2>2. v \in Nat /\ running \in Nat
    BY <1>1
  <2> HIDE Contents
  <2> QED
    BY <2>1, <2>2
<1> QED
  BY <1>1, <1>5, <1>6, <1>7, <1>8 DEF Returns

LEMMA SparesInit == Init => SparesInv
BY DEF Init, SparesInv, Plans

LEMMA SparesStep ==
  ASSUME TypeOK, PlansInv, SwapInv, EditsInv, SparesInv, [Next]_vars
  PROVE  SparesInv'
<1>1. ASSUME NEW t \in Tabs, PrepareStart(t) PROVE SparesInv'
  <2>1. Spares(Target)
    BY DEF Target, Spares
  <2>2. slot' = slot /\ \A u \in Tabs : job'[u] \in {job[u], Target}
    BY <1>1 DEF PrepareStart, TypeOK
  <2> QED
    BY <2>1, <2>2 DEF SparesInv, Plans
<1>2. ASSUME NEW t \in Tabs, PreparePlanned(t) PROVE SparesInv'
  <2>1. PICK q : q = PlanRules(job[t].no, job[t].from, job[t].to)
    OBVIOUS
  <2>2. PlanMade(job[t])
    BY <1>2 DEF PreparePlanned, PlansInv
  <2>3. /\ job[t].from = running /\ running # Down /\ running < job[t].to
        /\ job[t].no \in Nat /\ job[t].to \in Releases
    BY <2>2 DEF PlanMade, Plan
  <2>4. Spares(q)
    BY <2>1, <2>3, PlanRulesSpares
  <2>5. slot' = slot /\ \A u \in Tabs : job'[u] \in {job[u], q}
    BY <1>2, <2>1 DEF PreparePlanned, TypeOK
  <2> QED
    BY <2>4, <2>5 DEF SparesInv, Plans
<1>3. ASSUME slot' \in Plans \cup {NoPlan}, \A u \in Tabs : job'[u] \in Plans \cup {NoPlan}
      PROVE  SparesInv'
  BY <1>3 DEF SparesInv, Plans
<1>4. ASSUME NEW t \in Tabs, PrepareStored(t) \/ ApplyTaken(t) PROVE SparesInv'
  BY <1>3, <1>4 DEF PrepareStored, ApplyTaken, Reply, Plans, TypeOK
<1>5. CASE Restart \/ Crash
  BY <1>3, <1>5 DEF Restart, Crash, Vanish
<1>6. ASSUME NEW t \in Tabs, Reply(t), UNCHANGED slot PROVE SparesInv'
  BY <1>3, <1>6 DEF Reply, Plans, TypeOK
<1>7. ASSUME NEW t \in Tabs, \/ PrepareFailed(t) \/ SwapFailed(t) \/ Restored(t)
                             \/ RulesFailed(t) \/ SamplesDone(t)
                             \/ \E r \in Rules : RuleTorn(t, r)
      PROVE  SparesInv'
  BY <1>6, <1>7 DEF PrepareFailed, SwapFailed, Restored, RulesFailed, SamplesDone, RuleTorn
<1>8. ASSUME UNCHANGED job, slot' \in {slot, NoPlan} PROVE SparesInv'
  BY <1>8 DEF SparesInv, Plans
<1>9. ASSUME \/ PlanExpires \/ StartUp \/ UserRestores \/ Release \/ UNCHANGED vars
             \/ \E r \in Rules : UserWrites(r) \/ UserDeletes(r)
      PROVE  SparesInv'
  BY <1>8, <1>9 DEF PlanExpires, StartUp, UserRestores, Release, vars, UserWrites, UserDeletes
<1>10. ASSUME NEW t \in Tabs, \/ ApplyRefused(t) \/ Staged(t) \/ BackupSwept(t) \/ MovedAside(t)
                              \/ Installed(t) \/ InstallFailed(t) \/ RulesDone(t)
                              \/ \E r \in Rules : RuleApplied(t, r)
       PROVE  SparesInv'
  BY <1>8, <1>10 DEF ApplyRefused, Staged, BackupSwept, MovedAside, Installed, InstallFailed,
                     RulesDone, RuleApplied
<1> QED
  BY <1>1, <1>2, <1>4, <1>5, <1>7, <1>9, <1>10
  DEF Next, Request, Proceed, Prepare, Swap, ApplyRules, World

\* Whatever the releases ship and however many tabs update, a plan removes no rule
\* the user had edited or deleted, and it writes one only if a release dropped
\* it and a later one ships it again (PlanRules).
THEOREM SparedUnlessReturned == Spec => []SparesInv
<1> DEFINE IInv == TypeOK /\ PlansInv /\ SwapInv /\ EditsInv /\ SparesInv
<1>1. Init => IInv
  BY TypeInit, PlansInit, SwapInit, EditsInit, SparesInit
<1>2. IInv /\ [Next]_vars => IInv'
  BY TypeStep, PlansStep, SwapStep, EditsStep, SparesStep
<1>3. IInv => SparesInv
  OBVIOUS
<1> QED
  BY <1>1, <1>2, <1>3, PTL DEF Spec

\* Where no release takes up a rule that an earlier one withdrew, what the user
\* edited, deleted or wrote is in no plan's changes (PlanRules).
THEOREM UserRulesSpared ==
  ASSUME NoReturn
  PROVE  Spec => []PlanSparesEdits
<1>1. TypeOK /\ PlansInv /\ SparesInv => PlanSparesEdits
  <2>1. ASSUME TypeOK, PlansInv, NEW p \in Plans \ {NoPlan} PROVE p \in Plan
    BY <2>1 DEF Plans, TypeOK
  <2> QED
    BY <2>1, NoReturn DEF SparesInv, Spares, PlanSparesEdits, NoReturn, Plan
<1> QED
  BY <1>1, PlansHeld, SparedUnlessReturned, PTL

-----------------------------------------------------------------------------
(* The rules and what was installed *)

\* No file takes content from a release in this step.
NoneShipped == \A r \in Rules : disk'[r] \in Releases => disk'[r] = disk[r]

LEMMA UpToKept ==
  ASSUME NoneShipped, NEW v, UpTo(v)
  PROVE  UpTo(v)'
BY DEF NoneShipped, UpTo

\* A later release will do as well.
LEMMA UpToLater ==
  ASSUME TypeOK, NEW v \in Nat, NEW w \in Nat, v <= w, UpTo(v)
  PROVE  UpTo(w)
<1> SUFFICES ASSUME NEW r \in Rules, disk[r] \in Releases PROVE disk[r] <= w
  BY DEF UpTo
<1>1. disk[r] \in Nat /\ disk[r] <= v
  BY Contents DEF UpTo
<1> QED
  BY <1>1

\* A request changes its own progress only.
Alone(t) == \A u \in Tabs : u # t => pc'[u] = pc[u] /\ job'[u] = job[u]

\* The actions of tab t that ship no rule and install nothing.
LEMMA InstalledKept ==
  ASSUME InstalledInv, NoneShipped, installed' = installed,
         \A u \in Tabs : pc'[u] \in {"rules", "samples"} =>
           pc[u] \in {"rules", "samples"} /\ job'[u].to = job[u].to
  PROVE  InstalledInv'
BY UpToKept DEF InstalledInv

LEMMA InstalledInit == Init => InstalledInv
BY Contents DEF Init, InstalledInv, UpTo

LEMMA InstalledStep ==
  ASSUME TypeOK, TypeOK', PlansInv, InstalledInv, [Next]_vars
  PROVE  InstalledInv'
<1> USE Contents
<1>1. ASSUME UNCHANGED disk PROVE NoneShipped
  BY <1>1 DEF NoneShipped
<1>2. ASSUME NEW t \in Tabs, Installed(t) PROVE InstalledInv'
  <2>1. /\ UNCHANGED <<disk, job>> /\ pc' = [pc EXCEPT ![t] = "rules"]
        /\ pc[t] = "install" /\ exe' = job[t].to
        /\ installed' = IF installed < exe' THEN exe' ELSE installed
    BY <1>2 DEF Installed, Goto, rules
  <2>2. job[t].to \in Nat /\ installed \in Nat
    BY <2>1 DEF PlansInv, PlanMade, Plan, TypeOK
  <2>3. installed' \in Nat /\ installed <= installed' /\ job[t].to <= installed'
    BY <2>1, <2>2
  <2>4. UpTo(installed')
    BY <2>2, <2>3, UpToLater DEF InstalledInv
  <2>5. ASSUME NEW u \in Tabs, pc'[u] \in {"rules", "samples"} PROVE job'[u].to <= installed'
    <3>1. CASE u = t
      BY <2>1, <2>3, <3>1
    <3>2. CASE u # t
      <4>1. pc[u] \in {"rules", "samples"}
        BY <2>1, <2>5, <3>2 DEF TypeOK
      <4>2. job[u].to <= installed /\ job[u].to \in Nat
        BY <4>1 DEF InstalledInv, PlansInv, PlanMade, Plan
      <4> QED
        BY <2>1, <2>2, <2>3, <4>2
    <3> QED
      BY <3>1, <3>2
  <2> QED
    BY <2>1, <2>4, <2>5 DEF InstalledInv, UpTo
<1>3. ASSUME NEW t \in Tabs, NEW q \in Rules, RuleApplied(t, q) PROVE InstalledInv'
  <2>1. /\ pc[t] = "rules" /\ UNCHANGED <<installed, pc, job>>
        /\ disk'[q] \in {Ships[job[t].to][q], Absent} /\ \A r \in Rules \ {q} : disk'[r] = disk[r]
    BY <1>3 DEF RuleApplied, TypeOK, install
  <2>2. job[t].to \in Releases /\ job[t].to <= installed
    BY <2>1 DEF InstalledInv, PlansInv, PlanMade, Plan
  <2>3. Ships[job[t].to][q] <= job[t].to
    BY <2>2
  <2>4. ASSUME NEW r \in Rules, disk'[r] \in Releases PROVE disk'[r] <= installed
    <3>1. CASE r # q
      BY <2>1, <2>4, <3>1 DEF InstalledInv, UpTo
    <3>2. CASE r = q
      <4>1. disk'[q] \in Nat /\ disk'[q] <= job[t].to
        BY <2>1, <2>3, <2>4, <3>2
      <4>2. job[t].to \in Nat /\ installed \in Nat
        BY <2>2 DEF TypeOK
      <4> HIDE Contents
      <4> QED
        BY <2>2, <3>2, <4>1, <4>2
    <3> QED
      BY <3>1, <3>2
  <2> QED
    BY <2>1, <2>4 DEF InstalledInv, UpTo
<1>4. ASSUME NEW t \in Tabs, NEW q \in Rules, RuleTorn(t, q) PROVE InstalledInv'
  <2>1. NoneShipped
    BY <1>4 DEF RuleTorn, NoneShipped, TypeOK
  <2> QED
    BY <1>4, <2>1, InstalledKept DEF RuleTorn, Reply, TypeOK, install
<1>5. ASSUME NEW t \in Tabs, \/ PrepareFailed(t) \/ PrepareStored(t) \/ SwapFailed(t)
                             \/ Restored(t) \/ RulesFailed(t) \/ SamplesDone(t)
      PROVE  InstalledInv'
  <2>1. Reply(t) /\ UNCHANGED <<disk, installed>>
    BY <1>5 DEF PrepareFailed, PrepareStored, SwapFailed, Restored, RulesFailed, SamplesDone,
       install, rules
  <2> QED
    BY <1>1, <2>1, InstalledKept DEF Reply, TypeOK
<1>6. ASSUME NEW t \in Tabs, \/ PrepareStart(t) \/ PreparePlanned(t) \/ ApplyTaken(t)
                             \/ Staged(t) \/ BackupSwept(t) \/ MovedAside(t) \/ InstallFailed(t)
      PROVE  InstalledInv'
  <2>1. /\ UNCHANGED <<disk, installed>>
        /\ \E p \in {"fetch", "store", "stage", "sweep", "aside", "install", "restore"} :
             pc' = [pc EXCEPT ![t] = p]
        /\ \A u \in Tabs : u # t => job'[u] = job[u]
    BY <1>6 DEF PrepareStart, PreparePlanned, ApplyTaken, Staged, BackupSwept, MovedAside,
       InstallFailed, Goto, TypeOK, install, rules
  <2> QED
    BY <1>1, <2>1, InstalledKept DEF TypeOK
<1>7. ASSUME NEW t \in Tabs, RulesDone(t) PROVE InstalledInv'
  <2>1. /\ UNCHANGED <<disk, installed, job>> /\ pc[t] = "rules"
        /\ pc' = [pc EXCEPT ![t] = "samples"]
    BY <1>7 DEF RulesDone, Goto, install, rules
  <2> QED
    BY <1>1, <2>1, InstalledKept DEF TypeOK
<1>8. CASE Restart \/ Crash
  BY <1>1, <1>8, InstalledKept DEF Restart, Crash, Vanish, rules, install
<1>9. CASE \E r \in Rules : UserWrites(r) \/ UserDeletes(r)
  <2>1. NoneShipped
    BY <1>9 DEF UserWrites, UserDeletes, NoneShipped, TypeOK
  <2> QED
    BY <1>9, <2>1, InstalledKept DEF UserWrites, UserDeletes, install
<1>10. CASE \/ PlanExpires \/ StartUp \/ UserRestores \/ Release \/ UNCHANGED vars
            \/ \E t \in Tabs : ApplyRefused(t)
  <2>1. UNCHANGED <<disk, installed, pc, job>>
    BY <1>10 DEF PlanExpires, StartUp, UserRestores, Release, ApplyRefused, vars, install, rules
  <2> QED
    BY <1>1, <2>1, InstalledKept
<1> HIDE Contents
<1> QED
  BY <1>2, <1>3, <1>4, <1>5, <1>6, <1>7, <1>8, <1>9, <1>10
  DEF Next, Request, Proceed, Prepare, Swap, ApplyRules, World

-----------------------------------------------------------------------------
(* The rules and the executable, while no apply overlapped another request *)

LEMMA RulesInit == Init => RulesInv
<1> USE Contents
<1> SUFFICES ASSUME Init PROVE RulesInv
  OBVIOUS
<1>1. UpTo(1)
  BY DEF Init, UpTo
<1> QED
  BY <1>1 DEF Init, RulesInv, FilesInv, SlotInv, TabInv, PairInv, ApplyPCs, SwapPCs, Absent

\* Every request is idle, and the slot empty: nothing is left to say of them.
LEMMA QuietKept ==
  ASSUME FilesInv', slot' = NoPlan, \A u \in Tabs : pc'[u] = "idle"
  PROVE  RulesInv'
BY DEF RulesInv, SlotInv, TabInv, PairInv, ApplyPCs, SwapPCs

\* The files are as they were, or user's, and so is the executable.
LEMMA FilesKept ==
  ASSUME NoneShipped, UNCHANGED <<latest, exe>>, old' \in {old, Absent}, FilesInv
  PROVE  FilesInv'
BY UpToKept DEF FilesInv

\* A tab whose request, if it has one, goes on with its job in another part of its work,
\* neither of them an apply unless it was.
Goes(t) ==
  pc'[t] # "idle" =>
    /\ pc[t] # "idle" /\ job'[t].to = job[t].to
    /\ pc'[t] \in ApplyPCs => pc[t] \in ApplyPCs

\* Requests that go on, or end, keep what is said of two of them and of the slot.
LEMMA PairsKept ==
  ASSUME \A t \in Tabs : Goes(t), \A t, u \in Tabs : PairInv(t, u)
  PROVE  \A t, u \in Tabs : PairInv(t, u)'
<1> SUFFICES ASSUME NEW t \in Tabs, NEW u \in Tabs, t # u,
                    pc'[t] \in ApplyPCs, pc'[u] # "idle"
             PROVE  pc'[u] \notin ApplyPCs /\ job'[t].to <= job'[u].to
  BY DEF PairInv
<1>1. pc'[t] # "idle"
  BY DEF ApplyPCs, SwapPCs
<1> QED
  BY <1>1 DEF PairInv, Goes

LEMMA SlotKept ==
  ASSUME NoneShipped, \A t \in Tabs : Goes(t), slot' \in {slot, NoPlan}, SlotInv
  PROVE  SlotInv'
<1> SUFFICES ASSUME slot' # NoPlan PROVE SlotInv'
  BY DEF SlotInv
<1>1. slot' = slot
  OBVIOUS
<1>2. UpTo(slot.to)'
  BY <1>1, UpToKept DEF SlotInv
<1>3. ASSUME NEW t \in Tabs, pc'[t] \in ApplyPCs PROVE job'[t].to <= slot'.to
  <2>1. pc'[t] # "idle"
    BY <1>3 DEF ApplyPCs, SwapPCs
  <2> QED
    BY <1>1, <1>3, <2>1 DEF SlotInv, Goes
<1> QED
  BY <1>1, <1>2, <1>3 DEF SlotInv

\* Nothing happens to a tab and to the executable.
LEMMA TabKept ==
  ASSUME NEW u \in Tabs, NoneShipped, UNCHANGED <<exe, old>>, TabInv(u),
         pc'[u] = pc[u] /\ job'[u] = job[u]
  PROVE  TabInv(u)'
BY UpToKept DEF TabInv

\* A tab beside the apply of another is neither swapping nor past the swap.
LEMMA BesideKept ==
  ASSUME NEW t \in Tabs, NEW u \in Tabs \ {t}, NoneShipped, TabInv(u),
         \A x, y \in Tabs : PairInv(x, y), pc[t] \in ApplyPCs,
         pc'[u] = pc[u] /\ job'[u] = job[u]
  PROVE  TabInv(u)'
BY UpToKept DEF TabInv, PairInv, ApplyPCs, SwapPCs

LEMMA RulesStep ==
  ASSUME TypeOK, TypeOK', PlansInv, SwapInv, RulesInv, [Next]_vars, ~overlapped'
  PROVE  RulesInv'
<1> USE Contents
<1>0. ~overlapped
  BY DEF Next, Request, Proceed, Prepare, Swap, ApplyRules, World, vars, ghosts, PrepareStart,
     PrepareFailed, PreparePlanned, PrepareStored, PlanExpires, ApplyRefused, ApplyTaken,
     Overlaps, Staged, SwapFailed, BackupSwept, MovedAside, Installed, InstallFailed,
     Restored, RuleApplied, RuleTorn, RulesFailed, RulesDone, SamplesDone, Restart, StartUp,
     UserRestores, Crash, Release, UserWrites, UserDeletes
<1>1. /\ FilesInv /\ SlotInv /\ \A t \in Tabs : TabInv(t)
      /\ \A t, u \in Tabs : PairInv(t, u)
  BY <1>0 DEF RulesInv
<1>2. ASSUME UNCHANGED disk PROVE NoneShipped
  BY <1>2 DEF NoneShipped
\* A request that works alone on its own progress.
<1>3. ASSUME NEW t \in Tabs, Alone(t), NoneShipped, FilesInv', TabInv(t)', SlotInv',
             \A x, y \in Tabs : PairInv(x, y)',
             pc[t] \in ApplyPCs \/ UNCHANGED <<exe, old>>
      PROVE  RulesInv'
  <2>1. \A u \in Tabs \ {t} : TabInv(u)'
    BY <1>1, <1>3, TabKept, BesideKept DEF Alone
  <2> QED
    BY <1>3, <2>1 DEF RulesInv
\* One that goes on with its job, or ends.
<1>4. ASSUME NEW t \in Tabs, Alone(t), Goes(t), slot' = slot, NoneShipped, FilesInv',
             TabInv(t)', pc[t] \in ApplyPCs \/ UNCHANGED <<exe, old>>
      PROVE  RulesInv'
  <2>1. \A u \in Tabs : Goes(u)
    BY <1>4 DEF Alone, Goes
  <2> QED
    BY <1>1, <1>3, <1>4, <2>1, PairsKept, SlotKept
<1>5. ASSUME NEW t \in Tabs, Reply(t), NoneShipped, FilesInv', slot' = slot,
             pc[t] \in ApplyPCs \/ UNCHANGED <<exe, old>>
      PROVE  RulesInv'
  <2>1. pc'[t] = "idle" /\ Alone(t)
    BY <1>5 DEF Reply, TypeOK, Alone
  <2>2. TabInv(t)' /\ Goes(t)
    BY <2>1 DEF TabInv, Goes
  <2> QED
    BY <1>4, <1>5, <2>1, <2>2
<1>6. ASSUME NEW t \in Tabs, PrepareStart(t) PROVE RulesInv'
  <2>1. /\ pc[t] = "idle" /\ pc'[t] = "fetch" /\ job'[t].to = latest /\ Alone(t)
        /\ UNCHANGED <<disk, latest, exe, old, slot>>
    BY <1>6 DEF PrepareStart, Goto, Target, TypeOK, install, rules, Alone
  <2>2. TabInv(t)' /\ FilesInv'
    BY <1>1, <1>2, <2>1, UpToKept, FilesKept DEF TabInv, FilesInv
  <2>3. ASSUME NEW x \in Tabs, pc'[x] \in ApplyPCs PROVE x # t /\ pc[x] \in ApplyPCs /\ job'[x] = job[x]
    BY <2>1, <2>3 DEF Alone, ApplyPCs, SwapPCs
  <2>4. SlotInv'
    BY <1>1, <1>2, <2>1, <2>3, UpToKept DEF SlotInv
  <2>5. ASSUME NEW x \in Tabs, NEW y \in Tabs PROVE PairInv(x, y)'
    <3>1. CASE y = t
      <4>1. ASSUME pc'[x] \in ApplyPCs, x # t PROVE job'[x].to <= latest
        <5>1. pc[x] # "idle"
          BY <2>3, <4>1 DEF ApplyPCs, SwapPCs
        <5> QED
          BY <2>3, <4>1, <5>1 DEF PlansInv, PlanMade
      <4> QED
        BY <2>1, <3>1, <4>1 DEF PairInv, ApplyPCs, SwapPCs
    <3>2. CASE y # t
      BY <1>1, <2>1, <2>3, <3>2 DEF PairInv, Alone
    <3> QED
      BY <3>1, <3>2
  <2> QED
    BY <1>2, <1>3, <2>1, <2>2, <2>4, <2>5
<1>7. ASSUME NEW t \in Tabs, PreparePlanned(t) PROVE RulesInv'
  <2>1. /\ pc[t] = "fetch" /\ pc'[t] = "store" /\ job'[t].to = job[t].to /\ Alone(t)
        /\ UNCHANGED <<disk, latest, exe, old, slot>>
    BY <1>7 DEF PreparePlanned, Goto, PlanRules, TypeOK, install, rules, Alone
  <2>2. TabInv(t)' /\ Goes(t) /\ FilesInv'
    BY <1>1, <1>2, <2>1, UpToKept, FilesKept DEF TabInv, Goes, ApplyPCs, SwapPCs
  <2> QED
    BY <1>2, <1>4, <2>1, <2>2
<1>8. ASSUME NEW t \in Tabs, PrepareStored(t) PROVE RulesInv'
  <2>1. /\ pc[t] = "store" /\ pc'[t] = "idle" /\ slot' = job[t] /\ Alone(t)
        /\ UNCHANGED <<disk, latest, exe, old>>
    BY <1>8 DEF PrepareStored, Reply, TypeOK, install, rules, Alone
  <2>2. TabInv(t)' /\ FilesInv' /\ \A u \in Tabs : Goes(u)
    BY <1>1, <1>2, <2>1, FilesKept DEF TabInv, Goes, Alone
  <2>3. ASSUME NEW x \in Tabs, pc'[x] \in ApplyPCs PROVE job'[x].to <= slot'.to
    <3>1. x # t /\ pc[x] \in ApplyPCs /\ job'[x] = job[x]
      BY <2>1, <2>3 DEF Alone, ApplyPCs, SwapPCs
    <3> QED
      BY <1>1, <2>1, <3>1 DEF PairInv
  <2>4. SlotInv'
    BY <1>1, <1>2, <2>1, <2>3, UpToKept DEF SlotInv, TabInv
  <2> QED
    BY <1>1, <1>2, <1>3, <2>1, <2>2, <2>4, PairsKept
<1>9. ASSUME NEW t \in Tabs, ApplyTaken(t) PROVE RulesInv'
  <2>1. /\ slot # NoPlan /\ pc'[t] = "stage" /\ job'[t] = slot /\ slot' = NoPlan /\ Alone(t)
        /\ UNCHANGED <<disk, latest, exe, old>> /\ \A u \in Tabs \ {t} : pc[u] = "idle"
    BY <1>9 DEF ApplyTaken, Overlaps, Goto, TypeOK, install, rules, Alone
  <2>2. TabInv(t)' /\ FilesInv' /\ SlotInv'
    BY <1>1, <1>2, <2>1, UpToKept, FilesKept DEF TabInv, SlotInv
  <2>3. \A x, y \in Tabs : PairInv(x, y)'
    BY <2>1 DEF PairInv, Alone, ApplyPCs, SwapPCs
  <2> QED
    BY <1>2, <1>3, <2>1, <2>2, <2>3
<1>10. ASSUME NEW t \in Tabs, Staged(t) \/ BackupSwept(t) \/ InstallFailed(t) \/ RulesDone(t)
       PROVE  RulesInv'
  <2>1. /\ pc[t] \in {"stage", "sweep", "install", "rules"} /\ Alone(t)
        /\ UNCHANGED <<disk, latest, exe, slot, job>>
        /\ pc'[t] \in {"sweep", "aside", "restore", "samples"}
        /\ (pc'[t] = "samples" => pc[t] = "rules")
        /\ (pc'[t] = "restore" => pc[t] = "install" /\ old' = old)
        /\ old' \in {old, Absent}
    BY <1>10 DEF Staged, BackupSwept, InstallFailed, RulesDone, Goto, TypeOK, install, rules, Alone
  <2>2. pc[t] \in ApplyPCs /\ Goes(t)
    BY <2>1 DEF Goes, ApplyPCs, SwapPCs
  <2>3. TabInv(t)' /\ FilesInv'
    BY <1>1, <1>2, <2>1, UpToKept, FilesKept DEF TabInv
  <2> QED
    BY <1>2, <1>4, <2>1, <2>2, <2>3
<1>11. ASSUME NEW t \in Tabs, MovedAside(t) PROVE RulesInv'
  <2>1. /\ pc[t] = "aside" /\ pc'[t] = "install" /\ UNCHANGED <<disk, latest, slot, job>>
        /\ exe # Absent /\ old' = exe /\ exe' = Absent /\ Alone(t)
    BY <1>11 DEF MovedAside, Goto, TypeOK, rules, Alone
  <2>2. pc[t] \in ApplyPCs /\ Goes(t)
    BY <2>1 DEF Goes, ApplyPCs, SwapPCs
  <2>3. TabInv(t)' /\ FilesInv'
    BY <1>1, <1>2, <2>1, UpToKept DEF TabInv, FilesInv
  <2> QED
    BY <1>2, <1>4, <2>1, <2>2, <2>3
<1>12. ASSUME NEW t \in Tabs, Installed(t) PROVE RulesInv'
  <2>1. /\ pc[t] = "install" /\ pc'[t] = "rules" /\ UNCHANGED <<disk, latest, slot, job, old>>
        /\ exe' = job[t].to /\ Alone(t)
    BY <1>12 DEF Installed, Goto, TypeOK, rules, Alone
  <2>2. job[t].to \in Releases
    BY <2>1 DEF PlansInv, PlanMade, Plan
  <2>3. pc[t] \in ApplyPCs /\ Goes(t)
    BY <2>1 DEF Goes, ApplyPCs, SwapPCs
  <2>4. UpTo(job[t].to)'
    BY <1>1, <1>2, <2>1, UpToKept DEF TabInv
  <2>5. TabInv(t)' /\ FilesInv'
    BY <1>1, <1>2, <2>1, <2>2, <2>4, UpToKept DEF TabInv, FilesInv
  <2> QED
    BY <1>2, <1>4, <2>1, <2>3, <2>5
<1>13. ASSUME NEW t \in Tabs, Restored(t) PROVE RulesInv'
  <2>1. Reply(t) /\ UNCHANGED <<disk, latest, slot>> /\ exe = Absent /\ pc[t] \in ApplyPCs
    BY <1>13 DEF Restored, rules, SwapInv, ApplyPCs, SwapPCs
  <2>2. (exe' = old /\ old # Absent) \/ UNCHANGED <<exe, old>>
    BY <1>13 DEF Restored
  <2>3. FilesInv'
    BY <1>1, <1>2, <2>1, <2>2, UpToKept DEF FilesInv
  <2> QED
    BY <1>2, <1>5, <2>1, <2>3
<1>14. ASSUME NEW t \in Tabs, NEW q \in Rules, RuleApplied(t, q) PROVE RulesInv'
  <2>1. /\ pc[t] = "rules" /\ exe = job[t].to /\ UpTo(job[t].to) /\ pc[t] \in ApplyPCs
        /\ UNCHANGED <<latest, exe, old, slot, pc, job>>
    BY <1>1, <1>14 DEF RuleApplied, TabInv, ApplyPCs, install
  <2>2. job[t].to \in Releases /\ job[t].to <= latest
    BY <2>1 DEF PlansInv, PlanMade, Plan
  <2>3. disk'[q] \in {Ships[job[t].to][q], Absent} /\ \A r \in Rules \ {q} : disk'[r] = disk[r]
    BY <1>14 DEF RuleApplied, TypeOK
  <2>4. Ships[job[t].to][q] <= job[t].to
    BY <2>2
  <2>5. UpTo(job[t].to)'
    BY <2>1, <2>3, <2>4 DEF UpTo
  <2>6. ASSUME NEW v \in Releases, job[t].to <= v PROVE UpTo(v)'
    <3>1. ASSUME NEW r \in Rules, disk'[r] \in Releases PROVE disk'[r] <= v
      <4>1. disk'[r] \in Nat /\ disk'[r] <= job[t].to /\ job[t].to \in Nat /\ v \in Nat
        BY <2>1, <2>2, <2>5, <3>1 DEF UpTo
      <4> HIDE Contents
      <4> QED
        BY <2>6, <4>1
    <3> QED
      BY <2>1, <3>1 DEF UpTo
  <2>7. FilesInv'
    BY <2>1, <2>2, <2>5, <2>6 DEF FilesInv, TypeOK, UpTo
  <2>8. SlotInv'
    <3>1. slot # NoPlan => slot.to \in Releases /\ job[t].to <= slot.to
      BY <1>1, <2>1 DEF SlotInv, TypeOK, Plan
    <3> QED
      BY <1>1, <2>1, <2>6, <3>1 DEF SlotInv, UpTo
  <2>9. ASSUME NEW u \in Tabs PROVE TabInv(u)'
    <3>1. CASE u = t
      BY <1>1, <2>1, <2>5, <3>1 DEF TabInv, UpTo
    <3>2. CASE u # t
      <4>1. pc[u] # "idle" => job[u].to \in Releases /\ job[t].to <= job[u].to
        <5>1. PairInv(t, u)
          BY <1>1
        <5>2. pc[u] # "idle" => job[u] \in Plan
          BY DEF PlansInv, PlanMade
        <5> QED
          BY <2>1, <3>2, <5>1, <5>2 DEF PairInv, Plan
      <4>2. pc[u] # "idle" => UpTo(job[u].to)'
        BY <2>1, <2>6, <4>1 DEF UpTo
      <4> QED
        BY <1>1, <2>1, <4>2 DEF TabInv, UpTo
    <3> QED
      BY <3>1, <3>2
  <2>10. \A x, y \in Tabs : PairInv(x, y)'
    BY <1>1, <2>1 DEF PairInv
  <2> QED
    BY <2>7, <2>8, <2>9, <2>10 DEF RulesInv
<1>15. ASSUME NEW t \in Tabs, NEW q \in Rules, RuleTorn(t, q) PROVE RulesInv'
  <2>1. Reply(t) /\ UNCHANGED <<latest, slot, exe, old>>
    BY <1>15 DEF RuleTorn, install
  <2>2. NoneShipped
    BY <1>15 DEF RuleTorn, NoneShipped, TypeOK
  <2> QED
    BY <1>1, <1>5, <2>1, <2>2, FilesKept
<1>16. ASSUME NEW t \in Tabs, \/ PrepareFailed(t) \/ SwapFailed(t) \/ RulesFailed(t)
                              \/ SamplesDone(t)
       PROVE  RulesInv'
  <2>1. Reply(t) /\ UNCHANGED <<disk, latest, slot, exe, old>>
    BY <1>16 DEF PrepareFailed, SwapFailed, RulesFailed, SamplesDone, install, rules
  <2> QED
    BY <1>1, <1>2, <1>5, <2>1, FilesKept
<1>17. CASE Restart \/ Crash
  <2>1. /\ UNCHANGED <<disk, latest, exe>> /\ old' \in {old, Absent} /\ slot' = NoPlan
        /\ \A u \in Tabs : pc'[u] = "idle"
    BY <1>17 DEF Restart, Crash, Vanish, rules, install
  <2> QED
    BY <1>1, <1>2, <2>1, FilesKept, QuietKept
<1>18. CASE StartUp \/ UserRestores
  <2>1. running = Down /\ UNCHANGED <<disk, latest, slot, pc>>
    BY <1>18 DEF StartUp, UserRestores, rules
  <2>2. slot' = NoPlan /\ \A u \in Tabs : pc'[u] = "idle"
    BY <2>1 DEF PlansInv, PlanMade
  <2>3. FilesInv'
    <3>1. CASE StartUp
      BY <1>1, <1>2, <3>1, FilesKept DEF StartUp, rules
    <3>2. CASE UserRestores
      BY <1>1, <1>2, <2>1, <3>2, UpToKept DEF UserRestores, FilesInv
    <3> QED
      BY <1>18, <3>1, <3>2
  <2> QED
    BY <2>2, <2>3, QuietKept
<1>19. ASSUME UNCHANGED <<exe, old, pc, job>>, slot' \in {slot, NoPlan}, NoneShipped, FilesInv'
       PROVE  RulesInv'
  <2>1. \A u \in Tabs : TabInv(u)'
    BY <1>1, <1>19, TabKept
  <2>2. \A u \in Tabs : Goes(u)
    BY <1>19 DEF Goes
  <2> QED
    BY <1>1, <1>19, <2>1, <2>2, SlotKept, PairsKept DEF RulesInv
<1>20. CASE Release
  <2>1. UNCHANGED <<disk, exe, old, slot, pc, job>> /\ latest' = latest + 1
    BY <1>20 DEF Release, install, rules
  <2>2. UpTo(latest)'
    <3>1. ASSUME NEW r \in Rules, disk'[r] \in Releases PROVE disk'[r] <= latest'
      <4>1. disk'[r] \in Nat /\ latest \in Nat
        BY <3>1 DEF TypeOK
      <4>2. disk'[r] <= latest
        BY <1>1, <2>1, <3>1 DEF FilesInv, UpTo
      <4> HIDE Contents
      <4> QED
        BY <2>1, <4>1, <4>2
    <3> QED
      BY <3>1 DEF UpTo
  <2>3. FilesInv'
    BY <1>1, <1>2, <2>1, <2>2, UpToKept DEF FilesInv
  <2> QED
    BY <1>2, <1>19, <2>1, <2>3
<1>21. ASSUME \E r \in Rules : UserWrites(r) \/ UserDeletes(r) PROVE RulesInv'
  <2>1. UNCHANGED <<latest, exe, old, slot, pc, job>>
    BY <1>21 DEF UserWrites, UserDeletes, install
  <2>2. NoneShipped
    BY <1>21 DEF UserWrites, UserDeletes, NoneShipped, TypeOK
  <2> QED
    BY <1>1, <1>19, <2>1, <2>2, FilesKept
<1>22. CASE PlanExpires \/ UNCHANGED vars \/ \E t \in Tabs : ApplyRefused(t)
  <2>1. UNCHANGED <<disk, latest, exe, old, pc, job>> /\ slot' \in {slot, NoPlan}
    BY <1>22 DEF PlanExpires, ApplyRefused, vars, install, rules
  <2> QED
    BY <1>1, <1>2, <1>19, <2>1, FilesKept
<1> HIDE Contents
<1> QED
  BY <1>6, <1>7, <1>8, <1>9, <1>10, <1>11, <1>12, <1>13, <1>14, <1>15, <1>16, <1>17, <1>18,
     <1>20, <1>21, <1>22
  DEF Next, Request, Proceed, Prepare, Swap, ApplyRules, World

\* The files follow what was installed, and, while no apply overlapped another
\* request, the executable.
THEOREM FilesFollow == Spec => [](TypeOK /\ InstalledInv /\ RulesInv)
<1> DEFINE IInv == TypeOK /\ PlansInv /\ SwapInv /\ InstalledInv /\ RulesInv
<1>1. Init => IInv
  BY TypeInit, PlansInit, SwapInit, InstalledInit, RulesInit
<1>2. IInv /\ [Next]_vars => IInv'
  <2> SUFFICES ASSUME IInv, [Next]_vars PROVE IInv'
    OBVIOUS
  <2>1. TypeOK' /\ PlansInv' /\ SwapInv' /\ InstalledInv'
    BY TypeStep, PlansStep, SwapStep, InstalledStep
  <2>2. RulesInv'
    <3>1. CASE overlapped'
      BY <3>1 DEF RulesInv
    <3>2. CASE ~overlapped'
      BY <2>1, <3>2, RulesStep
    <3> QED
      BY <3>1, <3>2
  <2> QED
    BY <2>1, <2>2
<1>3. IInv => TypeOK /\ InstalledInv /\ RulesInv
  OBVIOUS
<1> QED
  BY <1>1, <1>2, <1>3, PTL DEF Spec

\* No rule file is of a release that was never installed, and, while no apply
\* overlapped another request, of one newer than the executable a start would run,
\* whatever fails and whenever the machine stops (Updater.Apply).
THEOREM RulesFollowBinary == Spec => []RulesNotAhead
<1>1. InstalledInv /\ RulesInv => RulesNotAhead
  BY DEF InstalledInv, RulesInv, FilesInv, UpTo, RulesNotAhead
<1> QED
  BY <1>1, FilesFollow, PTL

=============================================================================
