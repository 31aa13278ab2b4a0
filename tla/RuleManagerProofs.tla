--------------------------- MODULE RuleManagerProofs ---------------------------
(***************************************************************************)
(* Theorems about RuleManager, for every number of concurrent saves, every *)
(* set of rules and any number of changes behind the manager's back.       *)
(***************************************************************************)
EXTENDS RuleManager, FiniteSetTheorems, TLAPS

-----------------------------------------------------------------------------
(* Types *)

Contents == Drafts \cup {Flawed, Absent, Empty}

SavePCs == {"idle", "stat", "truncate", "write", "list", "read", "publish", "apply",
            "revert", "reply"}

Jobs == [name: Names \cup {NoJob.name}, draft: Drafts \cup {Flawed}, overwrite: BOOLEAN,
         rejected: BOOLEAN, outcome: {"none", "exists", "rejected", "saved"},
         before: Contents, alone: BOOLEAN]

RuleSets == UNION {[D -> Drafts] : D \in SUBSET Names}

TypeOK ==
  /\ disk \in [Names -> Contents]
  /\ reg \in RuleSets /\ engine \in RuleSets
  /\ pc \in [Savers -> SavePCs]
  /\ job \in [Savers -> Jobs]
  /\ todo \in [Savers -> SUBSET Names]
  /\ read \in [Savers -> RuleSets]
  /\ torn \subseteq Names
  /\ saves \in Nat /\ meddles \in Nat
  /\ \A s \in Savers : pc[s] # "idle" => job[s].name \in Names

-----------------------------------------------------------------------------
(* Every flawed file is what a failed write left, or has a save that will    *)
(* find it: one that has yet to list or to read it, and may still take it    *)
(* back.                                                                     *)

WillFind(s, n) ==
  /\ job[s].name = n /\ ~job[s].rejected
  /\ \/ pc[s] \in {"list", "revert"}
     \/ pc[s] = "read" /\ n \in todo[s]

FlawsFound ==
  /\ meddles = 0 =>
       \A n \in Names : disk[n] = Flawed => n \in torn \/ \E s \in Savers : WillFind(s, n)
  /\ \A s \in Savers : pc[s] \in {"stat", "truncate", "write"} => ~job[s].rejected

-----------------------------------------------------------------------------
(* What an undisturbed save knows of the directory at each of its steps.     *)

FileAsLeft(s) ==
  LET file == disk[job[s].name]
  IN  /\ pc[s] = "write" => file = Empty
      /\ pc[s] \in {"list", "read", "publish", "apply"} /\ ~job[s].rejected =>
           file = job[s].draft
      /\ pc[s] \in {"publish", "apply"} => read[s] = RulesOnDisk
      /\ pc[s] = "read" =>
           read[s] = Restrict(disk, {n \in Names : disk[n] \in Drafts} \ todo[s])
      /\ pc[s] = "apply" => reg = RulesOnDisk
      /\ job[s].outcome = "saved" =>
           /\ pc[s] = "reply"
           /\ file = job[s].draft
           /\ reg = RulesOnDisk /\ engine = RulesOnDisk

AloneKnows ==
  \A s \in Savers : pc[s] # "idle" /\ job[s].alone => Busy = {s} /\ FileAsLeft(s)

Inv == TypeOK /\ FlawsFound /\ AloneKnows

-----------------------------------------------------------------------------
(* Lemmas *)

\* No file, a truncated file and a file that does not load are three things.
LEMMA ContentsDiffer == Flawed # Absent /\ Flawed # Empty /\ Absent # Empty
<1>1. ASSUME NEW x, NEW y PROVE {Flawed, Absent, Empty} # {x, y}
  <2>1. IsFiniteSet({x}) /\ Cardinality({x}) = 1
    BY FS_Singleton
  <2>2. Cardinality({x} \cup {y}) = IF y \in {x} THEN 1 ELSE 2
    BY <2>1, FS_AddElement
  <2>3. {x} \cup {y} = {x, y}
    OBVIOUS
  <2>4. Cardinality({x, y}) # 3
    BY <2>2, <2>3
  <2> QED BY <2>4, ContentsAssumption
<1>2. Flawed = Absent => {Flawed, Absent, Empty} = {Absent, Empty}
  OBVIOUS
<1>3. Flawed = Empty => {Flawed, Absent, Empty} = {Absent, Empty}
  OBVIOUS
<1>4. Absent = Empty => {Flawed, Absent, Empty} = {Flawed, Empty}
  OBVIOUS
<1> QED BY <1>1, <1>2, <1>3, <1>4

LEMMA DraftsLoad == Flawed \notin Drafts /\ Absent \notin Drafts /\ Empty \notin Drafts
BY ContentsAssumption

\* A disturbance takes the "alone" of the saves in progress, and nothing else.
LEMMA DisturbKeeps ==
  ASSUME TypeOK, NEW t \in Savers
  PROVE  /\ Disturb(Busy)[t] \in Jobs
         /\ Disturb(Busy)[t].name = job[t].name
         /\ Disturb(Busy)[t].rejected = job[t].rejected
         /\ pc[t] # "idle" => ~Disturb(Busy)[t].alone
         /\ pc[t] = "idle" => Disturb(Busy)[t] = job[t]
<1> DEFINE j == job[t]
<1>1. j \in Jobs
  BY DEF TypeOK
<1> HIDE DEF j
<1>2. LET k == [j EXCEPT !.alone = FALSE]
      IN  k \in Jobs /\ k.name = j.name /\ k.rejected = j.rejected /\ ~k.alone
  BY <1>1 DEF Jobs
<1>3. Disturb(Busy)[t] = IF pc[t] # "idle" THEN [j EXCEPT !.alone = FALSE] ELSE j
  BY DEF Disturb, Busy, j
<1> QED BY <1>1, <1>2, <1>3 DEF j

\* A set of rules read from the directory is a rule set.
LEMMA RestrictedRules ==
  ASSUME TypeOK, NEW S, S \subseteq {n \in Names : disk[n] \in Drafts}
  PROVE  Restrict(disk, S) \in RuleSets
<1>1. Restrict(disk, S) \in [S -> Drafts] /\ S \subseteq Names
  BY DEF Restrict
<1> QED BY <1>1 DEF RuleSets

LEMMA NoRulesType == NoRules \in RuleSets
<1>1. NoRules \in [{} -> Drafts]
  BY DEF NoRules
<1> QED BY <1>1 DEF RuleSets

LEMMA TornContents ==
  ASSUME TypeOK, NEW n \in Names
  PROVE  \A c \in AfterFailedWrite(disk[n]) : c \in Contents
BY DEF TypeOK, AfterFailedWrite, Contents

LEMMA TypeStep ==
  ASSUME TypeOK, [Next]_vars
  PROVE  TypeOK'
<1>1. ASSUME NEW s \in Savers, NEW n \in Names, NEW d \in Drafts \cup {Flawed},
             NEW overwrite \in BOOLEAN, SaveRequested(s, n, d, overwrite)
      PROVE  TypeOK'
  <2> DEFINE new == [NoJob EXCEPT !.name = n, !.draft = d, !.overwrite = overwrite,
                                  !.before = disk[n], !.alone = (Busy = {})]
  <2>1. new \in Jobs /\ new.name = n
    BY DEF NoJob, Jobs, TypeOK
  <2> HIDE DEF new
  <2>2. job' = [Disturb(Busy) EXCEPT ![s] = new]
    BY <1>1 DEF SaveRequested, new
  <2>3. Disturb(Busy) \in [Savers -> Jobs]
    BY DisturbKeeps DEF Disturb
  <2>4. job' \in [Savers -> Jobs] /\ job'[s] = new
    BY <2>1, <2>2, <2>3
  <2>5. ASSUME NEW t \in Savers, pc'[t] # "idle" PROVE job'[t].name \in Names
    <3>1. CASE t = s
      BY <3>1, <2>1, <2>4
    <3>2. CASE t # s
      <4>1. job'[t] = Disturb(Busy)[t]
        BY <3>2, <2>2, <2>3
      <4>2. pc[t] # "idle"
        BY <3>2, <2>5, <1>1 DEF SaveRequested, Goto, TypeOK
      <4> QED BY <4>1, <4>2, DisturbKeeps DEF TypeOK
    <3> QED BY <3>1, <3>2
  <2> QED BY <1>1, <2>4, <2>5 DEF SaveRequested, Goto, TypeOK, SavePCs
<1>2. ASSUME NEW n \in Names, NEW content \in Drafts \cup {Flawed, Absent},
             Meddle(n, content)
      PROVE  TypeOK'
  <2>1. /\ job' \in [Savers -> Jobs]
        /\ \A t \in Savers : job'[t].name = job[t].name
    BY <1>2, DisturbKeeps DEF Meddle, Disturb
  <2> QED BY <1>2, <2>1 DEF Meddle, TypeOK, Contents
<1>3. ASSUME NEW s \in Savers, Save(s), job[s].name \in Names, UNCHANGED job PROVE TypeOK'
  <2>1. CASE MayWrite(s) \/ RulesRead(s) \/ Published(s)
    BY <2>1, <1>3 DEF MayWrite, RulesRead, Published, TypeOK, Goto, SavePCs
  <2>2. CASE Truncated(s)
    BY <2>2, <1>3 DEF Truncated, TypeOK, Goto, SavePCs, Contents
  <2>3. CASE Written(s)
    <3>1. \A c \in AfterWrite(disk[job[s].name], job[s].draft) : c \in Contents
      BY <1>3 DEF AfterWrite, TypeOK, Contents, Jobs
    <3> QED BY <2>3, <1>3, <3>1 DEF Written, TypeOK, Goto, SavePCs
  <2>4. CASE RulesListed(s)
    BY <2>4, <1>3, NoRulesType DEF RulesListed, TypeOK, Goto, SavePCs, Listed
  <2>5. ASSUME NEW n \in Names, RuleRead(s, n) PROVE TypeOK'
    <3> DEFINE r == read[s]
               q == [m \in DOMAIN r \cup {n} |-> IF m = n THEN disk[n] ELSE r[m]]
    <3>1. read' = read \/ (read' = [read EXCEPT ![s] = q] /\ disk[n] \in Drafts)
      BY <2>5 DEF RuleRead, TypeOK
    <3>2. r \in RuleSets
      BY DEF TypeOK
    <3>3. disk[n] \in Drafts => q \in RuleSets
      <4> HIDE DEF r
      <4>1. disk[n] \in Drafts => q \in [DOMAIN r \cup {n} -> Drafts]
        BY <3>2 DEF RuleSets
      <4>2. DOMAIN r \cup {n} \subseteq Names
        BY <3>2 DEF RuleSets
      <4> QED BY <4>1, <4>2 DEF RuleSets
    <3> HIDE DEF q
    <3>4. read' \in [Savers -> RuleSets]
      BY <3>1, <3>3 DEF TypeOK
    <3> QED BY <2>5, <1>3, <3>4 DEF RuleRead, TypeOK
  <2>6. CASE \E n \in Names : RuleUnreadable(s, n)
    BY <2>6, <1>3 DEF RuleUnreadable, TypeOK, Goto, SavePCs
  <2>7. CASE RuleExists(s) \/ WriteRefused(s)
    BY <2>7, <1>3 DEF RuleExists, WriteRefused, TypeOK, Goto, SavePCs
  <2>8. CASE Applied(s) \/ Reverted(s) \/ Replied(s)
    BY <2>8, <1>3, NoRulesType
       DEF Applied, Reverted, Replied, TypeOK, Goto, SavePCs, Contents
  <2>9. CASE WriteFailed(s)
    BY <2>9, <1>3, TornContents DEF WriteFailed, TypeOK, Goto, SavePCs
  <2> QED BY <1>3, <2>1, <2>2, <2>3, <2>4, <2>5, <2>6, <2>7, <2>8, <2>9 DEF Save, Reload
<1>4. ASSUME NEW s \in Savers, Save(s) PROVE job[s].name \in Names
  BY <1>4 DEF Save, Reload, RuleExists, MayWrite, WriteRefused, Truncated, Written,
     WriteFailed, RulesListed, RuleRead, RuleUnreadable, RulesRead, Published, Applied,
     Reverted, Replied, TypeOK
<1>5. ASSUME NEW s \in Savers, Save(s), job' # job PROVE TypeOK'
  <2> DEFINE j == job[s]
  <2>1. j \in Jobs /\ j.name \in Names
    BY <1>4, <1>5 DEF TypeOK
  <2>2. CASE Replied(s)
    <3>1. NoJob \in Jobs
      BY DEF NoJob, Jobs, Contents
    <3> QED BY <2>2, <3>1, NoRulesType DEF Replied, TypeOK, Goto, SavePCs
  <2>3. ASSUME NEW k \in Jobs, k.name = j.name, job' = [job EXCEPT ![s] = k],
               pc' = [pc EXCEPT ![s] = pc'[s]], pc'[s] \in SavePCs,
               disk' \in [Names -> Contents], engine' \in RuleSets, torn' \subseteq Names,
               UNCHANGED <<reg, todo, read, saves, meddles>>
        PROVE  TypeOK'
    BY <2>1, <2>3 DEF TypeOK
  <2> HIDE DEF j
  <2>4. \A o \in {"exists", "rejected", "saved"} :
          LET k == [j EXCEPT !.outcome = o] IN k \in Jobs /\ k.name = j.name
    BY <2>1 DEF Jobs
  <2>5. LET k == [j EXCEPT !.rejected = TRUE] IN k \in Jobs /\ k.name = j.name
    BY <2>1 DEF Jobs
  <2>6. CASE \/ RuleExists(s) \/ WriteRefused(s) \/ WriteFailed(s)
             \/ \E n \in Names : RuleUnreadable(s, n)
             \/ Applied(s)
    <3>1. \E o \in {"exists", "rejected", "saved"} :
            job' = [job EXCEPT ![s] = [j EXCEPT !.outcome = o]]
      BY <1>5, <2>6 DEF RuleExists, WriteRefused, WriteFailed, RuleUnreadable, Applied, j
    <3>2. /\ pc' = [pc EXCEPT ![s] = "reply"]
          /\ engine' \in RuleSets /\ UNCHANGED <<reg, todo, read, saves, meddles>>
      BY <1>5, <2>6 DEF RuleExists, WriteRefused, WriteFailed, RuleUnreadable, Applied,
         Goto, TypeOK
    <3>3. disk' \in [Names -> Contents] /\ torn' \subseteq Names
      <4>1. CASE WriteFailed(s)
        BY <2>1, <4>1, TornContents DEF WriteFailed, TypeOK, j
      <4>2. CASE ~WriteFailed(s)
        BY <2>6, <4>2 DEF RuleExists, WriteRefused, RuleUnreadable, Applied, TypeOK
      <4> QED BY <4>1, <4>2
    <3> QED BY <2>3, <2>4, <3>1, <3>2, <3>3 DEF TypeOK, SavePCs
  <2>7. CASE Reverted(s)
    <3>1. job' = [job EXCEPT ![s] = [j EXCEPT !.rejected = TRUE]]
      BY <2>7 DEF Reverted, j
    <3>2. /\ pc' = [pc EXCEPT ![s] = "list"] /\ disk' \in [Names -> Contents]
          /\ torn' \subseteq Names
          /\ UNCHANGED <<reg, engine, todo, read, saves, meddles>>
      BY <2>7, <1>5 DEF Reverted, Goto, TypeOK, Contents
    <3> QED BY <2>3, <2>5, <3>1, <3>2 DEF TypeOK, SavePCs
  <2> QED BY <1>5, <2>2, <2>6, <2>7 DEF Save, Reload, MayWrite, Truncated, Written,
          RulesListed, RuleRead, RulesRead, Published
<1>6. CASE UNCHANGED vars
  BY <1>6 DEF vars, TypeOK
<1> QED BY <1>1, <1>2, <1>3, <1>4, <1>5, <1>6 DEF Next

-----------------------------------------------------------------------------
(* No flawed rule is left behind                                             *)

\* A step of one save keeps FlawsFound when it leaves the other saves alone,
\* no flawed file appears that it will not find itself, and it does not lose
\* sight of one it would have found.
LEMMA FlawsStayFound ==
  ASSUME TypeOK, FlawsFound, NEW s \in Savers,
         meddles' = meddles,
         \A t \in Savers : t # s =>
           /\ pc'[t] = pc[t] /\ todo'[t] = todo[t]
           /\ job'[t].name = job[t].name /\ job'[t].rejected = job[t].rejected,
         \A n \in Names : disk'[n] = Flawed =>
           /\ disk[n] = Flawed \/ n \in torn' \/ WillFind(s, n)'
           /\ n \in torn => n \in torn' \/ WillFind(s, n)'
           /\ WillFind(s, n) => WillFind(s, n)',
         pc'[s] \in {"stat", "truncate", "write"} => ~job'[s].rejected
  PROVE  FlawsFound'
<1>1. ASSUME meddles' = 0, NEW n \in Names, disk'[n] = Flawed
      PROVE  n \in torn' \/ \E t \in Savers : WillFind(t, n)'
  <2>1. CASE WillFind(s, n)'
    BY <2>1
  <2>2. CASE n \in torn' \/ n \in torn
    BY <1>1, <2>2
  <2>3. CASE disk[n] = Flawed /\ n \notin torn
    <3>1. PICK t \in Savers : WillFind(t, n)
      BY <1>1, <2>3 DEF FlawsFound
    <3>2. CASE t = s
      BY <1>1, <3>1, <3>2
    <3>3. CASE t # s
      BY <3>1, <3>3 DEF WillFind
    <3> QED BY <3>2, <3>3
  <2> QED BY <1>1, <2>1, <2>2, <2>3
<1>2. \A t \in Savers : pc'[t] \in {"stat", "truncate", "write"} => ~job'[t].rejected
  BY DEF FlawsFound
<1> QED BY <1>1, <1>2 DEF FlawsFound

LEMMA FlawStep ==
  ASSUME TypeOK, FlawsFound, [Next]_vars
  PROVE  FlawsFound'
<1> USE ContentsDiffer, DraftsLoad
<1>1. ASSUME NEW s \in Savers, NEW n \in Names, NEW d \in Drafts \cup {Flawed},
             NEW overwrite \in BOOLEAN, SaveRequested(s, n, d, overwrite)
      PROVE  FlawsFound'
  <2>1. \A t \in Savers : t # s =>
          /\ pc'[t] = pc[t] /\ todo'[t] = todo[t]
          /\ job'[t].name = job[t].name /\ job'[t].rejected = job[t].rejected
    <3>1. \A t \in Savers : t # s => job'[t] = Disturb(Busy)[t]
      BY <1>1 DEF SaveRequested, Disturb
    <3> QED BY <1>1, <3>1, DisturbKeeps DEF SaveRequested, Goto, TypeOK
  <2>2. job'[s].rejected = FALSE
    BY <1>1 DEF SaveRequested, Disturb, NoJob
  <2>3. \A m : ~WillFind(s, m)
    BY <1>1 DEF SaveRequested, WillFind
  <2>4. disk' = disk /\ torn' = torn /\ meddles' = meddles
    BY <1>1 DEF SaveRequested
  <2> QED BY <2>1, <2>2, <2>3, <2>4, FlawsStayFound
<1>2. ASSUME NEW n \in Names, NEW content, Meddle(n, content) PROVE FlawsFound'
  <2>1. meddles' # 0
    BY <1>2 DEF Meddle, TypeOK
  <2>2. \A t \in Savers : job'[t].rejected = job[t].rejected /\ pc'[t] = pc[t]
    <3>1. \A t \in Savers : job'[t] = Disturb(Busy)[t]
      BY <1>2 DEF Meddle, Disturb
    <3> QED BY <1>2, <3>1, DisturbKeeps DEF Meddle
  <2> QED BY <2>1, <2>2 DEF FlawsFound
<1>3. ASSUME NEW s \in Savers, Save(s) PROVE FlawsFound'
  <2>1. /\ meddles' = meddles
        /\ \A t \in Savers : t # s =>
             pc'[t] = pc[t] /\ todo'[t] = todo[t] /\ job'[t] = job[t]
    BY <1>3 DEF Save, Reload, RuleExists, MayWrite, WriteRefused, Truncated, Written,
       WriteFailed, RulesListed, RuleRead, RuleUnreadable, RulesRead, Published, Applied,
       Reverted, Replied, Goto, TypeOK
  <2> DEFINE Finds == \A n \in Names : disk'[n] = Flawed =>
                        /\ disk[n] = Flawed \/ n \in torn' \/ WillFind(s, n)'
                        /\ n \in torn => n \in torn' \/ WillFind(s, n)'
                        /\ WillFind(s, n) => WillFind(s, n)'
             Fresh == pc'[s] \in {"stat", "truncate", "write"} => ~job'[s].rejected
  <2>2. ASSUME RuleExists(s) \/ WriteRefused(s) \/ WriteFailed(s) \/ Replied(s) PROVE Finds /\ Fresh
    BY <2>2 DEF RuleExists, WriteRefused, WriteFailed, Replied, Goto, WillFind, TypeOK
  <2>3. ASSUME MayWrite(s) PROVE Finds /\ Fresh
    BY <2>3 DEF MayWrite, Goto, WillFind, FlawsFound, TypeOK
  <2>4. ASSUME Truncated(s) PROVE Finds /\ Fresh
    BY <2>4 DEF Truncated, Goto, WillFind, FlawsFound, TypeOK
  <2>5. ASSUME Written(s) PROVE Finds /\ Fresh
    <3>1. /\ \A n \in Names : n # job[s].name =>
               disk'[n] = disk[n] /\ (n \in torn => n \in torn')
          /\ pc[s] = "write" /\ pc'[s] = "list" /\ job' = job
      BY <2>5 DEF Written, Goto, TypeOK
    <3>2. ~job[s].rejected
      BY <3>1 DEF FlawsFound
    <3> QED BY <3>1, <3>2 DEF WillFind
  <2>6. ASSUME RulesListed(s) PROVE Finds /\ Fresh
    <3>1. /\ disk' = disk /\ torn' = torn /\ job' = job
          /\ pc[s] = "list" /\ pc'[s] = "read" /\ todo'[s] = Listed
      BY <2>6 DEF RulesListed, Goto, TypeOK
    <3>2. \A n \in Names : disk[n] = Flawed => n \in Listed
      BY DEF Listed
    <3> QED BY <3>1, <3>2 DEF WillFind
  <2>7. ASSUME \E n \in Names : RuleRead(s, n) PROVE Finds /\ Fresh
    BY <2>7 DEF RuleRead, WillFind, TypeOK, FlawsFound
  <2>8. ASSUME \E n \in Names : RuleUnreadable(s, n) PROVE Finds /\ Fresh
    BY <2>8 DEF RuleUnreadable, Goto, WillFind, TypeOK
  <2>9. ASSUME RulesRead(s) \/ Published(s) \/ Applied(s) PROVE Finds /\ Fresh
    BY <2>9 DEF RulesRead, Published, Applied, Goto, WillFind, TypeOK
  <2>10. ASSUME Reverted(s) PROVE Finds /\ Fresh
    BY <2>10 DEF Reverted, Goto, WillFind, TypeOK
  <2>11. Finds /\ Fresh
    BY <1>3, <2>2, <2>3, <2>4, <2>5, <2>6, <2>7, <2>8, <2>9, <2>10 DEF Save, Reload
  <2> HIDE DEF Finds, Fresh
  <2> QED BY <2>1, <2>11, FlawsStayFound DEF Finds, Fresh
<1>4. CASE UNCHANGED vars
  BY <1>4 DEF vars, FlawsFound, WillFind
<1> QED BY <1>1, <1>2, <1>3, <1>4 DEF Next

-----------------------------------------------------------------------------
(* What an undisturbed save leaves                                           *)

\* RulesOnDisk and the rules read so far depend on the directory only.
LEMMA SameDirectory ==
  ASSUME UNCHANGED disk
  PROVE  RulesOnDisk' = RulesOnDisk
BY DEF RulesOnDisk, Restrict

\* Reading one more file adds its rule, or nothing when the file is empty.
LEMMA OneMoreRead ==
  ASSUME TypeOK, NEW s \in Savers, NEW n \in Names, RuleRead(s, n),
         read[s] = Restrict(disk, {m \in Names : disk[m] \in Drafts} \ todo[s])
  PROVE  read'[s] = Restrict(disk, {m \in Names : disk[m] \in Drafts} \ todo'[s])
<1> DEFINE D == {m \in Names : disk[m] \in Drafts}
<1>1. todo'[s] = todo[s] \ {n} /\ n \in todo[s]
  BY DEF RuleRead, TypeOK
<1>2. CASE disk[n] = Empty
  <2>1. D \ todo[s] = D \ todo'[s]
    BY <1>1, <1>2, DraftsLoad
  <2>2. read' = read
    BY <1>2 DEF RuleRead
  <2> QED BY <2>1, <2>2
<1>3. CASE disk[n] # Empty
  <2>1. disk[n] \in Drafts
    BY <1>3 DEF RuleRead
  <2> DEFINE r == read[s]
  <2>2. read'[s] = [m \in DOMAIN r \cup {n} |-> IF m = n THEN disk[n] ELSE r[m]]
    BY <1>3 DEF RuleRead, TypeOK
  <2>3. D \ todo'[s] = (D \ todo[s]) \cup {n}
    BY <1>1, <2>1
  <2>4. r = [m \in D \ todo[s] |-> disk[m]]
    BY DEF Restrict
  <2> HIDE DEF r, D
  <2>5. read'[s] = [m \in (D \ todo[s]) \cup {n} |-> disk[m]]
    BY <2>2, <2>4
  <2>6. read'[s] = Restrict(disk, D \ todo'[s])
    BY <2>3, <2>5 DEF Restrict
  <2> QED BY <2>6 DEF D
<1> QED BY <1>2, <1>3

\* A step of an undisturbed save.
LEMMA AloneSaveStep ==
  ASSUME TypeOK, NEW s \in Savers, Save(s), pc'[s] # "idle", FileAsLeft(s)
  PROVE  FileAsLeft(s)'
<1> DEFINE name == job[s].name
<1>0. job[s] \in Jobs /\ pc[s] # "idle"
  BY DEF Save, Reload, RuleExists, MayWrite, WriteRefused, Truncated, Written,
     WriteFailed, RulesListed, RuleRead, RuleUnreadable, RulesRead, Published, Applied,
     Reverted, Replied, TypeOK
<1>n. name \in Names
  BY <1>0 DEF TypeOK
<1>1. CASE RuleExists(s) \/ WriteRefused(s)
  <2>1. /\ UNCHANGED <<disk, reg, engine>> /\ pc'[s] = "reply"
        /\ pc[s] \in {"stat", "truncate"}
        /\ job'[s].outcome \in {"exists", "rejected"}
        /\ job'[s].name = name /\ job'[s].overwrite = job[s].overwrite
        /\ job'[s].before = job[s].before
    BY <1>0, <1>1 DEF RuleExists, WriteRefused, Goto, TypeOK, Jobs
  <2> QED BY <2>1 DEF FileAsLeft
<1>2. CASE MayWrite(s)
  <2>1. /\ UNCHANGED <<disk, reg, engine, job>> /\ pc[s] = "stat" /\ pc'[s] = "truncate"
        /\ disk[name] = Absent \/ job[s].overwrite
    BY <1>2 DEF MayWrite, Goto, TypeOK
  <2> QED BY <2>1, ContentsDiffer, <1>0 DEF FileAsLeft, Jobs
<1>3. CASE Truncated(s)
  <2>1. /\ UNCHANGED <<reg, engine, job>> /\ pc[s] = "truncate" /\ pc'[s] = "write"
        /\ disk'[name] = Empty
    BY <1>3, <1>n DEF Truncated, Goto, TypeOK
  <2> QED BY <2>1 DEF FileAsLeft
<1>4. CASE Written(s)
  <2>1. disk[name] = Empty
    BY <1>4 DEF Written, FileAsLeft
  <2>2. AfterWrite(disk[name], job[s].draft) = {job[s].draft}
    BY <2>1, ContentsDiffer DEF AfterWrite
  <2>3. /\ UNCHANGED <<reg, engine, job>> /\ pc[s] = "write" /\ pc'[s] = "list"
        /\ disk'[name] = job[s].draft
    BY <1>4, <1>n, <2>2 DEF Written, Goto, TypeOK
  <2> QED BY <2>3 DEF FileAsLeft
<1>5. CASE WriteFailed(s)
  <2>1. /\ UNCHANGED <<reg, engine>> /\ pc[s] = "write" /\ pc'[s] = "reply"
        /\ job'[s].outcome = "rejected"
        /\ job'[s].name = name /\ job'[s].overwrite = job[s].overwrite
        /\ job'[s].before = job[s].before
    BY <1>0, <1>5 DEF WriteFailed, Goto, TypeOK, Jobs
  <2> QED BY <2>1 DEF FileAsLeft
<1>6. CASE RulesListed(s)
  <2>1. /\ UNCHANGED <<disk, reg, engine, job>> /\ pc[s] = "list" /\ pc'[s] = "read"
        /\ todo'[s] = Listed /\ read'[s] = NoRules
    BY <1>6 DEF RulesListed, Goto, TypeOK
  <2>2. {n \in Names : disk[n] \in Drafts} \ Listed = {}
    BY DraftsLoad DEF Listed
  <2>3. NoRules = Restrict(disk, {})
    BY DEF NoRules, Restrict
  <2>4. read'[s] = Restrict(disk', {n \in Names : disk'[n] \in Drafts} \ todo'[s])
    BY <2>1, <2>2, <2>3
  <2> QED BY <2>1, <2>4 DEF FileAsLeft
<1>7. ASSUME NEW n \in Names, RuleRead(s, n) PROVE FileAsLeft(s)'
  <2>1. UNCHANGED <<disk, reg, engine, job, pc>> /\ pc[s] = "read"
    BY <1>7 DEF RuleRead
  <2>2. read'[s] = Restrict(disk', {m \in Names : disk'[m] \in Drafts} \ todo'[s])
    BY <1>7, <2>1, OneMoreRead DEF FileAsLeft
  <2> QED BY <2>1, <2>2 DEF FileAsLeft
<1>8. ASSUME NEW n \in Names, RuleUnreadable(s, n) PROVE FileAsLeft(s)'
  <2>1. /\ UNCHANGED <<disk, reg, engine>> /\ pc[s] = "read"
        /\ pc'[s] \in {"reply", "revert"}
        /\ job'[s].outcome \in {job[s].outcome, "rejected"}
        /\ job'[s].name = name /\ job'[s].overwrite = job[s].overwrite
        /\ job'[s].before = job[s].before
    BY <1>0, <1>8 DEF RuleUnreadable, Goto, TypeOK, Jobs
  <2> QED BY <2>1 DEF FileAsLeft
<1>9. CASE RulesRead(s)
  <2>1. /\ UNCHANGED <<disk, reg, engine, job, read>>
        /\ pc[s] = "read" /\ todo[s] = {} /\ pc'[s] = "publish"
    BY <1>9 DEF RulesRead, Goto, TypeOK
  <2>2. {n \in Names : disk[n] \in Drafts} \ todo[s] = {n \in Names : disk[n] \in Drafts}
    BY <2>1
  <2>3. read'[s] = RulesOnDisk'
    BY <2>1, <2>2, SameDirectory DEF FileAsLeft, RulesOnDisk
  <2> QED BY <2>1, <2>3 DEF FileAsLeft
<1>10. CASE Published(s)
  <2>1. /\ UNCHANGED <<disk, engine, job, read>> /\ reg' = read[s]
        /\ pc[s] = "publish" /\ pc'[s] = "apply"
    BY <1>10 DEF Published, Goto, TypeOK
  <2> QED BY <2>1, SameDirectory DEF FileAsLeft
<1>11. CASE Applied(s)
  <2>1. /\ UNCHANGED <<disk, reg>> /\ engine' = read[s]
        /\ pc[s] = "apply" /\ pc'[s] = "reply"
        /\ job'[s].outcome = IF job[s].rejected THEN "rejected" ELSE "saved"
        /\ job'[s].name = name /\ job'[s].overwrite = job[s].overwrite
        /\ job'[s].before = job[s].before /\ job'[s].draft = job[s].draft
    BY <1>0, <1>11 DEF Applied, Goto, TypeOK, Jobs
  <2> QED BY <2>1, SameDirectory DEF FileAsLeft
<1>12. CASE Reverted(s)
  <2>1. /\ UNCHANGED <<reg, engine>> /\ pc[s] = "revert" /\ pc'[s] = "list"
        /\ job'[s].rejected = TRUE /\ job'[s].outcome = job[s].outcome
        /\ job'[s].name = name /\ job'[s].overwrite = job[s].overwrite
        /\ job'[s].before = job[s].before
    BY <1>0, <1>12 DEF Reverted, Goto, TypeOK, Jobs
  <2> QED BY <2>1 DEF FileAsLeft
<1>13. CASE Replied(s)
  BY <1>13 DEF Replied, Goto, TypeOK
<1> QED BY <1>1, <1>2, <1>3, <1>4, <1>5, <1>6, <1>7, <1>8, <1>9, <1>10, <1>11, <1>12,
           <1>13 DEF Save, Reload

LEMMA AloneStep ==
  ASSUME TypeOK, AloneKnows, [Next]_vars
  PROVE  AloneKnows'
<1>1. ASSUME NEW s \in Savers, Save(s) PROVE AloneKnows'
  <2>1. /\ pc[s] # "idle"
        /\ \A t \in Savers : t # s => pc'[t] = pc[t] /\ job'[t] = job[t]
    BY <1>1 DEF Save, Reload, RuleExists, MayWrite, WriteRefused, Truncated, Written,
       WriteFailed, RulesListed, RuleRead, RuleUnreadable, RulesRead, Published, Applied,
       Reverted, Replied, Goto, TypeOK
  <2>2. pc'[s] # "idle" /\ job'[s].alone => job[s].alone
    <3>1. CASE Replied(s)
      BY <3>1 DEF Replied, Goto, TypeOK
    <3>2. CASE ~Replied(s)
      <4>1. \/ job' = job
            \/ \E o \in {"exists", "rejected", "saved"} :
                 job' = [job EXCEPT ![s].outcome = o]
            \/ job' = [job EXCEPT ![s].rejected = TRUE]
        BY <1>1, <3>2 DEF Save, Reload, RuleExists, MayWrite, WriteRefused, Truncated,
           Written, WriteFailed, RulesListed, RuleRead, RuleUnreadable, RulesRead,
           Published, Applied, Reverted
      <4>2. job[s] \in Jobs
        BY DEF TypeOK
      <4>3. job'[s].alone = job[s].alone
        BY <4>1, <4>2 DEF TypeOK, Jobs
      <4> QED BY <4>3
    <3> QED BY <3>1, <3>2
  <2>3. ASSUME NEW t \in Savers, pc'[t] # "idle", job'[t].alone
        PROVE  t = s /\ Busy = {s}
    BY <2>1, <2>2, <2>3 DEF AloneKnows, Busy
  <2>4. ASSUME pc'[s] # "idle", job'[s].alone PROVE Busy' = {s} /\ FileAsLeft(s)'
    <3>1. Busy = {s} /\ FileAsLeft(s)
      BY <2>1, <2>2, <2>4 DEF AloneKnows
    <3>2. Busy' = {s}
      BY <2>1, <2>4, <3>1 DEF Busy
    <3> QED BY <1>1, <2>4, <3>1, <3>2, AloneSaveStep
  <2> QED BY <2>3, <2>4 DEF AloneKnows
<1>2. ASSUME NEW s \in Savers, NEW n \in Names, NEW d \in Drafts \cup {Flawed},
             NEW overwrite \in BOOLEAN, SaveRequested(s, n, d, overwrite)
      PROVE  AloneKnows'
  <2> DEFINE new == [NoJob EXCEPT !.name = n, !.draft = d, !.overwrite = overwrite,
                                  !.before = disk[n], !.alone = (Busy = {})]
  <2>1. /\ new.name = n /\ new.before = disk[n] /\ new.outcome = "none"
        /\ new.alone = (Busy = {})
    BY DEF NoJob
  <2> HIDE DEF new
  <2>2. /\ job' = [Disturb(Busy) EXCEPT ![s] = new]
        /\ pc' = [pc EXCEPT ![s] = "stat"] /\ disk' = disk
    BY <1>2 DEF SaveRequested, Goto, new
  <2>3. job'[s] = new /\ \A t \in Savers : t # s => job'[t] = Disturb(Busy)[t]
    BY <2>2 DEF Disturb
  <2>4. ASSUME NEW t \in Savers, t # s, pc'[t] # "idle" PROVE ~job'[t].alone
    BY <2>2, <2>3, <2>4, DisturbKeeps DEF TypeOK
  <2>5. ASSUME job'[s].alone PROVE Busy' = {s} /\ FileAsLeft(s)'
    <3>1. Busy = {}
      BY <2>1, <2>3, <2>5
    <3>2. Busy' = {s}
      BY <2>2, <3>1 DEF Busy, TypeOK
    <3>3. pc'[s] = "stat" /\ disk'[job'[s].name] = job'[s].before
          /\ job'[s].outcome = "none"
      BY <2>1, <2>2, <2>3 DEF TypeOK
    <3> QED BY <3>2, <3>3 DEF FileAsLeft
  <2> QED BY <2>4, <2>5 DEF AloneKnows
<1>3. ASSUME NEW n \in Names, NEW content, Meddle(n, content) PROVE AloneKnows'
  <2>1. \A t \in Savers : job'[t] = Disturb(Busy)[t] /\ pc'[t] = pc[t]
    BY <1>3 DEF Meddle, Disturb
  <2>2. \A t \in Savers : pc'[t] # "idle" => ~job'[t].alone
    BY <2>1, DisturbKeeps
  <2> QED BY <2>2 DEF AloneKnows
<1>4. CASE UNCHANGED vars
  <2>1. \A t \in Savers : FileAsLeft(t) => FileAsLeft(t)'
    BY <1>4, SameDirectory DEF vars, FileAsLeft
  <2> QED BY <1>4, <2>1 DEF AloneKnows, Busy, vars
<1> QED BY <1>1, <1>2, <1>3, <1>4 DEF Next

-----------------------------------------------------------------------------
LEMMA InitInv == Init => Inv
<1> SUFFICES ASSUME Init PROVE Inv
  OBVIOUS
<1>1. TypeOK
  <2>1. disk \in [Names -> Contents]
    BY DEF Init, Contents
  <2>2. NoJob \in Jobs
    BY DEF NoJob, Jobs, Contents
  <2>3. RulesOnDisk \in RuleSets
    <3>1. RulesOnDisk \in [{n \in Names : disk[n] \in Drafts} -> Drafts]
      BY DEF RulesOnDisk, Restrict
    <3> QED BY <3>1 DEF RuleSets
  <2> QED BY <2>1, <2>2, <2>3, NoRulesType DEF Init, TypeOK, SavePCs
<1>2. FlawsFound
  BY ContentsDiffer, DraftsLoad DEF Init, FlawsFound
<1>3. AloneKnows
  BY DEF Init, AloneKnows
<1> QED BY <1>1, <1>2, <1>3 DEF Inv

LEMMA InductiveInvariant == Spec => []Inv
<1>1. Inv /\ [Next]_vars => Inv'
  BY TypeStep, FlawStep, AloneStep DEF Inv
<1> QED BY <1>1, InitInv, PTL DEF Spec

\* Every variable of the manager and of the saves in progress keeps its type.
THEOREM TypeCorrect == Spec => []TypeOK
<1>1. Inv => TypeOK
  BY DEF Inv
<1> QED BY <1>1, InductiveInvariant, PTL

\* When every save has returned, the only files that do not load, in a directory
\* that nobody else spoilt, are heads of writes that failed (NoFlawedRuleLeft),
\* although the saves of two tabs may truncate, write and remove the same file
\* between each other's steps.
THEOREM NothingFlawedStays == Spec => []NoFlawedRuleLeft
<1>1. Inv => NoFlawedRuleLeft
  BY DEF Inv, FlawsFound, WillFind, NoFlawedRuleLeft, Busy
<1> QED BY <1>1, InductiveInvariant, PTL

\* After an undisturbed save that succeeds, the manager and the engine use the
\* rules on disk and the saved rule is one of them (SavedIsActive).
THEOREM SavedRuleActive == Spec => []SavedIsActive
<1>1. Inv => SavedIsActive
  BY DEF Inv, AloneKnows, FileAsLeft, SavedIsActive
<1> QED BY <1>1, InductiveInvariant, PTL

=============================================================================
