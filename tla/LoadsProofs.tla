----------------------------- MODULE LoadsProofs -----------------------------
(***************************************************************************)
(* Theorems about Loads and the settings store it composes, for every      *)
(* archive, folder, number of callers and value of the caps and bounds.    *)
(***************************************************************************)
EXTENDS Loads, TLAPS, WellFoundedInduction, FiniteSetTheorems, SequenceTheorems

-----------------------------------------------------------------------------
(* Types *)

Shown == {i \in DOMAIN Entries : ~Entries[i].isDir}

EntryItems == {EntryItem(i) : i \in Shown}

FileItems == [entry: {0}, base: Names]

Items == EntryItems \cup FileItems

\* What an error is listed under.
Listed == Items \cup {Archive}

\* Where an entry is being extracted, or about to be loaded.
EntrySteps == {"stat", "open", "copy"}

Steps == EntrySteps \cup {"idle", "next", "load", "update", "saving"}

RequestTypeOK ==
  /\ pc \in [Callers -> Steps]
  /\ kind \in [Callers -> {"none", "one", "archive", "folder", "settings"}]
  /\ todo \in [Callers -> Seq(Items)]
  /\ at \in [Callers -> Nat]
  /\ linked \in [Callers -> BOOLEAN]
  /\ done \in [Callers -> SUBSET Items] /\ errors \in [Callers -> SUBSET Listed]
  /\ gone \in [Callers -> BOOLEAN]

FilesTypeOK ==
  /\ disk \in [Names -> Seq(Int)]
  /\ loaded \in [Names -> Seq(Int)]
  /\ clashed \subseteq Names /\ wrong \subseteq Items

\* What the step of a request says about the item at hand.
AtHand ==
  \A c \in Callers :
    /\ pc[c] \in EntrySteps \cup {"load"} => todo[c] # << >>
    /\ pc[c] \in EntrySteps => Item(c).entry # 0
    /\ pc[c] # "copy" => at[c] = 0 /\ ~linked[c]

TypeInv == RequestTypeOK /\ FilesTypeOK /\ AtHand

-----------------------------------------------------------------------------
(* The settings.  While any Save is under way nobody changes the record, so  *)
(* all of them write the same one.                                           *)

StoreInv ==
  /\ save \in [Callers -> {"none", "save"} \cup SaveSteps]
  /\ DOMAIN image = Callers
  /\ ~up => \A c \in Callers : save[c] = "none" /\ pc[c] = "idle"
  /\ \A c \in Callers : save[c] \in SaveSteps => image[c] = settings
  /\ up /\ intact /\ file # settings => \E c \in Callers : save[c] # "none"

-----------------------------------------------------------------------------
(* The lists of a batch.  Each entry is still to do, done or failed, and     *)
(* only one of them.                                                         *)

Accounted(c) ==
  /\ done[c] \cup errors[c] \cup ToSet(todo[c]) = ToSet(ZipListing)
  /\ done[c] \cap errors[c] = {}
  /\ (done[c] \cup errors[c]) \cap ToSet(todo[c]) = {}
  /\ IsInjective(todo[c])
  /\ pc[c] \in {"update", "saving"} => todo[c] = << >> \/ gone[c]

\* Unless the archive could not be read.
Unread(c) ==
  /\ pc[c] \in {"update", "saving"} /\ todo[c] = << >>
  /\ done[c] = {} /\ errors[c] = {Archive}

CallerAccounted(c) ==
  /\ kind[c] = "archive" => Accounted(c) \/ Unread(c)
  /\ ~Batch(c) => errors[c] = {}
  /\ ~Batch(c) /\ pc[c] \notin {"update", "saving"} => done[c] = {}
  /\ pc[c] = "idle" => kind[c] = "none"

BatchesAccounted == \A c \in Callers : CallerAccounted(c)

-----------------------------------------------------------------------------
(* The copies.  A name that no two requests have extracted to at once holds, *)
(* for an entry it belongs to alone, what the user had there, nothing, or a  *)
(* beginning of the entry; and the request that extracts it knows which.     *)

Prefix(i, k) == [j \in 1..k |-> i]

Held(i, n) ==
  /\ \/ disk[n] = Absent
     \/ disk[n] = Before[n] /\ Len(Before[n]) # Entries[i].declared
     \/ disk[n] = Prefix(i, Len(disk[n]))
  /\ \A c \in Extracting(n) :
       /\ pc[c] = "copy" => linked[c] /\ disk[n] = Prefix(i, at[c])
       /\ pc[c] = "load" => disk[n] = Whole(i)

OneExtracts == \A n \in Names \ clashed : \A c, d \in Extracting(n) : c = d

CopiesHeld ==
  /\ OneExtracts
  /\ \A i \in Shown, n \in Names \ clashed :
       Plain(i) /\ n = Entries[i].base => Held(i, n)
  /\ LoadedIsTheEntry

-----------------------------------------------------------------------------
(* The running total of a batch.  Whatever a file holds of an entry is in its *)
(* place in a file of the entry's name, so the cells of the entries done can  *)
(* be counted by entry, and the total has counted each of these entries.      *)

CellsPlaced ==
  \A n \in Names : \A k \in DOMAIN disk[n] :
    disk[n][k] \in DOMAIN Entries =>
      Entries[disk[n][k]].base = n /\ k <= Entries[disk[n][k]].actual

Slack == IF \A i \in DOMAIN Entries : Honest(i) THEN 0 ELSE EntryCap

\* The entries whose size the total has.
Counting(c) == done[c] \cup (IF pc[c] = "load" THEN {Item(c)} ELSE {})

CellsOf(S) ==
  UNION {{i} \X (1..Entries[i].actual) : i \in {j \in Shown : Honest(j) /\ EntryItem(j) \in S}}

CountOK(c) ==
  /\ total[c] <= TotalCap + Slack
  /\ Batch(c) /\ pc[c] \in {"open", "copy"} => total[c] + EntryOf(c).declared <= TotalCap
  /\ kind[c] = "archive" => /\ IsFiniteSet(CellsOf(Counting(c)))
                            /\ Cardinality(CellsOf(Counting(c))) <= total[c]

CountInv == total \in [Callers -> Nat] /\ \A c \in Callers : CountOK(c)

-----------------------------------------------------------------------------
(* The listings *)

\* A set of natural numbers has a smallest element.
LEMMA NatMin ==
  ASSUME NEW T, T \subseteq Nat, T # {}
  PROVE  \E x \in T : \A y \in T : x <= y
<1>1. IsWellFoundedOn(OpToRel(<, Nat), Nat)
  BY NatLessThanWellFounded
<1>2. PICK x \in T : \A y \in T : ~ (<<y, x>> \in OpToRel(<, Nat))
  BY <1>1, WFMin
<1>3. \A y \in T : ~ (y < x)
  BY <1>2 DEF OpToRel
<1> QED BY <1>3

\* A sequence of as many different elements as a finite set has is a listing of
\* that set.
LEMMA ListsAll ==
  ASSUME NEW S, IsFiniteSet(S), NEW s \in [1..Cardinality(S) -> S], IsInjective(s)
  PROVE  s \in Seq(S) /\ ToSet(s) = S /\ Len(s) = Cardinality(S)
<1>1. Cardinality(S) \in Nat
  BY FS_CardinalityType
<1>2. Cardinality(1..Cardinality(S)) = Cardinality(S)
  BY <1>1, FS_Interval
<1>3. s \in Injection(1..Cardinality(S), S)
  BY DEF Injection
<1>4. s \in Surjection(1..Cardinality(S), S)
  BY <1>2, <1>3, FS_Injection
<1>5. ToSet(s) = S
  BY <1>4 DEF Surjection, ToSet
<1> QED BY <1>1, <1>5

\* SetToSeq lists a finite set.
LEMMA SetToSeqLists ==
  ASSUME NEW S, IsFiniteSet(S)
  PROVE  SetToSeq(S) \in Seq(S) /\ IsInjective(SetToSeq(S)) /\ ToSet(SetToSeq(S)) = S
<1>1. ExistsBijection(1..Cardinality(S), S)
  BY FS_CardinalityType
<1>2. \E f \in [1..Cardinality(S) -> S] : IsInjective(f)
  BY <1>1 DEF ExistsBijection, Bijection, Injection
<1>3. SetToSeq(S) \in [1..Cardinality(S) -> S] /\ IsInjective(SetToSeq(S))
  BY <1>2 DEF SetToSeq
<1> QED BY <1>3, ListsAll

Ascending(s) == \A j, k \in DOMAIN s : j < k => s[j] < s[k]

ShownUpTo(m) == {i \in 1..m : ~Entries[i].isDir}

LEMMA ShownFinite ==
  /\ Len(Entries) \in Nat /\ DOMAIN Entries = 1..Len(Entries)
  /\ Shown = ShownUpTo(Len(Entries)) /\ IsFiniteSet(Shown) /\ Shown \subseteq Nat
  /\ \A m \in Nat : IsFiniteSet(ShownUpTo(m))
<1>1. Len(Entries) \in Nat /\ DOMAIN Entries = 1..Len(Entries)
  BY ArchiveAssumption, LenProperties
<1>2. Shown = ShownUpTo(Len(Entries))
  BY <1>1 DEF Shown, ShownUpTo
<1>3. ASSUME NEW m \in Nat PROVE IsFiniteSet(ShownUpTo(m))
  <2>1. IsFiniteSet(1..m)
    BY FS_Interval
  <2>2. ShownUpTo(m) \in SUBSET (1..m)
    BY DEF ShownUpTo
  <2> QED BY <2>1, <2>2, FS_Subset
<1>4. Shown \subseteq Nat
  BY <1>1 DEF Shown
<1> QED BY <1>1, <1>2, <1>3, <1>4

\* The entries shown among the first m can be listed in ascending order, for each
\* m: there is no smallest m for which they cannot.
LEMMA AscendingExists ==
  \A m \in Nat : \E s \in [1..Cardinality(ShownUpTo(m)) -> ShownUpTo(m)] : Ascending(s)
<1> DEFINE Can(m) == \E s \in [1..Cardinality(ShownUpTo(m)) -> ShownUpTo(m)] : Ascending(s)
           Cannot == {m \in Nat : ~Can(m)}
<1>1. Can(0)
  <2>1. ShownUpTo(0) = {} /\ Cardinality(ShownUpTo(0)) = 0
    BY FS_EmptySet DEF ShownUpTo
  <2>2. << >> \in [1..0 -> {}] /\ Ascending(<< >>)
    BY DEF Ascending
  <2> QED BY <2>1, <2>2
<1>2. ASSUME NEW m \in Nat, Can(m) PROVE Can(m + 1)
  <2> DEFINE S == ShownUpTo(m)
             n == Cardinality(S)
  <2>1. IsFiniteSet(S) /\ n \in Nat
    BY ShownFinite, FS_CardinalityType
  <2>2. PICK s \in [1..n -> S] : Ascending(s)
    BY <1>2
  <2>3. CASE Entries[m + 1].isDir
    <3>1. ShownUpTo(m + 1) = S
      BY <2>3 DEF ShownUpTo
    <3> QED BY <3>1, <1>2
  <2>4. CASE ~Entries[m + 1].isDir
    <3>1. ShownUpTo(m + 1) = S \cup {m + 1} /\ m + 1 \notin S
      BY <2>4 DEF ShownUpTo
    <3>2. Cardinality(ShownUpTo(m + 1)) = n + 1
      BY <3>1, <2>1, FS_AddElement
    <3> DEFINE t == [k \in 1..(n + 1) |-> IF k = n + 1 THEN m + 1 ELSE s[k]]
    <3>3. t \in [1..(n + 1) -> S \cup {m + 1}]
      BY <2>1
    <3>4. S \subseteq 1..m
      BY DEF ShownUpTo
    <3> HIDE DEF n, S
    <3>5. Ascending(t)
      <4> SUFFICES ASSUME NEW j \in 1..(n + 1), NEW k \in 1..(n + 1), j < k
                   PROVE  t[j] < t[k]
        BY DEF Ascending
      <4>1. j \in 1..n
        BY <2>1
      <4>2. CASE k = n + 1
        <5>1. s[j] \in S
          BY <4>1, <2>2
        <5>2. s[j] \in 1..m
          BY <5>1, <3>4
        <5>3. s[j] < m + 1
          BY <5>2
        <5>4. t[j] = s[j]
          BY <4>1, <2>1
        <5>5. t[k] = m + 1
          BY <4>2
        <5> QED BY <5>3, <5>4, <5>5
      <4>3. CASE k # n + 1
        BY <4>1, <4>3, <2>1, <2>2 DEF Ascending
      <4> QED BY <4>2, <4>3
    <3> QED BY <3>1, <3>2, <3>3, <3>5
  <2> QED BY <2>3, <2>4
<1>3. Cannot = {}
  <2> SUFFICES ASSUME Cannot # {} PROVE FALSE
    OBVIOUS
  <2>1. PICK x \in Cannot : \A y \in Cannot : x <= y
    BY NatMin
  <2> HIDE DEF Can
  <2>2. x # 0
    BY <1>1
  <2>3. x - 1 \in Nat /\ x - 1 \notin Cannot
    BY <2>1, <2>2
  <2>4. Can(x - 1 + 1)
    BY <2>3, <1>2
  <2>5. x - 1 + 1 = x
    OBVIOUS
  <2> QED BY <2>4, <2>5
<1> QED BY <1>3

\* The listing of the archive holds each entry that is not a directory, once, and
\* in the order of the archive.
LEMMA ZipListingLists ==
  /\ ZipListing \in Seq(EntryItems) /\ IsInjective(ZipListing)
  /\ ToSet(ZipListing) = EntryItems
<1> DEFINE order == CHOOSE s \in SetToSeqs(Shown) :
                      \A j, k \in DOMAIN s : j < k => s[j] < s[k]
<1>1. \E s \in SetToSeqs(Shown) : \A j, k \in DOMAIN s : j < k => s[j] < s[k]
  <2>1. PICK s \in [1..Cardinality(Shown) -> Shown] : Ascending(s)
    BY ShownFinite, AscendingExists
  <2>2. Cardinality(Shown) \in Nat
    BY ShownFinite, FS_CardinalityType
  <2>3. ASSUME NEW i \in 1..Cardinality(Shown), NEW j \in 1..Cardinality(Shown), i # j
        PROVE  s[i] # s[j]
    <3>1. s[i] \in Nat /\ s[j] \in Nat
      BY ShownFinite
    <3>2. i < j \/ j < i
      BY <2>2, <2>3
    <3> QED BY <2>1, <3>1, <3>2 DEF Ascending
  <2> QED BY <2>1, <2>3 DEF SetToSeqs, Ascending
<1>2. order \in SetToSeqs(Shown)
  BY <1>1
<1>3. ZipListing = [k \in DOMAIN order |-> EntryItem(order[k])]
  BY DEF ZipListing, Shown
<1> HIDE DEF order
<1>4. order \in [1..Cardinality(Shown) -> Shown] /\ IsInjective(order)
  BY <1>2 DEF SetToSeqs, IsInjective
<1>5. order \in Seq(Shown) /\ ToSet(order) = Shown /\ DOMAIN order = 1..Len(order)
      /\ Len(order) \in Nat
  BY <1>4, ShownFinite, ListsAll, LenProperties
<1>6. \A k \in 1..Len(order) : ZipListing[k] = EntryItem(order[k]) /\ order[k] \in Shown
  BY <1>3, <1>5
<1>7. ZipListing \in Seq(EntryItems)
  BY <1>3, <1>5, <1>6 DEF EntryItems
<1>8. IsInjective(ZipListing)
  BY <1>3, <1>4, <1>5, <1>6 DEF IsInjective, EntryItem
<1>9. ToSet(ZipListing) = EntryItems
  BY <1>3, <1>5, <1>6 DEF ToSet, EntryItems
<1> QED BY <1>7, <1>8, <1>9

\* The folder's listing holds files of the folder.
LEMMA FolderListingLists == FolderListing \in Seq(FileItems)
<1> DEFINE there == {n \in Names : disk[n] # Absent}
           order == SetToSeq(there)
<1>1. IsFiniteSet(there) /\ there \subseteq Names
  BY ArchiveAssumption, FS_Subset
<1>2. order \in Seq(there) /\ DOMAIN order = 1..Len(order) /\ Len(order) \in Nat
  BY <1>1, SetToSeqLists, LenProperties
<1>3. FolderListing = [k \in DOMAIN order |-> [entry |-> 0, base |-> order[k]]]
  BY DEF FolderListing
<1> HIDE DEF order
<1>4. \A k \in 1..Len(order) : order[k] \in Names
  BY <1>1, <1>2
<1> QED BY <1>2, <1>3, <1>4 DEF FileItems

\* What a request is offered, or lists, are items; an item of an entry is that
\* entry, and not a directory.
LEMMA ItemFacts ==
  /\ ZipListing \in Seq(Items) /\ FolderListing \in Seq(Items) /\ Offered \subseteq Items
  /\ \A x \in Items : /\ x.base \in Names /\ x.entry \in Nat
                      /\ x.entry # 0 => /\ x.entry \in Shown /\ x = EntryItem(x.entry)
                                        /\ x.base = Entries[x.entry].base
                      /\ x.entry = 0 => x \in FileItems
<1>1. ZipListing \in Seq(Items) /\ FolderListing \in Seq(Items)
  BY ZipListingLists, FolderListingLists, SeqMonotonic DEF Items
<1>2. Offered \subseteq Items
  BY <1>1, ZipListingLists, FolderListingLists DEF Offered, ToSet, Items
<1>3. ASSUME NEW i \in Shown PROVE Entries[i] \in Entry /\ i \in Nat
  BY <1>3, ArchiveAssumption, ShownFinite DEF Shown
<1>4. ASSUME NEW i \in Shown
      PROVE  /\ EntryItem(i).entry = i /\ EntryItem(i).base = Entries[i].base
             /\ EntryItem(i).base \in Names /\ i # 0
  BY <1>3, ShownFinite DEF EntryItem, Entry, Shown
<1>5. ASSUME NEW x \in EntryItems
      PROVE  /\ x.base \in Names /\ x.entry \in Nat /\ x.entry # 0
             /\ x.entry \in Shown /\ x = EntryItem(x.entry)
             /\ x.base = Entries[x.entry].base
  BY <1>3, <1>4 DEF EntryItems
<1>6. ASSUME NEW x \in FileItems PROVE x.base \in Names /\ x.entry = 0
  BY DEF FileItems
<1> QED BY <1>1, <1>2, <1>5, <1>6 DEF Items

-----------------------------------------------------------------------------
(* The settings *)

\* The actions that leave the store, and whether the process runs, alone.
LEMMA QuietStep ==
  ASSUME StoreInv, UNCHANGED <<store, up>>, up \/ UNCHANGED pc
  PROVE  StoreInv'
BY DEF StoreInv, store

\* The write lock waits for the savers: the record changes under no Save.
LEMMA MutateStep ==
  ASSUME StoreInv, up, NEW c \in Callers, NEW p, Mutate(c, p), UNCHANGED up
  PROVE  StoreInv'
<1>1. \A d \in Callers : save[d] \notin SaveSteps
  BY DEF Mutate, Saving
<1>2. save' \in [Callers -> {"none", "save"} \cup SaveSteps]
      /\ \A d \in Callers : save'[d] = IF d = c THEN "save" ELSE save[d]
  BY DEF Mutate, StoreInv
<1>3. \A d \in Callers : save'[d] \notin SaveSteps
  BY <1>1, <1>2 DEF SaveSteps
<1>4. save'[c] # "none"
  BY <1>2
<1> QED BY <1>2, <1>3, <1>4 DEF Mutate, StoreInv

\* A step of one Save: others marshalled what this one did.
LEMMA SaverStep ==
  ASSUME StoreInv, up, NEW c \in Callers, UNCHANGED up,
         Marshal(c) \/ Truncate(c) \/ Write(c) \/ SaveFails(c)
  PROVE  StoreInv'
<1> USE DEF SaveSteps
<1>1. CASE Marshal(c)
  <2>1. /\ save' \in [Callers -> {"none", "save"} \cup SaveSteps] /\ DOMAIN image' = Callers
        /\ \A d \in Callers : /\ save'[d] = IF d = c THEN "open" ELSE save[d]
                              /\ image'[d] = IF d = c THEN settings ELSE image[d]
    BY <1>1 DEF Marshal, StoreInv
  <2> QED BY <1>1, <2>1 DEF Marshal, StoreInv
<1>2. CASE Truncate(c)
  <2>1. /\ save' \in [Callers -> {"none", "save"} \cup SaveSteps]
        /\ \A d \in Callers : save'[d] = IF d = c THEN "write" ELSE save[d]
    BY <1>2 DEF Truncate, StoreInv
  <2> QED BY <1>2, <2>1 DEF Truncate, StoreInv
<1>3. CASE Write(c)
  <2>1. /\ save' \in [Callers -> {"none", "save"} \cup SaveSteps] /\ DOMAIN image' = Callers
        /\ \A d \in Callers : /\ save'[d] = IF d = c THEN "none" ELSE save[d]
                              /\ d # c => image'[d] = image[d]
    BY <1>3 DEF Write, StoreInv
  <2>2. file' = settings'
    BY <1>3 DEF Write, StoreInv
  <2> QED BY <1>3, <2>1, <2>2 DEF Write, StoreInv
<1>4. CASE SaveFails(c)
  <2>1. /\ save' \in [Callers -> {"none", "save"} \cup SaveSteps] /\ DOMAIN image' = Callers
        /\ \A d \in Callers : /\ save'[d] = IF d = c THEN "none" ELSE save[d]
                              /\ d # c => image'[d] = image[d]
    BY <1>4 DEF SaveFails, StoreInv
  <2> QED BY <1>4, <2>1 DEF SaveFails, StoreInv
<1> QED BY <1>1, <1>2, <1>3, <1>4

LEMMA StoreStep == StoreInv /\ [Next]_vars => StoreInv'
<1> SUFFICES ASSUME StoreInv, [Next]_vars PROVE StoreInv'
  OBVIOUS
<1>1. ASSUME NEW c \in Callers, Work(c) PROVE StoreInv'
  <2>1. up
    BY <1>1 DEF Work, StoreInv, NextItem, BatchEnds, Refused, Reused, NotCached, Created,
       CreateFails, Copied, CopyFails, HeaderLied, Extracted, LoadFails, Loaded, Remember,
       SaveStep, Marshal, Truncate, Write, SaveFails, SaveSteps, Replied
  <2>2. CASE Remember(c)
    BY <2>1, <2>2, MutateStep DEF Remember
  <2>3. CASE SaveStep(c)
    BY <2>1, <2>3, SaverStep DEF SaveStep
  <2>4. ASSUME ~Remember(c), ~SaveStep(c) PROVE UNCHANGED <<store, up>>
    BY <1>1, <2>4 DEF Work, NextItem, BatchEnds, Refused, Reused, NotCached, Created,
       CreateFails, Copied, CopyFails, HeaderLied, Extracted, LoadFails, Loaded, Replied
  <2> QED BY <2>1, <2>2, <2>3, <2>4, QuietStep
<1>2. ASSUME NEW c \in Callers, Ask(c) PROVE StoreInv'
  <2>1. CASE \E p \in Posted : PostSettings(c, p)
    BY <2>1, MutateStep DEF PostSettings
  <2>2. CASE LoadFile(c) \/ LoadDir(c) \/ LoadArchive(c) \/ ArchiveUnread(c)
    BY <2>2, QuietStep DEF LoadFile, LoadDir, LoadArchive, ArchiveUnread, Begin
  <2>3. CASE ClientGone(c)
    BY <2>3, QuietStep DEF ClientGone
  <2> QED BY <1>2, <2>1, <2>2, <2>3 DEF Ask
<1>3. ASSUME NEW n \in Names, Unload(n) PROVE StoreInv'
  BY <1>3, QuietStep DEF Unload, request
<1>4. CASE End
  BY <1>4 DEF End, StoreLost, StoreInv, SaveSteps
<1>5. CASE Start
  <2>1. \A c \in Callers : save[c] = "none"
    BY <1>5 DEF Start, StoreInv
  <2>2. intact' => file' = settings'
    BY <1>5 DEF Start, LoadSettings
  <2>3. UNCHANGED <<save, image>> /\ up'
    BY <1>5 DEF Start, LoadSettings
  <2> QED BY <2>1, <2>2, <2>3 DEF StoreInv, SaveSteps
<1>6. CASE UNCHANGED vars
  BY <1>6, QuietStep DEF vars, request
<1> QED BY <1>1, <1>2, <1>3, <1>4, <1>5, <1>6 DEF Next

\* Once no save is under way the file holds what the program holds, unless a
\* write or the load at start failed: Update may be called by any number of
\* requests, and the process may end and start again at any step.
THEOREM SettingsSaved == Spec => []SavedIsCurrent
<1>1. Init => StoreInv
  BY DEF Init, StoreInit, StoreInv, SaveSteps
<1>2. StoreInv => SavedIsCurrent
  BY DEF StoreInv, SavedIsCurrent
<1> QED BY <1>1, <1>2, StoreStep, PTL DEF Spec

-----------------------------------------------------------------------------
(* Types *)

LEMMA HeadTailItems ==
  ASSUME NEW s \in Seq(Items), s # << >>
  PROVE  Head(s) \in Items /\ Tail(s) \in Seq(Items)
BY HeadTailProperties

\* The item at hand, once there is one.
LEMMA ItemAtHand ==
  ASSUME TypeInv, NEW c \in Callers, todo[c] # << >>
  PROVE  /\ Item(c) \in Items /\ Here(c) \in Names
         /\ Item(c).entry # 0 => /\ Item(c).entry \in Shown
                                 /\ Here(c) = Entries[Item(c).entry].base
                                 /\ EntryOf(c) \in Entry
<1>1. Item(c) \in Items
  BY HeadTailItems DEF TypeInv, RequestTypeOK, Item
<1>2. \A i \in Shown : Entries[i] \in Entry
  BY ArchiveAssumption, ShownFinite DEF Shown
<1> QED BY <1>1, <1>2, ItemFacts DEF Here, EntryOf

\* A reply, and an item that failed, leave a request well formed.
LEMMA ReplyType ==
  ASSUME TypeInv, NEW c \in Callers, Reply(c) 
  PROVE  /\ RequestTypeOK' /\ AtHand'
         /\ \A d \in Callers : d # c => UNCHANGED <<pc[d], kind[d], todo[d], at[d], linked[d],
                                                    done[d], errors[d], gone[d]>>
         /\ pc'[c] = "idle" /\ kind'[c] = "none" /\ todo'[c] = << >>
         /\ done'[c] = {} /\ errors'[c] = {} /\ ~gone'[c]
<1> USE DEF TypeInv, RequestTypeOK, Reply, Goto, Steps, EntrySteps
<1>1. RequestTypeOK'
  BY EmptySeq
<1>2. \A d \in Callers : d # c => UNCHANGED <<pc[d], kind[d], todo[d], at[d], linked[d],
                                              done[d], errors[d], gone[d]>>
  OBVIOUS
<1>3. /\ pc'[c] = "idle" /\ kind'[c] = "none" /\ todo'[c] = << >> /\ at'[c] = 0
      /\ linked'[c] = FALSE /\ done'[c] = {} /\ errors'[c] = {} /\ ~gone'[c]
  OBVIOUS
<1>4. AtHand'
  BY <1>2, <1>3 DEF AtHand, Item
<1> QED BY <1>1, <1>2, <1>3, <1>4

LEMMA ItemFailedType ==
  ASSUME TypeInv, NEW c \in Callers, todo[c] # << >>, ItemFailed(c)
  PROVE  /\ RequestTypeOK' /\ AtHand'
         /\ \A d \in Callers : d # c => UNCHANGED <<pc[d], kind[d], todo[d], at[d], linked[d],
                                                    done[d], errors[d], gone[d]>>
         /\ pc'[c] \in {"idle", "next"}
<1>1. CASE Batch(c)
  <2>1. Item(c) \in Items /\ Tail(todo[c]) \in Seq(Items)
    BY HeadTailItems DEF Item, TypeInv, RequestTypeOK
  <2>2. /\ todo' = [todo EXCEPT ![c] = Tail(@)] /\ pc' = [pc EXCEPT ![c] = "next"]
        /\ errors' = [errors EXCEPT ![c] = @ \cup {Item(c)}]
        /\ at' = [at EXCEPT ![c] = 0] /\ linked' = [linked EXCEPT ![c] = FALSE]
        /\ UNCHANGED <<kind, done, gone>>
    BY <1>1 DEF ItemFailed, Goto
  <2>3. todo' \in [Callers -> Seq(Items)] /\ errors' \in [Callers -> SUBSET Listed]
    BY <2>1, <2>2 DEF TypeInv, RequestTypeOK, Listed
  <2>4. RequestTypeOK'
    BY <2>2, <2>3 DEF TypeInv, RequestTypeOK, Steps, EntrySteps
  <2>5. \A d \in Callers : d # c => UNCHANGED <<pc[d], kind[d], todo[d], at[d], linked[d],
                                                done[d], errors[d], gone[d]>>
    BY <2>2 DEF TypeInv, RequestTypeOK
  <2>6. pc'[c] = "next" /\ at'[c] = 0 /\ linked'[c] = FALSE
    BY <2>2 DEF TypeInv, RequestTypeOK
  <2>7. AtHand'
    BY <2>5, <2>6 DEF AtHand, Item, TypeInv, EntrySteps
  <2> QED BY <2>4, <2>5, <2>6, <2>7
<1>2. CASE ~Batch(c)
  BY <1>2, ReplyType DEF ItemFailed
<1> QED BY <1>1, <1>2

\* A request goes on to another step, which has an item at hand if need be.
LEMMA GotoType ==
  ASSUME TypeInv, NEW c \in Callers, NEW to \in Steps, Goto(c, to),
         UNCHANGED <<kind, todo, at, linked, done, errors, gone>>,
         to \in EntrySteps \cup {"load"} => todo[c] # << >>,
         to \in EntrySteps => Item(c).entry # 0,
         pc[c] # "copy"
  PROVE  RequestTypeOK' /\ AtHand'
<1>1. pc' \in [Callers -> Steps] /\ \A d \in Callers : pc'[d] = IF d = c THEN to ELSE pc[d]
  BY DEF Goto, TypeInv, RequestTypeOK
<1>2. RequestTypeOK'
  BY <1>1 DEF TypeInv, RequestTypeOK
<1>3. AtHand'
  <2> SUFFICES ASSUME NEW d \in Callers
               PROVE  /\ pc'[d] \in EntrySteps \cup {"load"} => todo[d] # << >>
                      /\ pc'[d] \in EntrySteps => Item(d).entry # 0
                      /\ pc'[d] # "copy" => at[d] = 0 /\ ~linked[d]
    BY DEF AtHand, Item
  <2> QED BY <1>1 DEF TypeInv, AtHand
<1> QED BY <1>2, <1>3

LEMMA PutType ==
  ASSUME NEW old \in Seq(Int), NEW k \in Nat, NEW cell \in Int
  PROVE  /\ Put(old, k, cell) \in Seq(Int)
         /\ Len(Put(old, k, cell)) = IF k > Len(old) THEN k ELSE Len(old)
<1> DEFINE n == IF k > Len(old) THEN k ELSE Len(old)
<1>1. Len(old) \in Nat /\ n \in Nat
  BY LenProperties
<1>2. \A j \in 1..n : j <= Len(old) => old[j] \in Int
  BY <1>1, ElementOfSeq
<1>3. Put(old, k, cell) = [j \in 1..n |-> IF j = k THEN cell
                                          ELSE IF j <= Len(old) THEN old[j] ELSE Hole]
  BY DEF Put
<1> HIDE DEF n
<1>4. Put(old, k, cell) \in [1..n -> Int]
  BY <1>2, <1>3 DEF Hole
<1>5. Put(old, k, cell) \in Seq(Int) /\ Len(Put(old, k, cell)) = n
  BY <1>1, <1>4
<1> QED BY <1>5 DEF n

\* What a copy that failed leaves.
LEMMA RemovedType ==
  ASSUME TypeInv, NEW c \in Callers, todo[c] # << >>, Removed(c)
  PROVE  /\ RequestTypeOK' /\ AtHand'
         /\ disk' = [disk EXCEPT ![Here(c)] = Absent]
         /\ \A d \in Callers : d # c => UNCHANGED <<pc[d], kind[d], todo[d], at[d], done[d],
                                                    errors[d], gone[d]>>
         /\ \A d \in Callers : d # c => linked'[d] = (linked[d] /\ d \notin Writers(Here(c)))
         /\ pc'[c] \in {"idle", "next"}
<1>1. Item(c) \in Items /\ Tail(todo[c]) \in Seq(Items)
  BY HeadTailItems DEF Item, TypeInv, RequestTypeOK
<1>2. /\ linked' \in [Callers -> BOOLEAN] /\ linked'[c] = FALSE
      /\ \A d \in Callers : d # c => linked'[d] = (linked[d] /\ d \notin Writers(Here(c)))
      /\ \A d \in Callers : linked'[d] => linked[d]
  BY DEF Removed, TypeInv, RequestTypeOK
<1>3. disk' = [disk EXCEPT ![Here(c)] = Absent]
  BY DEF Removed
<1>4. CASE Batch(c)
  <2>1. /\ todo' = [todo EXCEPT ![c] = Tail(@)] /\ pc' = [pc EXCEPT ![c] = "next"]
        /\ errors' = [errors EXCEPT ![c] = @ \cup {Item(c)}] /\ at' = [at EXCEPT ![c] = 0]
        /\ UNCHANGED <<kind, done, gone>>
    BY <1>4 DEF Removed, Goto
  <2>2. todo' \in [Callers -> Seq(Items)] /\ errors' \in [Callers -> SUBSET Listed]
    BY <1>1, <2>1 DEF TypeInv, RequestTypeOK, Listed
  <2>3. RequestTypeOK'
    BY <1>2, <2>1, <2>2 DEF TypeInv, RequestTypeOK, Steps, EntrySteps
  <2>4. \A d \in Callers : d # c => UNCHANGED <<pc[d], kind[d], todo[d], at[d], done[d],
                                                errors[d], gone[d]>>
    BY <2>1 DEF TypeInv, RequestTypeOK
  <2>5. pc'[c] = "next" /\ at'[c] = 0
    BY <2>1 DEF TypeInv, RequestTypeOK
  <2>6. AtHand'
    BY <1>2, <2>4, <2>5 DEF AtHand, Item, TypeInv, EntrySteps
  <2> QED BY <1>2, <1>3, <2>3, <2>4, <2>5, <2>6
<1>5. CASE ~Batch(c)
  <2>1. /\ todo' = [todo EXCEPT ![c] = << >>] /\ pc' = [pc EXCEPT ![c] = "idle"]
        /\ kind' = [kind EXCEPT ![c] = "none"] /\ at' = [at EXCEPT ![c] = 0]
        /\ gone' = [gone EXCEPT ![c] = FALSE] /\ UNCHANGED <<done, errors>>
    BY <1>5 DEF Removed, Goto
  <2>2. todo' \in [Callers -> Seq(Items)]
    BY <2>1, EmptySeq DEF TypeInv, RequestTypeOK
  <2>3. RequestTypeOK'
    BY <1>2, <2>1, <2>2 DEF TypeInv, RequestTypeOK, Steps
  <2>4. \A d \in Callers : d # c => UNCHANGED <<pc[d], kind[d], todo[d], at[d], done[d],
                                                errors[d], gone[d]>>
    BY <2>1 DEF TypeInv, RequestTypeOK
  <2>5. pc'[c] = "idle" /\ at'[c] = 0
    BY <2>1 DEF TypeInv, RequestTypeOK
  <2>6. AtHand'
    BY <1>2, <2>4, <2>5 DEF AtHand, Item, TypeInv, EntrySteps
  <2> QED BY <1>2, <1>3, <2>3, <2>4, <2>5, <2>6
<1> QED BY <1>4, <1>5

LEMMA AbsentIsFile == Absent \in Seq(Int) /\ << >> \in Seq(Int)
BY DEF Absent

\* A request begins.
LEMMA BeginType ==
  ASSUME TypeInv, NEW c \in Callers, NEW what \in {"one", "archive", "folder"},
         NEW items \in Seq(Items), Begin(c, what, items)
  PROVE  TypeInv'
<1>1. /\ todo' = [todo EXCEPT ![c] = items] /\ kind' = [kind EXCEPT ![c] = what]
      /\ pc' = [pc EXCEPT ![c] = "next"] /\ pc[c] = "idle"
      /\ UNCHANGED <<disk, loaded, clashed, wrong, at, linked, done, errors, gone>>
  BY DEF Begin, Goto, files, history
<1>2. RequestTypeOK'
  BY <1>1 DEF TypeInv, RequestTypeOK, Steps
<1>3. AtHand'
  <2>1. pc'[c] = "next" /\ \A d \in Callers : d # c => pc'[d] = pc[d] /\ todo'[d] = todo[d]
    BY <1>1 DEF TypeInv, RequestTypeOK
  <2> QED BY <1>1, <2>1 DEF TypeInv, AtHand, Item, EntrySteps
<1>4. FilesTypeOK'
  BY <1>1 DEF TypeInv, FilesTypeOK
<1> QED BY <1>2, <1>3, <1>4 DEF TypeInv

\* The steps of a request before its files are touched, and after.
LEMMA WorkType ==
  ASSUME TypeInv, NEW c \in Callers, Work(c)
  PROVE  TypeInv'
<1> USE DEF files, history
<1>a. pc \in [Callers -> Steps] /\ at \in [Callers -> Nat]
  BY DEF TypeInv, RequestTypeOK
<1>b. pc[c] \in EntrySteps \cup {"load"} => todo[c] # << >>
  BY DEF TypeInv, AtHand
<1>c. pc[c] \in EntrySteps => Item(c).entry # 0
  BY DEF TypeInv, AtHand
<1>1. CASE NextItem(c)
  <2>1. RequestTypeOK' /\ AtHand'
    <3>1. CASE Item(c).entry = 0
      BY <1>1, <3>1, GotoType DEF NextItem, Steps, EntrySteps
    <3>2. CASE Item(c).entry # 0
      BY <1>1, <3>2, GotoType DEF NextItem, Steps, EntrySteps
    <3> QED BY <3>1, <3>2
  <2>2. Here(c) \in Names
    BY <1>1, ItemAtHand DEF NextItem
  <2>3. FilesTypeOK'
    BY <1>1, <2>2 DEF NextItem, TypeInv, FilesTypeOK
  <2> QED BY <2>1, <2>3 DEF TypeInv
<1>2. CASE BatchEnds(c)
  <2>1. RequestTypeOK' /\ AtHand'
    BY <1>2, GotoType DEF BatchEnds, Steps, EntrySteps
  <2>2. FilesTypeOK'
    BY <1>2 DEF BatchEnds, TypeInv, FilesTypeOK
  <2> QED BY <2>1, <2>2 DEF TypeInv
<1>3. CASE Refused(c) \/ CreateFails(c) \/ LoadFails(c)
  <2>1. ItemFailed(c) /\ todo[c] # << >> /\ UNCHANGED <<files, history>>
    BY <1>3, <1>b DEF Refused, CreateFails, LoadFails, EntrySteps
  <2>2. RequestTypeOK' /\ AtHand'
    BY <2>1, ItemFailedType
  <2>3. FilesTypeOK'
    BY <2>1 DEF TypeInv, FilesTypeOK
  <2> QED BY <2>2, <2>3 DEF TypeInv
<1>4. CASE Reused(c) \/ NotCached(c)
  <2>1. todo[c] # << >> /\ Item(c).entry # 0
    BY <1>4, <1>b, <1>c DEF Reused, NotCached, EntrySteps
  <2>2. CASE Reused(c)
    <3>1. RequestTypeOK' /\ AtHand'
      BY <2>1, <2>2, GotoType DEF Reused, Steps, EntrySteps
    <3>2. FilesTypeOK'
      BY <2>2 DEF Reused, TypeInv, FilesTypeOK
    <3> QED BY <3>1, <3>2 DEF TypeInv
  <2>3. CASE NotCached(c)
    <3>1. RequestTypeOK' /\ AtHand'
      BY <2>1, <2>3, GotoType DEF NotCached, Steps, EntrySteps
    <3>2. FilesTypeOK'
      BY <2>3 DEF NotCached, TypeInv, FilesTypeOK
    <3> QED BY <3>1, <3>2 DEF TypeInv
  <2> QED BY <1>4, <2>2, <2>3
<1>5. CASE Created(c)
  <2>1. pc[c] = "open" /\ todo[c] # << >> /\ Item(c).entry # 0
    BY <1>5, <1>b, <1>c DEF Created, EntrySteps
  <2>2. /\ pc' = [pc EXCEPT ![c] = "copy"] /\ linked' = [linked EXCEPT ![c] = TRUE]
        /\ disk' = [disk EXCEPT ![Here(c)] = << >>]
        /\ UNCHANGED <<loaded, clashed, wrong, kind, todo, at, done, errors, gone>>
    BY <1>5 DEF Created, Goto
  <2>3. RequestTypeOK'
    BY <2>2 DEF TypeInv, RequestTypeOK, Steps, EntrySteps
  <2>4. AtHand'
    <3>1. \A d \in Callers : d # c => pc'[d] = pc[d] /\ linked'[d] = linked[d]
      BY <2>2 DEF TypeInv, RequestTypeOK
    <3>2. pc'[c] = "copy"
      BY <1>a, <2>2
    <3> QED BY <2>1, <2>2, <3>1, <3>2 DEF TypeInv, AtHand, Item
  <2>5. FilesTypeOK'
    BY <2>2, AbsentIsFile DEF TypeInv, FilesTypeOK
  <2> QED BY <2>3, <2>4, <2>5 DEF TypeInv
<1>6. CASE Copied(c)
  <2>1. pc[c] = "copy" /\ todo[c] # << >>
    BY <1>6, <1>b DEF Copied, EntrySteps
  <2>2. Item(c) \in Items /\ Here(c) \in Names /\ Item(c).entry \in Nat
    BY <2>1, ItemAtHand, ItemFacts
  <2>3. /\ at' = [at EXCEPT ![c] = @ + 1]
        /\ disk' = IF linked[c]
                     THEN [disk EXCEPT ![Here(c)] = Put(@, at[c] + 1, Item(c).entry)]
                     ELSE disk
        /\ UNCHANGED <<loaded, clashed, wrong, pc, kind, todo, linked, done, errors, gone>>
    BY <1>6 DEF Copied
  <2>4. RequestTypeOK'
    BY <2>3 DEF TypeInv, RequestTypeOK
  <2>5. AtHand'
    <3>1. \A d \in Callers : d # c => at'[d] = at[d]
      BY <2>3, <1>a
    <3> QED BY <2>1, <2>3, <3>1 DEF TypeInv, AtHand, Item
  <2>6. Put(disk[Here(c)], at[c] + 1, Item(c).entry) \in Seq(Int)
    BY <1>a, <2>2, PutType DEF TypeInv, FilesTypeOK
  <2>7. disk' \in [Names -> Seq(Int)]
    BY <2>3, <2>6 DEF TypeInv, FilesTypeOK
  <2>8. FilesTypeOK'
    BY <2>3, <2>7 DEF TypeInv, FilesTypeOK
  <2> QED BY <2>4, <2>5, <2>8 DEF TypeInv
<1>7. CASE CopyFails(c) \/ HeaderLied(c)
  <2>1. Removed(c) /\ todo[c] # << >> /\ UNCHANGED <<loaded, history>>
    BY <1>7, <1>b DEF CopyFails, HeaderLied, EntrySteps
  <2>2. RequestTypeOK' /\ AtHand' /\ disk' = [disk EXCEPT ![Here(c)] = Absent]
    BY <2>1, RemovedType
  <2>3. FilesTypeOK'
    BY <2>1, <2>2, AbsentIsFile DEF TypeInv, FilesTypeOK
  <2> QED BY <2>2, <2>3 DEF TypeInv
<1>8. CASE Extracted(c)
  <2>1. pc[c] = "copy" /\ todo[c] # << >>
    BY <1>8, <1>b DEF Extracted, EntrySteps
  <2>2. /\ pc' = [pc EXCEPT ![c] = "load"] /\ linked' = [linked EXCEPT ![c] = FALSE]
        /\ at' = [at EXCEPT ![c] = 0]
        /\ UNCHANGED <<disk, loaded, clashed, wrong, kind, todo, done, errors, gone>>
    BY <1>8 DEF Extracted, Goto
  <2>3. RequestTypeOK'
    BY <2>2 DEF TypeInv, RequestTypeOK, Steps
  <2>4. AtHand'
    <3>1. \A d \in Callers : d # c => /\ pc'[d] = pc[d] /\ linked'[d] = linked[d]
                                      /\ at'[d] = at[d]
      BY <2>2 DEF TypeInv, RequestTypeOK
    <3>2. pc'[c] = "load" /\ at'[c] = 0 /\ linked'[c] = FALSE
      BY <2>2 DEF TypeInv, RequestTypeOK
    <3> QED BY <2>1, <2>2, <3>1, <3>2 DEF TypeInv, AtHand, Item, EntrySteps
  <2>5. FilesTypeOK'
    BY <2>2 DEF TypeInv, FilesTypeOK
  <2> QED BY <2>3, <2>4, <2>5 DEF TypeInv
<1>9. CASE Loaded(c)
  <2>1. pc[c] = "load" /\ todo[c] # << >>
    BY <1>9, <1>b DEF Loaded
  <2>2. Item(c) \in Items /\ Here(c) \in Names /\ Tail(todo[c]) \in Seq(Items)
    BY <2>1, ItemAtHand, HeadTailItems DEF TypeInv, RequestTypeOK
  <2>3. /\ loaded' = [loaded EXCEPT ![Here(c)] = disk[Here(c)]]
        /\ wrong' \in {wrong, wrong \cup {Item(c)}}
        /\ done' = [done EXCEPT ![c] = @ \cup {Item(c)}]
        /\ todo' = [todo EXCEPT ![c] = Tail(@)]
        /\ pc' = [pc EXCEPT ![c] = IF Batch(c) THEN "next" ELSE "update"]
        /\ UNCHANGED <<disk, clashed, kind, at, linked, errors, gone>>
    BY <1>9 DEF Loaded, Goto
  <2>4. RequestTypeOK'
    <3>1. todo' \in [Callers -> Seq(Items)] /\ done' \in [Callers -> SUBSET Items]
      BY <2>2, <2>3 DEF TypeInv, RequestTypeOK
    <3>2. pc' \in [Callers -> Steps]
      BY <2>3, <1>a DEF Steps
    <3> QED BY <2>3, <3>1, <3>2 DEF TypeInv, RequestTypeOK
  <2>5. AtHand'
    <3>1. pc'[c] \in {"next", "update"}
      BY <2>3, <1>a
    <3>2. \A d \in Callers : d # c => pc'[d] = pc[d] /\ todo'[d] = todo[d]
      BY <2>3, <1>a DEF TypeInv, RequestTypeOK
    <3> QED BY <2>1, <2>3, <3>1, <3>2 DEF TypeInv, AtHand, Item, EntrySteps
  <2>6. FilesTypeOK'
    BY <2>2, <2>3 DEF TypeInv, FilesTypeOK
  <2> QED BY <2>4, <2>5, <2>6 DEF TypeInv
<1>10. CASE Remember(c)
  <2>1. RequestTypeOK' /\ AtHand'
    BY <1>10, GotoType DEF Remember, Steps, EntrySteps
  <2>2. FilesTypeOK'
    BY <1>10 DEF Remember, TypeInv, FilesTypeOK
  <2> QED BY <2>1, <2>2 DEF TypeInv
<1>11. CASE SaveStep(c)
  BY <1>11 DEF SaveStep, TypeInv, RequestTypeOK, FilesTypeOK, AtHand, Item, request
<1>12. CASE Replied(c)
  <2>1. RequestTypeOK' /\ AtHand'
    BY <1>12, ReplyType DEF Replied
  <2>2. FilesTypeOK'
    BY <1>12 DEF Replied, TypeInv, FilesTypeOK
  <2> QED BY <2>1, <2>2 DEF TypeInv
<1> QED BY <1>1, <1>2, <1>3, <1>4, <1>5, <1>6, <1>7, <1>8, <1>9, <1>10, <1>11, <1>12
        DEF Work

LEMMA AskType ==
  ASSUME TypeInv, NEW c \in Callers, Ask(c)
  PROVE  TypeInv'
<1>1. CASE LoadFile(c) \/ LoadDir(c) \/ LoadArchive(c)
  <2>1. \A i \in Offered : <<i>> \in Seq(Items)
    BY ItemFacts
  <2> QED BY <1>1, <2>1, ItemFacts, BeginType DEF LoadFile, LoadDir, LoadArchive
<1>2. ASSUME NEW p \in Posted, PostSettings(c, p) PROVE TypeInv'
  <2>1. /\ kind' = [kind EXCEPT ![c] = "settings"] /\ pc' = [pc EXCEPT ![c] = "saving"]
        /\ pc[c] = "idle"
        /\ UNCHANGED <<disk, loaded, clashed, wrong, todo, at, linked, done, errors, gone>>
    BY <1>2 DEF PostSettings, Goto, files, history
  <2>2. RequestTypeOK'
    BY <2>1 DEF TypeInv, RequestTypeOK, Steps
  <2>3. pc'[c] = "saving" /\ \A d \in Callers : d # c => pc'[d] = pc[d]
    BY <2>1 DEF TypeInv, RequestTypeOK
  <2>4. AtHand'
    BY <2>1, <2>3 DEF TypeInv, AtHand, Item, EntrySteps
  <2> QED BY <2>1, <2>2, <2>4 DEF TypeInv, FilesTypeOK
<1>3. CASE ClientGone(c)
  <2>1. /\ gone' = [gone EXCEPT ![c] = TRUE]
        /\ UNCHANGED <<disk, loaded, clashed, wrong, pc, kind, todo, at, linked, done, errors>>
    BY <1>3 DEF ClientGone, files, history
  <2>2. gone' \in [Callers -> BOOLEAN]
    BY <2>1 DEF TypeInv, RequestTypeOK
  <2> QED BY <2>1, <2>2 DEF TypeInv, RequestTypeOK, FilesTypeOK, AtHand, Item
<1>4. CASE ArchiveUnread(c)
  <2>1. /\ kind' = [kind EXCEPT ![c] = "archive"] /\ pc' = [pc EXCEPT ![c] = "update"]
        /\ todo' = [todo EXCEPT ![c] = << >>] /\ errors' = [errors EXCEPT ![c] = {Archive}]
        /\ pc[c] = "idle"
        /\ UNCHANGED <<disk, loaded, clashed, wrong, at, linked, done, gone>>
    BY <1>4 DEF ArchiveUnread, Goto, files, history
  <2>2. RequestTypeOK'
    BY <2>1, EmptySeq DEF TypeInv, RequestTypeOK, Steps, Listed
  <2>3. pc'[c] = "update" /\ \A d \in Callers : d # c => pc'[d] = pc[d] /\ todo'[d] = todo[d]
    BY <2>1 DEF TypeInv, RequestTypeOK
  <2>4. AtHand'
    BY <2>1, <2>3 DEF TypeInv, AtHand, Item, EntrySteps
  <2> QED BY <2>1, <2>2, <2>4 DEF TypeInv, FilesTypeOK
<1> QED BY <1>1, <1>2, <1>3, <1>4 DEF Ask

LEMMA TypeStep == TypeInv /\ [Next]_vars => TypeInv'
<1> SUFFICES ASSUME TypeInv, [Next]_vars PROVE TypeInv'
  OBVIOUS
<1>1. ASSUME NEW n \in Names, Unload(n) PROVE TypeInv'
  BY <1>1, AbsentIsFile DEF Unload, request, history, TypeInv, RequestTypeOK, FilesTypeOK,
     AtHand, Item
<1>2. CASE End
  <2>1. RequestTypeOK'
    BY <1>2, EmptySeq DEF End, RequestTypeOK, Steps
  <2>2. AtHand'
    BY <1>2 DEF End, AtHand, EntrySteps
  <2>3. FilesTypeOK'
    BY <1>2, AbsentIsFile DEF End, history, TypeInv, FilesTypeOK
  <2> QED BY <2>1, <2>2, <2>3 DEF TypeInv
<1>3. CASE Start
  <2>1. loaded' \in [Names -> Seq(Int)]
    BY <1>3, AbsentIsFile DEF Start, TypeInv, FilesTypeOK
  <2> QED BY <1>3, <2>1 DEF Start, request, history, TypeInv, RequestTypeOK, FilesTypeOK,
             AtHand, Item
<1>4. CASE UNCHANGED vars
  BY <1>4 DEF vars, files, request, history, TypeInv, RequestTypeOK, FilesTypeOK, AtHand, Item
<1> QED BY <1>1, <1>2, <1>3, <1>4, WorkType, AskType DEF Next

LEMMA TypeInit == Init => TypeInv
<1> SUFFICES ASSUME Init PROVE TypeInv
  OBVIOUS
<1>1. RequestTypeOK
  BY EmptySeq DEF Init, RequestTypeOK, Steps
<1>2. FilesTypeOK
  <2>1. Seq({Users}) \subseteq Seq(Int)
    BY SeqMonotonic DEF Users
  <2> QED BY <2>1, ArchiveAssumption, AbsentIsFile DEF Init, FilesTypeOK
<1>3. AtHand
  BY DEF Init, AtHand, EntrySteps
<1> QED BY <1>1, <1>2, <1>3 DEF TypeInv

\* Requests, files and lists keep their shape, a request that extracts or loads
\* has an item at hand, and only one that copies has copied anything.
THEOREM TypeCorrect == Spec => []TypeInv
BY TypeInit, TypeStep, PTL DEF Spec

-----------------------------------------------------------------------------
(* The lists of a batch *)

\* A list without its head, when no item occurs twice.
LEMMA TailKeepsOnce ==
  ASSUME NEW s \in Seq(Items), s # << >>
  PROVE  /\ ToSet(s) = {Head(s)} \cup ToSet(Tail(s))
         /\ IsInjective(s) => IsInjective(Tail(s)) /\ Head(s) \notin ToSet(Tail(s))
<1>1. /\ Len(s) \in Nat /\ Len(s) # 0 /\ DOMAIN s = 1..Len(s)
      /\ Tail(s) \in Seq(Items) /\ Len(Tail(s)) = Len(s) - 1
      /\ \A i \in 1..(Len(s) - 1) : Tail(s)[i] = s[i + 1]
  BY HeadTailProperties, LenProperties, EmptySeq
<1>2. DOMAIN Tail(s) = 1..(Len(s) - 1)
  BY <1>1, LenProperties
<1>3. Head(s) = s[1]
  OBVIOUS
<1> DEFINE t == Tail(s)
           h == Head(s)
<1>4. DOMAIN t = 1..(Len(s) - 1) /\ \A i \in DOMAIN t : t[i] = s[i + 1]
  BY <1>1, <1>2
<1>5. h = s[1]
  BY <1>3
<1> HIDE DEF t, h
<1>6. ToSet(s) = {h} \cup ToSet(t)
  <2>1. ASSUME NEW i \in DOMAIN s PROVE s[i] \in {h} \cup ToSet(t)
    <3>1. CASE i = 1
      BY <3>1, <1>5
    <3>2. CASE i # 1
      <4>1. i - 1 \in DOMAIN t /\ t[i - 1] = s[i - 1 + 1] /\ i - 1 + 1 = i
        BY <3>2, <1>1, <1>4
      <4> QED BY <4>1 DEF ToSet
    <3> QED BY <3>1, <3>2
  <2>2. ASSUME NEW i \in DOMAIN t PROVE t[i] \in ToSet(s)
    <3>1. i + 1 \in DOMAIN s
      BY <1>1, <1>4
    <3> QED BY <3>1, <1>4 DEF ToSet
  <2>3. h \in ToSet(s)
    BY <1>1, <1>5 DEF ToSet
  <2> QED BY <2>1, <2>2, <2>3 DEF ToSet
<1>7. ASSUME IsInjective(s) PROVE IsInjective(t) /\ h \notin ToSet(t)
  <2>1. ASSUME NEW i \in DOMAIN t, NEW j \in DOMAIN t, t[i] = t[j] PROVE i = j
    <3>1. i \in Int /\ j \in Int /\ i + 1 \in DOMAIN s /\ j + 1 \in DOMAIN s
      BY <1>1, <1>4
    <3>2. i + 1 = j + 1
      BY <2>1, <3>1, <1>4, <1>7 DEF IsInjective
    <3> QED BY <3>1, <3>2
  <2>2. ASSUME NEW i \in DOMAIN t, t[i] = h PROVE FALSE
    <3>1. i \in 1..(Len(s) - 1) /\ i + 1 \in DOMAIN s /\ 1 \in DOMAIN s
      BY <1>1, <1>4
    <3>2. i + 1 = 1
      BY <2>2, <3>1, <1>4, <1>5, <1>7 DEF IsInjective
    <3> QED BY <3>1, <3>2
  <2> QED BY <2>1, <2>2 DEF IsInjective, ToSet
<1> QED BY <1>6, <1>7 DEF t, h

\* A step of one request changes no other.
LEMMA OthersKeep ==
  ASSUME TypeInv, NEW c \in Callers, Work(c) \/ Ask(c), NEW d \in Callers, d # c
  PROVE  UNCHANGED <<pc[d], kind[d], todo[d], at[d], done[d], errors[d], gone[d]>>
<1>a. pc[c] \in EntrySteps \cup {"load"} => todo[c] # << >>
  BY DEF TypeInv, AtHand
<1>1. CASE Refused(c) \/ CreateFails(c) \/ LoadFails(c)
  <2>1. ItemFailed(c) /\ todo[c] # << >>
    BY <1>1, <1>a DEF Refused, CreateFails, LoadFails, EntrySteps
  <2> QED BY <2>1, ItemFailedType
<1>2. CASE CopyFails(c) \/ HeaderLied(c)
  <2>1. Removed(c) /\ todo[c] # << >>
    BY <1>2, <1>a DEF CopyFails, HeaderLied, EntrySteps
  <2> QED BY <2>1, RemovedType
<1>3. CASE Replied(c)
  BY <1>3, ReplyType DEF Replied
<1>4. CASE NextItem(c) \/ BatchEnds(c) \/ Reused(c) \/ NotCached(c) \/ Created(c)
  BY <1>4 DEF NextItem, BatchEnds, Reused, NotCached, Created, Goto, TypeInv, RequestTypeOK
<1>5. CASE Copied(c) \/ Extracted(c)
  BY <1>5 DEF Copied, Extracted, Goto, TypeInv, RequestTypeOK
<1>6. CASE Loaded(c)
  BY <1>6 DEF Loaded, Goto, TypeInv, RequestTypeOK
<1>7. CASE Remember(c) \/ SaveStep(c)
  BY <1>7 DEF Remember, SaveStep, Goto, TypeInv, RequestTypeOK, request
<1>8. CASE Ask(c)
  BY <1>8 DEF Ask, LoadFile, LoadDir, LoadArchive, ArchiveUnread, Begin, PostSettings, ClientGone, Goto,
     TypeInv, RequestTypeOK
<1> QED BY <1>1, <1>2, <1>3, <1>4, <1>5, <1>6, <1>7, <1>8 DEF Work

\* What does not touch the lists keeps the account, however the request goes on
\* short of its answer.
LEMMA AccountKept ==
  ASSUME NEW c \in Callers, CallerAccounted(c),
         UNCHANGED <<kind[c], todo[c], done[c], errors[c]>>, gone[c] => gone'[c],
         \/ UNCHANGED pc[c]
         \/ pc[c] \notin {"update", "saving"} /\ pc'[c] \notin {"idle", "update", "saving"}
         \/ pc'[c] \in {"update", "saving"}
            /\ (kind[c] = "archive" => todo[c] = << >> \/ gone[c])
  PROVE  CallerAccounted(c)'
BY DEF CallerAccounted, Accounted, Unread, Batch

\* An item moves from the list of those to do to one of the two others.
LEMMA AccountMoves ==
  ASSUME NEW c \in Callers, CallerAccounted(c), todo[c] \in Seq(Items), todo[c] # << >>,
         Batch(c), UNCHANGED kind[c], todo'[c] = Tail(todo[c]), pc'[c] = "next",
         \/ done'[c] = done[c] \cup {Item(c)} /\ UNCHANGED errors[c]
         \/ errors'[c] = errors[c] \cup {Item(c)} /\ UNCHANGED done[c]
  PROVE  CallerAccounted(c)'
<1>1. ToSet(todo[c]) = {Item(c)} \cup ToSet(todo'[c])
  BY TailKeepsOnce DEF Item
<1>2. IsInjective(todo[c]) => IsInjective(todo'[c]) /\ Item(c) \notin ToSet(todo'[c])
  BY TailKeepsOnce DEF Item
<1>3. kind[c] = "archive" => Accounted(c)'
  BY <1>1, <1>2 DEF CallerAccounted, Accounted, Unread
<1> QED BY <1>3 DEF CallerAccounted, Batch

LEMMA AccountWork ==
  ASSUME TypeInv, BatchesAccounted, NEW c \in Callers, Work(c)
  PROVE  CallerAccounted(c)'
<1>a. CallerAccounted(c)
  BY DEF BatchesAccounted
<1>b. pc[c] \in EntrySteps \cup {"load"} => todo[c] # << >>
  BY DEF TypeInv, AtHand
<1>c. pc \in [Callers -> Steps] /\ todo[c] \in Seq(Items)
  BY DEF TypeInv, RequestTypeOK
<1>1. CASE NextItem(c) \/ Reused(c) \/ NotCached(c) \/ Created(c)
  BY <1>1, <1>a, <1>c, AccountKept DEF NextItem, Reused, NotCached, Created, Goto
<1>2. CASE Copied(c) \/ Extracted(c)
  BY <1>2, <1>a, <1>c, AccountKept DEF Copied, Extracted, Goto
<1>3. CASE BatchEnds(c)
  BY <1>3, <1>a, <1>c, AccountKept DEF BatchEnds, Goto
<1>4. CASE Remember(c)
  <2>1. kind[c] = "archive" => todo[c] = << >> \/ gone[c]
    BY <1>4, <1>a DEF Remember, CallerAccounted, Accounted, Unread
  <2> QED BY <1>4, <1>a, <1>c, <2>1, AccountKept DEF Remember, Goto
<1>5. CASE SaveStep(c)
  BY <1>5, <1>a, AccountKept DEF SaveStep, request
<1>6. CASE Replied(c)
  <2>1. /\ pc'[c] = "idle" /\ kind'[c] = "none" /\ done'[c] = {} /\ errors'[c] = {}
    BY <1>6, ReplyType DEF Replied
  <2> QED BY <2>1 DEF CallerAccounted, Batch
<1>7. CASE Refused(c) \/ CreateFails(c) \/ LoadFails(c)
  <2>1. ItemFailed(c) /\ todo[c] # << >>
    BY <1>7, <1>b DEF Refused, CreateFails, LoadFails, EntrySteps
  <2>2. CASE Batch(c)
    <3>1. /\ todo'[c] = Tail(todo[c]) /\ pc'[c] = "next"
          /\ errors'[c] = errors[c] \cup {Item(c)} /\ UNCHANGED <<kind[c], done[c]>>
      BY <2>1, <2>2 DEF ItemFailed, Goto, TypeInv, RequestTypeOK
    <3> QED BY <1>a, <1>c, <2>1, <2>2, <3>1, AccountMoves
  <2>3. CASE ~Batch(c)
    <3>1. pc'[c] = "idle" /\ kind'[c] = "none" /\ done'[c] = {} /\ errors'[c] = {}
      BY <2>1, <2>3, ReplyType DEF ItemFailed
    <3> QED BY <3>1 DEF CallerAccounted, Batch
  <2> QED BY <2>2, <2>3
<1>8. CASE CopyFails(c) \/ HeaderLied(c)
  <2>1. Removed(c) /\ todo[c] # << >> /\ pc[c] = "copy"
    BY <1>8, <1>b DEF CopyFails, HeaderLied, EntrySteps
  <2>2. CASE Batch(c)
    <3>1. /\ todo'[c] = Tail(todo[c]) /\ pc'[c] = "next"
          /\ errors'[c] = errors[c] \cup {Item(c)} /\ UNCHANGED <<kind[c], done[c]>>
      BY <2>1, <2>2 DEF Removed, Goto, TypeInv, RequestTypeOK
    <3> QED BY <1>a, <1>c, <2>1, <2>2, <3>1, AccountMoves
  <2>3. CASE ~Batch(c)
    <3>1. pc'[c] = "idle" /\ kind'[c] = "none" /\ UNCHANGED <<done[c], errors[c]>>
      BY <2>1, <2>3 DEF Removed, Goto, TypeInv, RequestTypeOK
    <3>2. done[c] = {} /\ errors[c] = {}
      BY <1>a, <2>1, <2>3 DEF CallerAccounted
    <3> QED BY <3>1, <3>2 DEF CallerAccounted, Batch
  <2> QED BY <2>2, <2>3
<1>9. CASE Loaded(c)
  <2>1. /\ todo[c] # << >> /\ todo'[c] = Tail(todo[c]) /\ UNCHANGED <<kind[c], errors[c]>>
        /\ done'[c] = done[c] \cup {Item(c)}
        /\ pc'[c] = IF Batch(c) THEN "next" ELSE "update"
    BY <1>9, <1>b DEF Loaded, Goto, TypeInv, RequestTypeOK
  <2>2. CASE Batch(c)
    BY <1>a, <1>c, <2>1, <2>2, AccountMoves
  <2>3. CASE ~Batch(c)
    BY <1>a, <2>1, <2>3 DEF CallerAccounted, Batch
  <2> QED BY <2>2, <2>3
<1> QED BY <1>1, <1>2, <1>3, <1>4, <1>5, <1>6, <1>7, <1>8, <1>9 DEF Work

LEMMA AccountAsk ==
  ASSUME TypeInv, BatchesAccounted, NEW c \in Callers, Ask(c)
  PROVE  CallerAccounted(c)'
<1>a. CallerAccounted(c)
  BY DEF BatchesAccounted
<1>1. ASSUME pc[c] = "idle" PROVE done[c] = {} /\ errors[c] = {}
  BY <1>a, <1>1 DEF CallerAccounted, Batch
<1>2. CASE LoadFile(c) \/ LoadDir(c) 
  <2>1. /\ kind'[c] \in {"one", "folder"} /\ pc'[c] = "next" /\ UNCHANGED <<done[c], errors[c]>>
        /\ pc[c] = "idle"
    BY <1>2 DEF LoadFile, LoadDir, Begin, Goto, TypeInv, RequestTypeOK
  <2> QED BY <1>1, <2>1 DEF CallerAccounted
<1>3. CASE LoadArchive(c)
  <2>1. /\ kind'[c] = "archive" /\ pc'[c] = "next" /\ UNCHANGED <<done[c], errors[c]>>
        /\ pc[c] = "idle" /\ todo'[c] = ZipListing
    BY <1>3 DEF LoadArchive, Begin, Goto, TypeInv, RequestTypeOK
  <2> QED BY <1>1, <2>1, ZipListingLists DEF CallerAccounted, Accounted, Batch
<1>4. ASSUME NEW p \in Posted, PostSettings(c, p) PROVE CallerAccounted(c)'
  <2>1. /\ kind'[c] = "settings" /\ pc'[c] = "saving" /\ UNCHANGED <<done[c], errors[c]>>
        /\ pc[c] = "idle"
    BY <1>4 DEF PostSettings, Goto, TypeInv, RequestTypeOK
  <2> QED BY <1>1, <2>1 DEF CallerAccounted
<1>5. CASE ClientGone(c)
  BY <1>5, <1>a, AccountKept DEF ClientGone, TypeInv, RequestTypeOK
<1>6. CASE ArchiveUnread(c)
  <2>1. /\ kind'[c] = "archive" /\ pc'[c] = "update" /\ todo'[c] = << >>
        /\ errors'[c] = {Archive} /\ UNCHANGED done[c] /\ pc[c] = "idle"
    BY <1>6 DEF ArchiveUnread, Goto, TypeInv, RequestTypeOK
  <2> QED BY <1>1, <2>1 DEF CallerAccounted, Unread, Batch
<1> QED BY <1>2, <1>3, <1>4, <1>5, <1>6 DEF Ask

LEMMA AccountStep == TypeInv /\ BatchesAccounted /\ [Next]_vars => BatchesAccounted'
<1> SUFFICES ASSUME TypeInv, BatchesAccounted, [Next]_vars PROVE BatchesAccounted'
  OBVIOUS
<1>1. ASSUME NEW c \in Callers, Work(c) \/ Ask(c) PROVE BatchesAccounted'
  <2>1. ASSUME NEW d \in Callers, d # c PROVE CallerAccounted(d)'
    <3>1. CallerAccounted(d)
      BY DEF BatchesAccounted
    <3> QED BY <1>1, <2>1, <3>1, OthersKeep, AccountKept
  <2>2. CallerAccounted(c)'
    BY <1>1, AccountWork, AccountAsk
  <2> QED BY <2>1, <2>2 DEF BatchesAccounted
<1>2. CASE End
  BY <1>2 DEF End, BatchesAccounted, CallerAccounted, Batch
<1>3. ASSUME UNCHANGED request PROVE BatchesAccounted'
  BY <1>3 DEF request, BatchesAccounted, CallerAccounted, Accounted, Unread, Batch
<1> QED BY <1>1, <1>2, <1>3 DEF Next, Unload, Start, vars

\* When a batch over an archive answers, each of its entries was loaded or failed,
\* and not both, unless the client went away, or the archive as a whole could not be
\* read, which is then the one error: whatever else fails, and whatever other
\* requests do to the same folder meanwhile.
THEOREM EveryEntryAccountedFor == Spec => []EntriesAccountedFor
<1>1. Init => BatchesAccounted
  BY DEF Init, BatchesAccounted, CallerAccounted, Batch
<1>2. ASSUME TypeInv, BatchesAccounted PROVE EntriesAccountedFor
  <2> SUFFICES ASSUME NEW c \in Callers, kind[c] = "archive", pc[c] = "update"
               PROVE  /\ done[c] \cap errors[c] = {}
                      /\ \/ gone[c]
                         \/ done[c] \cup errors[c] = ToSet(ZipListing)
                         \/ done[c] = {} /\ errors[c] = {Archive}
    BY DEF EntriesAccountedFor
  <2>1. Accounted(c) \/ Unread(c)
    BY <1>2 DEF BatchesAccounted, CallerAccounted
  <2>2. ToSet(<< >>) = {}
    BY DEF ToSet
  <2> QED BY <2>1, <2>2 DEF Accounted, Unread
<1> QED BY <1>1, <1>2, TypeInit, TypeStep, AccountStep, PTL DEF Spec

-----------------------------------------------------------------------------
(* The copies *)

LEMMA PrefixFacts ==
  ASSUME NEW i \in Int
  PROVE  /\ \A k \in Nat : Prefix(i, k) \in Seq(Int) /\ Len(Prefix(i, k)) = k
         /\ \A k \in Nat : Put(Prefix(i, k), k + 1, i) = Prefix(i, k + 1)
         /\ << >> = Prefix(i, 0)
         /\ Whole(i) = Prefix(i, Entries[i].actual)
<1>1. ASSUME NEW k \in Nat PROVE Prefix(i, k) \in Seq(Int) /\ Len(Prefix(i, k)) = k
  BY DEF Prefix
<1>2. ASSUME NEW k \in Nat PROVE Put(Prefix(i, k), k + 1, i) = Prefix(i, k + 1)
  <2>1. Put(Prefix(i, k), k + 1, i)
          = [j \in 1..(k + 1) |-> IF j = k + 1 THEN i ELSE IF j <= k THEN Prefix(i, k)[j] ELSE Hole]
    BY <1>1 DEF Put
  <2>2. \A j \in 1..(k + 1) :
          (IF j = k + 1 THEN i ELSE IF j <= k THEN Prefix(i, k)[j] ELSE Hole) = i
    BY DEF Prefix
  <2> QED BY <2>1, <2>2 DEF Prefix
<1>3. << >> = Prefix(i, 0)
  <2>1. Prefix(i, 0) \in Seq(Int) /\ Len(Prefix(i, 0)) = 0
    BY <1>1
  <2> QED BY <2>1, EmptySeq
<1> QED BY <1>1, <1>2, <1>3 DEF Whole, Prefix

\* Who extracts to the name of an entry it belongs to alone extracts that entry.
LEMMA ExtractsIt ==
  ASSUME TypeInv, NEW i \in Shown, Plain(i), NEW n \in Names, n = Entries[i].base,
         NEW c \in Callers, c \in Extracting(n)
  PROVE  Item(c).entry = i /\ Here(c) = n /\ i \in Nat
<1>1. todo[c] # << >> /\ Item(c).entry # 0 /\ Here(c) = n
  BY DEF TypeInv, AtHand, Extracting, EntrySteps
<1>2. Item(c).entry \in Shown /\ Entries[Item(c).entry].base = n
  BY <1>1, ItemAtHand
<1>3. Item(c).entry \in DOMAIN Entries /\ ~Entries[Item(c).entry].isDir
  BY <1>2 DEF Shown
<1>4. Item(c).entry = i
  BY <1>2, <1>3 DEF Plain
<1> QED BY <1>1, <1>4, ShownFinite

\* Nobody else joins those who extract to a name, and none of them moves.
LEMMA OthersExtract ==
  ASSUME TypeInv, NEW c \in Callers, Work(c) \/ Ask(c), NEW n \in Names,
         NEW d \in Callers, d # c
  PROVE  /\ d \in Extracting(n)' <=> d \in Extracting(n)
         /\ pc'[d] = pc[d] /\ at'[d] = at[d]
BY OthersKeep DEF Extracting, Item, Here

\* A request joins them before the item, alone or at the price of a clash.
LEMMA Joins ==
  ASSUME TypeInv, NEW c \in Callers, Work(c) \/ Ask(c), NEW n \in Names, c \in Extracting(n)'
  PROVE  \/ c \in Extracting(n)
         \/ pc'[c] = "stat" /\ (Extracting(n) = {} \/ n \in clashed')
<1>a. pc[c] \in EntrySteps \cup {"load"} => todo[c] # << >>
  BY DEF TypeInv, AtHand
<1>b. pc \in [Callers -> Steps]
  BY DEF TypeInv, RequestTypeOK
<1>1. CASE Refused(c) \/ CreateFails(c) \/ LoadFails(c)
  <2>1. ItemFailed(c) /\ todo[c] # << >>
    BY <1>1, <1>a DEF Refused, CreateFails, LoadFails, EntrySteps
  <2> QED BY <2>1, ItemFailedType DEF Extracting
<1>2. CASE CopyFails(c) \/ HeaderLied(c)
  <2>1. Removed(c) /\ todo[c] # << >>
    BY <1>2, <1>a DEF CopyFails, HeaderLied, EntrySteps
  <2> QED BY <2>1, RemovedType DEF Extracting
<1>3. CASE Replied(c)
  BY <1>3, ReplyType DEF Replied, Extracting
<1>4. CASE NextItem(c)
  <2>1. pc'[c] = (IF Item(c).entry = 0 THEN "load" ELSE "stat") /\ UNCHANGED todo
    BY <1>4, <1>b DEF NextItem, Goto
  <2>2. Item(c).entry # 0 /\ Here(c) = n
    BY <2>1 DEF Extracting, Item, Here
  <2> QED BY <1>4, <2>1, <2>2 DEF NextItem
<1>5. CASE BatchEnds(c) \/ Loaded(c) \/ Remember(c)
  <2>1. pc'[c] \in {"next", "update", "saving"}
    BY <1>5, <1>b DEF BatchEnds, Loaded, Remember, Goto
  <2> QED BY <2>1 DEF Extracting
<1>6. CASE Reused(c) \/ NotCached(c) \/ Created(c) \/ Copied(c) \/ Extracted(c)
  <2>1. pc[c] \in EntrySteps /\ UNCHANGED todo
    BY <1>6 DEF Reused, NotCached, Created, Copied, Extracted, EntrySteps
  <2> QED BY <2>1 DEF Extracting, Item, Here, EntrySteps
<1>7. CASE SaveStep(c) \/ ClientGone(c)
  BY <1>7 DEF SaveStep, ClientGone, request, Extracting, Item, Here
<1>8. CASE LoadFile(c) \/ LoadDir(c) \/ LoadArchive(c)
  BY <1>8, <1>b DEF LoadFile, LoadDir, LoadArchive, Begin, Goto, Extracting
<1>10. CASE ArchiveUnread(c)
  <2>1. /\ pc'[c] = "update" /\ \A d \in Callers : d # c => pc'[d] = pc[d] /\ todo'[d] = todo[d]
        /\ UNCHANGED clashed
    BY <1>10, <1>b DEF ArchiveUnread, Goto, history, TypeInv, RequestTypeOK
  <2> QED BY <2>1 DEF Extracting, Item, Here
<1>9. CASE \E p \in Posted : PostSettings(c, p)
  BY <1>9, <1>b DEF PostSettings, Goto, Extracting
<1> QED BY <1>1, <1>2, <1>3, <1>4, <1>5, <1>6, <1>7, <1>8, <1>9, <1>10 DEF Work, Ask

LEMMA ClashedGrows ==
  ASSUME NEW c \in Callers, Work(c) \/ Ask(c)
  PROVE  clashed \subseteq clashed'
BY DEF Work, Ask, NextItem, BatchEnds, Refused, Reused, NotCached, Created, CreateFails,
   Copied, CopyFails, HeaderLied, Extracted, LoadFails, Loaded, Remember, SaveStep, Replied,
   LoadFile, LoadDir, LoadArchive, ArchiveUnread, Begin, PostSettings, ClientGone, history

LEMMA OneExtractsStep ==
  ASSUME TypeInv, OneExtracts, NEW c \in Callers, Work(c) \/ Ask(c)
  PROVE  OneExtracts'
<1> SUFFICES ASSUME NEW n \in Names, n \notin clashed',
                    NEW d \in Callers, NEW e \in Callers,
                    d \in Extracting(n)', e \in Extracting(n)', d # e
             PROVE  FALSE
  BY DEF OneExtracts, Extracting
<1>1. n \notin clashed
  BY ClashedGrows
<1>2. ASSUME NEW f \in Callers, f # c, f \in Extracting(n)', c \in Extracting(n)'
      PROVE  FALSE
  <2>1. f \in Extracting(n)
    BY <1>2, OthersExtract
  <2>2. c \in Extracting(n)
    BY <1>2, <2>1, Joins
  <2> QED BY <1>1, <1>2, <2>1, <2>2 DEF OneExtracts
<1>3. d # c /\ e # c
  BY <1>2
<1>4. d \in Extracting(n) /\ e \in Extracting(n)
  BY <1>3, OthersExtract
<1> QED BY <1>1, <1>4 DEF OneExtracts

\* What a name holds is known as long as nobody writes to it, and whoever extracts
\* to it stays where it is or has not copied anything yet.
LEMMA HeldStays ==
  ASSUME NEW i, NEW n, Held(i, n), disk'[n] = disk[n],
         \A d \in Extracting(n)' :
           \/ pc'[d] \in {"stat", "open"}
           \/ /\ d \in Extracting(n) /\ pc'[d] = pc[d] /\ at'[d] = at[d]
              /\ pc[d] = "copy" => linked'[d] = linked[d]
  PROVE  Held(i, n)'
<1>1. ASSUME NEW d \in Extracting(n)'
      PROVE  /\ pc'[d] = "copy" => linked'[d] /\ disk'[n] = Prefix(i, at'[d])
             /\ pc'[d] = "load" => disk'[n] = Whole(i)
  BY <1>1 DEF Held
<1>2. \/ disk'[n] = Absent
      \/ disk'[n] = Before[n] /\ Len(Before[n]) # Entries[i].declared
      \/ disk'[n] = Prefix(i, Len(disk'[n]))
  BY DEF Held
<1> QED BY <1>1, <1>2 DEF Held, Prefix, Whole

\* The steps of the one request that extracts to the name.
LEMMA HeldMoves ==
  ASSUME TypeInv, NEW i \in Shown, NEW n \in Names, n = Entries[i].base, Plain(i), Held(i, n),
         NEW c \in Callers, c \in Extracting(n), Extracting(n)' \subseteq {c},
         Reused(c) \/ Created(c) \/ Copied(c) \/ Extracted(c) \/ Removed(c)
  PROVE  Held(i, n)'
<1>1. Item(c).entry = i /\ Here(c) = n /\ i \in Nat /\ EntryOf(c) = Entries[i]
  BY ExtractsIt DEF EntryOf
<1>2. Entries[i].actual \in Nat /\ Entries[i].declared = Entries[i].actual
  <2>1. Entries[i] \in Entry
    BY ArchiveAssumption, ShownFinite DEF Shown
  <2> QED BY <2>1 DEF Entry, Plain, Honest
<1>3. /\ pc \in [Callers -> Steps] /\ at \in [Callers -> Nat] /\ linked \in [Callers -> BOOLEAN]
      /\ disk \in [Names -> Seq(Int)]
  BY DEF TypeInv, RequestTypeOK, FilesTypeOK
<1>4. /\ \A k \in Nat : Len(Prefix(i, k)) = k
      /\ \A k \in Nat : Put(Prefix(i, k), k + 1, i) = Prefix(i, k + 1)
      /\ << >> = Prefix(i, 0)
      /\ Whole(i) = Prefix(i, Entries[i].actual)
  <2>1. i \in Int
    BY <1>1
  <2> QED BY <2>1, PrefixFacts
<1>5. CASE Reused(c)
  <2>1. pc'[c] = "load" /\ UNCHANGED disk /\ disk[n] # Absent
        /\ Len(disk[n]) = Entries[i].declared
    BY <1>1, <1>3, <1>5 DEF Reused, Cached, Goto, files
  <2>2. disk[n] = Whole(i)
    BY <1>2, <1>4, <2>1 DEF Held
  <2>3. disk'[n] = Prefix(i, Len(disk'[n]))
    BY <1>1, <1>2, <1>4, <2>1, <2>2
  <2> QED BY <2>1, <2>2, <2>3 DEF Held, Whole, Prefix
<1>6. CASE Created(c)
  <2>1. pc[c] # "copy"
    BY <1>6 DEF Created
  <2>2. pc'[c] = "copy" /\ at'[c] = 0 /\ linked'[c] = TRUE /\ disk'[n] = << >>
    BY <1>1, <1>3, <1>6, <2>1 DEF Created, Goto, TypeInv, AtHand
  <2>3. disk'[n] = Prefix(i, 0) /\ Len(disk'[n]) = 0
    BY <1>4, <2>2
  <2> QED BY <2>2, <2>3 DEF Held, Prefix
<1>7. CASE Copied(c)
  <2>1. pc[c] = "copy" /\ linked[c] /\ disk[n] = Prefix(i, at[c]) /\ at[c] \in Nat
    BY <1>3, <1>7 DEF Copied, Held
  <2>2. /\ disk'[n] = Put(disk[n], at[c] + 1, i) /\ at'[c] = at[c] + 1 /\ pc'[c] = "copy"
        /\ linked'[c] = linked[c]
    BY <1>1, <1>3, <1>7, <2>1 DEF Copied
  <2>3. disk'[n] = Prefix(i, at'[c]) /\ Len(disk'[n]) = at'[c]
    BY <1>4, <2>1, <2>2
  <2> QED BY <2>1, <2>2, <2>3 DEF Held, Prefix
<1>8. CASE Extracted(c)
  <2>1. pc[c] = "copy" /\ disk[n] = Prefix(i, at[c]) /\ at[c] = Entries[i].actual
    BY <1>1, <1>8 DEF Extracted, Held
  <2>2. pc'[c] = "load" /\ UNCHANGED disk
    BY <1>3, <1>8 DEF Extracted, Goto, files
  <2>3. disk'[n] = Whole(i) /\ disk'[n] = Prefix(i, Len(disk'[n]))
    BY <1>1, <1>2, <1>4, <2>1, <2>2
  <2> QED BY <2>2, <2>3 DEF Held, Whole, Prefix
<1>9. CASE Removed(c)
  <2>1. disk'[n] = Absent
    BY <1>1, <1>3, <1>9 DEF Removed
  <2>2. todo[c] # << >>
    BY DEF Extracting, TypeInv, AtHand, EntrySteps
  <2>3. pc'[c] \in {"idle", "next"}
    BY <1>9, <2>2, RemovedType
  <2> QED BY <2>1, <2>3 DEF Held
<1> QED BY <1>5, <1>6, <1>7, <1>8, <1>9

LEMMA HeldStep ==
  ASSUME TypeInv, OneExtracts, NEW c \in Callers, Work(c) \/ Ask(c),
         NEW i \in Shown, NEW n \in Names, n = Entries[i].base, Plain(i), n \notin clashed',
         Held(i, n)
  PROVE  Held(i, n)'
<1>1. n \notin clashed
  BY ClashedGrows
<1>a. pc[c] \in EntrySteps \cup {"load"} => todo[c] # << >>
  BY DEF TypeInv, AtHand
<1>b. pc[c] \in EntrySteps => Item(c).entry # 0
  BY DEF TypeInv, AtHand
<1>c. /\ pc \in [Callers -> Steps] /\ linked \in [Callers -> BOOLEAN]
      /\ disk \in [Names -> Seq(Int)]
  BY DEF TypeInv, RequestTypeOK, FilesTypeOK
<1>2. ASSUME Reused(c) \/ Created(c) \/ Copied(c) \/ Extracted(c) \/ Removed(c),
             c \in Extracting(n)
      PROVE  Held(i, n)'
  <2>1. Extracting(n)' \subseteq {c}
    <3> SUFFICES ASSUME NEW d \in Callers, d \in Extracting(n)', d # c PROVE FALSE
      BY DEF Extracting
    <3> QED BY <1>1, <1>2, OthersExtract DEF OneExtracts
  <2> QED BY <1>2, <2>1, HeldMoves
<1>3. ASSUME UNCHANGED disk, \A d \in Callers : d # c => linked'[d] = linked[d],
             c \in Extracting(n)' => pc'[c] \in {"stat", "open"}
      PROVE  Held(i, n)'
  <2>1. ASSUME NEW d \in Extracting(n)'
        PROVE \/ pc'[d] \in {"stat", "open"}
              \/ /\ d \in Extracting(n) /\ pc'[d] = pc[d] /\ at'[d] = at[d]
                 /\ pc[d] = "copy" => linked'[d] = linked[d]
    <3>1. d \in Callers
      BY DEF Extracting
    <3> QED BY <1>3, <2>1, <3>1, OthersExtract
  <2> QED BY <1>3, <2>1, HeldStays
\* An item of another name, or not of the archive.
<1>4. ASSUME c \notin Extracting(n), c \notin Extracting(n)', disk'[n] = disk[n],
             \A d \in Callers : d # c /\ d \in Extracting(n) => linked'[d] = linked[d]
      PROVE  Held(i, n)'
  <2>1. ASSUME NEW d \in Extracting(n)'
        PROVE /\ d \in Extracting(n) /\ pc'[d] = pc[d] /\ at'[d] = at[d]
              /\ pc[d] = "copy" => linked'[d] = linked[d]
    <3>1. d \in Callers
      BY DEF Extracting
    <3> QED BY <1>4, <2>1, <3>1, OthersExtract
  <2> QED BY <1>4, <2>1, HeldStays
<1>5. CASE \/ Reused(c) \/ Created(c) \/ Copied(c) \/ Extracted(c)
           \/ Removed(c) /\ pc[c] = "copy"
  <2>1. CASE c \in Extracting(n)
    BY <1>2, <1>5, <2>1
  <2>2. CASE c \notin Extracting(n)
    <3>1. pc[c] \in EntrySteps
      BY <1>5 DEF Reused, Created, Copied, Extracted, EntrySteps
    <3>2. Here(c) # n
      BY <1>b, <2>2, <3>1 DEF Extracting, EntrySteps
    <3>3. disk'[n] = disk[n]
      BY <1>5, <1>c, <3>2 DEF Reused, Created, Copied, Extracted, Removed, files
    <3>4. c \notin Extracting(n)'
      <4>1. CASE Removed(c)
        <5>1. pc'[c] \in {"idle", "next"}
          BY <1>a, <3>1, <4>1, RemovedType
        <5> QED BY <5>1 DEF Extracting
      <4>2. CASE ~Removed(c)
        <5>1. UNCHANGED todo
          BY <1>5, <4>2 DEF Reused, Created, Copied, Extracted
        <5> QED BY <3>2, <5>1 DEF Extracting, Here, Item
      <4> QED BY <4>1, <4>2
    <3>5. ASSUME NEW d \in Callers, d # c, d \in Extracting(n) PROVE linked'[d] = linked[d]
      <4>1. CASE Removed(c)
        <5>1. d \notin Writers(Here(c))
          BY <3>2, <3>5 DEF Writers, Extracting
        <5>2. linked' = [e \in Callers |-> linked[e] /\ e # c /\ e \notin Writers(Here(c))]
          BY <4>1 DEF Removed
        <5>3. linked'[d] = (linked[d] /\ d # c /\ d \notin Writers(Here(c)))
          BY <5>2
        <5>4. linked[d] \in BOOLEAN
          BY <1>c
        <5> QED BY <3>5, <5>1, <5>3, <5>4
      <4>2. CASE ~Removed(c)
        BY <1>5, <1>c, <3>5, <4>2 DEF Reused, Created, Copied, Extracted
      <4> QED BY <4>1, <4>2
    <3> QED BY <1>4, <2>2, <3>3, <3>4, <3>5
  <2> QED BY <2>1, <2>2
<1>6. CASE CopyFails(c) \/ HeaderLied(c)
  BY <1>5, <1>6 DEF CopyFails, HeaderLied
<1>7. CASE NextItem(c)
  <2>1. pc'[c] = (IF Item(c).entry = 0 THEN "load" ELSE "stat") /\ UNCHANGED <<todo, disk, linked>>
    BY <1>7, <1>c DEF NextItem, Goto, files
  <2>2. Item(c).entry = 0 => c \notin Extracting(n)'
    BY <2>1 DEF Extracting, Item
  <2> QED BY <1>3, <2>1, <2>2
<1>8. CASE NotCached(c)
  BY <1>3, <1>8, <1>c DEF NotCached, Goto, files
<1>9. CASE Refused(c) \/ CreateFails(c) \/ LoadFails(c)
  <2>1. ItemFailed(c) /\ todo[c] # << >> /\ UNCHANGED disk
    BY <1>9, <1>a DEF Refused, CreateFails, LoadFails, EntrySteps, files
  <2>2. pc'[c] \in {"idle", "next"} /\ \A d \in Callers : d # c => linked'[d] = linked[d]
    BY <2>1, ItemFailedType
  <2> QED BY <1>3, <2>1, <2>2 DEF Extracting
<1>10. CASE Replied(c)
  BY <1>3, <1>10, ReplyType DEF Replied, Extracting, files
<1>11. CASE BatchEnds(c) \/ Loaded(c) \/ Remember(c)
  <2>1. pc'[c] \in {"next", "update", "saving"} /\ UNCHANGED <<disk, linked>>
    BY <1>11, <1>c DEF BatchEnds, Loaded, Remember, Goto, files
  <2> QED BY <1>3, <2>1 DEF Extracting
<1>12. CASE \/ LoadFile(c) \/ LoadDir(c) \/ LoadArchive(c) \/ ArchiveUnread(c)
            \/ \E p \in Posted : PostSettings(c, p)
  <2>1. pc'[c] \in {"next", "update", "saving"} /\ UNCHANGED <<disk, linked>>
    BY <1>12, <1>c DEF LoadFile, LoadDir, LoadArchive, ArchiveUnread, Begin, PostSettings, Goto, files
  <2> QED BY <1>3, <2>1 DEF Extracting
<1>13. CASE SaveStep(c) \/ ClientGone(c)
  <2>1. UNCHANGED <<disk, pc, todo, at, linked>>
    BY <1>13 DEF SaveStep, ClientGone, files, request
  <2>2. Extracting(n)' = Extracting(n)
    BY <2>1 DEF Extracting, Item, Here
  <2> QED BY <2>1, <2>2, HeldStays
<1> QED BY <1>5, <1>6, <1>7, <1>8, <1>9, <1>10, <1>11, <1>12, <1>13 DEF Work, Ask

\* The copy a request loads.
LEMMA LoadedIsTheEntryStep ==
  ASSUME TypeInv, CopiesHeld, NEW c \in Callers, Work(c) \/ Ask(c)
  PROVE  LoadedIsTheEntry'
<1>1. clashed \subseteq clashed'
  BY ClashedGrows
<1>2. CASE Loaded(c) /\ Item(c).entry # 0 /\ disk[Here(c)] # Whole(Item(c).entry)
  <2>1. pc[c] = "load" /\ wrong' = wrong \cup {Item(c)} /\ UNCHANGED clashed
    BY <1>2 DEF Loaded
  <2>2. todo[c] # << >>
    BY <2>1 DEF TypeInv, AtHand
  <2>3. Here(c) \in Names /\ Item(c).entry \in Shown /\ Here(c) = Entries[Item(c).entry].base
    BY <1>2, <2>2, ItemAtHand
  <2>4. c \in Extracting(Here(c))
    BY <1>2, <2>1 DEF Extracting
  <2>5. ASSUME Plain(Item(c).entry), Here(c) \notin clashed PROVE FALSE
    <3>1. Held(Item(c).entry, Here(c))
      BY <2>3, <2>5 DEF CopiesHeld
    <3> QED BY <1>2, <2>1, <2>4, <3>1 DEF Held
  <2>6. Plain(Item(c).entry) => Item(c).base \in clashed
    BY <2>5 DEF Here
  <2> QED BY <2>1, <2>6 DEF CopiesHeld, LoadedIsTheEntry, Plain
<1>3. CASE ~(Loaded(c) /\ Item(c).entry # 0 /\ disk[Here(c)] # Whole(Item(c).entry))
  <2>1. UNCHANGED wrong
    BY <1>3 DEF Work, Ask, NextItem, BatchEnds, Refused, Reused, NotCached, Created, CreateFails,
       Copied, CopyFails, HeaderLied, Extracted, LoadFails, Loaded, Remember, SaveStep, Replied,
       LoadFile, LoadDir, LoadArchive, ArchiveUnread, Begin, PostSettings, ClientGone, history
  <2> QED BY <1>1, <2>1 DEF CopiesHeld, LoadedIsTheEntry, Plain
<1> QED BY <1>2, <1>3

LEMMA CopiesStep == TypeInv /\ CopiesHeld /\ [Next]_vars => CopiesHeld'
<1> SUFFICES ASSUME TypeInv, CopiesHeld, [Next]_vars PROVE CopiesHeld'
  OBVIOUS
<1>1. ASSUME NEW c \in Callers, Work(c) \/ Ask(c) PROVE CopiesHeld'
  <2>1. OneExtracts'
    BY <1>1, OneExtractsStep DEF CopiesHeld
  <2>2. ASSUME NEW i \in Shown, NEW n \in Names, n \notin clashed', Plain(i), n = Entries[i].base
        PROVE  Held(i, n)'
    <3>1. Held(i, n)
      BY <1>1, <2>2, ClashedGrows DEF CopiesHeld
    <3> QED BY <1>1, <2>2, <3>1, HeldStep DEF CopiesHeld
  <2>3. LoadedIsTheEntry'
    BY <1>1, LoadedIsTheEntryStep
  <2>4. \A i \in Shown, n \in Names \ clashed' : Plain(i) /\ n = Entries[i].base => Held(i, n)'
    BY <2>2
  <2> QED BY <2>1, <2>3, <2>4 DEF CopiesHeld, Shown, Plain
\* A step of the process, or an unload: no file changes, and requests stay or end.
<1>2. ASSUME UNCHANGED <<disk, clashed, wrong>>,
             \/ UNCHANGED <<pc, todo, at, linked>>
             \/ \A c \in Callers : pc'[c] = "idle"
      PROVE  CopiesHeld'
  <2>1. ASSUME NEW n PROVE \A c \in Extracting(n)' : /\ c \in Extracting(n) /\ pc'[c] = pc[c]
                                                     /\ at'[c] = at[c] /\ linked'[c] = linked[c]
    BY <1>2 DEF Extracting, Item, Here
  <2>2. OneExtracts'
    BY <1>2, <2>1 DEF CopiesHeld, OneExtracts
  <2>3. ASSUME NEW i \in Shown, NEW n \in Names \ clashed', Plain(i), n = Entries[i].base
        PROVE  Held(i, n)'
    <3>1. Held(i, n)
      BY <1>2, <2>3 DEF CopiesHeld
    <3> QED BY <1>2, <2>1, <3>1, HeldStays
  <2>4. LoadedIsTheEntry'
    BY <1>2 DEF CopiesHeld, LoadedIsTheEntry, Plain
  <2>5. \A i \in Shown, n \in Names \ clashed' : Plain(i) /\ n = Entries[i].base => Held(i, n)'
    BY <2>3
  <2> QED BY <2>2, <2>4, <2>5 DEF CopiesHeld, Shown, Plain
<1>3. ASSUME NEW n \in Names, Unload(n) PROVE CopiesHeld'
  BY <1>2, <1>3 DEF Unload, request, history
<1>4. CASE End
  BY <1>2, <1>4 DEF End, history
<1>5. CASE Start
  BY <1>2, <1>5 DEF Start, request, history
<1>6. CASE UNCHANGED vars
  BY <1>2, <1>6 DEF vars, files, request, history
<1> QED BY <1>1, <1>3, <1>4, <1>5, <1>6 DEF Next

LEMMA CopiesInit == Init => CopiesHeld
<1> SUFFICES ASSUME Init PROVE CopiesHeld
  OBVIOUS
<1>1. \A n : Extracting(n) = {}
  BY DEF Init, Extracting
<1>2. ASSUME NEW i \in Shown, Plain(i) PROVE Held(i, Entries[i].base)
  BY <1>1, <1>2 DEF Held, Init, Plain
<1>3. LoadedIsTheEntry
  BY DEF Init, LoadedIsTheEntry
<1> QED BY <1>1, <1>2, <1>3 DEF CopiesHeld, OneExtracts

\* An entry is loaded with its own contents, whatever a copy that failed, or that
\* the end of the process cut off, left behind: a file that has the declared size
\* of an entry no other shares its name with is that entry, unless two requests
\* extracted to the name at once.
THEOREM EntryLoadedWhole == Spec => []LoadedIsTheEntry
<1>1. CopiesHeld => LoadedIsTheEntry
  BY DEF CopiesHeld
<1> QED BY <1>1, CopiesInit, CopiesStep, TypeInit, TypeStep, PTL DEF Spec

-----------------------------------------------------------------------------
(* The running total of a batch *)

LEMMA CellsPlacedStep == TypeInv /\ CellsPlaced /\ [Next]_vars => CellsPlaced'
<1> SUFFICES ASSUME TypeInv, CellsPlaced, [Next]_vars PROVE CellsPlaced'
  OBVIOUS
<1>1. disk \in [Names -> Seq(Int)]
  BY DEF TypeInv, FilesTypeOK
<1>2. ASSUME NEW n \in Names, disk' = [disk EXCEPT ![n] = << >>] \/ disk' = [disk EXCEPT ![n] = Absent]
      PROVE  CellsPlaced'
  <2>1. \A k \in DOMAIN disk'[n] : disk'[n][k] \notin DOMAIN Entries
    BY <1>1, <1>2, ShownFinite DEF Absent
  <2>2. \A m \in Names : m # n => disk'[m] = disk[m]
    BY <1>1, <1>2
  <2> QED BY <2>1, <2>2 DEF CellsPlaced
<1>3. ASSUME NEW c \in Callers, Copied(c), linked[c] PROVE CellsPlaced'
  <2>1. todo[c] # << >> /\ Item(c).entry # 0 /\ at[c] \in Nat
    BY <1>3 DEF Copied, TypeInv, AtHand, EntrySteps, RequestTypeOK
  <2> DEFINE n == Here(c)
             e == Item(c).entry
             p == at[c] + 1
  <2>2. n \in Names /\ e \in DOMAIN Entries /\ n = Entries[e].base /\ Entries[e].actual \in Nat
    BY <2>1, ItemAtHand DEF Shown, Entry, EntryOf
  <2>3. p <= Entries[e].actual
    BY <1>3, <2>1, <2>2, ArchiveAssumption DEF Copied, CopyEnd, EntryOf
  <2>4. disk' = [disk EXCEPT ![n] = Put(@, p, e)]
    BY <1>3 DEF Copied
  <2> HIDE DEF n, e, p
  <2>5. disk'[n] = Put(disk[n], p, e) /\ \A m \in Names : m # n => disk'[m] = disk[m]
    BY <1>1, <2>2, <2>4
  <2>6. ASSUME NEW k \in DOMAIN disk'[n], disk'[n][k] \in DOMAIN Entries
        PROVE  Entries[disk'[n][k]].base = n /\ k <= Entries[disk'[n][k]].actual
    <3>1. CASE k = p
      BY <2>2, <2>3, <2>5, <2>6, <3>1 DEF Put
    <3>2. CASE k # p /\ k <= Len(disk[n])
      <4>1. disk[n] \in Seq(Int) /\ Len(disk[n]) \in Nat /\ DOMAIN disk[n] = 1..Len(disk[n])
        BY <1>1, <2>2, LenProperties
      <4>2. k \in 1..(IF p > Len(disk[n]) THEN p ELSE Len(disk[n]))
        BY <2>5, <2>6 DEF Put
      <4>3. k \in DOMAIN disk[n]
        BY <3>2, <4>1, <4>2
      <4>4. disk'[n][k] = disk[n][k]
        BY <2>5, <3>2, <4>2 DEF Put
      <4> QED BY <2>2, <2>6, <4>3, <4>4 DEF CellsPlaced
    <3>3. CASE k # p /\ ~(k <= Len(disk[n]))
      <4>1. disk'[n][k] = 0
        BY <2>5, <2>6, <3>3 DEF Put, Hole
      <4> QED BY <2>6, <4>1, ShownFinite
    <3> QED BY <3>1, <3>2, <3>3
  <2>7. ASSUME NEW m \in Names, NEW k \in DOMAIN disk'[m], disk'[m][k] \in DOMAIN Entries
        PROVE  Entries[disk'[m][k]].base = m /\ k <= Entries[disk'[m][k]].actual
    BY <2>5, <2>6, <2>7 DEF CellsPlaced
  <2> QED BY <2>7 DEF CellsPlaced
<1>4. CASE UNCHANGED disk
  BY <1>4 DEF CellsPlaced
<1>5. ASSUME NEW c \in Callers, Created(c) \/ CopyFails(c) \/ HeaderLied(c) PROVE CellsPlaced'
  <2>1. todo[c] # << >>
    BY <1>5 DEF Created, CopyFails, HeaderLied, TypeInv, AtHand, EntrySteps
  <2>2. Here(c) \in Names
    BY <2>1, ItemAtHand
  <2>3. disk' = [disk EXCEPT ![Here(c)] = << >>] \/ disk' = [disk EXCEPT ![Here(c)] = Absent]
    BY <1>5 DEF Created, CopyFails, HeaderLied, Removed
  <2> QED BY <1>2, <2>2, <2>3
<1>6. ASSUME NEW c \in Callers, Copied(c) PROVE CellsPlaced'
  BY <1>3, <1>4, <1>6 DEF Copied
<1>7. ASSUME NEW c \in Callers, Ask(c) PROVE CellsPlaced'
  BY <1>4, <1>7 DEF Ask, LoadFile, LoadDir, LoadArchive, ArchiveUnread, Begin, PostSettings, ClientGone, files
<1>8. ASSUME NEW c \in Callers, Work(c) PROVE CellsPlaced'
  BY <1>4, <1>5, <1>6, <1>8 DEF Work, NextItem, BatchEnds, Refused, Reused, NotCached, CreateFails,
     Extracted, LoadFails, Loaded, Remember, SaveStep, Replied, files
<1> QED BY <1>4, <1>7, <1>8 DEF Next, Unload, End, Start, vars, files

\* The cells of the entries of one more item.
Weight(x) == IF x.entry # 0 /\ Honest(x.entry) THEN Entries[x.entry].actual ELSE 0

LEMMA RowOfCells ==
  ASSUME NEW i, NEW a \in Nat
  PROVE  IsFiniteSet({i} \X (1..a)) /\ Cardinality({i} \X (1..a)) = a
<1>1. IsFiniteSet({i}) /\ Cardinality({i}) = 1
  BY FS_Singleton
<1>2. IsFiniteSet(1..a) /\ Cardinality(1..a) = a
  BY FS_Interval
<1>3. Cardinality({i} \X (1..a)) = 1 * a
  BY <1>1, <1>2, FS_Product
<1>4. IsFiniteSet({i} \X (1..a))
  BY <1>1, <1>2, FS_Product
<1>5. 1 * a = a
  OBVIOUS
<1> QED BY <1>3, <1>4, <1>5

LEMMA CellsAdd ==
  ASSUME NEW S, IsFiniteSet(CellsOf(S)), NEW x \in Items
  PROVE  /\ IsFiniteSet(CellsOf(S \cup {x})) /\ Weight(x) \in Nat
         /\ Cardinality(CellsOf(S)) \in Nat /\ Cardinality(CellsOf(S \cup {x})) \in Nat
         /\ Cardinality(CellsOf(S \cup {x})) <= Cardinality(CellsOf(S)) + Weight(x)
<1> DEFINE i == x.entry
           Of(T) == {j \in Shown : Honest(j) /\ EntryItem(j) \in T}
           new == {i} \X (1..Entries[i].actual)
<1>1. \A j \in Shown : EntryItem(j).entry = j /\ j # 0
  BY ShownFinite DEF EntryItem, Shown
<1>2. Cardinality(CellsOf(S)) \in Nat
  BY FS_CardinalityType
<1>3. CASE i # 0 /\ Honest(i) /\ x \notin S
  <2>1. i \in Shown /\ x = EntryItem(i)
    BY <1>3, ItemFacts
  <2>2. Entries[i] \in Entry
    BY <2>1, ArchiveAssumption, ShownFinite DEF Shown
  <2>3. Entries[i].actual \in Nat /\ Weight(x) = Entries[i].actual
    BY <1>3, <2>2 DEF Entry, Weight
  <2>4. Of(S \cup {x}) = Of(S) \cup {i} /\ i \notin Of(S)
    BY <1>1, <1>3, <2>1
  <2>5. CellsOf(S \cup {x}) = CellsOf(S) \cup new
    <3> DEFINE C(j) == {j} \X (1..Entries[j].actual)
    <3>1. CellsOf(S \cup {x}) = UNION {C(j) : j \in Of(S \cup {x})}
          /\ CellsOf(S) = UNION {C(j) : j \in Of(S)}
      BY DEF CellsOf
    <3>2. new = C(i)
      OBVIOUS
    <3> HIDE DEF C, Of, new
    <3> QED BY <2>4, <3>1, <3>2
  <2>6. CellsOf(S) \cap new = {}
    <3> SUFFICES ASSUME NEW p \in CellsOf(S), p \in new PROVE FALSE
      OBVIOUS
    <3>1. PICK j \in Of(S) : p \in {j} \X (1..Entries[j].actual)
      BY DEF CellsOf
    <3>2. p[1] = j /\ p[1] = i
      BY <3>1
    <3> QED BY <2>4, <3>2
  <2>7. IsFiniteSet(new) /\ Cardinality(new) = Entries[i].actual
    BY <2>3, RowOfCells
  <2> HIDE DEF new, i, Of
  <2>8. /\ IsFiniteSet(CellsOf(S) \cup new)
        /\ Cardinality(CellsOf(S) \cup new) = Cardinality(CellsOf(S)) + Cardinality(new)
    <3>1. Cardinality(CellsOf(S) \cap new) = 0
      BY <2>6, FS_EmptySet
    <3>2. /\ IsFiniteSet(CellsOf(S) \cup new)
          /\ Cardinality(CellsOf(S) \cup new)
               = Cardinality(CellsOf(S)) + Cardinality(new) - Cardinality(CellsOf(S) \cap new)
      BY <2>7, FS_Union
    <3>3. Cardinality(new) \in Nat
      BY <2>3, <2>7
    <3> QED BY <1>2, <3>1, <3>2, <3>3
  <2>9. Cardinality(CellsOf(S) \cup new) = Cardinality(CellsOf(S)) + Weight(x)
    BY <2>3, <2>7, <2>8
  <2>10. Weight(x) \in Nat
    BY <2>3
  <2>11. /\ Cardinality(CellsOf(S \cup {x})) = Cardinality(CellsOf(S)) + Weight(x)
         /\ IsFiniteSet(CellsOf(S \cup {x}))
    BY <2>5, <2>8, <2>9
  <2> QED BY <1>2, <2>10, <2>11
<1>4. CASE ~(i # 0 /\ Honest(i) /\ x \notin S)
  <2>1. ASSUME NEW j \in Shown, Honest(j), EntryItem(j) = x PROVE x \in S
    <3>1. i = j /\ j # 0
      BY <1>1, <2>1
    <3> QED BY <1>4, <2>1, <3>1
  <2>2. Of(S \cup {x}) = Of(S)
    BY <2>1
  <2>3. CellsOf(S \cup {x}) = CellsOf(S)
    BY <2>2 DEF CellsOf
  <2>4. Weight(x) \in Nat
    <3>1. CASE i # 0
      <4>1. Entries[i] \in Entry
        BY <3>1, ItemFacts, ArchiveAssumption, ShownFinite DEF Shown
      <4> QED BY <4>1 DEF Entry, Weight
    <3>2. CASE i = 0
      BY <3>2 DEF Weight
    <3> QED BY <3>1, <3>2
  <2> QED BY <1>2, <2>3, <2>4
<1> QED BY <1>3, <1>4

LEMMA CellsOfSubset ==
  ASSUME NEW T, IsFiniteSet(CellsOf(T)), NEW S \in SUBSET T
  PROVE  /\ IsFiniteSet(CellsOf(S)) /\ Cardinality(CellsOf(S)) \in Nat
         /\ Cardinality(CellsOf(T)) \in Nat /\ Cardinality(CellsOf(S)) <= Cardinality(CellsOf(T))
<1>1. CellsOf(S) \in SUBSET CellsOf(T)
  BY DEF CellsOf
<1> QED BY <1>1, FS_Subset, FS_CardinalityType

LEMMA ConstantBounds ==
  /\ TotalCap \in Nat /\ EntryCap \in Nat /\ Slack \in Nat
  /\ \A i \in Shown : /\ Entries[i].declared \in Nat /\ Entries[i].actual \in Nat
                      /\ Entries[i].actual <= Entries[i].declared + Slack
                           \/ Entries[i].actual > EntryCap
<1>1. TotalCap \in Nat /\ EntryCap \in Nat /\ Slack \in Nat
  BY ArchiveAssumption DEF Slack
<1>2. ASSUME NEW i \in Shown PROVE Entries[i] \in Entry
  BY ArchiveAssumption, ShownFinite DEF Shown
<1>3. ASSUME NEW i \in Shown
      PROVE  /\ Entries[i].declared \in Nat /\ Entries[i].actual \in Nat
             /\ Entries[i].actual <= Entries[i].declared + Slack \/ Entries[i].actual > EntryCap
  <2>1. Entries[i].declared \in Nat /\ Entries[i].actual \in Nat
    BY <1>2 DEF Entry
  <2>2. Entries[i].declared = Entries[i].actual \/ Slack = EntryCap
    BY DEF Slack, Honest, Shown
  <2> QED BY <1>1, <2>1, <2>2
<1> QED BY <1>1, <1>3

\* A request counts no more entries, and no less size.
LEMMA CountKept ==
  ASSUME NEW c \in Callers, CountOK(c), UNCHANGED <<kind[c], total[c]>>, total[c] \in Nat,
         Counting(c)' \subseteq Counting(c),
         Batch(c) /\ pc'[c] \in {"open", "copy"} =>
           total[c] + EntryOf(c)'.declared <= TotalCap
  PROVE  CountOK(c)'
<1> DEFINE old == Counting(c)
           new == Counting(c)'
<1>1. kind[c] = "archive" => IsFiniteSet(CellsOf(new)) /\ Cardinality(CellsOf(new)) <= total[c]
  <2> SUFFICES ASSUME kind[c] = "archive"
               PROVE  IsFiniteSet(CellsOf(new)) /\ Cardinality(CellsOf(new)) <= total[c]
    OBVIOUS
  <2>1. IsFiniteSet(CellsOf(old)) /\ Cardinality(CellsOf(old)) <= total[c] /\ new \in SUBSET old
    BY DEF CountOK
  <2> HIDE DEF old, new
  <2> QED BY <2>1, CellsOfSubset
<1>2. kind[c] = "archive" => /\ IsFiniteSet(CellsOf(Counting(c)'))
                             /\ Cardinality(CellsOf(Counting(c)')) <= total[c]
  BY <1>1
<1>3. Slack' = Slack /\ TotalCap' = TotalCap
  BY DEF Slack
<1> QED BY <1>2, <1>3 DEF CountOK, Batch, CellsOf, Shown, Honest, EntryItem

\* It counts one more, at its size or more.
LEMMA CountMoves ==
  ASSUME NEW c \in Callers, CountOK(c), UNCHANGED kind[c], total[c] \in Nat,
         NEW x \in Items, NEW w \in Nat, total'[c] = total[c] + w, Weight(x) <= w,
         total'[c] <= TotalCap + Slack,
         Counting(c)' \subseteq Counting(c) \cup {x}, pc'[c] \notin {"open", "copy"}
  PROVE  CountOK(c)'
<1> DEFINE old == Counting(c)
           new == Counting(c)'
<1>1. kind[c] = "archive" => IsFiniteSet(CellsOf(new)) /\ Cardinality(CellsOf(new)) <= total'[c]
  <2> SUFFICES ASSUME kind[c] = "archive"
               PROVE  IsFiniteSet(CellsOf(new)) /\ Cardinality(CellsOf(new)) <= total'[c]
    OBVIOUS
  <2>1. IsFiniteSet(CellsOf(old)) /\ Cardinality(CellsOf(old)) <= total[c]
        /\ new \in SUBSET (old \cup {x})
    BY DEF CountOK
  <2> HIDE DEF old, new
  <2>2. /\ IsFiniteSet(CellsOf(old \cup {x})) /\ Weight(x) \in Nat
        /\ Cardinality(CellsOf(old)) \in Nat /\ Cardinality(CellsOf(old \cup {x})) \in Nat
        /\ Cardinality(CellsOf(old \cup {x})) <= Cardinality(CellsOf(old)) + Weight(x)
    BY <2>1, CellsAdd
  <2>3. /\ IsFiniteSet(CellsOf(new)) /\ Cardinality(CellsOf(new)) \in Nat
        /\ Cardinality(CellsOf(new)) <= Cardinality(CellsOf(old \cup {x}))
    BY <2>1, <2>2, CellsOfSubset
  <2> QED BY <2>1, <2>2, <2>3
<1>2. kind[c] = "archive" => /\ IsFiniteSet(CellsOf(Counting(c)'))
                             /\ Cardinality(CellsOf(Counting(c)')) <= total'[c]
  BY <1>1
<1>3. Slack' = Slack /\ TotalCap' = TotalCap
  BY DEF Slack
<1> QED BY <1>2, <1>3 DEF CountOK, Batch, CellsOf, Shown, Honest, EntryItem

\* A request that has nothing to count.
LEMMA CountFresh ==
  ASSUME NEW c \in Callers, total'[c] \in Nat, total'[c] <= TotalCap + Slack, 
         kind'[c] = "archive" => Counting(c)' = {},
         pc'[c] \notin {"open", "copy"}
  PROVE  CountOK(c)'
<1>1. CellsOf({}) = {}
  BY DEF CellsOf
<1>2. IsFiniteSet(CellsOf({})) /\ Cardinality(CellsOf({})) = 0
  BY <1>1, FS_EmptySet
<1>3. kind'[c] = "archive" => /\ IsFiniteSet(CellsOf(Counting(c)'))
                              /\ Cardinality(CellsOf(Counting(c)')) <= total'[c]
  BY <1>2
<1>4. Slack' = Slack /\ TotalCap' = TotalCap
  BY DEF Slack
<1> QED BY <1>3, <1>4 DEF CountOK, Batch, CellsOf, Shown, Honest, EntryItem

LEMMA TotalMoves ==
  ASSUME TypeInv, total \in [Callers -> Nat], NEW c \in Callers, Work(c) \/ Ask(c)
  PROVE  total' \in [Callers -> Nat] /\ \A d \in Callers : d # c => total'[d] = total[d]
<1>a. pc[c] \in EntrySteps \cup {"load"} => todo[c] # << >>
  BY DEF TypeInv, AtHand
<1>b. pc[c] \in EntrySteps => Item(c).entry # 0
  BY DEF TypeInv, AtHand
<1>1. CASE UNCHANGED total
  BY <1>1
<1>2. ASSUME Reply(c) PROVE total' \in [Callers -> Nat] /\ \A d \in Callers : d # c => total'[d] = total[d]
  BY <1>2 DEF Reply
<1>3. CASE Refused(c) \/ CreateFails(c) \/ LoadFails(c) \/ Replied(c)
  BY <1>1, <1>2, <1>3 DEF Refused, CreateFails, LoadFails, ItemFailed, Replied
<1>4. CASE Reused(c)
  <2>1. pc[c] = "stat" /\ Counted(c, EntryOf(c).declared)
    BY <1>4 DEF Reused
  <2>2. EntryOf(c).declared \in Nat
    BY <1>a, <1>b, <2>1, ItemAtHand DEF EntrySteps, Entry
  <2> QED BY <2>1, <2>2 DEF Counted
<1>5. CASE Extracted(c)
  <2>1. at[c] \in Nat /\ Counted(c, at[c])
    BY <1>5 DEF Extracted, TypeInv, RequestTypeOK
  <2> QED BY <2>1 DEF Counted
<1>6. CASE CopyFails(c) \/ HeaderLied(c)
  BY <1>1, <1>6 DEF CopyFails, HeaderLied, Removed
<1>7. CASE Ask(c)
  BY <1>1, <1>7 DEF Ask, LoadFile, LoadDir, LoadArchive, ArchiveUnread, Begin, PostSettings, ClientGone
<1>8. CASE \/ NextItem(c) \/ BatchEnds(c) \/ NotCached(c) \/ Created(c) \/ Copied(c)
           \/ Loaded(c) \/ Remember(c) \/ SaveStep(c)
  BY <1>1, <1>8 DEF NextItem, BatchEnds, NotCached, Created, Copied, Loaded, Remember, SaveStep,
     request
<1> QED BY <1>3, <1>4, <1>5, <1>6, <1>7, <1>8 DEF Work

LEMMA CountWork ==
  ASSUME TypeInv, CountInv, NEW c \in Callers, Work(c)
  PROVE  CountOK(c)'
<1>a. /\ total[c] \in Nat /\ CountOK(c) /\ total[c] <= TotalCap + Slack
      /\ total \in [Callers -> Nat]
  BY DEF CountInv, CountOK
<1>b. pc[c] \in EntrySteps \cup {"load"} => todo[c] # << >>
  BY DEF TypeInv, AtHand
<1>c. pc[c] \in EntrySteps => /\ Item(c) \in Items /\ Item(c).entry \in Shown /\ Item(c).entry # 0
                              /\ EntryOf(c) = Entries[Item(c).entry]
  BY <1>b, ItemAtHand DEF TypeInv, AtHand, EntryOf
<1>d. /\ pc \in [Callers -> Steps] /\ done \in [Callers -> SUBSET Items]
      /\ kind \in [Callers -> {"none", "one", "archive", "folder", "settings"}]
  BY DEF TypeInv, RequestTypeOK
<1>e. ASSUME Reply(c) PROVE CountOK(c)'
  <2>1. kind'[c] = "none" /\ pc'[c] = "idle" /\ total'[c] = 0
    BY <1>a, <1>e, ReplyType DEF Reply
  <2> QED BY <2>1, ConstantBounds, CountFresh
<1>f. ASSUME ItemFailed(c), UNCHANGED disk PROVE CountOK(c)'
  <2>1. CASE Batch(c)
    <3>1. pc'[c] = "next" /\ UNCHANGED <<kind, total, done>>
      BY <1>d, <1>f, <2>1 DEF ItemFailed, Goto
    <3>2. Counting(c)' \subseteq Counting(c)
      BY <3>1 DEF Counting
    <3> QED BY <1>a, <3>1, <3>2, CountKept
  <2>2. CASE ~Batch(c)
    BY <1>e, <1>f, <2>2 DEF ItemFailed
  <2> QED BY <2>1, <2>2
<1>1. CASE NextItem(c)
  <2>1. /\ UNCHANGED <<kind, total, todo, done>> /\ Item(c) \in Items
        /\ pc'[c] = IF Item(c).entry = 0 THEN "load" ELSE "stat"
    BY <1>1, <1>d, ItemAtHand DEF NextItem, Goto
  <2>2. CASE Item(c).entry = 0
    <3>1. Weight(Item(c)) = 0 /\ total'[c] = total[c] + 0
      BY <1>a, <2>1, <2>2 DEF Weight
    <3>2. Counting(c)' \subseteq Counting(c) \cup {Item(c)}
      BY <2>1 DEF Counting, Item
    <3> QED BY <1>a, <2>1, <2>2, <3>1, <3>2, CountMoves
  <2>3. CASE Item(c).entry # 0
    <3>1. Counting(c)' \subseteq Counting(c)
      BY <2>1, <2>3 DEF Counting
    <3> QED BY <1>a, <2>1, <2>3, <3>1, CountKept
  <2> QED BY <2>2, <2>3
<1>2. CASE BatchEnds(c) \/ Remember(c)
  <2>1. UNCHANGED <<kind, total, todo, done>> /\ pc'[c] \in {"update", "saving"}
    BY <1>2, <1>d DEF BatchEnds, Remember, Goto
  <2>2. Counting(c)' \subseteq Counting(c)
    BY <2>1 DEF Counting
  <2> QED BY <1>a, <2>1, <2>2, CountKept
<1>3. CASE SaveStep(c) \/ Copied(c)
  <2>1. UNCHANGED <<kind, total, todo, done, pc>>
    BY <1>3 DEF SaveStep, Copied, request
  <2>2. Counting(c)' \subseteq Counting(c) /\ EntryOf(c)' = EntryOf(c)
    BY <2>1 DEF Counting, Item, EntryOf
  <2> QED BY <1>a, <2>1, <2>2, CountKept DEF CountOK
<1>4. CASE Created(c)
  <2>1. /\ UNCHANGED <<kind, total, todo, done>> /\ pc[c] = "open" /\ pc'[c] = "copy"
    BY <1>4, <1>d DEF Created, Goto
  <2>2. Counting(c)' \subseteq Counting(c) /\ EntryOf(c)' = EntryOf(c)
    BY <2>1 DEF Counting, Item, EntryOf
  <2> QED BY <1>a, <2>1, <2>2, CountKept DEF CountOK
<1>5. CASE NotCached(c)
  <2>1. /\ UNCHANGED <<kind, total, todo, done>> /\ pc[c] = "stat" /\ pc'[c] = "open"
    BY <1>5, <1>d DEF NotCached, Goto
  <2>2. Counting(c)' \subseteq Counting(c) /\ EntryOf(c)' = EntryOf(c)
    BY <2>1 DEF Counting, Item, EntryOf
  <2>3. EntryOf(c).declared \in Nat
    BY <1>c, <2>1, ConstantBounds DEF EntrySteps
  <2>4. Batch(c) => total[c] + EntryOf(c).declared <= TotalCap
    BY <1>5, <1>a, <2>3, ConstantBounds DEF NotCached, OverCap
  <2> QED BY <1>a, <2>1, <2>2, <2>4, CountKept
<1>6. CASE Refused(c) \/ CreateFails(c) \/ LoadFails(c)
  BY <1>6, <1>f DEF Refused, CreateFails, LoadFails, files
<1>7. CASE Replied(c)
  BY <1>7, <1>e DEF Replied
<1>8. CASE CopyFails(c) \/ HeaderLied(c)
  <2>1. Removed(c)
    BY <1>8 DEF CopyFails, HeaderLied
  <2>2. CASE Batch(c)
    <3>1. pc'[c] = "next" /\ UNCHANGED <<kind, total, done>>
      BY <1>d, <2>1, <2>2 DEF Removed, Goto
    <3>2. Counting(c)' \subseteq Counting(c)
      BY <3>1 DEF Counting
    <3> QED BY <1>a, <3>1, <3>2, CountKept
  <2>3. CASE ~Batch(c)
    <3>1. pc'[c] = "idle" /\ kind'[c] = "none" /\ UNCHANGED total
      BY <1>d, <2>1, <2>3 DEF Removed, Goto
    <3> QED BY <1>a, <3>1, CountFresh
  <2> QED BY <2>2, <2>3
\* An item counted: its entry is the one to be loaded from here on.
<1>g. ASSUME NEW w \in Nat, Counted(c, w), pc[c] \in EntrySteps, pc'[c] = "load",
             UNCHANGED <<kind, todo, done>>, Weight(Item(c)) <= w,
             Batch(c) => total[c] + w <= TotalCap + Slack
      PROVE  CountOK(c)'
  <2>1. CASE Batch(c)
    <3>1. total'[c] = total[c] + w
      BY <1>a, <1>g, <2>1 DEF Counted
    <3>2. Counting(c)' \subseteq Counting(c) \cup {Item(c)}
      BY <1>g DEF Counting, Item
    <3> QED BY <1>a, <1>c, <1>g, <2>1, <3>1, <3>2, CountMoves
  <2>2. CASE ~Batch(c)
    <3>1. UNCHANGED total /\ kind'[c] # "archive"
      BY <1>g, <2>2 DEF Counted, Batch
    <3> QED BY <1>a, <1>g, <3>1, CountFresh
  <2> QED BY <2>1, <2>2
<1>9. CASE Reused(c)
  <2> DEFINE e == Item(c).entry
  <2>1. /\ UNCHANGED <<kind, todo, done>> /\ pc[c] = "stat" /\ pc'[c] = "load"
        /\ Counted(c, EntryOf(c).declared) /\ ~OverCap(c)
    BY <1>9, <1>d DEF Reused, Goto
  <2>2. EntryOf(c).declared \in Nat /\ Weight(Item(c)) <= EntryOf(c).declared
    BY <1>c, <2>1, ConstantBounds DEF EntrySteps, Weight, Honest
  <2>3. Batch(c) => total[c] + EntryOf(c).declared <= TotalCap + Slack
    BY <1>a, <2>1, <2>2, ConstantBounds DEF OverCap
  <2> QED BY <1>g, <2>1, <2>2, <2>3 DEF EntrySteps
<1>10. CASE Extracted(c)
  <2>1. /\ UNCHANGED <<kind, todo, done>> /\ pc[c] = "copy" /\ pc'[c] = "load"
        /\ Counted(c, at[c]) /\ at[c] = EntryOf(c).actual /\ at[c] <= EntryCap
    BY <1>10, <1>d DEF Extracted, Goto
  <2>2. /\ at[c] \in Nat /\ EntryOf(c).declared \in Nat /\ Weight(Item(c)) <= at[c]
        /\ at[c] <= EntryOf(c).declared + Slack
    BY <1>c, <2>1, ConstantBounds DEF EntrySteps, Weight
  <2>3. Batch(c) => total[c] + EntryOf(c).declared <= TotalCap
    BY <1>a, <2>1 DEF CountOK
  <2>4. Batch(c) => total[c] + at[c] <= TotalCap + Slack
    BY <1>a, <2>2, <2>3, ConstantBounds
  <2> QED BY <1>g, <2>1, <2>2, <2>4 DEF EntrySteps
<1>11. CASE Loaded(c)
  <2>1. /\ UNCHANGED <<kind, total>> /\ pc[c] = "load" /\ pc'[c] \in {"next", "update"}
        /\ done'[c] = done[c] \cup {Item(c)}
    BY <1>11, <1>d DEF Loaded, Goto
  <2>2. Counting(c)' \subseteq Counting(c)
    BY <2>1 DEF Counting
  <2> QED BY <1>a, <2>1, <2>2, CountKept
<1> QED BY <1>1, <1>2, <1>3, <1>4, <1>5, <1>6, <1>7, <1>8, <1>9, <1>10, <1>11 DEF Work

LEMMA CountAsk ==
  ASSUME TypeInv, BatchesAccounted, CountInv, NEW c \in Callers, Ask(c)
  PROVE  CountOK(c)'
<1>a. /\ total[c] \in Nat /\ CountOK(c) /\ total[c] <= TotalCap + Slack
  BY DEF CountInv, CountOK
<1>1. CASE \/ LoadFile(c) \/ LoadDir(c) \/ LoadArchive(c) \/ ArchiveUnread(c)
           \/ \E p \in Posted : PostSettings(c, p)
  <2>1. pc'[c] \in {"next", "update", "saving"} /\ UNCHANGED <<total, done>> /\ pc[c] = "idle"
    BY <1>1 DEF LoadFile, LoadDir, LoadArchive, ArchiveUnread, Begin, PostSettings, Goto, TypeInv, RequestTypeOK
  <2>2. done[c] = {}
    BY <2>1 DEF BatchesAccounted, CallerAccounted, Batch
  <2>3. Counting(c)' = {}
    BY <2>1, <2>2 DEF Counting
  <2> QED BY <1>a, <2>1, <2>3, CountFresh
<1>2. CASE ClientGone(c)
  <2>1. UNCHANGED <<kind, total, todo, done, pc>>
    BY <1>2 DEF ClientGone
  <2>2. Counting(c)' \subseteq Counting(c) /\ EntryOf(c)' = EntryOf(c)
    BY <2>1 DEF Counting, Item, EntryOf
  <2> QED BY <1>a, <2>1, <2>2, CountKept DEF CountOK
<1> QED BY <1>1, <1>2 DEF Ask

LEMMA CountStep == TypeInv /\ BatchesAccounted /\ CountInv /\ [Next]_vars => CountInv'
<1> SUFFICES ASSUME TypeInv, BatchesAccounted, CountInv, [Next]_vars PROVE CountInv'
  OBVIOUS
<1>1. ASSUME NEW c \in Callers, Work(c) \/ Ask(c) PROVE CountInv'
  <2>1. total' \in [Callers -> Nat] /\ \A d \in Callers : d # c => total'[d] = total[d]
    BY <1>1, TotalMoves DEF CountInv
  <2>2. ASSUME NEW d \in Callers, d # c PROVE CountOK(d)'
    <3>1. CountOK(d) /\ total[d] \in Nat
      BY DEF CountInv
    <3>2. UNCHANGED <<pc[d], kind[d], todo[d], done[d], total[d]>>
      BY <1>1, <2>1, <2>2, OthersKeep
    <3>3. Counting(d)' \subseteq Counting(d) /\ EntryOf(d)' = EntryOf(d)
      BY <3>2 DEF Counting, Item, EntryOf
    <3> QED BY <3>1, <3>2, <3>3, CountKept DEF CountOK
  <2>3. CountOK(c)'
    BY <1>1, CountWork, CountAsk
  <2> QED BY <2>1, <2>2, <2>3 DEF CountInv
<1>2. CASE End
  <2>1. total' \in [Callers -> Nat] /\ \A c \in Callers : total'[c] = 0 /\ kind'[c] = "none" /\ pc'[c] = "idle"
    BY <1>2 DEF End
  <2>2. \A c \in Callers : CountOK(c)'
    BY <2>1, ConstantBounds, CountFresh
  <2> QED BY <2>1, <2>2 DEF CountInv
<1>3. ASSUME UNCHANGED request PROVE CountInv'
  <2>1. ASSUME NEW d \in Callers PROVE CountOK(d)'
    <3>1. CountOK(d) /\ total[d] \in Nat
      BY DEF CountInv
    <3>2. UNCHANGED <<pc, kind, todo, done, total>>
      BY <1>3 DEF request
    <3>3. Counting(d)' \subseteq Counting(d) /\ EntryOf(d)' = EntryOf(d)
      BY <3>2 DEF Counting, Item, EntryOf
    <3> QED BY <3>1, <3>2, <3>3, CountKept DEF CountOK
  <2> QED BY <1>3, <2>1 DEF CountInv, request
<1> QED BY <1>1, <1>2, <1>3 DEF Next, Unload, Start, vars

\* The total bounds what is on disk of the entries done.
LEMMA CountBounds ==
  ASSUME TypeInv, BatchesAccounted, CellsPlaced, CountInv
  PROVE  BatchBounded
<1> SUFFICES ASSUME NEW c \in Callers, kind[c] = "archive"
             PROVE  /\ total[c] <= TotalCap + Slack
                    /\ Cardinality({cell \in Names \X (1..EntryCap + 1) :
                        LET n == cell[1]
                            k == cell[2]
                        IN  /\ disk[n] # Absent /\ k <= Len(disk[n])
                            /\ \E i \in done[c] : i.entry = disk[n][k] /\ Honest(i.entry)})
                         <= total[c]
  BY DEF BatchBounded, Slack
<1> DEFINE Here2(n, k) == /\ disk[n] # Absent /\ k <= Len(disk[n])
                          /\ \E i \in done[c] : i.entry = disk[n][k] /\ Honest(i.entry)
           S == {cell \in Names \X (1..EntryCap + 1) : Here2(cell[1], cell[2])}
           T == CellsOf(done[c])
           f == [cell \in S |-> <<disk[cell[1]][cell[2]], cell[2]>>]
<1>1. /\ total[c] <= TotalCap + Slack /\ total[c] \in Nat
      /\ IsFiniteSet(CellsOf(Counting(c))) /\ Cardinality(CellsOf(Counting(c))) <= total[c]
  BY DEF CountInv, CountOK
<1>2. IsFiniteSet(T) /\ Cardinality(T) \in Nat /\ Cardinality(T) <= total[c]
  <2>1. done[c] \in SUBSET Counting(c)
    BY DEF Counting
  <2> QED BY <1>1, <2>1, CellsOfSubset
<1>3. done[c] \subseteq EntryItems
  BY ZipListingLists DEF BatchesAccounted, CallerAccounted, Accounted, Unread
<1>4. ASSUME NEW cell \in S
      PROVE  /\ cell \in Names \X (1..EntryCap + 1)
             /\ f[cell] = <<disk[cell[1]][cell[2]], cell[2]>>
             /\ Entries[disk[cell[1]][cell[2]]].base = cell[1]
             /\ f[cell] \in T
  <2>1. cell[1] \in Names /\ cell[2] \in 1..EntryCap + 1 /\ Here2(cell[1], cell[2])
    OBVIOUS
  <2> DEFINE n == cell[1]
             k == cell[2]
             e == disk[n][k]
  <2>2. PICK i \in done[c] : i.entry = e /\ Honest(e)
    BY <2>1
  <2>3. i \in Items /\ e \in Shown /\ i = EntryItem(e)
    <3>1. i \in EntryItems
      BY <1>3
    <3>2. PICK j \in Shown : i = EntryItem(j)
      BY <3>1 DEF EntryItems
    <3>3. i.entry = j
      BY <3>2 DEF EntryItem
    <3> QED BY <2>2, <3>1, <3>2, <3>3 DEF Items
  <2>4. k \in DOMAIN disk[n]
    <3>1. disk[n] \in Seq(Int)
      BY <2>1 DEF TypeInv, FilesTypeOK
    <3>2. DOMAIN disk[n] = 1..Len(disk[n]) /\ Len(disk[n]) \in Nat
      BY <3>1, LenProperties
    <3>3. k \in Nat /\ 1 <= k
      BY <2>1, ConstantBounds
    <3>4. k <= Len(disk[n])
      BY <2>1
    <3> QED BY <3>2, <3>3, <3>4
  <2>5. Entries[e].base = n /\ k <= Entries[e].actual
    BY <2>1, <2>3, <2>4 DEF CellsPlaced, Shown
  <2>6. k \in 1..Entries[e].actual
    BY <2>1, <2>3, <2>5, ConstantBounds
  <2>7. <<e, k>> \in T
    BY <2>2, <2>3, <2>6 DEF CellsOf
  <2> QED BY <2>1, <2>5, <2>7
<1> HIDE DEF S, T, f
<1>5. f \in [S -> T]
  BY <1>4 DEF f
<1>6. IsInjective(f)
  <2> SUFFICES ASSUME NEW x \in S, NEW y \in S, f[x] = f[y] PROVE x = y
    BY <1>5 DEF IsInjective
  <2>1. disk[x[1]][x[2]] = disk[y[1]][y[2]] /\ x[2] = y[2]
    BY <1>4
  <2>2. x[1] = y[1]
    BY <1>4, <2>1
  <2>3. x \in Names \X (1..EntryCap + 1) /\ y \in Names \X (1..EntryCap + 1)
    BY <1>4
  <2> QED BY <2>1, <2>2, <2>3
<1>7. f \in Injection(S, T)
  BY <1>5, <1>6 DEF Injection
<1>8. IsFiniteSet(S) /\ Cardinality(S) <= Cardinality(T)
  BY <1>2, <1>7, FS_Injection
<1>9. Cardinality(S) \in Nat
  BY <1>8, FS_CardinalityType
<1>10. Cardinality(S) <= total[c]
  BY <1>1, <1>2, <1>8, <1>9
<1> QED BY <1>1, <1>10 DEF S

\* A batch over an archive stays under the cap by less than one entry, and not at
\* all when every header is true; and what it found or put on disk and loaded, of
\* the entries whose header is true, is never more than it has counted, whatever
\* other requests write to the same names.
THEOREM BatchWithinCap == Spec => []BatchBounded
<1>1. Init => CellsPlaced
  <2> SUFFICES ASSUME Init, NEW n \in Names, NEW k \in DOMAIN Before[n]
               PROVE  Before[n][k] \notin DOMAIN Entries
    BY DEF Init, CellsPlaced
  <2>1. Before[n] \in Seq({Users}) \/ Before[n] = Absent
    BY ArchiveAssumption
  <2>2. Before[n][k] < 0
    BY <2>1 DEF Users, Absent
  <2> QED BY <2>2, ShownFinite
<1>2. Init => CountInv
  <2> SUFFICES ASSUME Init PROVE CountInv
    OBVIOUS
  <2>1. total \in [Callers -> Nat]
    BY DEF Init
  <2>2. \A c \in Callers : total[c] = 0 /\ kind[c] = "none" /\ pc[c] = "idle"
    BY DEF Init
  <2> QED BY <2>1, <2>2, ConstantBounds DEF CountInv, CountOK
<1>3. Init => BatchesAccounted
  BY DEF Init, BatchesAccounted, CallerAccounted, Batch
<1> QED BY <1>1, <1>2, <1>3, TypeInit, TypeStep, AccountStep, CellsPlacedStep, CountStep,
        CountBounds, PTL DEF Spec

=============================================================================
