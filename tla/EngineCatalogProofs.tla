------------------------- MODULE EngineCatalogProofs -------------------------
(***************************************************************************)
(* Theorems about EngineCatalog, for every set of clients, paths, columns  *)
(* and registries and every bound on the number of loads: first that the   *)
(* catalog and its lock are consistent, then that the engine implements    *)
(* CatalogSpec.                                                            *)
(***************************************************************************)
EXTENDS EngineCatalog, TLAPS, WellFoundedInduction, SequenceTheorems

-----------------------------------------------------------------------------
(* Lemmas about the helpers *)

\* A non-empty set of naturals has a least element.
LEMMA NatMin ==
  ASSUME NEW T, T \subseteq Nat, T # {}
  PROVE  \E x \in T : \A y \in T : x <= y
<1>1. IsWellFoundedOn(OpToRel(<, Nat), Nat)
  BY NatLessThanWellFounded
<1>2. PICK x \in T : \A y \in T : ~ (<<y, x>> \in OpToRel(<, Nat))
  BY <1>1, WFMin
<1>3. \A y \in T : ~ (y < x)
  BY <1>2 DEF OpToRel
<1> QED BY <1>3

\* FirstIn returns an element of the sequence that lies in the set.
LEMMA FirstInType ==
  ASSUME NEW D, NEW s \in Seq(D), NEW S, ToSet(s) \cap S # {}
  PROVE  FirstIn(s, S) \in D \cap S
<1> DEFINE I == {i \in 1..Len(s) : s[i] \in S}
<1>1. I \subseteq Nat /\ I # {}
  BY DEF ToSet
<1>2. PICK x \in I : \A y \in I : x <= y
  BY <1>1, NatMin
<1>3. \A j \in 1..(x - 1) : s[j] \notin S
  <2> SUFFICES ASSUME NEW j \in 1..(x - 1), s[j] \in S PROVE FALSE
    OBVIOUS
  <2>1. j \in I
    BY <1>2
  <2> QED BY <2>1, <1>2
<1> QED BY <1>2, <1>3 DEF FirstIn

\* pickTimestampField returns a column name whatever the columns are.
LEMMA PickTimestampFieldType ==
  ASSUME NEW cols \in Seq(Fields)
  PROVE  PickTimestampField(cols) \in Fields
<1>1. CASE ToSet(Candidates) \cap ToSet(cols) # {}
  <2>1. FirstIn(Candidates, ToSet(cols)) \in Fields
    BY <1>1, FirstInType, ConstantsAssumption
  <2> QED BY <1>1, <2>1 DEF PickTimestampField
<1>2. CASE ToSet(Candidates) \cap ToSet(cols) = {} /\ TimeLike \cap ToSet(cols) # {}
  <2>1. FirstIn(cols, TimeLike) \in Fields
    BY <1>2, FirstInType
  <2> QED BY <1>2, <2>1 DEF PickTimestampField
<1>3. CASE /\ ToSet(Candidates) \cap ToSet(cols) = {}
           /\ TimeLike \cap ToSet(cols) = {}
  BY <1>3, ConstantsAssumption DEF PickTimestampField
<1> QED BY <1>1, <1>2, <1>3

\* Removing an element of any sequence leaves a sequence of the same kind.
LEMMA RemoveFirstType ==
  ASSUME NEW s \in Seq(Nat), NEW e
  PROVE  RemoveFirst(s, e) \in Seq(Nat)
<1> DEFINE I == {i \in 1..Len(s) : s[i] = e}
           n == SelectInSeq(s, LAMBDA v : v = e)
<1>1. CASE \E i \in 1..Len(s) : s[i] = e
  <2>1. I \subseteq Nat /\ I # {}
    BY <1>1
  <2>2. \E x \in I : \A y \in I : x <= y
    BY <2>1, NatMin
  <2>3. n \in I
    BY <2>1, <2>2 DEF SelectInSeq, Min
  <2> HIDE DEF n
  <2> DEFINE front == SubSeq(s, 1, n - 1)
             back == SubSeq(s, n + 1, Len(s))
  <2>4. front \in Seq(Nat) /\ back \in Seq(Nat)
    BY <2>3, SubSeqProperties
  <2> HIDE DEF front, back
  <2>5. front \o back \in Seq(Nat)
    BY <2>4, ConcatProperties
  <2>6. RemoveFirst(s, e) = front \o back
    BY <1>1 DEF RemoveFirst, RemoveAt, front, back, n
  <2> QED BY <2>5, <2>6
<1>2. CASE ~ \E i \in 1..Len(s) : s[i] = e
  BY <1>2 DEF RemoveFirst
<1> QED BY <1>1, <1>2

\* RemoveAt shifts the elements behind the removed one down by one place.
LEMMA RemoveAtShifts ==
  ASSUME NEW D, NEW s \in Seq(D), NEW n \in 1..Len(s)
  PROVE  LET r == RemoveAt(s, n)
         IN  /\ r \in Seq(D)
             /\ Len(r) = Len(s) - 1
             /\ \A k \in 1..Len(r) : r[k] = IF k < n THEN s[k] ELSE s[k + 1]
<1> DEFINE r == RemoveAt(s, n)
           front == SubSeq(s, 1, n - 1)
           back == SubSeq(s, n + 1, Len(s))
<1>0. Len(s) \in Nat /\ n \in Nat /\ 1 <= n /\ n <= Len(s)
  OBVIOUS
<1>1. /\ front \in Seq(D) /\ Len(front) = n - 1
      /\ \A k \in 1..(n - 1) : front[k] = s[k]
  <2>1. \A i \in 1..(n - 1) : s[i] \in D
    BY <1>0
  <2>2. /\ front \in Seq(D)
        /\ Len(front) = IF 1 <= n - 1 THEN (n - 1) - 1 + 1 ELSE 0
        /\ \A i \in 1..((n - 1) - 1 + 1) : front[i] = s[1 + i - 1]
    BY <1>0, <2>1, SubSeqProperties
  <2> HIDE DEF front
  <2> QED BY <1>0, <2>2
<1>2. /\ back \in Seq(D) /\ Len(back) = Len(s) - n
      /\ \A k \in 1..(Len(s) - n) : back[k] = s[n + k]
  <2>1. \A i \in (n + 1)..Len(s) : s[i] \in D
    BY <1>0
  <2>2. /\ back \in Seq(D)
        /\ Len(back) = IF n + 1 <= Len(s) THEN Len(s) - (n + 1) + 1 ELSE 0
        /\ \A i \in 1..(Len(s) - (n + 1) + 1) : back[i] = s[(n + 1) + i - 1]
    BY <1>0, <2>1, SubSeqProperties
  <2> HIDE DEF back
  <2>3. Len(back) = Len(s) - n
    BY <1>0, <2>2
  <2>4. ASSUME NEW k \in 1..(Len(s) - n) PROVE back[k] = s[n + k]
    <3>1. k \in 1..(Len(s) - (n + 1) + 1) /\ (n + 1) + k - 1 = n + k
      BY <1>0
    <3>2. back[k] = s[(n + 1) + k - 1]
      BY <2>2, <3>1
    <3> QED BY <3>1, <3>2
  <2> QED BY <2>2, <2>3, <2>4
<1> HIDE DEF front, back
<1>3. /\ front \o back \in Seq(D)
      /\ Len(front \o back) = Len(front) + Len(back)
      /\ \A k \in 1..(Len(front) + Len(back)) :
           (front \o back)[k] = IF k <= Len(front) THEN front[k]
                                ELSE back[k - Len(front)]
  BY <1>1, <1>2, ConcatProperties
<1>4. r = front \o back
  BY DEF RemoveAt, front, back
<1>5. Len(s) \in Nat /\ n \in Nat /\ Len(front) + Len(back) = Len(s) - 1
  BY <1>1, <1>2
<1>6. ASSUME NEW k \in 1..(Len(s) - 1)
      PROVE  r[k] = IF k < n THEN s[k] ELSE s[k + 1]
  <2>1. (front \o back)[k] = IF k <= n - 1 THEN front[k] ELSE back[k - (n - 1)]
    BY <1>1, <1>3, <1>5
  <2>2. CASE k < n
    <3>1. k <= n - 1 /\ k \in 1..(n - 1)
      BY <2>2, <1>5
    <3> QED BY <3>1, <2>1, <2>2, <1>1, <1>4
  <2>3. CASE ~ (k < n)
    <3>1. /\ k - (n - 1) \in 1..(Len(s) - n)
          /\ n + (k - (n - 1)) = k + 1
          /\ ~ (k <= n - 1)
      BY <2>3, <1>5
    <3>2. back[k - (n - 1)] = s[n + (k - (n - 1))]
      BY <3>1, <1>2
    <3> QED BY <2>3, <3>1, <3>2, <2>1, <1>4
  <2> QED BY <2>2, <2>3
<1> QED BY <1>3, <1>4, <1>5, <1>6

Ascending(s) == \A j, k \in 1..Len(s) : j < k => s[j] < s[k]

Elems(s) == {s[k] : k \in 1..Len(s)}

\* In a strictly ascending sequence the first occurrence is the only one.
LEMMA RemoveFirstIsRemoveAt ==
  ASSUME NEW s \in Seq(Nat), Ascending(s), NEW n \in 1..Len(s)
  PROVE  /\ \A k \in 1..Len(s) : s[k] = s[n] => k = n
         /\ RemoveFirst(s, s[n]) = RemoveAt(s, n)
<1>1. \A k \in 1..Len(s) : s[k] = s[n] => k = n
  BY DEF Ascending
<1>2. {i \in 1..Len(s) : s[i] = s[n]} = {n}
  BY <1>1
<1>3. SelectInSeq(s, LAMBDA v : v = s[n]) = n
  BY <1>2 DEF SelectInSeq, Min
<1> QED BY <1>1, <1>3 DEF RemoveFirst

\* Removing an element of a strictly ascending sequence removes exactly that
\* element and keeps the order.
LEMMA RemoveFirstAscending ==
  ASSUME NEW s \in Seq(Nat), Ascending(s), NEW e \in Elems(s)
  PROVE  /\ RemoveFirst(s, e) \in Seq(Nat)
         /\ Ascending(RemoveFirst(s, e))
         /\ Elems(RemoveFirst(s, e)) = Elems(s) \ {e}
<1>1. PICK n \in 1..Len(s) : s[n] = e
  BY DEF Elems
<1>2. \A k \in 1..Len(s) : s[k] = e => k = n
  BY <1>1, RemoveFirstIsRemoveAt
<1> DEFINE r == RemoveAt(s, n)
<1>3. RemoveFirst(s, e) = r
  BY <1>1, RemoveFirstIsRemoveAt
<1>4. /\ r \in Seq(Nat)
      /\ Len(r) = Len(s) - 1
      /\ \A k \in 1..Len(r) : r[k] = IF k < n THEN s[k] ELSE s[k + 1]
  BY RemoveAtShifts
<1> HIDE DEF r
<1> DEFINE old(k) == IF k < n THEN k ELSE k + 1
<1>5. ASSUME NEW k \in 1..Len(r)
      PROVE  old(k) \in 1..Len(s) /\ old(k) # n /\ r[k] = s[old(k)]
  <2>1. Len(s) \in Nat /\ n \in 1..Len(s) /\ k \in 1..(Len(s) - 1)
    BY <1>4
  <2>2. old(k) \in 1..Len(s) /\ old(k) # n
    BY <2>1
  <2> QED BY <2>2, <1>4
<1>6. Ascending(r)
  <2> SUFFICES ASSUME NEW j \in 1..Len(r), NEW k \in 1..Len(r), j < k
               PROVE  r[j] < r[k]
    BY DEF Ascending
  <2>1. old(j) < old(k)
    OBVIOUS
  <2> HIDE DEF old
  <2> QED BY <2>1, <1>5 DEF Ascending
<1>7. Elems(r) = Elems(s) \ {e}
  <2>1. ASSUME NEW k \in 1..Len(r) PROVE r[k] \in Elems(s) \ {e}
    <3> HIDE DEF old
    <3> QED BY <1>2, <1>5 DEF Elems
  <2>2. ASSUME NEW x \in Elems(s) \ {e} PROVE x \in Elems(r)
    <3>1. PICK k \in 1..Len(s) : s[k] = x
      BY DEF Elems
    <3>2. CASE k < n
      <4>1. k \in 1..Len(r) /\ r[k] = x
        BY <3>1, <3>2, <1>4
      <4> QED BY <4>1 DEF Elems
    <3>3. CASE k > n
      <4>1. k - 1 \in 1..Len(r) /\ r[k - 1] = x
        BY <3>1, <3>3, <1>4
      <4> QED BY <4>1 DEF Elems
    <3> QED BY <3>1, <3>2, <3>3, <1>1
  <2> QED BY <2>1, <2>2 DEF Elems
<1> QED BY <1>3, <1>4, <1>6, <1>7

-----------------------------------------------------------------------------
(* Type correctness.  A load remembers its path from the moment it leaves   *)
(* "run", which the typing of Register depends on.                          *)

LoadTyped == \A c \in Clients : pc[c] \in LoadPCs => job[c].path \in Paths

TypeInv == TypeOK /\ LoadTyped

\* What the deferred calls of a write operation leave behind.
LEMMA ReturnWTyped ==
  ASSUME TypeInv, NEW c \in Clients, ReturnW(c)
  PROVE  ControlTypeOK' /\ LoadTyped'
<1> USE DEF TypeInv, TypeOK, ControlTypeOK, LoadTyped
<1>1. NoJob \in Job
  BY DEF NoJob, Job, ReadOps, LoaderKinds
<1>2. job' \in [Clients -> Job]
  BY <1>1 DEF ReturnW
<1>3. pc' \in [Clients -> PCs]
  BY DEF ReturnW, Unlock, PCs, ReaderPCs
<1>4. ASSUME NEW d \in Clients, pc'[d] \in LoadPCs PROVE job'[d].path \in Paths
  <2>1. d # c /\ pc[d] \in LoadPCs
    BY <1>4 DEF ReturnW, Unlock, LoadPCs
  <2>2. job'[d] = job[d]
    BY <2>1 DEF ReturnW
  <2> QED BY <2>1, <2>2
<1> QED BY <1>2, <1>3, <1>4 DEF ReturnW, Unlock

LEMMA TypeStep == TypeInv /\ [Next]_vars => TypeInv'
<1> SUFFICES ASSUME TypeInv, [Next]_vars PROVE TypeInv'
  OBVIOUS
<1> USE DEF TypeInv, TypeOK, CatalogTypeOK
<1>u. CASE UNCHANGED vars
  BY <1>u DEF vars, ControlTypeOK, LoadTyped, LoadPCs
<1>1. ASSUME NEW c \in Clients, NEW op \in OpsOf[c], Request(c, op) PROVE TypeInv'
  <2>1. op \in WriteOps \cup ReadOps
    BY ConstantsAssumption
  <2> QED BY <1>1, <2>1 DEF Request, ControlTypeOK, LoadTyped, LoadPCs, PCs, Job,
                            catalog, lock
<1>2. ASSUME NEW c \in Clients, LockW(c) PROVE TypeInv'
  BY <1>2 DEF LockW, ControlTypeOK, LoadTyped, LoadPCs, PCs, catalog
<1>3. ASSUME NEW c \in Clients, Drained(c) PROVE TypeInv'
  BY <1>3 DEF Drained, ControlTypeOK, LoadTyped, LoadPCs, PCs, WriterPCs, catalog, lock
<1>4. ASSUME NEW c \in Clients, RLock(c) PROVE TypeInv'
  BY <1>4 DEF RLock, ControlTypeOK, LoadTyped, LoadPCs, PCs, ReaderPCs, catalog
<1>5. ASSUME NEW c \in Clients, ReturnW(c), UNCHANGED <<catalog, nextID, loaders, tables>>
      PROVE  TypeInv'
  BY <1>5, ReturnWTyped DEF catalog
<1>6. ASSUME NEW c \in Clients, NEW p \in Paths, LoadDirect(c, p) PROVE TypeInv'
  <2>1. Pick(p) \in LoaderKinds
    BY ConstantsAssumption DEF Pick, LoaderKinds
  <2> QED BY <1>6, <2>1 DEF LoadDirect, Goto, ControlTypeOK, LoadTyped, LoadPCs, PCs,
                            WriterPCs, Job, catalog, lock
<1>7. ASSUME NEW c \in Clients, NEW p \in Paths, LoadStreamed(c, p) PROVE TypeInv'
  <2>1. pc' \in [Clients -> PCs]
    BY <1>7 DEF LoadStreamed, Goto, ControlTypeOK, LoadPCs, PCs, WriterPCs
  <2>2. job' \in [Clients -> Job]
    <3>1. [job[c] EXCEPT !.path = p, !.kind = "stream"] \in Job
      BY DEF ControlTypeOK, Job, LoaderKinds
    <3>2. job' = [job EXCEPT ![c] = [job[c] EXCEPT !.path = p, !.kind = "stream"]]
      BY <1>7 DEF LoadStreamed, ControlTypeOK
    <3> QED BY <3>1, <3>2 DEF ControlTypeOK
  <2>3. LoadTyped'
    BY <1>7 DEF LoadStreamed, Goto, ControlTypeOK, LoadTyped, LoadPCs, Job
  <2> QED BY <1>7, <2>1, <2>2, <2>3 DEF LoadStreamed, Goto, ControlTypeOK, catalog, lock
<1>8. ASSUME NEW c \in Clients, StreamDone(c) PROVE TypeInv'
  BY <1>8 DEF StreamDone, Goto, ControlTypeOK, LoadTyped, LoadPCs, PCs, WriterPCs,
              catalog, lock
<1>9. ASSUME NEW c \in Clients, CreateTable(c) PROVE TypeInv'
  <2>1. pc' \in [Clients -> PCs]
    BY <1>9 DEF CreateTable, Goto, ControlTypeOK, LoadPCs, PCs, WriterPCs
  <2>2. job' \in [Clients -> Job]
    <3>0. nextID + 1 \in Nat /\ job[c] \in Job
      BY DEF ControlTypeOK
    <3>1. [job[c] EXCEPT !.id = nextID + 1] \in Job
      <4> HIDE DEF TypeInv, TypeOK, CatalogTypeOK
      <4> QED BY <3>0 DEF Job
    <3>2. job' = [job EXCEPT ![c] = [job[c] EXCEPT !.id = nextID + 1]]
      BY <1>9 DEF CreateTable, ControlTypeOK
    <3> QED BY <3>1, <3>2 DEF ControlTypeOK
  <2>3. LoadTyped'
    BY <1>9 DEF CreateTable, Goto, ControlTypeOK, LoadTyped, LoadPCs, Job
  <2> QED BY <1>9, <2>1, <2>2, <2>3 DEF CreateTable, Goto, ControlTypeOK, catalog, lock
<1>10. ASSUME NEW c \in Clients, CreateFailed(c) PROVE TypeInv'
  BY <1>10, ReturnWTyped DEF CreateFailed, catalog
<1>11. ASSUME NEW c \in Clients, Normalised(c) PROVE TypeInv'
  BY <1>11 DEF Normalised, Goto, ControlTypeOK, LoadTyped, LoadPCs, PCs, WriterPCs,
               catalog, lock
<1>12. ASSUME NEW c \in Clients, NEW fetched \in BOOLEAN, Register(c, fetched)
       PROVE  TypeInv'
  <2> DEFINE id == job[c].id
             p == job[c].path
             cols == IF fetched THEN Schema[p] ELSE << >>
  <2>1. /\ id \in Nat /\ p \in Paths
        /\ cols \in Seq(Fields)
    BY <1>12, ConstantsAssumption DEF Register, ControlTypeOK, LoadTyped, LoadPCs, Job
  <2>2. /\ tableCols' = [i \in DOMAIN tableCols \cup {id} |->
                           IF i = id THEN cols ELSE tableCols[i]]
        /\ timestampField' = IF DOMAIN files = {} THEN PickTimestampField(cols)
                             ELSE timestampField
        /\ files' = [i \in DOMAIN files \cup {id} |->
                       IF i = id THEN [path |-> p, enabled |-> TRUE] ELSE files[i]]
        /\ fileOrder' = Append(fileOrder, id)
        /\ pathIndex' = [q \in DOMAIN pathIndex \cup {p} |->
                           IF q = p THEN id ELSE pathIndex[q]]
    BY <1>12 DEF Register
  <2> HIDE DEF id, p, cols
  <2>3. timestampField' \in Fields
    BY <2>1, <2>2, PickTimestampFieldType
  <2>4. /\ DOMAIN files' \subseteq Nat
        /\ \A i \in DOMAIN files' : files'[i] \in FileInfo
    BY <2>1, <2>2 DEF FileInfo
  <2>5. fileOrder' \in Seq(Nat)
    BY <2>1, <2>2
  <2>6. /\ DOMAIN pathIndex' \subseteq Paths
        /\ \A q \in DOMAIN pathIndex' : pathIndex'[q] \in Nat
    BY <2>1, <2>2
  <2>7. /\ DOMAIN tableCols' \subseteq Nat
        /\ \A i \in DOMAIN tableCols' : tableCols'[i] \in Seq(Fields)
    BY <2>1, <2>2
  <2>8. ControlTypeOK' /\ LoadTyped'
    BY <1>12, ReturnWTyped DEF Register
  <2> QED BY <1>12, <2>3, <2>4, <2>5, <2>6, <2>7, <2>8 DEF Register
<1>13. ASSUME NEW c \in Clients, NEW id \in 1..MaxLoads, UnloadFile(c, id)
       PROVE  TypeInv'
  <2>1. RemoveFirst(fileOrder, id) \in Seq(Nat)
    BY RemoveFirstType
  <2> QED BY <1>13, <2>1, ReturnWTyped DEF UnloadFile
<1>14. ASSUME NEW c \in Clients, NEW id \in 1..MaxLoads, NEW on \in BOOLEAN,
              SetFileEnabled(c, id, on)
       PROVE  TypeInv'
  BY <1>14, ReturnWTyped DEF SetFileEnabled, FileInfo
<1>15. ASSUME NEW c \in Clients, NEW f \in Fields, SetTimestampField(c, f)
       PROVE  TypeInv'
  BY <1>15, ReturnWTyped DEF SetTimestampField
<1>16. ASSUME NEW c \in Clients, NEW r \in Registries \cup {NoRegistry}, SetLoaders(c, r)
       PROVE  TypeInv'
  BY <1>16, ReturnWTyped DEF SetLoaders, catalog
<1>17. EnabledPaths \subseteq Paths
  BY DEF EnabledPaths, FileInfo
<1>18. ASSUME NEW c \in Clients, QueryCount(c) PROVE TypeInv'
  <2>1. pc' \in [Clients -> PCs]
    BY <1>18 DEF QueryCount, ControlTypeOK, PCs, ReaderPCs
  <2>2. job' \in [Clients -> Job]
    <3>1. [job[c] EXCEPT !.counted = EnabledPaths] \in Job
      BY <1>17 DEF ControlTypeOK, Job
    <3>2. \/ job' = job
          \/ job' = [job EXCEPT ![c] = [job[c] EXCEPT !.counted = EnabledPaths]]
      BY <1>18 DEF QueryCount, ControlTypeOK
    <3> QED BY <3>1, <3>2 DEF ControlTypeOK
  <2>3. answer' \in [Clients -> Answers]
    <3>1. [NoAnswer EXCEPT !.status = "rows"] \in Answers
      BY DEF NoAnswer, Answers
    <3> QED BY <1>18, <3>1 DEF QueryCount, ControlTypeOK
  <2>4. LoadTyped'
    BY <1>18 DEF QueryCount, ControlTypeOK, LoadTyped, LoadPCs, Job
  <2> QED BY <1>18, <2>1, <2>2, <2>3, <2>4 DEF QueryCount, ControlTypeOK, catalog, lock
<1>19. ASSUME NEW c \in Clients, QueryData(c) PROVE TypeInv'
  <2>1. pc' \in [Clients -> PCs]
    BY <1>19 DEF QueryData, ControlTypeOK, PCs, ReaderPCs
  <2>2. answer' \in [Clients -> Answers]
    <3>1. /\ [NoAnswer EXCEPT !.status = "error"] \in Answers
          /\ [status |-> "rows", count |-> job[c].counted, data |-> EnabledPaths]
               \in Answers
      BY <1>17 DEF NoAnswer, Answers, ControlTypeOK, Job
    <3> QED BY <1>19, <3>1 DEF QueryData, ControlTypeOK
  <2>3. LoadTyped'
    BY <1>19 DEF QueryData, ControlTypeOK, LoadTyped, LoadPCs
  <2> QED BY <1>19, <2>1, <2>2, <2>3 DEF QueryData, ControlTypeOK, catalog, lock
<1>20. ASSUME NEW c \in Clients, QueryReturn(c) PROVE TypeInv'
  BY <1>20 DEF QueryReturn, NoAnswer, NoJob, Answers, ControlTypeOK, LoadTyped,
               LoadPCs, PCs, Job, ReadOps, LoaderKinds, catalog
<1>21. ASSUME NEW c \in Clients, QueryRejected(c) PROVE TypeInv'
  <2>1. [NoAnswer EXCEPT !.status = "rejected"] \in Answers
    BY DEF NoAnswer, Answers
  <2> QED BY <1>21, <2>1 DEF QueryRejected, ControlTypeOK, LoadTyped, LoadPCs, PCs,
                ReaderPCs, catalog, lock
<1> QED
  BY <1>u, <1>1, <1>2, <1>3, <1>4, <1>5, <1>6, <1>7, <1>8, <1>9, <1>10, <1>11, <1>12,
     <1>13, <1>14, <1>15, <1>16, <1>18, <1>19, <1>20, <1>21
     DEF Next, Proceed, Load, Mutate, Query, LoadRejected, StreamFailed,
         NormaliseFailed, UnloadRefused

LEMMA InitTyped == Init => TypeInv
BY ConstantsAssumption DEF Init, TypeInv, TypeOK, CatalogTypeOK, ControlTypeOK,
   LoadTyped, LoadPCs, PCs, Job, NoJob, Answers, NoAnswer, ReadOps, LoaderKinds

\* Every variable keeps its type (TypeOK) in every reachable state, whatever
\* the clients request and whichever steps fail.
THEOREM TypeCorrect == Spec => []TypeOK
<1>1. TypeInv => TypeOK
  BY DEF TypeInv
<1> QED BY <1>1, InitTyped, TypeStep, PTL DEF Spec

-----------------------------------------------------------------------------
(* Mutual exclusion.  LockExclusion is inductive together with the types.   *)

\* How the program counters and the lock change inside an operation.
WriterMoves(c) ==
  \E to \in WriterPCs : /\ pc[c] \in WriterPCs /\ pc' = [pc EXCEPT ![c] = to]
                        /\ UNCHANGED lock

WriterReturns(c) == pc[c] \in WriterPCs /\ Unlock(c)

ReaderMoves(c) ==
  \E to \in ReaderPCs : /\ pc[c] \in ReaderPCs /\ pc' = [pc EXCEPT ![c] = to]
                        /\ UNCHANGED lock

\* Seen through pc and the lock, an operation of c is one of three moves.
LEMMA OperationMoves ==
  ASSUME NEW c \in Clients,
         Load(c) \/ Mutate(c) \/ QueryCount(c) \/ QueryData(c) \/ QueryRejected(c)
  PROVE  WriterMoves(c) \/ WriterReturns(c) \/ ReaderMoves(c)
<1>1. ASSUME Load(c) PROVE WriterMoves(c) \/ WriterReturns(c)
  BY <1>1 DEF Load, LoadRejected, LoadDirect, LoadStreamed, StreamDone, StreamFailed,
    CreateTable, CreateFailed, Normalised, NormaliseFailed, Register, ReturnW, Goto,
    WriterMoves, WriterReturns, WriterPCs, LoadPCs, lock
<1>2. ASSUME Mutate(c) PROVE WriterReturns(c)
  BY <1>2 DEF Mutate, UnloadRefused, UnloadFile, SetFileEnabled, SetTimestampField,
    SetLoaders, ReturnW, WriterReturns, WriterPCs
<1>3. ASSUME QueryCount(c) \/ QueryData(c) \/ QueryRejected(c) PROVE ReaderMoves(c)
  BY <1>3 DEF QueryCount, QueryData, QueryRejected, ReaderMoves, ReaderPCs
<1> QED BY <1>1, <1>2, <1>3

LEMMA LockStep ==
  ASSUME TypeOK, LockExclusion, [Next]_vars
  PROVE  LockExclusion'
<1> USE DEF TypeOK, ControlTypeOK
<1>0. None \notin Clients
  BY ConstantsAssumption
<1>u. CASE UNCHANGED vars
  BY <1>u DEF vars, LockExclusion
<1>1. ASSUME NEW c \in Clients, NEW op \in OpsOf[c], Request(c, op)
      PROVE  LockExclusion'
  BY <1>1 DEF Request, LockExclusion, WriterPCs, LoadPCs, ReaderPCs, lock
<1>2. ASSUME NEW c \in Clients, LockW(c) PROVE LockExclusion'
  BY <1>0, <1>2 DEF LockW, LockExclusion, WriterPCs, LoadPCs, ReaderPCs
<1>3. ASSUME NEW c \in Clients, Drained(c) PROVE LockExclusion'
  BY <1>0, <1>3 DEF Drained, LockExclusion, WriterPCs, LoadPCs, ReaderPCs, lock
<1>4. ASSUME NEW c \in Clients, RLock(c) PROVE LockExclusion'
  BY <1>0, <1>4 DEF RLock, LockExclusion, WriterPCs, LoadPCs, ReaderPCs
<1>5. ASSUME NEW c \in Clients, WriterMoves(c) PROVE LockExclusion'
  BY <1>0, <1>5 DEF WriterMoves, LockExclusion, WriterPCs, LoadPCs, ReaderPCs, lock
<1>6. ASSUME NEW c \in Clients, WriterReturns(c) PROVE LockExclusion'
  BY <1>0, <1>6 DEF WriterReturns, Unlock, LockExclusion, WriterPCs, LoadPCs, ReaderPCs
<1>7. ASSUME NEW c \in Clients, ReaderMoves(c) PROVE LockExclusion'
  BY <1>0, <1>7 DEF ReaderMoves, LockExclusion, WriterPCs, LoadPCs, ReaderPCs, lock
<1>8. ASSUME NEW c \in Clients, QueryReturn(c) PROVE LockExclusion'
  BY <1>0, <1>8 DEF QueryReturn, LockExclusion, WriterPCs, LoadPCs, ReaderPCs
<1> QED BY <1>u, <1>1, <1>2, <1>3, <1>4, <1>5, <1>6, <1>7, <1>8, OperationMoves
        DEF Next, Proceed, Query

\* A writer is alone in the engine and readers share it (LockExclusion), for
\* any number of goroutines and any requests.
THEOREM MutualExclusion == Spec => []LockExclusion
<1>1. Init => LockExclusion
  BY ConstantsAssumption DEF Init, LockExclusion, WriterPCs, LoadPCs, ReaderPCs
<1>2. TypeOK /\ LockExclusion /\ [Next]_vars => LockExclusion'
  BY LockStep
<1> QED BY <1>1, <1>2, TypeCorrect, PTL DEF Spec

-----------------------------------------------------------------------------
(* The indexes and the tables.  IndexesAgree and NamesFresh lean on each     *)
(* other - a registration appends the id NamesFresh says is new to the       *)
(* ascending order of IndexesAgree, and keeps pathIndex injective because of *)
(* LoadFresh: the answer of the duplicate check is still true when the load  *)
(* registers, since no other writer ran in between.                          *)

LoadFresh == \A c \in Clients : pc[c] \in LoadPCs => job[c].path \notin DOMAIN pathIndex

IndexInv == IndexesAgree /\ NamesFresh /\ LoadFresh

index == <<files, fileOrder, pathIndex, tableCols, nextID, tables>>

\* At most one client is inside a write operation.
LEMMA OneWriter ==
  ASSUME LockExclusion, NEW c \in Clients, NEW d \in Clients,
         pc[c] \in WriterPCs, pc[d] \in WriterPCs
  PROVE  c = d
BY DEF LockExclusion

\* After a write operation of c no load is in progress, and none was but c's.
LEMMA NoLoadAfter ==
  ASSUME TypeOK, LockExclusion, NEW c \in Clients, pc[c] \in WriterPCs, ReturnW(c),
         NEW d \in Clients
  PROVE  pc'[d] \notin LoadPCs
<1>1. CASE d = c
  BY <1>1 DEF ReturnW, Unlock, LoadPCs
<1>2. CASE d # c
  <2>1. pc[d] \notin WriterPCs
    BY <1>2, OneWriter
  <2> QED BY <1>2, <2>1 DEF ReturnW, Unlock, LoadPCs, WriterPCs
<1> QED BY <1>1, <1>2

\* A step that leaves the indexes alone keeps the invariant if no load gets
\* further than it was with other arguments than it had.
LEMMA QuietStep ==
  ASSUME IndexInv, UNCHANGED index,
         \A d \in Clients : pc'[d] \in {"naive", "register"} =>
           pc[d] \in {"naive", "register"} /\ job'[d].id = job[d].id,
         \A d \in Clients : pc'[d] \in LoadPCs =>
           \/ pc[d] \in LoadPCs /\ job'[d].path = job[d].path
           \/ job'[d].path \notin DOMAIN pathIndex
  PROVE  IndexInv'
<1>1. IndexesAgree'
  BY DEF IndexInv, IndexesAgree, index
<1>2. NamesFresh'
  BY DEF IndexInv, NamesFresh, index
<1>3. LoadFresh'
  BY DEF IndexInv, LoadFresh, index
<1> QED BY <1>1, <1>2, <1>3 DEF IndexInv

\* A write operation that returns without touching the indexes.
LEMMA QuietReturn ==
  ASSUME TypeOK, LockExclusion, IndexInv, NEW c \in Clients, pc[c] \in WriterPCs,
         ReturnW(c), UNCHANGED index
  PROVE  IndexInv'
BY NoLoadAfter, QuietStep DEF LoadPCs

\* What a client does in the queue or as a reader.
LEMMA QueueStepIndexed ==
  ASSUME TypeOK, IndexInv, NEW c \in Clients,
         \/ \E op \in OpsOf[c] : Request(c, op)
         \/ LockW(c) \/ Drained(c) \/ RLock(c) \/ Query(c)
  PROVE  IndexInv'
<1>1. UNCHANGED index
  BY DEF Request, LockW, Drained, RLock, Query, QueryCount, QueryData, QueryRejected,
         QueryReturn, index, catalog
<1>2. ASSUME NEW d \in Clients, pc'[d] \in LoadPCs
      PROVE  pc'[d] = pc[d] /\ job'[d] = job[d]
  BY <1>2 DEF Request, LockW, Drained, RLock, Query, QueryCount, QueryData,
         QueryRejected, QueryReturn, LoadPCs, TypeOK, ControlTypeOK
<1> QED BY <1>1, <1>2, QuietStep DEF LoadPCs

LEMMA CreateTableIndexed ==
  ASSUME TypeInv, LockExclusion, IndexInv, NEW c \in Clients, CreateTable(c)
  PROVE  IndexInv'
<1> USE DEF TypeInv, TypeOK, ControlTypeOK
<1>0. pc[c] \in WriterPCs
  BY DEF CreateTable, WriterPCs, LoadPCs
<1>1. /\ UNCHANGED <<files, fileOrder, pathIndex, tableCols>>
      /\ nextID' = nextID + 1 /\ tables' = tables \cup {nextID + 1}
      /\ job' = [job EXCEPT ![c].id = nextID + 1]
      /\ pc' = [pc EXCEPT ![c] = pc'[c]]
      /\ pc[c] = "create"
  BY DEF CreateTable, Goto, catalog
<1>2. \A d \in Clients \ {c} : pc'[d] \notin LoadPCs
  BY <1>0, <1>1, OneWriter DEF WriterPCs
<1>3. IndexesAgree'
  BY <1>1 DEF IndexInv, IndexesAgree
<1>4. nextID \in Nat /\ \A id \in tables \cup DOMAIN files : id \in Nat /\ id <= nextID
  BY DEF CatalogTypeOK, IndexInv, NamesFresh
<1>5. nextID + 1 \notin DOMAIN files
  BY <1>4
<1>6. NamesFresh'
  <2>1. \A id \in tables' \cup DOMAIN files' : id <= nextID'
    BY <1>1, <1>4
  <2>2. ASSUME NEW d \in Clients, pc'[d] \in {"naive", "register"}
        PROVE  /\ job'[d].id = nextID'
               /\ nextID' \in tables' \ DOMAIN files'
    <3>1. d = c
      BY <1>2, <2>2 DEF LoadPCs
    <3>2. job'[c].id = nextID + 1
      BY <1>1 DEF Job
    <3> QED BY <3>1, <3>2, <1>1, <1>5
  <2> QED BY <2>1, <2>2 DEF NamesFresh
<1>7. LoadFresh'
  <2>1. job'[c].path = job[c].path /\ pc[c] \in LoadPCs
    BY <1>1 DEF Job, LoadPCs
  <2> QED BY <1>1, <1>2, <2>1 DEF IndexInv, LoadFresh
<1> QED BY <1>3, <1>6, <1>7 DEF IndexInv

LEMMA CreateFailedIndexed ==
  ASSUME TypeInv, LockExclusion, IndexInv, NEW c \in Clients, CreateFailed(c)
  PROVE  IndexInv'
<1> USE DEF TypeInv
<1>0. pc[c] \in WriterPCs /\ ReturnW(c)
  BY DEF CreateFailed, WriterPCs, LoadPCs
<1>1. /\ UNCHANGED <<files, fileOrder, pathIndex, tableCols, tables>>
      /\ nextID' = nextID + 1
  BY DEF CreateFailed, catalog
<1>2. \A d \in Clients : pc'[d] \notin LoadPCs
  BY <1>0, NoLoadAfter
<1>3. IndexesAgree'
  BY <1>1 DEF IndexInv, IndexesAgree
<1>4. \A id \in tables \cup DOMAIN files : id \in Nat /\ id <= nextID
  BY DEF TypeOK, CatalogTypeOK, IndexInv, NamesFresh
<1>5. nextID \in Nat
  BY DEF TypeOK, CatalogTypeOK
<1> QED BY <1>1, <1>2, <1>3, <1>4, <1>5 DEF IndexInv, NamesFresh, LoadFresh, LoadPCs

LEMMA RegisterIndexed ==
  ASSUME TypeInv, LockExclusion, IndexInv, NEW c \in Clients,
         NEW fetched \in BOOLEAN, Register(c, fetched)
  PROVE  IndexInv'
<1> DEFINE id == job[c].id
           p == job[c].path
<1>0. pc[c] \in WriterPCs /\ pc[c] = "register" /\ ReturnW(c)
  BY DEF Register, WriterPCs, LoadPCs
<1>1. /\ id = nextID
      /\ id \in Nat /\ p \in Paths
      /\ id \in tables /\ id \notin DOMAIN files
      /\ p \notin DOMAIN pathIndex
  BY <1>0 DEF IndexInv, NamesFresh, LoadFresh, LoadPCs, TypeInv, TypeOK, CatalogTypeOK,
              LoadTyped
<1>2. /\ DOMAIN tableCols' = DOMAIN tableCols \cup {id}
      /\ files' = [i \in DOMAIN files \cup {id} |->
                     IF i = id THEN [path |-> p, enabled |-> TRUE] ELSE files[i]]
      /\ fileOrder' = Append(fileOrder, id)
      /\ pathIndex' = [q \in DOMAIN pathIndex \cup {p} |->
                         IF q = p THEN id ELSE pathIndex[q]]
      /\ UNCHANGED <<nextID, tables>>
  BY DEF Register
<1>3. \A i \in tables \cup DOMAIN files : i <= nextID
  BY DEF IndexInv, NamesFresh
<1> HIDE DEF id, p
<1>4. /\ fileOrder \in Seq(Nat)
      /\ {fileOrder[k] : k \in 1..Len(fileOrder)} = DOMAIN files
      /\ \A j, k \in 1..Len(fileOrder) : j < k => fileOrder[j] < fileOrder[k]
      /\ DOMAIN files \subseteq Nat
      /\ nextID \in Nat
  BY DEF IndexInv, IndexesAgree, TypeInv, TypeOK, CatalogTypeOK
<1>5. /\ Len(fileOrder') = Len(fileOrder) + 1
      /\ \A k \in 1..Len(fileOrder) : fileOrder'[k] = fileOrder[k]
      /\ fileOrder'[Len(fileOrder) + 1] = id
  BY <1>1, <1>2, <1>4
<1>6. \A k \in 1..Len(fileOrder) : fileOrder[k] \in DOMAIN files /\ fileOrder[k] < id
  <2> SUFFICES ASSUME NEW k \in 1..Len(fileOrder)
               PROVE  fileOrder[k] \in DOMAIN files /\ fileOrder[k] < id
    OBVIOUS
  <2>1. fileOrder[k] \in DOMAIN files
    BY <1>4
  <2>2. fileOrder[k] # id /\ fileOrder[k] <= nextID /\ fileOrder[k] \in Nat
    BY <2>1, <1>1, <1>3, <1>4
  <2> QED BY <2>1, <2>2, <1>1
<1>7. {fileOrder'[k] : k \in 1..Len(fileOrder')} = DOMAIN files'
  <2>1. DOMAIN files' = DOMAIN files \cup {id}
    BY <1>2
  <2>2. \A k \in 1..Len(fileOrder') : fileOrder'[k] \in DOMAIN files'
    BY <2>1, <1>4, <1>5, <1>6
  <2>3. ASSUME NEW i \in DOMAIN files' PROVE \E k \in 1..Len(fileOrder') : fileOrder'[k] = i
    <3>1. CASE i = id
      <4>1. Len(fileOrder) + 1 \in 1..Len(fileOrder')
        BY <1>4, <1>5
      <4> QED BY <3>1, <4>1, <1>5
    <3>2. CASE i \in DOMAIN files
      <4>1. PICK k \in 1..Len(fileOrder) : fileOrder[k] = i
        BY <3>2, <1>4
      <4>2. k \in 1..Len(fileOrder') /\ fileOrder'[k] = i
        BY <4>1, <1>4, <1>5
      <4> QED BY <4>2
    <3> QED BY <3>1, <3>2, <2>1
  <2> QED BY <2>2, <2>3
<1>8. \A j, k \in 1..Len(fileOrder') : j < k => fileOrder'[j] < fileOrder'[k]
  <2> SUFFICES ASSUME NEW j \in 1..Len(fileOrder'), NEW k \in 1..Len(fileOrder'), j < k
               PROVE  fileOrder'[j] < fileOrder'[k]
    OBVIOUS
  <2>1. j \in 1..Len(fileOrder) /\ (k \in 1..Len(fileOrder) \/ k = Len(fileOrder) + 1)
    BY <1>4, <1>5
  <2> QED BY <2>1, <1>4, <1>5, <1>6
<1>9. IndexesAgree'
  <2>1. \A i \in DOMAIN files' : /\ files'[i].path \in DOMAIN pathIndex'
                                 /\ pathIndex'[files'[i].path] = i
    BY <1>1, <1>2 DEF IndexInv, IndexesAgree
  <2>2. \A q \in DOMAIN pathIndex' : /\ pathIndex'[q] \in DOMAIN files'
                                     /\ files'[pathIndex'[q]].path = q
    BY <1>1, <1>2 DEF IndexInv, IndexesAgree
  <2>3. DOMAIN tableCols' = DOMAIN files'
    BY <1>2 DEF IndexInv, IndexesAgree
  <2>4. DOMAIN files' \subseteq tables'
    BY <1>1, <1>2 DEF IndexInv, IndexesAgree
  <2> QED BY <2>1, <2>2, <2>3, <2>4, <1>7, <1>8 DEF IndexesAgree
<1>10. \A d \in Clients : pc'[d] \notin LoadPCs
  BY <1>0, NoLoadAfter DEF TypeInv
<1>11. NamesFresh'
  BY <1>1, <1>2, <1>3, <1>4, <1>10 DEF NamesFresh, LoadPCs
<1> QED BY <1>9, <1>10, <1>11 DEF IndexInv, LoadFresh

LEMMA UnloadFileIndexed ==
  ASSUME TypeInv, LockExclusion, IndexInv, NEW c \in Clients, NEW id, UnloadFile(c, id)
  PROVE  IndexInv'
<1> DEFINE p == files[id].path
<1>0. pc[c] \in WriterPCs /\ ReturnW(c)
  BY DEF UnloadFile, WriterPCs
<1>1. /\ id \in DOMAIN files
      /\ tables' = tables \ {id}
      /\ DOMAIN tableCols' = DOMAIN tableCols \ {id}
      /\ pathIndex' = [q \in DOMAIN pathIndex \ {p} |-> pathIndex[q]]
      /\ files' = [i \in DOMAIN files \ {id} |-> files[i]]
      /\ fileOrder' = RemoveFirst(fileOrder, id)
      /\ nextID' = nextID
  BY DEF UnloadFile
<1>2. /\ fileOrder \in Seq(Nat) /\ Ascending(fileOrder)
      /\ Elems(fileOrder) = DOMAIN files
  BY DEF IndexInv, IndexesAgree, TypeInv, TypeOK, CatalogTypeOK, Ascending, Elems
<1>3. Ascending(fileOrder') /\ Elems(fileOrder') = DOMAIN files \ {id}
  BY <1>1, <1>2, RemoveFirstAscending
<1>4. IndexesAgree'
  <2>1. \A i \in DOMAIN files' : /\ files'[i].path \in DOMAIN pathIndex'
                                 /\ pathIndex'[files'[i].path] = i
    BY <1>1 DEF IndexInv, IndexesAgree
  <2>2. \A q \in DOMAIN pathIndex' : /\ pathIndex'[q] \in DOMAIN files'
                                     /\ files'[pathIndex'[q]].path = q
    BY <1>1 DEF IndexInv, IndexesAgree
  <2>3. DOMAIN tableCols' = DOMAIN files'
    BY <1>1 DEF IndexInv, IndexesAgree
  <2>4. DOMAIN files' \subseteq tables'
    BY <1>1 DEF IndexInv, IndexesAgree
  <2> QED BY <2>1, <2>2, <2>3, <2>4, <1>1, <1>3 DEF IndexesAgree, Ascending, Elems
<1>5. \A d \in Clients : pc'[d] \notin LoadPCs
  BY <1>0, NoLoadAfter DEF TypeInv
<1>6. NamesFresh'
  BY <1>1, <1>5 DEF IndexInv, NamesFresh, LoadPCs
<1> QED BY <1>4, <1>5, <1>6 DEF IndexInv, LoadFresh

LEMMA SetFileEnabledIndexed ==
  ASSUME TypeInv, LockExclusion, IndexInv, NEW c \in Clients, NEW id, NEW on \in BOOLEAN,
         SetFileEnabled(c, id, on)
  PROVE  IndexInv'
<1>0. pc[c] \in WriterPCs /\ ReturnW(c)
  BY DEF SetFileEnabled, WriterPCs
<1>1. /\ DOMAIN files' = DOMAIN files
      /\ \A i \in DOMAIN files : files'[i].path = files[i].path
      /\ UNCHANGED <<fileOrder, pathIndex, tableCols, nextID, tables>>
  BY DEF SetFileEnabled, TypeInv, TypeOK, CatalogTypeOK, FileInfo
<1>2. \A d \in Clients : pc'[d] \notin LoadPCs
  BY <1>0, NoLoadAfter DEF TypeInv
<1>3. IndexesAgree'
  BY <1>1 DEF IndexInv, IndexesAgree
<1> QED BY <1>1, <1>2, <1>3 DEF IndexInv, NamesFresh, LoadFresh, LoadPCs

LEMMA LoadStepIndexed ==
  ASSUME TypeInv, LockExclusion, IndexInv, NEW c \in Clients, Load(c)
  PROVE  IndexInv'
<1> USE DEF TypeInv
<1>1. CASE LoadRejected(c) \/ StreamFailed(c) \/ NormaliseFailed(c)
  <2>1. pc[c] \in WriterPCs /\ ReturnW(c) /\ UNCHANGED index
    BY <1>1 DEF LoadRejected, StreamFailed, NormaliseFailed, WriterPCs, LoadPCs, index,
                catalog
  <2> QED BY <2>1, QuietReturn
<1>2. ASSUME NEW p \in Paths, LoadDirect(c, p) \/ LoadStreamed(c, p) PROVE IndexInv'
  <2>1. /\ UNCHANGED index /\ p \notin DOMAIN pathIndex
        /\ \A d \in Clients : d # c => pc'[d] = pc[d] /\ job'[d] = job[d]
        /\ job'[c].path = p
        /\ pc'[c] \in {"create", "stream"}
    BY <1>2 DEF LoadDirect, LoadStreamed, Goto, index, catalog, TypeOK, ControlTypeOK, Job
  <2> QED BY <2>1, QuietStep
<1>3. CASE StreamDone(c) \/ Normalised(c)
  <2>1. /\ UNCHANGED index /\ UNCHANGED job
        /\ \A d \in Clients : pc'[d] = pc[d] \/ d = c
        /\ \/ pc[c] = "stream" /\ pc'[c] = "create"
           \/ pc[c] = "naive" /\ pc'[c] = "register"
    BY <1>3 DEF StreamDone, Normalised, Goto, index, catalog, TypeOK, ControlTypeOK
  <2> QED BY <2>1, QuietStep DEF LoadPCs
<1> QED BY <1>1, <1>2, <1>3, CreateTableIndexed, CreateFailedIndexed, RegisterIndexed
        DEF Load

LEMMA IndexStep ==
  ASSUME TypeInv, LockExclusion, IndexInv, [Next]_vars
  PROVE  IndexInv'
<1>u. CASE UNCHANGED vars
  BY <1>u, QuietStep DEF vars, index
<1>1. ASSUME NEW c \in Clients, UnloadRefused(c) PROVE IndexInv'
  <2>1. pc[c] \in WriterPCs /\ ReturnW(c) /\ UNCHANGED index
    BY <1>1 DEF UnloadRefused, WriterPCs, index, catalog
  <2> QED BY <2>1, QuietReturn DEF TypeInv
<1>2. ASSUME NEW c \in Clients, NEW f, SetTimestampField(c, f) PROVE IndexInv'
  <2>1. pc[c] \in WriterPCs /\ ReturnW(c) /\ UNCHANGED index
    BY <1>2 DEF SetTimestampField, WriterPCs, index
  <2> QED BY <2>1, QuietReturn DEF TypeInv
<1>3. ASSUME NEW c \in Clients, NEW r, SetLoaders(c, r) PROVE IndexInv'
  <2>1. pc[c] \in WriterPCs /\ ReturnW(c) /\ UNCHANGED index
    BY <1>3 DEF SetLoaders, WriterPCs, index, catalog
  <2> QED BY <2>1, QuietReturn DEF TypeInv
<1>4. ASSUME NEW c \in Clients, Mutate(c) PROVE IndexInv'
  BY <1>1, <1>2, <1>3, <1>4, UnloadFileIndexed, SetFileEnabledIndexed DEF Mutate
<1>5. ASSUME NEW c \in Clients,
             \/ \E op \in OpsOf[c] : Request(c, op)
             \/ LockW(c) \/ Drained(c) \/ RLock(c) \/ Query(c)
      PROVE  IndexInv'
  BY <1>5, QueueStepIndexed DEF TypeInv
<1> QED BY <1>u, <1>4, <1>5, LoadStepIndexed DEF Next, Proceed

LEMMA InductiveInvariant == Spec => [](TypeInv /\ LockExclusion /\ IndexInv)
<1>1. Init => IndexInv
  BY ConstantsAssumption DEF Init, IndexInv, IndexesAgree, NamesFresh,
     LoadFresh, LoadPCs
<1>2. TypeInv /\ LockExclusion /\ IndexInv /\ [Next]_vars => IndexInv'
  BY IndexStep
<1>3. Spec => []TypeInv
  BY InitTyped, TypeStep, PTL DEF Spec
<1> QED BY <1>1, <1>2, <1>3, MutualExclusion, PTL DEF Spec

\* fileOrder, files, pathIndex and tableCols always describe the same files, each of
\* which has its table, and no path is loaded twice (IndexesAgree), however
\* loads, unloads and their failures interleave.
THEOREM IndexConsistency == Spec => []IndexesAgree
<1>1. IndexInv => IndexesAgree
  BY DEF IndexInv
<1> QED BY <1>1, InductiveInvariant, PTL

\* CREATE TABLE never meets an existing table and ids are never reused
\* (NamesFresh), although failed loads leave tables behind.
THEOREM FreshNames == Spec => []NamesFresh
<1>1. IndexInv => NamesFresh
  BY DEF IndexInv
<1> QED BY <1>1, InductiveInvariant, PTL

LEMMA TempStep ==
  ASSUME TypeOK, LockExclusion, NoTempLeft, [Next]_vars
  PROVE  NoTempLeft'
<1> USE DEF TypeOK, ControlTypeOK
<1>u. CASE UNCHANGED vars
  BY <1>u DEF vars, NoTempLeft
<1>1. ASSUME NEW c \in Clients, ReturnW(c) PROVE NoTempLeft'
  <2> SUFFICES ASSUME NEW d \in tmpFiles', d # c PROVE pc'[d] \in LoadPCs
    BY <1>1 DEF NoTempLeft, ReturnW
  <2>1. d \in Clients /\ pc[d] \in LoadPCs
    BY <1>1 DEF NoTempLeft, ReturnW
  <2>2. d \notin blocked
    BY <2>1 DEF LockExclusion, LoadPCs
  <2> QED BY <1>1, <2>1, <2>2 DEF ReturnW, Unlock
<1>2. ASSUME NEW c \in Clients, Load(c) PROVE NoTempLeft'
  <2>1. \/ ReturnW(c)
        \/ /\ \E to \in LoadPCs : pc' = [pc EXCEPT ![c] = to]
           /\ tmpFiles' \subseteq tmpFiles \cup {c}
    BY <1>2 DEF Load, LoadRejected, LoadDirect, LoadStreamed, StreamDone,
       StreamFailed, CreateTable, CreateFailed, Normalised, NormaliseFailed, Register,
       Goto, LoadPCs
  <2> QED BY <2>1, <1>1 DEF NoTempLeft
<1>3. ASSUME NEW c \in Clients, Mutate(c) PROVE NoTempLeft'
  BY <1>1, <1>3 DEF Mutate, UnloadRefused, UnloadFile, SetFileEnabled,
     SetTimestampField, SetLoaders
<1>4. ASSUME NEW c \in Clients,
             \/ \E op \in OpsOf[c] : Request(c, op)
             \/ LockW(c) \/ Drained(c) \/ RLock(c) \/ Query(c)
      PROVE  NoTempLeft'
  BY <1>4 DEF Request, LockW, Drained, RLock, Query, QueryCount, QueryData,
     QueryRejected, QueryReturn, NoTempLeft, LoadPCs
<1> QED BY <1>u, <1>2, <1>3, <1>4 DEF Next, Proceed

\* No temporary file outlives the load that made it (NoTempLeft): every way
\* out of LoadFileCtx passes the os.Remove.
THEOREM TempFilesRemoved == Spec => []NoTempLeft
<1>1. Init => NoTempLeft
  BY DEF Init, NoTempLeft
<1>2. TypeOK /\ LockExclusion /\ NoTempLeft /\ [Next]_vars => NoTempLeft'
  BY TempStep
<1> QED BY <1>1, <1>2, TypeCorrect, MutualExclusion, PTL DEF Spec

-----------------------------------------------------------------------------
(* The implementation of CatalogSpec.  The catalog's list of entries is      *)
(* fileOrder with each id's FileInfo.  One step of a load changes it,        *)
(* Register, and one step of each other write operation; a query takes its   *)
(* answer in the step that leaves "count" or "data".  Every other step of    *)
(* the engine is a stutter.                                                  *)

-----------------------------------------------------------------------------
(* What a query remembers.  Between the count and the SELECT the enabled     *)
(* files stay what they were, because a reader holds the lock.               *)

QueryConsistent ==
  /\ \A c \in Clients : pc[c] = "data" => /\ job[c].counted = EnabledPaths
                                         /\ EnabledPaths # {}
  /\ \A c \in Clients : pc[c] = "reply" <=> answer[c] # NoAnswer

\* A load in progress stays within the bound on ids.
LoadBounded ==
  \A c \in Clients :
    /\ pc[c] \in {"stream", "create"} => nextID < MaxLoads
    /\ pc[c] \in {"naive", "register"} => nextID \in 1..MaxLoads

Inv == TypeInv /\ LockExclusion /\ IndexInv

LEMMA LoadBoundStep ==
  ASSUME Inv, LoadBounded, [Next]_vars
  PROVE  LoadBounded'
<1> USE DEF Inv, TypeInv, TypeOK, ControlTypeOK, CatalogTypeOK
<1>1. ASSUME NEW c \in Clients, pc[c] \in WriterPCs, ReturnW(c) PROVE LoadBounded'
  BY <1>1, NoLoadAfter DEF LoadBounded, LoadPCs
<1>2. ASSUME NEW c \in Clients, CreateTable(c) PROVE LoadBounded'
  <2>1. pc[c] = "create" /\ pc[c] \in WriterPCs /\ nextID' = nextID + 1
    BY <1>2 DEF CreateTable, WriterPCs, LoadPCs
  <2>2. \A d \in Clients : d # c => pc'[d] = pc[d] /\ pc[d] \notin WriterPCs
    BY <1>2, <2>1, OneWriter DEF CreateTable, Goto
  <2>3. nextID \in Nat /\ nextID < MaxLoads /\ MaxLoads \in Nat
    BY <2>1, ConstantsAssumption DEF LoadBounded
  <2>4. nextID' \in 1..MaxLoads
    BY <2>1, <2>3
  <2>5. pc'[c] \in {"naive", "register"}
    BY <1>2 DEF CreateTable, Goto
  <2> QED BY <2>2, <2>4, <2>5 DEF LoadBounded, WriterPCs, LoadPCs
<1>3. ASSUME NEW c \in Clients, Load(c) PROVE LoadBounded'
  <2>1. CASE CreateTable(c)
    BY <2>1, <1>2
  <2>2. CASE ReturnW(c) /\ pc[c] \in WriterPCs
    BY <2>2, <1>1
  <2>3. CASE \E p \in Paths : LoadDirect(c, p) \/ LoadStreamed(c, p)
    BY <2>3 DEF LoadDirect, LoadStreamed, Goto, LoadBounded
  <2>4. CASE StreamDone(c) \/ Normalised(c)
    BY <2>4 DEF StreamDone, Normalised, Goto, LoadBounded
  <2> QED BY <1>3, <2>1, <2>2, <2>3, <2>4 DEF Load, LoadRejected, StreamFailed,
          CreateFailed, NormaliseFailed, Register, WriterPCs, LoadPCs
<1>4. ASSUME NEW c \in Clients, Mutate(c) PROVE LoadBounded'
  <2>1. ReturnW(c) /\ pc[c] \in WriterPCs
    BY <1>4 DEF Mutate, UnloadRefused, UnloadFile, SetFileEnabled, SetTimestampField,
       SetLoaders, WriterPCs
  <2> QED BY <2>1, <1>1
<1>5. ASSUME NEW c \in Clients,
             \/ \E op \in OpsOf[c] : Request(c, op)
             \/ LockW(c) \/ Drained(c) \/ RLock(c) \/ Query(c)
      PROVE  LoadBounded'
  BY <1>5 DEF Request, LockW, Drained, RLock, Query, QueryCount, QueryData,
     QueryRejected, QueryReturn, LoadBounded
<1>6. CASE UNCHANGED vars
  BY <1>6 DEF vars, LoadBounded
<1> QED BY <1>3, <1>4, <1>5, <1>6 DEF Next, Proceed

\* While a write operation runs, no query has begun: nothing it changes was
\* seen by one.
LEMMA NoQueryDuringWrite ==
  ASSUME Inv, NEW c \in Clients, pc[c] \in WriterPCs, NEW d \in Clients
  PROVE  pc[d] \notin ReaderPCs
BY DEF Inv, LockExclusion

LEMMA QueryStep ==
  ASSUME Inv, QueryConsistent, [Next]_vars
  PROVE  QueryConsistent'
<1> USE DEF Inv, TypeInv, TypeOK, ControlTypeOK
<1>1. ASSUME NEW c \in Clients, Load(c) \/ Mutate(c) PROVE QueryConsistent'
  <2>1. pc[c] \in WriterPCs /\ UNCHANGED answer
    BY <1>1 DEF Load, LoadRejected, LoadDirect, LoadStreamed, StreamDone, StreamFailed,
       CreateTable, CreateFailed, Normalised, NormaliseFailed, Register, ReturnW, Goto,
       Mutate, UnloadRefused, UnloadFile, SetFileEnabled, SetTimestampField, SetLoaders,
       WriterPCs, LoadPCs
  <2>2. \A d \in Clients : pc[d] \notin ReaderPCs
    BY <2>1, NoQueryDuringWrite
  <2>3. WriterMoves(c) \/ WriterReturns(c)
    BY <1>1, <2>2, OperationMoves DEF ReaderMoves
  <2>4. \A d \in Clients : pc'[d] \notin {"data", "reply"}
    BY <2>2, <2>3 DEF WriterMoves, WriterReturns, Unlock, WriterPCs, LoadPCs, ReaderPCs
  <2> QED BY <2>1, <2>2, <2>4 DEF QueryConsistent, ReaderPCs
<1>2. ASSUME NEW c \in Clients,
             \/ \E op \in OpsOf[c] : Request(c, op)
             \/ LockW(c) \/ Drained(c) \/ RLock(c)
      PROVE  QueryConsistent'
  <2>1. UNCHANGED <<files, answer>>
    BY <1>2 DEF Request, LockW, Drained, RLock, catalog
  <2>2. \A d \in Clients : /\ pc'[d] \in {"data", "reply"} => pc'[d] = pc[d]
                           /\ pc[d] \in {"data", "reply"} => pc'[d] = pc[d]
                           /\ job'[d].counted = job[d].counted
    BY <1>2 DEF Request, LockW, Drained, RLock, Job
  <2> QED BY <2>1, <2>2 DEF QueryConsistent, EnabledPaths
<1>3. ASSUME NEW c \in Clients, QueryCount(c) PROVE QueryConsistent'
  <2>1. UNCHANGED files /\ pc[c] = "count" /\ answer[c] = NoAnswer
    BY <1>3 DEF QueryCount, catalog, QueryConsistent
  <2>2. CASE EnabledPaths = {}
    BY <1>3, <2>1, <2>2 DEF QueryCount, QueryConsistent, EnabledPaths, NoAnswer
  <2>3. CASE EnabledPaths # {}
    <3>1. /\ job' = [job EXCEPT ![c].counted = EnabledPaths]
          /\ pc' = [pc EXCEPT ![c] = "data"] /\ UNCHANGED answer
      BY <1>3, <2>3 DEF QueryCount
    <3>2. EnabledPaths' = EnabledPaths
      BY <2>1 DEF EnabledPaths
    <3>3. job'[c].counted = EnabledPaths /\ \A d \in Clients : d # c => job'[d] = job[d]
      BY <3>1 DEF Job
    <3> QED BY <2>1, <2>3, <3>1, <3>2, <3>3 DEF QueryConsistent
  <2> QED BY <2>2, <2>3
<1>4. ASSUME NEW c \in Clients, QueryData(c) \/ QueryRejected(c) PROVE QueryConsistent'
  <2>1. UNCHANGED <<files, job>> /\ pc' = [pc EXCEPT ![c] = "reply"]
    BY <1>4 DEF QueryData, QueryRejected, catalog
  <2>2. \E a : a # NoAnswer /\ answer' = [answer EXCEPT ![c] = a]
    BY <1>4 DEF QueryData, QueryRejected, NoAnswer
  <2> QED BY <2>1, <2>2 DEF QueryConsistent, EnabledPaths
<1>5. ASSUME NEW c \in Clients, QueryReturn(c) PROVE QueryConsistent'
  BY <1>5 DEF QueryReturn, QueryConsistent, EnabledPaths, catalog
<1>6. CASE UNCHANGED vars
  BY <1>6 DEF vars, QueryConsistent, EnabledPaths
<1> QED BY <1>1, <1>2, <1>3, <1>4, <1>5, <1>6 DEF Next, Proceed, Query

LEMMA ImplementationInvariant ==
  Spec => [](Inv /\ LoadBounded /\ QueryConsistent)
<1>1. Init => LoadBounded /\ QueryConsistent
  BY DEF Init, LoadBounded, QueryConsistent
<1>2. Inv /\ LoadBounded /\ QueryConsistent /\ [Next]_vars
        => LoadBounded' /\ QueryConsistent'
  BY LoadBoundStep, QueryStep
<1>3. Spec => []Inv
  BY InductiveInvariant, PTL DEF Inv
<1> QED BY <1>1, <1>2, <1>3, PTL DEF Spec

-----------------------------------------------------------------------------
(* The list of entries                                                       *)

\* What AbstractCatalog substitutes for entries.
Entries == [k \in 1..Len(fileOrder) |->
              [id |-> fileOrder[k],
               path |-> files[fileOrder[k]].path,
               enabled |-> files[fileOrder[k]].enabled]]

EntryType == [id: Nat, path: Paths, enabled: BOOLEAN]

\* Each place of the load order shows one loaded file.
ShowFiles ==
  /\ Entries \in Seq(EntryType)
  /\ Len(Entries) = Len(fileOrder)
  /\ \A k \in 1..Len(fileOrder) : /\ fileOrder[k] \in DOMAIN files
                                  /\ Entries[k].id = fileOrder[k]
                                  /\ Entries[k].path = files[fileOrder[k]].path
                                  /\ Entries[k].enabled = files[fileOrder[k]].enabled
  /\ \A id \in DOMAIN files : \E k \in 1..Len(fileOrder) : fileOrder[k] = id

LEMMA EntriesShowFiles == Inv => ShowFiles
<1> SUFFICES ASSUME Inv PROVE ShowFiles
  OBVIOUS
<1>1. fileOrder \in Seq(Nat) /\ \A id \in DOMAIN files : files[id] \in FileInfo
  BY DEF Inv, TypeInv, TypeOK, CatalogTypeOK
<1>2. /\ \A k \in 1..Len(fileOrder) : fileOrder[k] \in DOMAIN files
      /\ \A id \in DOMAIN files : \E k \in 1..Len(fileOrder) : fileOrder[k] = id
  BY DEF Inv, IndexInv, IndexesAgree
<1>3. \A k \in 1..Len(fileOrder) : Entries[k] \in EntryType
  BY <1>1, <1>2 DEF Entries, EntryType, FileInfo
<1>4. Len(fileOrder) \in Nat /\ DOMAIN Entries = 1..Len(fileOrder)
  BY <1>1 DEF Entries
<1>5. Entries \in [1..Len(fileOrder) -> EntryType]
  BY <1>3 DEF Entries
<1>6. Entries \in Seq(EntryType)
  BY <1>4, <1>5, SeqDef
<1>7. Len(Entries) = Len(fileOrder)
  BY <1>4, <1>6, LenProperties
<1>8. \A k \in 1..Len(fileOrder) : /\ Entries[k].id = fileOrder[k]
                                   /\ Entries[k].path = files[fileOrder[k]].path
                                   /\ Entries[k].enabled = files[fileOrder[k]].enabled
  BY DEF Entries
<1> QED BY <1>2, <1>6, <1>7, <1>8 DEF ShowFiles

LEMMA EntriesShowFilesNext == Inv' => ShowFiles'
BY EntriesShowFiles, PTL

\* Two entries with the same fields are equal.
LEMMA EntryEqual ==
  ASSUME NEW e \in EntryType, NEW f \in EntryType,
         e.id = f.id, e.path = f.path, e.enabled = f.enabled
  PROVE  e = f
BY DEF EntryType

\* A file whose FileInfo a step leaves alone keeps its entry, wherever it moves.
LEMMA SameEntry ==
  ASSUME ShowFiles, ShowFiles', NEW j \in 1..Len(fileOrder), NEW k \in 1..Len(fileOrder'),
         fileOrder'[k] = fileOrder[j],
         files'[fileOrder[j]].path = files[fileOrder[j]].path,
         files'[fileOrder[j]].enabled = files[fileOrder[j]].enabled
  PROVE  Entries'[k] = Entries[j]
<1> DEFINE e == Entries[j]
           f == Entries'[k]
<1>1. /\ e \in EntryType /\ f \in EntryType
      /\ e.id = f.id /\ e.path = f.path /\ e.enabled = f.enabled
  BY DEF ShowFiles
<1> HIDE DEF e, f
<1>2. e = f
  BY <1>1, EntryEqual
<1> QED BY <1>2 DEF e, f

\* The enabled entries are the files a query reads.
LEMMA EnabledEntriesArePaths ==
  ASSUME Inv
  PROVE  AbstractCatalog!EnabledEntries = EnabledPaths
<1>1. AbstractCatalog!EnabledEntries
        = {Entries[k].path : k \in {j \in 1..Len(Entries) : Entries[j].enabled}}
  BY DEF AbstractCatalog!EnabledEntries, Entries
<1>2. ASSUME NEW k \in 1..Len(Entries), Entries[k].enabled
      PROVE  Entries[k].path \in EnabledPaths
  BY <1>2, EntriesShowFiles DEF EnabledPaths, ShowFiles
<1>3. ASSUME NEW id \in DOMAIN files, files[id].enabled
      PROVE  \E k \in 1..Len(Entries) : Entries[k].enabled /\ Entries[k].path = files[id].path
  BY <1>3, EntriesShowFiles DEF ShowFiles
<1> QED BY <1>1, <1>2, <1>3 DEF EnabledPaths

\* A step that leaves the listing, the field and the answers alone.
LEMMA StutterImplements ==
  ASSUME UNCHANGED <<files, fileOrder, timestampField, answer>>
  PROVE  UNCHANGED AbstractCatalog!absVars
BY DEF AbstractCatalog!absVars

-----------------------------------------------------------------------------
(* One lemma per step that the abstract catalog sees                         *)

\* Registering a file appends its entry.
LEMMA RegisterImplements ==
  ASSUME Inv, Inv', LoadBounded, NEW c \in Clients, NEW fetched \in BOOLEAN,
         Register(c, fetched)
  PROVE  AbstractCatalog!AbsNext
<1>0. ShowFiles /\ ShowFiles'
  BY EntriesShowFiles, EntriesShowFilesNext
<1>1. pc[c] = "register" /\ pc[c] \in LoadPCs
  BY DEF Register, LoadPCs
<1>2. PICK id \in 1..MaxLoads, p \in Paths :
        /\ id = job[c].id /\ p = job[c].path
        /\ id = nextID /\ id \notin DOMAIN files
        /\ p \notin DOMAIN pathIndex
  BY <1>1 DEF Inv, IndexInv, NamesFresh, LoadFresh, TypeInv, LoadTyped, LoadBounded
<1> DEFINE cols == IF fetched THEN Schema[p] ELSE << >>
           entry == [id |-> id, path |-> p, enabled |-> TRUE]
<1>3. cols \in Seq(Fields)
  BY ConstantsAssumption
<1>4. /\ files' = [i \in DOMAIN files \cup {id} |->
                     IF i = id THEN [path |-> p, enabled |-> TRUE] ELSE files[i]]
      /\ fileOrder' = Append(fileOrder, id)
      /\ timestampField' = IF DOMAIN files = {} THEN PickTimestampField(cols)
                           ELSE timestampField
      /\ UNCHANGED answer
  BY <1>2 DEF Register, ReturnW
<1> HIDE DEF cols
<1>5. /\ fileOrder \in Seq(Nat) /\ id \in Nat
      /\ Len(fileOrder') = Len(fileOrder) + 1
      /\ \A k \in 1..Len(fileOrder) : fileOrder'[k] = fileOrder[k]
      /\ fileOrder'[Len(fileOrder) + 1] = id
  BY <1>2, <1>4 DEF Inv, TypeInv, TypeOK, CatalogTypeOK
<1>6. \A k \in 1..Len(Entries) : Entries[k].path # p /\ Entries[k].id < id
  <2> SUFFICES ASSUME NEW k \in 1..Len(Entries)
               PROVE  Entries[k].path # p /\ Entries[k].id < id
    OBVIOUS
  <2>1. /\ fileOrder[k] \in DOMAIN files
        /\ Entries[k].path = files[fileOrder[k]].path /\ Entries[k].id = fileOrder[k]
    BY <1>0 DEF ShowFiles
  <2>2. files[fileOrder[k]].path \in DOMAIN pathIndex
    BY <2>1 DEF Inv, IndexInv, IndexesAgree
  <2>3. fileOrder[k] <= nextID /\ fileOrder[k] \in Nat /\ fileOrder[k] # nextID
    BY <2>1, <1>2 DEF Inv, IndexInv, NamesFresh, TypeInv, TypeOK, CatalogTypeOK
  <2> QED BY <2>1, <2>2, <2>3, <1>2
<1>7. Entries' = Append(Entries, entry)
  <2>1. /\ Entries \in Seq(EntryType) /\ Len(Entries) = Len(fileOrder)
        /\ Entries' \in Seq(EntryType) /\ Len(Entries') = Len(fileOrder')
    BY <1>0 DEF ShowFiles
  <2>2. entry \in EntryType
    BY <1>2, <1>5 DEF EntryType
  <2>3. /\ Append(Entries, entry) \in Seq(EntryType)
        /\ Len(Append(Entries, entry)) = Len(Entries) + 1
        /\ \A k \in 1..Len(Entries) : Append(Entries, entry)[k] = Entries[k]
        /\ Append(Entries, entry)[Len(Entries) + 1] = entry
    BY <2>1, <2>2, AppendProperties
  <2>4. ASSUME NEW k \in 1..Len(fileOrder) PROVE Entries'[k] = Entries[k]
    <3>1. k \in 1..Len(fileOrder') /\ fileOrder[k] \in DOMAIN files
      BY <1>0, <1>5 DEF ShowFiles
    <3>2. files'[fileOrder'[k]] = files[fileOrder[k]] /\ fileOrder'[k] = fileOrder[k]
      BY <3>1, <1>2, <1>4, <1>5
    <3> QED BY <3>1, <3>2, <1>0, SameEntry
  <2>5. Entries'[Len(fileOrder) + 1] = entry
    <3>1. Len(fileOrder) + 1 \in 1..Len(fileOrder')
      BY <1>5
    <3>2. files'[id] = [path |-> p, enabled |-> TRUE]
      BY <1>4
    <3> DEFINE last == Entries'[Len(fileOrder) + 1]
    <3>3. /\ last \in EntryType
          /\ last.id = id /\ last.path = p /\ last.enabled = TRUE
      BY <3>1, <3>2, <1>0, <1>5, <2>1 DEF ShowFiles
    <3> HIDE DEF last
    <3>4. last = entry
      BY <3>3, <2>2, EntryEqual
    <3> QED BY <3>4 DEF last
  <2>6. \A k \in 1..Len(Entries') : Entries'[k] = Append(Entries, entry)[k]
    BY <1>5, <2>1, <2>3, <2>4, <2>5
  <2> QED BY <1>5, <2>1, <2>3, <2>6, SeqEqual
<1>8. IF Entries = << >> THEN timestampField' \in Fields ELSE UNCHANGED timestampField
  <2>1. timestampField' \in Fields
    BY DEF Inv, TypeInv, TypeOK, CatalogTypeOK
  <2>2. ASSUME Entries # << >> PROVE DOMAIN files # {}
    <3>1. Entries \in Seq(EntryType) /\ Len(Entries) = Len(fileOrder)
      BY <1>0 DEF ShowFiles
    <3>2. 1 \in 1..Len(fileOrder)
      BY <2>2, <3>1, EmptySeq
    <3> QED BY <3>2, <1>0 DEF ShowFiles
  <2> QED BY <2>1, <2>2, <1>4
<1>9. AbstractCatalog!AbsLoad(id, p)
  BY <1>4, <1>6, <1>7, <1>8 DEF AbstractCatalog!AbsLoad, Entries
<1> QED BY <1>9 DEF AbstractCatalog!AbsNext

\* Unloading a file removes its entry and moves the later ones up.
LEMMA UnloadImplements ==
  ASSUME Inv, Inv', NEW c \in Clients, NEW id \in 1..MaxLoads, UnloadFile(c, id)
  PROVE  AbstractCatalog!AbsNext
<1>0. ShowFiles /\ ShowFiles'
  BY EntriesShowFiles, EntriesShowFilesNext
<1>1. /\ id \in DOMAIN files
      /\ files' = [i \in DOMAIN files \ {id} |-> files[i]]
      /\ fileOrder' = RemoveFirst(fileOrder, id)
      /\ UNCHANGED <<timestampField, answer>>
  BY DEF UnloadFile, ReturnW
<1>2. PICK n \in 1..Len(fileOrder) : fileOrder[n] = id
  BY <1>0, <1>1 DEF ShowFiles
<1>3. fileOrder \in Seq(Nat) /\ Ascending(fileOrder)
  BY DEF Inv, TypeInv, TypeOK, CatalogTypeOK, IndexInv, IndexesAgree, Ascending
<1>4. /\ fileOrder' = RemoveAt(fileOrder, n)
      /\ \A k \in 1..Len(fileOrder) : fileOrder[k] = id => k = n
  BY <1>1, <1>2, <1>3, RemoveFirstIsRemoveAt
<1>5. /\ Len(fileOrder') = Len(fileOrder) - 1
      /\ \A k \in 1..Len(fileOrder') :
           fileOrder'[k] = IF k < n THEN fileOrder[k] ELSE fileOrder[k + 1]
  BY <1>3, <1>4, RemoveAtShifts
<1>6. /\ Entries \in Seq(EntryType) /\ Len(Entries) = Len(fileOrder)
      /\ Entries' \in Seq(EntryType) /\ Len(Entries') = Len(fileOrder')
      /\ Len(fileOrder) \in Nat
  BY <1>0, <1>3 DEF ShowFiles
<1> DEFINE rest == RemoveAt(Entries, n)
<1>7. /\ rest \in Seq(EntryType) /\ Len(rest) = Len(Entries) - 1
      /\ \A k \in 1..Len(rest) : rest[k] = IF k < n THEN Entries[k] ELSE Entries[k + 1]
  BY <1>2, <1>6, RemoveAtShifts
<1> HIDE DEF rest
<1>8. ASSUME NEW k \in 1..Len(fileOrder') PROVE Entries'[k] = rest[k]
  <2>1. PICK j \in 1..Len(fileOrder) :
          j # n /\ fileOrder'[k] = fileOrder[j] /\ rest[k] = Entries[j]
    <3>1. CASE k < n
      <4>1. k \in 1..Len(fileOrder) /\ k \in 1..Len(rest)
        BY <1>5, <1>6, <1>7
      <4> QED BY <3>1, <4>1, <1>5, <1>7
    <3>2. CASE ~ (k < n)
      <4>1. k + 1 \in 1..Len(fileOrder) /\ k \in 1..Len(rest) /\ k + 1 # n
        BY <3>2, <1>5, <1>6, <1>7
      <4> QED BY <3>2, <4>1, <1>5, <1>7
    <3> QED BY <3>1, <3>2
  <2>2. fileOrder[j] \in DOMAIN files \ {id}
    BY <2>1, <1>0, <1>4 DEF ShowFiles
  <2>3. files'[fileOrder[j]] = files[fileOrder[j]]
    BY <2>2, <1>1
  <2>4. Entries'[k] = Entries[j]
    BY <2>1, <2>3, <1>0, SameEntry
  <2> QED BY <2>1, <2>4
<1>9. Entries' = rest
  BY <1>5, <1>6, <1>7, <1>8, SeqEqual
<1>10. n \in 1..Len(Entries) /\ AbstractCatalog!AbsUnload(n)
  <2>1. AbstractCatalog!RemoveAt(Entries, n) = rest
    BY DEF AbstractCatalog!RemoveAt, RemoveAt, rest
  <2> QED BY <1>1, <1>2, <1>6, <1>9, <2>1 DEF AbstractCatalog!AbsUnload, Entries
<1> QED BY <1>10 DEF AbstractCatalog!AbsNext, Entries

\* Toggling a loaded file changes one entry; a file that is not loaded, none.
LEMMA EnableImplements ==
  ASSUME Inv, Inv', NEW c \in Clients, NEW id \in 1..MaxLoads, NEW on \in BOOLEAN,
         SetFileEnabled(c, id, on)
  PROVE  AbstractCatalog!AbsNext \/ UNCHANGED AbstractCatalog!absVars
<1>0. ShowFiles /\ ShowFiles'
  BY EntriesShowFiles, EntriesShowFilesNext
<1>1. UNCHANGED <<fileOrder, timestampField, answer>>
  BY DEF SetFileEnabled, ReturnW
<1>2. CASE id \notin DOMAIN files
  BY <1>1, <1>2, StutterImplements DEF SetFileEnabled
<1>3. CASE id \in DOMAIN files
  <2>1. files' = [files EXCEPT ![id].enabled = on]
    BY <1>3 DEF SetFileEnabled
  <2>2. PICK n \in 1..Len(fileOrder) : fileOrder[n] = id
    BY <1>0, <1>3 DEF ShowFiles
  <2>3. /\ Entries \in Seq(EntryType) /\ Len(Entries) = Len(fileOrder)
        /\ Entries' \in Seq(EntryType) /\ Len(Entries') = Len(fileOrder)
    BY <1>0, <1>1 DEF ShowFiles
  <2> DEFINE new == [Entries EXCEPT ![n].enabled = on]
  <2>4. Entries[n] \in EntryType
    BY <2>2, <2>3
  <2>5. /\ new \in Seq(EntryType) /\ Len(new) = Len(Entries)
        /\ \A k \in 1..Len(Entries) :
             new[k] = IF k = n THEN [Entries[n] EXCEPT !.enabled = on] ELSE Entries[k]
    <3>1. [Entries[n] EXCEPT !.enabled = on] \in EntryType
      BY <2>4 DEF EntryType
    <3>2. new = [Entries EXCEPT ![n] = [Entries[n] EXCEPT !.enabled = on]]
      OBVIOUS
    <3> QED BY <2>2, <2>3, <3>1, <3>2, ExceptSeq
  <2> HIDE DEF new
  <2>6. ASSUME NEW k \in 1..Len(fileOrder), k # n PROVE Entries'[k] = new[k]
    <3>1. fileOrder[k] # id
      BY <2>2, <2>6 DEF Inv, IndexInv, IndexesAgree, TypeInv, TypeOK, CatalogTypeOK
    <3>2. files'[fileOrder[k]] = files[fileOrder[k]]
      BY <2>1, <3>1, <1>0 DEF ShowFiles
    <3>3. Entries'[k] = Entries[k]
      BY <3>2, <1>0, <1>1, SameEntry
    <3> QED BY <3>3, <2>3, <2>5, <2>6
  <2>7. Entries'[n] = new[n]
    <3>1. new[n] = [Entries[n] EXCEPT !.enabled = on]
      BY <2>2, <2>3, <2>5
    <3> DEFINE old == Entries[n]
    <3>2. old \in EntryType /\ old.id = id /\ old.path = files[id].path
      BY <2>2, <2>4, <1>0 DEF ShowFiles
    <3> HIDE DEF old
    <3>3. LET e == [old EXCEPT !.enabled = on]
          IN  e \in EntryType /\ e.id = id /\ e.path = files[id].path /\ e.enabled = on
      BY <3>2 DEF EntryType
    <3>4. /\ new[n] \in EntryType
          /\ new[n].id = id /\ new[n].path = files[id].path /\ new[n].enabled = on
      BY <3>1, <3>3 DEF old
    <3>5. files'[id].path = files[id].path /\ files'[id].enabled = on
      BY <2>1, <1>3 DEF Inv, TypeInv, TypeOK, CatalogTypeOK, FileInfo
    <3> DEFINE toggled == Entries'[n]
    <3>6. /\ toggled \in EntryType
          /\ toggled.id = id /\ toggled.path = files[id].path /\ toggled.enabled = on
      BY <2>2, <2>3, <3>5, <1>0, <1>1 DEF ShowFiles
    <3> HIDE DEF toggled
    <3>7. toggled = new[n]
      BY <3>4, <3>6, EntryEqual
    <3> QED BY <3>7 DEF toggled
  <2>8. Entries' = new
    BY <2>3, <2>5, <2>6, <2>7, SeqEqual
  <2>9. n \in 1..Len(Entries) /\ AbstractCatalog!AbsEnable(n, on)
    BY <1>1, <2>2, <2>3, <2>8 DEF AbstractCatalog!AbsEnable, Entries, new
  <2> QED BY <2>9 DEF AbstractCatalog!AbsNext, Entries
<1> QED BY <1>2, <1>3

\* An empty selection is answered by the count alone.
LEMMA CountImplements ==
  ASSUME Inv, QueryConsistent, NEW c \in Clients, QueryCount(c)
  PROVE  AbstractCatalog!AbsNext \/ UNCHANGED AbstractCatalog!absVars
<1>1. UNCHANGED <<files, fileOrder, timestampField>>
  BY DEF QueryCount, catalog
<1>2. CASE EnabledPaths # {}
  BY <1>1, <1>2, StutterImplements DEF QueryCount
<1>3. CASE EnabledPaths = {}
  <2>1. answer[c] = NoAnswer
    BY DEF QueryCount, QueryConsistent
  <2>2. answer' = [answer EXCEPT ![c] = [status |-> "rows", count |-> {}, data |-> {}]]
    BY <1>3 DEF QueryCount, NoAnswer
  <2>3. AbstractCatalog!EnabledEntries = {}
    BY <1>3, EnabledEntriesArePaths
  <2>4. AbstractCatalog!AbsAnswer(c)
    BY <1>1, <2>1, <2>2, <2>3 DEF AbstractCatalog!AbsAnswer, AbstractCatalog!NoResult,
       NoAnswer
  <2> QED BY <2>4 DEF AbstractCatalog!AbsNext
<1> QED BY <1>2, <1>3

\* A failure: only over a selection that is not empty.
LEMMA FailureImplements ==
  ASSUME Inv, NEW c \in Clients, NEW failure \in {"error", "rejected"},
         answer[c] = NoAnswer, EnabledPaths # {},
         answer' = [answer EXCEPT ![c] = [NoAnswer EXCEPT !.status = failure]],
         UNCHANGED <<files, fileOrder, timestampField>>
  PROVE  AbstractCatalog!AbsNext
<1>1. AbstractCatalog!EnabledEntries # {}
  BY EnabledEntriesArePaths
<1>2. AbstractCatalog!NoResult = NoAnswer
  BY DEF AbstractCatalog!NoResult, NoAnswer
<1>3. AbstractCatalog!AbsFail(c)
  BY <1>1, <1>2 DEF AbstractCatalog!AbsFail
<1> QED BY <1>3 DEF AbstractCatalog!AbsNext

\* The rows come from the files the count was taken over.
LEMMA DataImplements ==
  ASSUME Inv, QueryConsistent, NEW c \in Clients, QueryData(c)
  PROVE  AbstractCatalog!AbsNext
<1>1. UNCHANGED <<files, fileOrder, timestampField>> /\ pc[c] = "data"
  BY DEF QueryData, catalog
<1>2. /\ answer[c] = NoAnswer
      /\ job[c].counted = EnabledPaths /\ EnabledPaths # {}
  BY <1>1 DEF QueryConsistent
<1>3. \/ answer' = [answer EXCEPT ![c] =
                      [status |-> "rows", count |-> EnabledPaths, data |-> EnabledPaths]]
      \/ answer' = [answer EXCEPT ![c] = [NoAnswer EXCEPT !.status = "error"]]
  BY <1>2 DEF QueryData
<1>4. CASE answer' = [answer EXCEPT ![c] = [NoAnswer EXCEPT !.status = "error"]]
  BY <1>1, <1>2, <1>4, FailureImplements
<1>5. CASE answer' = [answer EXCEPT ![c] =
                        [status |-> "rows", count |-> EnabledPaths, data |-> EnabledPaths]]
  <2>1. AbstractCatalog!EnabledEntries = EnabledPaths
    BY EnabledEntriesArePaths
  <2>2. AbstractCatalog!AbsAnswer(c)
    BY <1>1, <1>2, <1>5, <2>1 DEF AbstractCatalog!AbsAnswer, AbstractCatalog!NoResult,
       NoAnswer
  <2> QED BY <2>2 DEF AbstractCatalog!AbsNext
<1> QED BY <1>3, <1>4, <1>5

LEMMA QueryImplements ==
  ASSUME Inv, QueryConsistent, NEW c \in Clients, Query(c)
  PROVE  AbstractCatalog!AbsNext \/ UNCHANGED AbstractCatalog!absVars
<1>1. CASE QueryRejected(c)
  <2>1. /\ answer[c] = NoAnswer /\ EnabledPaths # {}
        /\ answer' = [answer EXCEPT ![c] = [NoAnswer EXCEPT !.status = "rejected"]]
        /\ UNCHANGED <<files, fileOrder, timestampField>>
    BY <1>1 DEF QueryRejected, QueryConsistent, catalog
  <2> QED BY <2>1, FailureImplements
<1>2. CASE QueryReturn(c)
  <2>1. /\ answer[c] # NoAnswer /\ answer' = [answer EXCEPT ![c] = NoAnswer]
        /\ UNCHANGED <<files, fileOrder, timestampField>>
    BY <1>2 DEF QueryReturn, QueryConsistent, catalog
  <2>2. AbstractCatalog!AbsDeliver(c)
    BY <2>1 DEF AbstractCatalog!AbsDeliver, AbstractCatalog!NoResult, NoAnswer
  <2> QED BY <2>2 DEF AbstractCatalog!AbsNext
<1> QED BY <1>1, <1>2, CountImplements, DataImplements DEF Query

-----------------------------------------------------------------------------
LEMMA StepImplements ==
  ASSUME Inv, Inv', LoadBounded, QueryConsistent, [Next]_vars
  PROVE  [AbstractCatalog!AbsNext]_(AbstractCatalog!absVars)
<1> DEFINE Goal == AbstractCatalog!AbsNext \/ UNCHANGED AbstractCatalog!absVars
<1>1. ASSUME NEW c \in Clients, Load(c) PROVE Goal
  <2>1. ASSUME NEW fetched \in BOOLEAN, Register(c, fetched) PROVE Goal
    BY <2>1, RegisterImplements
  <2>2. CASE ~ \E fetched \in BOOLEAN : Register(c, fetched)
    BY <1>1, <2>2, StutterImplements DEF Load, LoadRejected, LoadDirect, LoadStreamed,
       StreamDone, StreamFailed, CreateTable, CreateFailed, Normalised, NormaliseFailed,
       ReturnW, Goto, catalog
  <2> QED BY <2>1, <2>2
<1>2. ASSUME NEW c \in Clients, NEW f \in Fields, SetTimestampField(c, f) PROVE Goal
  <2>1. timestampField' = f /\ UNCHANGED <<files, fileOrder, answer>>
    BY <1>2 DEF SetTimestampField, ReturnW
  <2>2. AbstractCatalog!AbsSetField(f)
    BY <2>1 DEF AbstractCatalog!AbsSetField
  <2> QED BY <2>2 DEF AbstractCatalog!AbsNext
<1>3. ASSUME NEW c \in Clients, Mutate(c) PROVE Goal
  <2>1. CASE UnloadRefused(c) \/ \E r \in Registries \cup {NoRegistry} : SetLoaders(c, r)
    BY <2>1, StutterImplements DEF UnloadRefused, SetLoaders, ReturnW, catalog
  <2> QED BY <1>2, <1>3, <2>1, UnloadImplements, EnableImplements DEF Mutate
<1>4. ASSUME NEW c \in Clients,
             \/ \E op \in OpsOf[c] : Request(c, op)
             \/ LockW(c) \/ Drained(c) \/ RLock(c)
      PROVE  Goal
  BY <1>4, StutterImplements DEF Request, LockW, Drained, RLock, catalog
<1>5. CASE UNCHANGED vars
  BY <1>5, StutterImplements DEF vars
<1> QED BY <1>1, <1>3, <1>4, <1>5, QueryImplements DEF Next, Proceed

LEMMA InitImplements == Init => AbstractCatalog!AbsInit
<1> SUFFICES ASSUME Init PROVE AbstractCatalog!AbsInit
  OBVIOUS
<1>1. Entries = << >>
  BY DEF Init, Entries
<1> QED BY <1>1 DEF Init, AbstractCatalog!AbsInit, AbstractCatalog!NoResult, NoAnswer, Entries

\* Loads, unloads and toggles take effect as a whole or not at all, and the
\* total and the rows of one query come from the files enabled at one moment
\* (ImplementsCatalog), however many goroutines share the engine's lock.
THEOREM CatalogImplemented == Spec => ImplementsCatalog
<1>1. /\ Inv /\ LoadBounded /\ QueryConsistent
      /\ Inv'
      /\ [Next]_vars
      => [AbstractCatalog!AbsNext]_(AbstractCatalog!absVars)
  BY StepImplements
<1> QED BY <1>1, InitImplements, ImplementationInvariant, PTL
        DEF Spec, ImplementsCatalog, AbstractCatalog!AbsSpec

=============================================================================
