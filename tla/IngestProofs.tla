----------------------------- MODULE IngestProofs -----------------------------
(***************************************************************************)
(* What the ingest layer makes of a file, proved for every set of line     *)
(* rules, every registry of adapters, every calendar and time zone, every  *)
(* file and any growth of the log while it is read.                        *)
(*                                                                         *)
(*  - DiagnosisHolds: the adapter the diagnosis names is the one a load    *)
(*    takes, and it finds a rule.  Both orders are a choice of the best of *)
(*    the same answers (FirstVerdict), and what fits the head of a file    *)
(*    still does when the file has grown (HeadStays).                      *)
(*  - NoLineLost, PreviewExact, TimesRight: every step of the line adapter *)
(*    is of one of five kinds (LineSteps), told apart by what they do to   *)
(*    the records emitted and the one that is open, taken together         *)
(*    (Records).  An invariant per theorem says of those records what the  *)
(*    theorem says of them, and what it takes to go on: TextInv, CountInv, *)
(*    ClockInv and DatedInv.                                               *)
(*  - TimesRight rests on the calendar, that a time is made of its year,   *)
(*    month, day and time of day, and of no others (DateAlone), and on the *)
(*    zone: at most one change is near a time (OneChange), so a reading    *)
(*    that is shown once is read as the time it was written (ReadingTold), *)
(*    in the year of the file too (YearBorrowed).                          *)
(*  - NoBlockLost: the record that is open is what the lines since the     *)
(*    last separator say (Reached), and each step of the block adapter     *)
(*    keeps it so (ReachedSep, ReachedField, ReachedOther).                *)
(*  - NoRowLost: a row is in no other because elements nest (ElementsNest, *)
(*    by counting tags), so reading on from its end misses none (RowRead); *)
(*    each text in it is under its path (RowTexts).  The events of a chunk *)
(*    that are dictionaries follow those there are (ChunkRead).            *)
(*                                                                         *)
(* An induction is over a set that stands for the predicate (Counting,     *)
(* SubsetInduction).                                                       *)
(***************************************************************************)
EXTENDS Ingest, TLAPS, WellFoundedInduction, FiniteSetTheorems, SequenceTheorems

-----------------------------------------------------------------------------
(* Numbers and finite sets *)

\* A set of naturals has a least element.
LEMMA NatMin ==
  ASSUME NEW T, T \subseteq Nat, T # {}
  PROVE  \E x \in T : \A y \in T : x <= y
<1>1. IsWellFoundedOn(OpToRel(<, Nat), Nat)
  BY NatLessThanWellFounded
<1>2. PICK x \in T : \A y \in T : ~ (<<y, x>> \in OpToRel(<, Nat))
  BY <1>1, WFMin
<1>3. \A y \in T : ~ (y < x)
  BY <1>2 DEF OpToRel
<1> QED BY <1>3

\* Induction over the naturals, the set standing for the predicate.
LEMMA Counting ==
  ASSUME NEW G, 0 \in G, \A n \in Nat : n \in G => n + 1 \in G
  PROVE  \A n \in Nat : n \in G
<1> SUFFICES ASSUME Nat \ G # {} PROVE FALSE
  OBVIOUS
<1>1. PICK n \in Nat \ G : \A m \in Nat \ G : n <= m
  BY NatMin
<1>2. n # 0 /\ n - 1 \in Nat /\ n = (n - 1) + 1
  BY <1>1
<1>3. n - 1 \in G
  BY <1>1, <1>2
<1> QED BY <1>1, <1>2, <1>3

\* Induction over the subsets of a finite set.
LEMMA SubsetInduction ==
  ASSUME NEW S, IsFiniteSet(S), NEW G, {} \in G,
         \A T \in SUBSET S : T # {} /\ (\A x \in T : T \ {x} \in G) => T \in G
  PROVE  SUBSET S \subseteq G
<1> DEFINE N == {n \in Nat : \A T \in SUBSET S : Cardinality(T) = n => T \in G}
<1>1. \A T \in SUBSET S : IsFiniteSet(T) /\ Cardinality(T) \in Nat
  BY FS_Subset, FS_CardinalityType
<1>2. 0 \in N
  BY <1>1, FS_EmptySet
<1>3. ASSUME NEW n \in Nat, n \in N PROVE n + 1 \in N
  <2> SUFFICES ASSUME NEW T \in SUBSET S, Cardinality(T) = n + 1 PROVE T \in G
    OBVIOUS
  <2>1. T # {}
    <3>1. Cardinality({}) = 0
      BY FS_EmptySet
    <3> QED BY <3>1
  <2>2. ASSUME NEW x \in T PROVE T \ {x} \in G
    <3>1. Cardinality(T \ {x}) = n /\ T \ {x} \in SUBSET S
      BY <1>1, FS_RemoveElement
    <3> QED BY <1>3, <3>1
  <2> QED BY <2>1, <2>2
<1>4. \A n \in Nat : n \in N
  <2> HIDE DEF N
  <2> QED BY <1>2, <1>3, Counting
<1> QED BY <1>1, <1>4

\* The first of a set of places.
LEMMA FirstPlace ==
  ASSUME NEW I, I \subseteq Nat, I # {}
  PROVE  Min(I) \in I /\ \A i \in I : Min(I) <= i
<1>1. \E i \in I : \A k \in I : i <= k
  BY NatMin
<1> QED BY <1>1 DEF Min

\* The values of a function over a finite set.
LEMMA ImageFinite ==
  ASSUME NEW S, IsFiniteSet(S), NEW f
  PROVE  LET T == {f[x] : x \in S}
         IN  IsFiniteSet(T) /\ Cardinality(T) <= Cardinality(S)
<1> DEFINE T == {f[x] : x \in S}
           g == [x \in S |-> f[x]]
<1>1. g \in Surjection(S, T)
  BY DEF Surjection
<1> HIDE DEF g
<1> QED BY <1>1, FS_Surjection

\* A finite set of integers has a greatest element.
LEMMA GreatestInt ==
  ASSUME NEW T, IsFiniteSet(T), T \subseteq Int, T # {}
  PROVE  Max(T) \in T /\ \A y \in T : y <= Max(T)
<1> DEFINE Topped == {S \in SUBSET T : S = {} \/ \E x \in S : \A y \in S : y <= x}
<1>1. {} \in Topped
  OBVIOUS
<1>2. ASSUME NEW S \in SUBSET T, S # {}, \A x \in S : S \ {x} \in Topped
      PROVE  S \in Topped
  <2>1. PICK x \in S : TRUE
    BY <1>2
  <2>2. S \ {x} = {} \/ \E z \in S \ {x} : \A y \in S \ {x} : y <= z
    BY <1>2, <2>1
  <2>3. CASE S \ {x} = {}
    <3>1. \A y \in S : y <= x
      BY <2>1, <2>3
    <3> QED BY <2>1, <3>1
  <2>4. CASE \E z \in S \ {x} : \A y \in S \ {x} : y <= z
    <3>1. PICK z \in S \ {x} : \A y \in S \ {x} : y <= z
      BY <2>4
    <3>2. x \in Int /\ z \in Int
      BY <2>1, <3>1
    <3>3. CASE x <= z
      BY <3>1, <3>3
    <3>4. CASE ~ (x <= z)
      <4>1. \A y \in S : y <= x
        BY <2>1, <3>1, <3>2, <3>4
      <4> QED BY <2>1, <4>1
    <3> QED BY <3>3, <3>4
  <2> QED BY <2>2, <2>3, <2>4
<1>3. T \in Topped
  <2> HIDE DEF Topped
  <2> QED BY <1>1, <1>2, SubsetInduction
<1>4. \E x \in T : \A y \in T : x >= y
  BY <1>3
<1> QED BY <1>4 DEF Max

\* A finite set of naturals too.
LEMMA Greatest ==
  ASSUME NEW T, IsFiniteSet(T), T \subseteq Nat, T # {}
  PROVE  Max(T) \in T /\ \A y \in T : y <= Max(T)
<1>1. T \subseteq Int
  OBVIOUS
<1> QED BY <1>1, GreatestInt

\* Multiplying keeps the order.
LEMMA Times ==
  ASSUME NEW a \in Nat, NEW b \in Nat, NEW d \in Nat
  PROVE  /\ a * d \in Nat
         /\ a <= b => a * d <= b * d
         /\ a < b /\ d > 0 => a * d < b * d
OBVIOUS

\* What integer division gives.
LEMMA Division ==
  ASSUME NEW a \in Nat, NEW d \in Nat, d > 0
  PROVE  /\ a \div d \in Nat
         /\ (a \div d) * d <= a
         /\ a < (a \div d + 1) * d
OBVIOUS

\* The quotient is the greatest factor that stays below.
LEMMA Quotient ==
  ASSUME NEW a \in Nat, NEW d \in Nat, d > 0, NEW n \in Nat
  PROVE  /\ a < n * d => a \div d < n
         /\ n * d <= a => n <= a \div d
BY Division, Times

-----------------------------------------------------------------------------
(* Sequences *)

\* f joins the sequences of s up to each place.
Joins(f, s, T) ==
  /\ f \in [1..Len(s) -> Seq(T)]
  /\ \A i \in 1..Len(s) : f[i] = IF i = 1 THEN s[i] ELSE f[i-1] \o s[i]

\* Each place joins one more.
LEMMA JoinedNext ==
  ASSUME NEW T, NEW s, NEW f, Joins(f, s, T), NEW n \in Nat, n + 1 \in 1..Len(s)
  PROVE  f[n + 1] = IF n + 1 = 1 THEN s[n + 1] ELSE f[n] \o s[n + 1]
<1>1. f[n + 1] = IF n + 1 = 1 THEN s[n + 1] ELSE f[(n + 1) - 1] \o s[n + 1]
  BY Zenon DEF Joins
<1>2. (n + 1) - 1 = n
  OBVIOUS
<1> QED BY <1>1, <1>2, Zenon

\* The sequences of a sequence can be joined up to each place.
LEMMA Joinable ==
  ASSUME NEW T, NEW s \in Seq(Seq(T))
  PROVE  \E f : Joins(f, s, T)
<1> DEFINE Up(n, f) == /\ f \in [1..n -> Seq(T)]
                       /\ \A i \in 1..n : f[i] = IF i = 1 THEN s[i] ELSE f[i-1] \o s[i]
           G == {n \in Nat : n <= Len(s) => \E f : Up(n, f)}
<1>1. Len(s) \in Nat /\ \A i \in 1..Len(s) : s[i] \in Seq(T)
  OBVIOUS
<1>2. 0 \in G
  <2>1. Up(0, [i \in 1..0 |-> <<>>])
    OBVIOUS
  <2> QED BY <2>1
<1>3. ASSUME NEW n \in Nat, n \in G PROVE n + 1 \in G
  <2>a. n + 1 \in Nat /\ (n + 1 <= Len(s) => n <= Len(s))
    BY <1>1
  <2> SUFFICES ASSUME n + 1 <= Len(s) PROVE \E f : Up(n + 1, f)
    BY <2>a, Zenon
  <2>b. n <= Len(s) => \E f : Up(n, f)
    BY <1>3, Zenon
  <2>1. PICK f : Up(n, f)
    BY <2>a, <2>b, Zenon
  <2> DEFINE last == IF n = 0 THEN s[1] ELSE f[n] \o s[n + 1]
             g == [i \in 1..(n + 1) |-> IF i = n + 1 THEN last ELSE f[i]]
  <2>2. last \in Seq(T)
    BY <1>1, <2>1
  <2>3. \A i \in 1..(n + 1) : g[i] = IF i = 1 THEN s[i] ELSE g[i-1] \o s[i]
    <3> SUFFICES ASSUME NEW i \in 1..(n + 1)
                 PROVE  g[i] = IF i = 1 THEN s[i] ELSE g[i-1] \o s[i]
      OBVIOUS
    <3>1. CASE i = n + 1
      BY <3>1
    <3>2. CASE i \in 1..n
      <4>1. i # 1 => i - 1 \in 1..n /\ i - 1 \in 1..(n + 1) /\ i - 1 # n + 1
        BY <3>2
      <4>2. f[i] = IF i = 1 THEN s[i] ELSE f[i-1] \o s[i]
        BY <2>1, <3>2
      <4> QED BY <3>2, <4>1, <4>2
    <3> QED BY <3>1, <3>2
  <2>4. g \in [1..(n + 1) -> Seq(T)]
    <3> HIDE DEF last
    <3> QED BY <2>1, <2>2
  <2>5. Up(n + 1, g)
    <3> HIDE DEF g
    <3> QED BY <2>3, <2>4
  <2> QED BY <2>5
<1>4. Len(s) \in G
  <2> HIDE DEF G
  <2> QED BY <1>1, <1>2, <1>3, Counting
<1> QED BY <1>1, <1>4 DEF Joins

\* FlattenSeq gives the last of the sequences joined.
LEMMA Flattened ==
  ASSUME NEW T, NEW s \in Seq(Seq(T)), s # <<>>
  PROVE  \E f : Joins(f, s, T) /\ FlattenSeq(s) = f[Len(s)]
<1> DEFINE Def(f) == f = [i \in 1..Len(s) |-> IF i = 1 THEN s[i] ELSE f[i-1] \o s[i]]
           flatten == CHOOSE f : Def(f)
<1>1. PICK f : Joins(f, s, T)
  BY Joinable
<1>2. Def(f)
  BY <1>1 DEF Joins
<1>3. Def(flatten)
  <2> HIDE DEF Def
  <2> QED BY <1>2
<1>4. FlattenSeq(s) = flatten[Len(s)]
  <2>1. Len(s) # 0
    OBVIOUS
  <2> QED BY <2>1, Zenon DEF FlattenSeq
<1> HIDE DEF flatten
<1> DEFINE G == {n \in Nat : n \in 1..Len(s) => flatten[n] = f[n]}
<1>5. 0 \in G
  OBVIOUS
<1>6. ASSUME NEW n \in Nat, n \in G PROVE n + 1 \in G
  <2> SUFFICES ASSUME n + 1 \in 1..Len(s) PROVE flatten[n + 1] = f[n + 1]
    OBVIOUS
  <2>0. n + 1 \in 1..Len(s) /\ (n + 1) - 1 = n
    OBVIOUS
  <2>1. flatten[n + 1] = IF n + 1 = 1 THEN s[n + 1] ELSE flatten[n] \o s[n + 1]
    <3>1. flatten[n + 1] = IF n + 1 = 1 THEN s[n + 1] ELSE flatten[(n + 1) - 1] \o s[n + 1]
      BY <1>3, <2>0, Zenon
    <3> QED BY <2>0, <3>1, Zenon
  <2>2. f[n + 1] = IF n + 1 = 1 THEN s[n + 1] ELSE f[n] \o s[n + 1]
    BY <1>1, <2>0, JoinedNext
  <2>3. n + 1 # 1 => n \in 1..Len(s)
    OBVIOUS
  <2> QED BY <1>6, <2>1, <2>2, <2>3
<1>7. \A n \in Nat : n \in G
  <2> HIDE DEF G
  <2> QED BY <1>5, <1>6, Counting
<1>8. Len(s) \in Nat /\ Len(s) \in 1..Len(s)
  OBVIOUS
<1> QED BY <1>1, <1>4, <1>7, <1>8

\* A sequence more, and what is joined has it at its end.
LEMMA FlattenAppend ==
  ASSUME NEW T, NEW s \in Seq(Seq(T)), NEW m \in Seq(T)
  PROVE  /\ FlattenSeq(s) \in Seq(T)
         /\ FlattenSeq(Append(s, m)) = FlattenSeq(s) \o m
<1> DEFINE t == Append(s, m)
<1>1. /\ t \in Seq(Seq(T)) /\ t # <<>> /\ Len(s) \in Nat /\ Len(t) = Len(s) + 1
      /\ t[Len(t)] = m /\ \A i \in 1..Len(s) : t[i] = s[i]
  <2> DEFINE U == Seq(T)
  <2>1. s \in Seq(U) /\ m \in U
    OBVIOUS
  <2> HIDE DEF U
  <2>2. /\ t \in Seq(U) /\ t # <<>> /\ Len(s) \in Nat /\ Len(t) = Len(s) + 1
        /\ t[Len(t)] = m /\ \A i \in 1..Len(s) : t[i] = s[i]
    BY <2>1
  <2> QED BY <2>2 DEF U
<1> HIDE DEF t
<1>2. PICK g : Joins(g, t, T) /\ FlattenSeq(t) = g[Len(t)]
  BY <1>1, Flattened
<1>3. CASE s = <<>>
  <2>1. FlattenSeq(s) = <<>>
    BY <1>3 DEF FlattenSeq
  <2>2. Len(t) = 1 /\ g[1] = m
    BY <1>1, <1>2, <1>3 DEF Joins
  <2> QED BY <1>2, <2>1, <2>2 DEF t
<1>4. CASE s # <<>>
  <2>1. PICK f : Joins(f, s, T) /\ FlattenSeq(s) = f[Len(s)]
    BY <1>4, Flattened
  <2> DEFINE G == {n \in Nat : n \in 1..Len(s) => g[n] = f[n]}
  <2>2. 0 \in G
    OBVIOUS
  <2>3. ASSUME NEW n \in Nat, n \in G PROVE n + 1 \in G
    <3> SUFFICES ASSUME n + 1 \in 1..Len(s) PROVE g[n + 1] = f[n + 1]
      OBVIOUS
    <3>0. n + 1 \in 1..Len(t)
      BY <1>1
    <3>1. g[n + 1] = IF n + 1 = 1 THEN t[n + 1] ELSE g[n] \o t[n + 1]
      BY <1>2, <3>0, JoinedNext
    <3>2. f[n + 1] = IF n + 1 = 1 THEN s[n + 1] ELSE f[n] \o s[n + 1]
      BY <2>1, JoinedNext
    <3>3. t[n + 1] = s[n + 1] /\ (n + 1 # 1 => n \in 1..Len(s))
      BY <1>1
    <3> QED BY <2>3, <3>1, <3>2, <3>3
  <2>4. \A n \in Nat : n \in G
    <3> HIDE DEF G
    <3> QED BY <2>2, <2>3, Counting
  <2>5. Len(s) \in 1..Len(s) /\ Len(t) \in 1..Len(t) /\ Len(t) # 1 /\ Len(t) - 1 = Len(s)
    BY <1>1, <1>4
  <2>6. g[Len(s)] = f[Len(s)]
    BY <1>1, <2>4, <2>5
  <2>7. g[Len(t)] = g[Len(s)] \o m
    BY <1>1, <1>2, <2>5 DEF Joins
  <2>8. f[Len(s)] \in Seq(T)
    BY <2>1, <2>5 DEF Joins
  <2> QED BY <1>2, <2>1, <2>6, <2>7, <2>8 DEF t
<1> QED BY <1>3, <1>4

\* A position after the others comes last in their order.
LEMMA InOrderLast ==
  ASSUME NEW S, IsFiniteSet(S), S \subseteq Nat, NEW n \in Nat, \A x \in S : x < n
  PROVE  InOrder(S \cup {n}) = Append(InOrder(S), n)
<1> DEFINE R == S \cup {n}
           Before(U, x) == {y \in U : y < x}
           Nth(U, k) == {x \in U : Cardinality(Before(U, x)) = k - 1}
<1>1. /\ Cardinality(S) \in Nat /\ IsFiniteSet(R) /\ Cardinality(R) = Cardinality(S) + 1
  <2>1. n \notin S
    OBVIOUS
  <2> QED BY <2>1, FS_AddElement, FS_CardinalityType
<1>2. \A x \in S : Before(R, x) = Before(S, x)
  OBVIOUS
<1>3. Before(R, n) = S
  <2>1. ~ (n < n)
    OBVIOUS
  <2> QED BY <2>1, Zenon
<1>4. ASSUME NEW x \in S PROVE Cardinality(Before(S, x)) \in Nat /\ Cardinality(Before(S, x)) < Cardinality(S)
  <2>1. Before(S, x) \subseteq S /\ Before(S, x) # S
    OBVIOUS
  <2> QED BY <1>1, <2>1, FS_Subset, FS_CardinalityType
<1>5. ASSUME NEW k \in 1..Cardinality(S) PROVE Nth(R, k) = Nth(S, k)
  <2>1. Cardinality(S) # k - 1
    BY <1>1
  <2> HIDE DEF Before
  <2> QED BY <1>2, <1>3, <2>1
<1>6. Nth(R, Cardinality(S) + 1) = {n}
  <2>1. \A x \in S : Cardinality(Before(R, x)) # Cardinality(S)
    BY <1>1, <1>2, <1>4
  <2>2. (Cardinality(S) + 1) - 1 = Cardinality(S)
    BY <1>1
  <2> HIDE DEF Before
  <2> QED BY <1>3, <2>1, <2>2, Zenon
<1>7. Min({n}) = n
  BY DEF Min
<1>8. InOrder(R) = [k \in 1..Cardinality(R) |-> Min(Nth(R, k))]
  BY DEF InOrder
<1>9. InOrder(S) = [k \in 1..Cardinality(S) |-> Min(Nth(S, k))]
  BY DEF InOrder
<1> HIDE DEF Nth, R
<1>10. InOrder(R) = [k \in 1..(Cardinality(S) + 1) |->
                       IF k \in 1..Cardinality(S) THEN Min(Nth(S, k)) ELSE n]
  <2>1. \A k \in 1..(Cardinality(S) + 1) : k \in 1..Cardinality(S) \/ k = Cardinality(S) + 1
    BY <1>1
  <2>2. Cardinality(S) + 1 \notin 1..Cardinality(S)
    BY <1>1
  <2>3. \A k \in 1..(Cardinality(S) + 1) :
          Min(Nth(R, k)) = IF k \in 1..Cardinality(S) THEN Min(Nth(S, k)) ELSE n
    BY <1>5, <1>6, <1>7, <2>1, <2>2
  <2> QED BY <1>1, <1>8, <2>3
<1>11. Append(InOrder(S), n) = [k \in 1..(Cardinality(S) + 1) |->
                       IF k \in 1..Cardinality(S) THEN Min(Nth(S, k)) ELSE n]
  <2>1. Len(InOrder(S)) = Cardinality(S)
    BY <1>1, <1>9
  <2> QED BY <1>1, <1>9, <2>1
<1> QED BY <1>10, <1>11 DEF R

-----------------------------------------------------------------------------
(* The choice of an adapter and of a rule *)

\* The rules, and the places of a list of them.
LEMMA RulesTyped ==
  /\ DOMAIN LineRules \subseteq Nat /\ IsFiniteSet(DOMAIN LineRules)
  /\ \A i \in DOMAIN LineRules : /\ LineRules[i].name \in STRING
                                 /\ LineRules[i].form \in Forms
                                 /\ LineRules[i].priority \in Nat
                                 /\ LineRules[i].tz \in Zones
<1> DEFINE R == [name: STRING, form: Forms, priority: Nat, tz: Zones]
<1>1. LineRules \in Seq(R)
  BY RegistryAssumption
<1>2. \A r \in R : r.name \in STRING /\ r.form \in Forms /\ r.priority \in Nat /\ r.tz \in Zones
  OBVIOUS
<1> HIDE DEF R
<1>3. DOMAIN LineRules = 1..Len(LineRules) /\ Len(LineRules) \in Nat
  BY <1>1
<1>4. IsFiniteSet(1..Len(LineRules))
  BY <1>3, FS_Interval
<1>5. \A i \in DOMAIN LineRules : LineRules[i] \in R
  BY <1>1
<1> QED BY <1>2, <1>3, <1>4, <1>5

\* What is in the head of a file.
LEMMA HeadPlaces ==
  ASSUME NEW f \in Seq(Lines), NEW n \in Nat
  PROVE  LET m == IF n < Len(f) THEN n ELSE Len(f)
         IN  /\ DOMAIN HeadOf(f, n) = 1..m
             /\ \A i \in 1..m : HeadOf(f, n)[i] = f[i]
BY DEF HeadOf

\* A line that is in the head of a file stays there while the file grows.
LEMMA HeadStays ==
  ASSUME NEW f \in Seq(Lines), NEW line \in Lines, NEW n \in Nat, NEW r,
         AnyLineMatches(r, HeadOf(f, n))
  PROVE  AnyLineMatches(r, HeadOf(Append(f, line), n))
<1> DEFINE g == Append(f, line)
<1>1. g \in Seq(Lines) /\ Len(f) \in Nat /\ Len(g) = Len(f) + 1 /\ \A i \in 1..Len(f) : g[i] = f[i]
  OBVIOUS
<1>2. PICK i \in DOMAIN HeadOf(f, n) : Matches(r, HeadOf(f, n)[i])
  BY DEF AnyLineMatches
<1> HIDE DEF g
<1>3. i \in 1..Len(f) /\ i <= n /\ HeadOf(f, n)[i] = f[i]
  BY <1>1, <1>2, HeadPlaces
<1>4. i \in DOMAIN HeadOf(g, n) /\ HeadOf(g, n)[i] = g[i]
  BY <1>1, <1>3, HeadPlaces
<1>5. Matches(r, HeadOf(g, n)[i])
  BY <1>1, <1>2, <1>3, <1>4
<1> QED BY <1>4, <1>5 DEF AnyLineMatches, g

\* The line adapter takes a file only if one of its rules fits the head.
LEMMA LineDetected ==
  ASSUME NEW f
  PROVE  /\ LineDetect(f) \in Nat
         /\ LineDetect(f) > 0 =>
              \E i \in DOMAIN LineRules : AnyLineMatches(LineRules[i], HeadOf(f, LineSniffLines))
<1> DEFINE fits == {q \in Range(LineRules) : AnyLineMatches(q, HeadOf(f, LineSniffLines))}
           priorities == {r.priority : r \in fits}
<1>1. LineDetect(f) = IF priorities = {} THEN 0 ELSE Max(priorities)
  BY DEF LineDetect, MaxOr
<1>2. CASE priorities = {}
  BY <1>1, <1>2
<1>3. CASE priorities # {}
  <2>1. priorities \subseteq {LineRules[i].priority : i \in DOMAIN LineRules}
    BY DEF Range
  <2>2. priorities \subseteq Nat
    BY <2>1, RulesTyped
  <2>3. IsFiniteSet({LineRules[i].priority : i \in DOMAIN LineRules})
    <3> DEFINE p == [i \in DOMAIN LineRules |-> LineRules[i].priority]
    <3>1. IsFiniteSet({p[i] : i \in DOMAIN LineRules})
      BY RulesTyped, ImageFinite
    <3> QED BY <3>1
  <2>4. IsFiniteSet(priorities)
    BY <2>1, <2>3, FS_Subset
  <2>5. Max(priorities) \in Nat
    BY <1>3, <2>2, <2>4, Greatest
  <2>6. PICK q \in Range(LineRules) : AnyLineMatches(q, HeadOf(f, LineSniffLines))
    BY <1>3
  <2>7. PICK i \in DOMAIN LineRules : q = LineRules[i]
    BY DEF Range
  <2> QED BY <1>1, <1>3, <2>5, <2>6, <2>7
<1> QED BY <1>2, <1>3

\* The rule picked is one of those given, and there is one if any fits.
LEMMA RulePicked ==
  ASSUME NEW rules, DOMAIN rules \subseteq Nat, IsFiniteSet(DOMAIN rules),
         \A i \in DOMAIN rules : rules[i].priority \in Nat, NEW f
  PROVE  /\ PickRule(rules, f) # <<>> =>
              \E i \in DOMAIN rules : PickRule(rules, f) = <<rules[i]>>
         /\ (\E i \in DOMAIN rules : AnyLineMatches(rules[i], HeadOf(f, LineSniffLines)))
              => PickRule(rules, f) # <<>>
<1> DEFINE fits == {i \in DOMAIN rules : AnyLineMatches(rules[i], HeadOf(f, LineSniffLines))}
           best == {i \in fits : \A j \in fits : rules[j].priority <= rules[i].priority}
<1>1. PickRule(rules, f) = IF fits = {} THEN <<>> ELSE <<rules[Min(best)]>>
  BY DEF PickRule
<1>2. CASE fits = {}
  BY <1>1, <1>2
<1>3. CASE fits # {}
  <2> DEFINE p == [i \in fits |-> rules[i].priority]
             priorities == {p[i] : i \in fits}
  <2>1. IsFiniteSet(fits) /\ fits \subseteq DOMAIN rules
    BY FS_Subset
  <2>2. IsFiniteSet(priorities)
    <3> HIDE DEF p, fits
    <3> QED BY <2>1, ImageFinite
  <2>3. priorities \subseteq Nat /\ priorities # {}
    BY <1>3
  <2>4. Max(priorities) \in priorities /\ \A y \in priorities : y <= Max(priorities)
    <3> HIDE DEF priorities
    <3> QED BY <2>2, <2>3, Greatest
  <2>5. PICK i \in fits : p[i] = Max(priorities)
    BY <2>4
  <2>6. i \in best
    <3>1. \A j \in fits : p[j] <= p[i]
      BY <2>4, <2>5
    <3> QED BY <3>1
  <2>7. Min(best) \in best
    BY <2>1, <2>6, FirstPlace
  <2>8. Min(best) \in DOMAIN rules
    BY <2>7
  <2> HIDE DEF best, fits
  <2> QED BY <1>1, <1>3, <2>8
<1> QED BY <1>2, <1>3

\* An answer is a number.
LEMMA Detected ==
  ASSUME NEW name \in Range(Alphabet), NEW h, NEW f
  PROVE  Detect(name, h, f) \in Nat
<1>1. name \in {"block", "evtx", "line", "ndjson", "parquet", "xml"}
  BY DEF Range, Alphabet
<1>2. CASE name = "line"
  BY <1>2, LineDetected DEF Detect
<1>3. CASE name = "block"
  BY <1>3, RegistryAssumption DEF Detect, BlockDetect
<1>4. CASE name = "xml"
  BY <1>4, RegistryAssumption DEF Detect, XmlDetect
<1>5. CASE name = "evtx"
  BY <1>5 DEF Detect, EvtxDetect
<1>6. CASE name = "parquet"
  BY <1>6 DEF Detect, ParquetDetect
<1>7. CASE name = "ndjson"
  BY <1>7 DEF Detect, NdjsonDetect
<1> QED BY <1>1, <1>2, <1>3, <1>4, <1>5, <1>6, <1>7

\* The answers are finitely many, and told apart by their names.
LEMMA VerdictsTyped ==
  ASSUME NEW h, NEW f
  PROVE  /\ IsFiniteSet(Verdicts(h, f))
         /\ \A v \in Verdicts(h, f) :
              /\ v.score \in Nat /\ v.score = Detect(v.name, h, f)
              /\ \E i \in DOMAIN Alphabet : Alphabet[i] = v.name
         /\ \A v, w \in Verdicts(h, f) : v.name = w.name => v = w
<1>1. Registered \in Seq(Range(Alphabet))
  BY RegistryAssumption
<1>2. /\ DOMAIN Registered = 1..Len(Registered) /\ Len(Registered) \in Nat
      /\ \A i \in DOMAIN Registered : Registered[i] \in Range(Alphabet)
  BY <1>1
<1>3. Range(Registered) = {Registered[i] : i \in DOMAIN Registered}
  BY DEF Range
<1>4. IsFiniteSet(Range(Registered)) /\ Range(Registered) \subseteq Range(Alphabet)
  <2>1. IsFiniteSet(DOMAIN Registered)
    BY <1>2, FS_Interval
  <2>2. IsFiniteSet({Registered[i] : i \in DOMAIN Registered})
    BY <2>1, ImageFinite
  <2> QED BY <1>2, <1>3, <2>2
<1> DEFINE answer == [name \in Range(Registered) |-> [name |-> name, score |-> Detect(name, h, f)]]
<1>5. Verdicts(h, f) = {answer[name] : name \in Range(Registered)}
  BY DEF Verdicts
<1>6. IsFiniteSet(Verdicts(h, f))
  <2> HIDE DEF answer
  <2> QED BY <1>4, <1>5, ImageFinite
<1>7. \A v \in Verdicts(h, f) : /\ v = [name |-> v.name, score |-> Detect(v.name, h, f)]
                                /\ v.name \in Range(Registered)
  BY DEF Verdicts
<1>8. \A v \in Verdicts(h, f) : v.score = Detect(v.name, h, f) /\ v.score \in Nat
  BY <1>4, <1>7, Detected
<1>9. \A v \in Verdicts(h, f) : \E i \in DOMAIN Alphabet : Alphabet[i] = v.name
  BY <1>4, <1>7 DEF Range
<1> QED BY <1>6, <1>7, <1>8, <1>9

\* No two names have one place in the alphabet.
LEMMA AlphabetOrders ==
  /\ DOMAIN Alphabet = 1..6
  /\ \A i, j \in 1..6 : Alphabet[i] = Alphabet[j] => i = j
BY DEF Alphabet

\* Some answer goes before all others, and only it does.
LEMMA FirstVerdict ==
  ASSUME NEW h, NEW f, NEW T \in SUBSET Verdicts(h, f), T # {}
  PROVE  \E v \in T : /\ \A w \in T \ {v} : ByScore(v, w)
                      /\ \A w \in T : ~ByScore(w, v) /\ w.score <= v.score
<1>1. /\ IsFiniteSet(T)
      /\ \A v \in T : v.score \in Nat /\ \E i \in DOMAIN Alphabet : Alphabet[i] = v.name
      /\ \A v, w \in T : v.name = w.name => v = w
  BY VerdictsTyped, FS_Subset
<1> DEFINE score == [v \in T |-> v.score]
           scores == {score[v] : v \in T}
           top == Max(scores)
           tied == {i \in 1..6 : \E v \in T : v.score = top /\ v.name = Alphabet[i]}
<1>2. top \in scores /\ \A y \in scores : y <= top
  <2>1. IsFiniteSet(scores)
    <3> HIDE DEF score
    <3> QED BY <1>1, ImageFinite
  <2>2. scores \subseteq Nat /\ scores # {}
    BY <1>1
  <2> HIDE DEF scores
  <2> QED BY <2>1, <2>2, Greatest
<1>3. tied # {}
  <2>1. PICK v \in T : v.score = top
    BY <1>2
  <2>2. PICK i \in 1..6 : Alphabet[i] = v.name
    BY <1>1, <2>1, AlphabetOrders
  <2> QED BY <2>1, <2>2
<1>4. Min(tied) \in tied /\ \A i \in tied : Min(tied) <= i
  <2>1. tied \subseteq Nat
    OBVIOUS
  <2> HIDE DEF tied
  <2> QED BY <1>3, <2>1, FirstPlace
<1>5. PICK v \in T : v.score = top /\ v.name = Alphabet[Min(tied)]
  BY <1>4
<1>6. \A w \in T : w.score <= v.score
  BY <1>2, <1>5
<1>7. ASSUME NEW w \in T PROVE (w # v => ByScore(v, w)) /\ ~ByScore(w, v)
  <2>1. PICK j \in 1..6 : w.name = Alphabet[j]
    BY <1>1, AlphabetOrders
  <2>2. w.score = v.score => Min(tied) <= j
    BY <1>4, <1>5, <2>1
  <2>3. w # v => j # Min(tied)
    BY <1>1, <1>5, <2>1
  <2> DEFINE i == Min(tied)
  <2>4. i \in 1..6
    BY <1>4
  <2> HIDE DEF tied, i
  <2>5. w # v => ByScore(v, w)
    <3>1. CASE w.score = v.score
      BY <1>5, <2>1, <2>2, <2>3, <2>4, <3>1, AlphabetOrders DEF ByScore, i
    <3>2. CASE w.score # v.score
      BY <1>1, <1>6, <3>2 DEF ByScore
    <3> QED BY <3>1, <3>2
  <2>6. ~ByScore(w, v)
    <3> SUFFICES ASSUME ByScore(w, v) PROVE FALSE
      OBVIOUS
    <3>1. w.score = v.score
      BY <1>1, <1>6 DEF ByScore
    <3>2. PICK k, l \in 1..6 : Alphabet[k] = w.name /\ Alphabet[l] = v.name /\ k < l
      BY <1>1, <3>1, AlphabetOrders DEF ByScore
    <3>3. k = j /\ l = i
      BY <1>5, <2>1, <2>4, <3>2, AlphabetOrders DEF i
    <3> QED BY <2>2, <2>4, <3>1, <3>2, <3>3 DEF i
  <2> QED BY <2>5, <2>6
<1> QED BY <1>5, <1>6, <1>7

\* Explain says which adapter Pick takes; what is taken was willing.
LEMMA PickExplained ==
  ASSUME NEW h, NEW f
  PROVE  /\ Explain(h, f).chosen = Pick(h, f)
         /\ Pick(h, f) # "none" => Detect(Pick(h, f), h, f) > 0
<1> DEFINE all == Verdicts(h, f)
           willing == {v \in all : v.score > 0}
           Leads(v, T) == \A w \in T \ {v} : ByScore(v, w)
           Earlier(v) == {w \in all : ByScore(w, v)}
           ranked == [n \in 1..Cardinality(all) |-> CHOOSE v \in all : Cardinality(Earlier(v)) = n - 1]
<1>1. Pick(h, f) = IF willing = {} THEN "none" ELSE (CHOOSE v \in willing : Leads(v, willing)).name
  BY DEF Pick
<1>2. Explain(h, f).chosen = IF ranked # <<>> /\ ranked[1].score > 0 THEN ranked[1].name ELSE "none"
  BY DEF Explain
<1>3. IsFiniteSet(all) /\ Cardinality(all) \in Nat /\ \A v \in all : v.score \in Nat
  BY VerdictsTyped, FS_CardinalityType
<1>4. CASE all = {}
  <2>1. willing = {}
    BY <1>4
  <2>2. Cardinality(all) = 0
    BY <1>4, FS_EmptySet
  <2>3. ranked = <<>>
    BY <2>2
  <2>4. Pick(h, f) = "none"
    BY <1>1, <2>1
  <2>5. Explain(h, f).chosen = "none"
    <3> HIDE DEF ranked
    <3> QED BY <1>2, <2>3
  <2> QED BY <2>4, <2>5
<1>5. CASE all # {}
  <2>1. PICK top \in all : /\ Leads(top, all)
                           /\ \A w \in all : ~ByScore(w, top) /\ w.score <= top.score
    BY <1>5, FirstVerdict
  <2>2. ranked # <<>> /\ ranked[1] = CHOOSE v \in all : Cardinality(Earlier(v)) = 0
    <3>1. Cardinality(all) # 0
      BY <1>3, <1>5, FS_EmptySet
    <3>2. 1 \in 1..Cardinality(all) /\ 1 - 1 = 0
      BY <1>3, <3>1
    <3>3. ranked[1] = CHOOSE v \in all : Cardinality(Earlier(v)) = 1 - 1
      <4> HIDE DEF all, Earlier
      <4> QED BY <3>2, Zenon
    <3>4. ranked # <<>>
      <4>1. DOMAIN ranked = 1..Cardinality(all)
        OBVIOUS
      <4>2. DOMAIN <<>> = {}
        OBVIOUS
      <4> HIDE DEF ranked
      <4> QED BY <3>2, <4>1, <4>2
    <3> QED BY <3>2, <3>3, <3>4, Zenon
  <2>3. ranked[1] = top
    <3>1. \A v \in all : IsFiniteSet(Earlier(v))
      BY <1>3, FS_Subset
    <3>2. \A v \in all : Cardinality(Earlier(v)) = 0 <=> Earlier(v) = {}
      BY <3>1, FS_EmptySet
    <3>3. Earlier(top) = {}
      BY <2>1
    <3>4. \A v \in all : Earlier(v) = {} => v = top
      BY <2>1
    <3> HIDE DEF Earlier, all, ranked
    <3> QED BY <2>2, <3>2, <3>3, <3>4
  <2>4. CASE top.score > 0
    <3>1. top \in willing
      BY <2>4
    <3>2. \A v \in willing : Leads(v, willing) => v = top
      BY <2>1, <3>1
    <3>3. Leads(top, willing)
      BY <2>1
    <3>4. (CHOOSE v \in willing : Leads(v, willing)) = top
      <4> HIDE DEF Leads, willing
      <4> QED BY <3>1, <3>2, <3>3
    <3>5. Pick(h, f) = top.name
      BY <1>1, <3>1, <3>4
    <3>6. Detect(top.name, h, f) > 0
      BY <2>4, VerdictsTyped
    <3> HIDE DEF ranked
    <3> QED BY <1>2, <2>2, <2>3, <2>4, <3>5, <3>6
  <2>5. CASE ~ (top.score > 0)
    <3>1. willing = {}
      BY <1>3, <2>1, <2>5
    <3>2. Pick(h, f) = "none"
      BY <1>1, <3>1
    <3> HIDE DEF ranked
    <3> QED BY <1>2, <2>3, <2>5, <3>2
  <2> QED BY <2>4, <2>5
<1> QED BY <1>4, <1>5

-----------------------------------------------------------------------------
(* The calendar *)

\* What is added up from place to place is defined.
LEMMA Cumulated ==
  ASSUME NEW a \in Nat, NEW n \in Nat, NEW g \in [a..(a + n) -> Nat]
  PROVE  \E f \in [a..(a + n) -> Nat] :
            f = [k \in a..(a + n) |-> IF k = a THEN 0 ELSE f[k - 1] + g[k - 1]]
<1> DEFINE Sums(f, m) == /\ f \in [a..(a + m) -> Nat]
                         /\ \A k \in a..(a + m) : f[k] = IF k = a THEN 0 ELSE f[k - 1] + g[k - 1]
           G == {m \in Nat : m <= n => \E f : Sums(f, m)}
<1>1. 0 \in G
  <2>1. Sums([k \in a..(a + 0) |-> 0], 0)
    OBVIOUS
  <2> QED BY <2>1
<1>2. ASSUME NEW m \in Nat, m \in G PROVE m + 1 \in G
  <2>1. m + 1 \in Nat /\ (m + 1 <= n => m <= n)
    OBVIOUS
  <2> SUFFICES ASSUME m + 1 <= n PROVE \E f : Sums(f, m + 1)
    BY <2>1, Zenon
  <2>2. m <= n => \E f : Sums(f, m)
    BY <1>2, Zenon
  <2>3. PICK f : Sums(f, m)
    BY <2>1, <2>2, Zenon
  <2> DEFINE last == f[a + m] + g[a + m]
             h == [k \in a..(a + (m + 1)) |-> IF k = a + (m + 1) THEN last ELSE f[k]]
  <2>4. last \in Nat
    BY <2>3
  <2>5. h \in [a..(a + (m + 1)) -> Nat]
    BY <2>3, <2>4
  <2>6. ASSUME NEW k \in a..(a + (m + 1))
        PROVE  h[k] = IF k = a THEN 0 ELSE h[k - 1] + g[k - 1]
    <3>1. CASE k = a + (m + 1)
      <4>1. k - 1 = a + m /\ k # a /\ k - 1 \in a..(a + (m + 1)) /\ k - 1 # a + (m + 1)
        BY <3>1
      <4> QED BY <3>1, <4>1
    <3>2. CASE k \in a..(a + m)
      <4>1. k # a => k - 1 \in a..(a + m) /\ k - 1 \in a..(a + (m + 1)) /\ k - 1 # a + (m + 1)
        BY <3>2
      <4>2. f[k] = IF k = a THEN 0 ELSE f[k - 1] + g[k - 1]
        BY <2>3, <3>2
      <4>3. k # a + (m + 1)
        BY <3>2
      <4> QED BY <4>1, <4>2, <4>3
    <3> QED BY <3>1, <3>2
  <2>7. Sums(h, m + 1)
    <3> HIDE DEF h
    <3> QED BY <2>5, <2>6
  <2> QED BY <2>7
<1>3. n \in G
  <2> HIDE DEF G
  <2> QED BY <1>1, <1>2, Counting
<1>4. n <= n
  OBVIOUS
<1>5. PICK f : Sums(f, n)
  BY <1>3, <1>4, Zenon
<1> QED BY <1>5

\* The days of a year.
DaysOfYear(y) == IF Leap(y) THEN 366 ELSE 365

\* Each year of the calendar begins where the one before ends.
LEMMA YearStarts ==
  /\ YearStart(FirstYear) = 0
  /\ \A y \in FirstYear .. FirstYear + Years : YearStart(y) \in Nat
  /\ \A y \in FirstYear .. FirstYear + Years - 1 :
       YearStart(y + 1) = YearStart(y) + DaysOfYear(y)
<1> DEFINE S == FirstYear .. (FirstYear + Years)
           g == [k \in S |-> DaysOfYear(k)]
           Def(f) == f = [k \in S |-> IF k = FirstYear THEN 0
                            ELSE f[k - 1] + (IF Leap(k - 1) THEN 366 ELSE 365)]
           days == CHOOSE f : Def(f)
<1>1. FirstYear \in Nat /\ Years \in Nat \ {0}
  BY CalendarAssumption
<1>2. g \in [S -> Nat]
  BY DEF DaysOfYear
<1>3. PICK f \in [S -> Nat] : f = [k \in S |-> IF k = FirstYear THEN 0 ELSE f[k - 1] + g[k - 1]]
  <2> HIDE DEF g
  <2> QED BY <1>1, <1>2, Cumulated
<1>4. \A k \in S : k # FirstYear => k - 1 \in S /\ g[k - 1] = IF Leap(k - 1) THEN 366 ELSE 365
  BY <1>1 DEF DaysOfYear
<1>5. Def(f)
  <2> HIDE DEF g, S
  <2>1. \A k \in S : f[k] = IF k = FirstYear THEN 0
                            ELSE f[k - 1] + (IF Leap(k - 1) THEN 366 ELSE 365)
    <3> SUFFICES ASSUME NEW k \in S
                 PROVE  f[k] = IF k = FirstYear THEN 0
                               ELSE f[k - 1] + (IF Leap(k - 1) THEN 366 ELSE 365)
      OBVIOUS
    <3>1. f[k] = IF k = FirstYear THEN 0 ELSE f[k - 1] + g[k - 1]
      BY <1>3, Zenon
    <3>2. CASE k = FirstYear
      BY <3>1, <3>2
    <3>3. CASE k # FirstYear
      BY <1>4, <3>1, <3>3
    <3> QED BY <3>2, <3>3
  <2> QED BY <2>1
<1>6. Def(days)
  <2> HIDE DEF Def
  <2> QED BY <1>5
<1>7. \A y : YearStart(y) = days[y]
  BY Zenon DEF YearStart
<1> HIDE DEF days, S
<1>8. \A k \in S : days[k] = IF k = FirstYear THEN 0 ELSE days[k - 1] + DaysOfYear(k - 1)
  BY <1>6 DEF DaysOfYear
<1>9. \A n \in Nat : FirstYear + n \in S => days[FirstYear + n] \in Nat
  <2> DEFINE G == {n \in Nat : FirstYear + n \in S => days[FirstYear + n] \in Nat}
  <2>1. 0 \in G
    BY <1>1, <1>8
  <2>2. ASSUME NEW n \in Nat, n \in G PROVE n + 1 \in G
    <3>1. CASE FirstYear + (n + 1) \in S
      <4>1. FirstYear + n \in S /\ (FirstYear + (n + 1)) - 1 = FirstYear + n
            /\ FirstYear + (n + 1) # FirstYear
        BY <1>1, <3>1 DEF S
      <4>2. DaysOfYear(FirstYear + n) \in Nat
        BY DEF DaysOfYear
      <4>3. days[FirstYear + (n + 1)] = days[FirstYear + n] + DaysOfYear(FirstYear + n)
        BY <1>8, <3>1, <4>1
      <4> QED BY <2>2, <4>1, <4>2, <4>3
    <3> QED BY <3>1
  <2> HIDE DEF G
  <2>3. \A n \in Nat : n \in G
    BY <2>1, <2>2, Counting
  <2> QED BY <2>3 DEF G
<1>10. \A y \in S : y - FirstYear \in Nat /\ FirstYear + (y - FirstYear) = y
  BY <1>1 DEF S
<1>11. \A y \in S : days[y] \in Nat
  BY <1>9, <1>10
<1>12. ASSUME NEW y \in FirstYear .. FirstYear + Years - 1
       PROVE  days[y + 1] = days[y] + DaysOfYear(y)
  <2>1. y + 1 \in S /\ y + 1 # FirstYear /\ (y + 1) - 1 = y
    BY <1>1 DEF S
  <2> QED BY <1>8, <2>1
<1>13. days[FirstYear] = 0 /\ FirstYear \in S
  <2>1. FirstYear \in S
    BY <1>1 DEF S
  <2> QED BY <1>8, <2>1
<1> QED BY <1>7, <1>11, <1>12, <1>13 DEF S

\* Years do not overlap.
LEMMA YearsApart ==
  ASSUME NEW y \in FirstYear .. FirstYear + Years, NEW z \in FirstYear .. FirstYear + Years, y < z
  PROVE  YearStart(y + 1) <= YearStart(z)
<1>1. FirstYear \in Nat /\ Years \in Nat \ {0} /\ y \in Nat /\ z \in Nat
  BY CalendarAssumption
<1> DEFINE G == {n \in Nat : y + 1 + n <= FirstYear + Years => YearStart(y + 1) <= YearStart(y + 1 + n)}
<1>2. 0 \in G
  <2>1. y + 1 + 0 = y + 1 /\ y + 1 \in FirstYear .. FirstYear + Years
    BY <1>1
  <2>2. YearStart(y + 1) \in Nat
    BY <2>1, YearStarts
  <2> QED BY <2>1, <2>2
<1>3. ASSUME NEW n \in Nat, n \in G PROVE n + 1 \in G
  <2> SUFFICES ASSUME y + 1 + (n + 1) <= FirstYear + Years
               PROVE  YearStart(y + 1) <= YearStart(y + 1 + (n + 1))
    OBVIOUS
  <2>1. /\ y + 1 + n \in FirstYear .. FirstYear + Years - 1
        /\ y + 1 + n \in FirstYear .. FirstYear + Years
        /\ y + 1 \in FirstYear .. FirstYear + Years
        /\ y + 1 + (n + 1) = (y + 1 + n) + 1
    BY <1>1
  <2>2. YearStart((y + 1 + n) + 1) = YearStart(y + 1 + n) + DaysOfYear(y + 1 + n)
    BY <2>1, YearStarts
  <2>3. YearStart(y + 1 + n) \in Nat /\ YearStart(y + 1) \in Nat
    BY <2>1, YearStarts
  <2>4. DaysOfYear(y + 1 + n) \in Nat
    BY DEF DaysOfYear
  <2>5. YearStart(y + 1) <= YearStart(y + 1 + n)
    BY <1>1, <1>3, <2>1
  <2> QED BY <2>1, <2>2, <2>3, <2>4, <2>5
<1>4. \A n \in Nat : n \in G
  <2> HIDE DEF G
  <2> QED BY <1>2, <1>3, Counting
<1>5. z - (y + 1) \in Nat /\ y + 1 + (z - (y + 1)) = z /\ z <= FirstYear + Years
  BY <1>1
<1> QED BY <1>4, <1>5

\* Where the months begin, in numbers.
LEMMA MonthStarts ==
  ASSUME NEW y
  PROVE  LET l == IF Leap(y) THEN 1 ELSE 0
         IN  /\ MonthStart(y, 1) = 0 /\ MonthStart(y, 2) = 31
             /\ MonthStart(y, 3) = 59 + l /\ MonthStart(y, 4) = 90 + l
             /\ MonthStart(y, 5) = 120 + l /\ MonthStart(y, 6) = 151 + l
             /\ MonthStart(y, 7) = 181 + l /\ MonthStart(y, 8) = 212 + l
             /\ MonthStart(y, 9) = 243 + l /\ MonthStart(y, 10) = 273 + l
             /\ MonthStart(y, 11) = 304 + l /\ MonthStart(y, 12) = 334 + l
<1> DEFINE S == 1..12
           g == [k \in S |-> DaysIn(y, k)]
           Def(f) == f = [k \in S |-> IF k = 1 THEN 0 ELSE f[k - 1] + DaysIn(y, k - 1)]
           days == CHOOSE f : Def(f)
<1>1. g \in [S -> Nat]
  BY DEF DaysIn
<1>2. S = 1..(1 + 11)
  OBVIOUS
<1>3. PICK f \in [S -> Nat] : f = [k \in S |-> IF k = 1 THEN 0 ELSE f[k - 1] + g[k - 1]]
  <2> DEFINE a == 1
             n == 11
  <2>1. a \in Nat /\ n \in Nat /\ S = a..(a + n)
    BY <1>2
  <2>2. g \in [a..(a + n) -> Nat]
    BY <1>1, <1>2
  <2> HIDE DEF g, S, a, n
  <2>3. \E f \in [a..(a + n) -> Nat] :
          f = [k \in a..(a + n) |-> IF k = a THEN 0 ELSE f[k - 1] + g[k - 1]]
    BY <2>1, <2>2, Cumulated
  <2> QED BY <2>1, <2>3 DEF a
<1>4. \A k \in S : k # 1 => k - 1 \in S /\ g[k - 1] = DaysIn(y, k - 1)
  OBVIOUS
<1>5. Def(f)
  <2> HIDE DEF g, S
  <2> QED BY <1>3, <1>4
<1>6. Def(days)
  <2> HIDE DEF Def
  <2> QED BY <1>5
<1>7. \A m : MonthStart(y, m) = days[m]
  BY Zenon DEF MonthStart
<1> HIDE DEF days
<1>8. days[1] = 0 /\ \A k \in 2..12 : days[k] = days[k - 1] + DaysIn(y, k - 1)
  BY <1>6
<1>9. /\ days[2] = days[1] + DaysIn(y, 1) /\ days[3] = days[2] + DaysIn(y, 2)
      /\ days[4] = days[3] + DaysIn(y, 3) /\ days[5] = days[4] + DaysIn(y, 4)
      /\ days[6] = days[5] + DaysIn(y, 5) /\ days[7] = days[6] + DaysIn(y, 6)
      /\ days[8] = days[7] + DaysIn(y, 7) /\ days[9] = days[8] + DaysIn(y, 8)
      /\ days[10] = days[9] + DaysIn(y, 9) /\ days[11] = days[10] + DaysIn(y, 10)
      /\ days[12] = days[11] + DaysIn(y, 11)
  BY <1>8
<1>10. /\ DaysIn(y, 1) = 31 /\ DaysIn(y, 2) = (IF Leap(y) THEN 29 ELSE 28) /\ DaysIn(y, 3) = 31
       /\ DaysIn(y, 4) = 30 /\ DaysIn(y, 5) = 31 /\ DaysIn(y, 6) = 30 /\ DaysIn(y, 7) = 31
       /\ DaysIn(y, 8) = 31 /\ DaysIn(y, 9) = 30 /\ DaysIn(y, 10) = 31 /\ DaysIn(y, 11) = 30
  BY DEF DaysIn
<1> QED BY <1>7, <1>8, <1>9, <1>10

\* A time is a day and a time of day.
LEMMA DayAndTime ==
  ASSUME NEW t \in Nat
  PROVE  /\ DayOf(t) \in Nat /\ TimeOfDay(t) \in 0 .. DayLen - 1
         /\ t = DayOf(t) * DayLen + TimeOfDay(t)
BY CalendarAssumption, Division DEF DayOf, TimeOfDay

\* They are these alone.
LEMMA TimeMade ==
  ASSUME NEW day \in Nat, NEW tod \in 0 .. DayLen - 1
  PROVE  LET t == day * DayLen + tod
         IN  t \in Nat /\ DayOf(t) = day /\ TimeOfDay(t) = tod
<1> DEFINE t == day * DayLen + tod
<1>1. DayLen \in Nat \ {0} /\ tod \in Nat /\ tod < DayLen
  BY CalendarAssumption
<1>2. day * DayLen \in Nat /\ (day + 1) * DayLen = day * DayLen + DayLen
  BY <1>1, Times
<1>3. t \in Nat /\ day * DayLen <= t /\ t < (day + 1) * DayLen
  BY <1>1, <1>2
<1>4. DayOf(t) \in Nat /\ TimeOfDay(t) \in 0 .. DayLen - 1 /\ t = DayOf(t) * DayLen + TimeOfDay(t)
  BY <1>3, DayAndTime
<1> HIDE DEF t
<1>5. DayOf(t) < day + 1 /\ day <= DayOf(t)
  BY <1>1, <1>3, Quotient DEF DayOf
<1>6. DayOf(t) = day
  BY <1>4, <1>5
<1>7. day * DayLen + tod = day * DayLen + TimeOfDay(t)
  BY <1>4, <1>6 DEF t
<1>8. TimeOfDay(t) = tod
  <2> DEFINE p == day * DayLen
             u == TimeOfDay(t)
  <2>1. p \in Nat /\ p + tod = p + u /\ u \in Nat
    BY <1>1, <1>2, <1>4, <1>7
  <2> HIDE DEF p, u
  <2>2. u = tod
    BY <1>1, <2>1
  <2> QED BY <2>2 DEF u
<1> QED BY <1>3, <1>6, <1>8 DEF t

\* The years of the calendar hold its times.
LEMMA YearFound ==
  ASSUME NEW t \in Instants
  PROVE  /\ t \in Nat
         /\ YearOf(t) \in FirstYear .. FirstYear + Years - 1
         /\ YearStart(YearOf(t)) <= DayOf(t) /\ DayOf(t) < YearStart(YearOf(t) + 1)
<1> DEFINE end == FirstYear + Years
           after == {y \in FirstYear .. end : DayOf(t) < YearStart(y)}
           y == Min(after) - 1
<1>1. FirstYear \in Nat /\ Years \in Nat \ {0} /\ DayLen \in Nat \ {0} /\ end \in FirstYear .. end
  BY CalendarAssumption
<1>2. YearStart(end) \in Nat
  BY <1>1, YearStarts
<1>3. t \in Nat /\ t < YearStart(end) * DayLen
  <2>1. YearStart(end) * DayLen \in Nat
    BY <1>1, <1>2, Times
  <2> QED BY <2>1 DEF Instants
<1>4. DayOf(t) \in Nat /\ DayOf(t) < YearStart(end)
  <2> DEFINE n == YearStart(end)
  <2>1. n \in Nat /\ t < n * DayLen /\ DayLen \in Nat /\ DayLen > 0
    BY <1>1, <1>2, <1>3
  <2> HIDE DEF n
  <2>2. t \div DayLen < n
    BY <1>3, <2>1, Quotient
  <2> QED BY <1>3, <2>2, DayAndTime DEF DayOf, n
<1>5. after # {} /\ after \subseteq Nat
  BY <1>1, <1>4
<1>6. Min(after) \in after /\ \A z \in after : Min(after) <= z
  <2> HIDE DEF after
  <2> QED BY <1>5, FirstPlace
<1>7. Min(after) # FirstYear
  <2>1. \A z \in after : DayOf(t) < YearStart(z)
    OBVIOUS
  <2>2. ~ (DayOf(t) < YearStart(FirstYear))
    BY <1>4, YearStarts
  <2> HIDE DEF after
  <2> QED BY <1>6, <2>1, <2>2
<1>8. y \in FirstYear .. end - 1 /\ y + 1 = Min(after)
  <2>1. \A z \in after : z \in FirstYear .. end
    OBVIOUS
  <2> HIDE DEF after
  <2> QED BY <1>1, <1>6, <1>7, <2>1
<1>9. y \notin after
  <2> HIDE DEF after
  <2> QED BY <1>1, <1>6, <1>8
<1>10. YearStart(y) \in Nat /\ y \in FirstYear .. end
  BY <1>1, <1>8, YearStarts
<1>11. YearStart(y) <= DayOf(t) /\ DayOf(t) < YearStart(y + 1)
  <2>1. DayOf(t) < YearStart(y + 1)
    BY <1>6, <1>8
  <2>2. ~ (DayOf(t) < YearStart(y))
    BY <1>9, <1>10
  <2> HIDE DEF y
  <2> QED BY <1>4, <1>10, <2>1, <2>2
<1>12. \E z \in FirstYear .. FirstYear + Years - 1 :
         YearStart(z) <= DayOf(t) /\ DayOf(t) < YearStart(z + 1)
  <2> HIDE DEF y
  <2>1. y \in FirstYear .. FirstYear + Years - 1
    BY <1>1, <1>8
  <2> WITNESS y \in FirstYear .. FirstYear + Years - 1
  <2> QED BY <1>11
<1> QED BY <1>3, <1>12 DEF YearOf

\* A day is of one year.
LEMMA YearAlone ==
  ASSUME NEW t \in Instants, NEW y \in FirstYear .. FirstYear + Years - 1,
         YearStart(y) <= DayOf(t), DayOf(t) < YearStart(y + 1)
  PROVE  YearOf(t) = y
<1> DEFINE z == YearOf(t)
<1>1. /\ z \in FirstYear .. FirstYear + Years - 1
      /\ YearStart(z) <= DayOf(t) /\ DayOf(t) < YearStart(z + 1) /\ DayOf(t) \in Nat
  BY YearFound, DayAndTime
<1> HIDE DEF z
<1>2. FirstYear \in Nat /\ Years \in Nat \ {0} /\ y \in Nat /\ z \in Nat
  BY <1>1, CalendarAssumption
<1>3. \A k \in {y, z, y + 1, z + 1} : k \in FirstYear .. FirstYear + Years
  BY <1>1, <1>2
<1>4. \A k \in {y, z, y + 1, z + 1} : YearStart(k) \in Nat
  BY <1>3, YearStarts
<1>5. ~ (y < z)
  <2> SUFFICES ASSUME y < z PROVE FALSE
    OBVIOUS
  <2>1. YearStart(y + 1) <= YearStart(z)
    BY <1>3, YearsApart
  <2> QED BY <1>1, <1>4, <2>1
<1>6. ~ (z < y)
  <2> SUFFICES ASSUME z < y PROVE FALSE
    OBVIOUS
  <2>1. YearStart(z + 1) <= YearStart(y)
    BY <1>3, YearsApart
  <2> QED BY <1>1, <1>4, <2>1
<1>7. y = z
  BY <1>2, <1>5, <1>6
<1> QED BY <1>7 DEF z

\* The months of a year, one after the other.
LEMMA MonthsJoin ==
  ASSUME NEW y
  PROVE  /\ \A m \in 1..12 : MonthStart(y, m) \in Nat /\ DaysIn(y, m) \in 28..31
         /\ \A m \in 1..11 : MonthStart(y, m + 1) = MonthStart(y, m) + DaysIn(y, m)
         /\ MonthStart(y, 12) + 31 = DaysOfYear(y) /\ DaysIn(y, 12) = 31
         /\ \A m, n \in 1..12 : m < n => MonthStart(y, m) + DaysIn(y, m) <= MonthStart(y, n)
<1>1. /\ DaysIn(y, 1) = 31 /\ DaysIn(y, 2) = (IF Leap(y) THEN 29 ELSE 28) /\ DaysIn(y, 3) = 31
      /\ DaysIn(y, 4) = 30 /\ DaysIn(y, 5) = 31 /\ DaysIn(y, 6) = 30 /\ DaysIn(y, 7) = 31
      /\ DaysIn(y, 8) = 31 /\ DaysIn(y, 9) = 30 /\ DaysIn(y, 10) = 31 /\ DaysIn(y, 11) = 30
      /\ DaysIn(y, 12) = 31
  BY DEF DaysIn
<1>2. \A m \in 1..12 : \/ m = 1 \/ m = 2 \/ m = 3 \/ m = 4 \/ m = 5 \/ m = 6
                       \/ m = 7 \/ m = 8 \/ m = 9 \/ m = 10 \/ m = 11 \/ m = 12
  OBVIOUS
<1>3. \A m \in 1..12 : MonthStart(y, m) \in Nat /\ DaysIn(y, m) \in 28..31
  BY <1>1, <1>2, MonthStarts
<1>4. ASSUME NEW m \in 1..11
      PROVE  MonthStart(y, m + 1) = MonthStart(y, m) + DaysIn(y, m)
  <2>1. \/ m = 1 \/ m = 2 \/ m = 3 \/ m = 4 \/ m = 5 \/ m = 6
        \/ m = 7 \/ m = 8 \/ m = 9 \/ m = 10 \/ m = 11
    OBVIOUS
  <2> QED BY <1>1, <2>1, MonthStarts
<1>5. MonthStart(y, 12) + 31 = DaysOfYear(y)
  BY MonthStarts DEF DaysOfYear
<1>6. \A m, n \in 1..12 : m < n => MonthStart(y, m) + DaysIn(y, m) <= MonthStart(y, n)
  <2> DEFINE G == {k \in Nat : \A m \in 1..12 : m + 1 + k \in 1..12 =>
                     MonthStart(y, m) + DaysIn(y, m) <= MonthStart(y, m + 1 + k)}
  <2>1. 0 \in G
    <3> SUFFICES ASSUME NEW m \in 1..12, m + 1 + 0 \in 1..12
                 PROVE  MonthStart(y, m) + DaysIn(y, m) <= MonthStart(y, m + 1 + 0)
      OBVIOUS
    <3>1. m \in 1..11 /\ m + 1 + 0 = m + 1
      OBVIOUS
    <3> QED BY <1>3, <1>4, <3>1
  <2>2. ASSUME NEW k \in Nat, k \in G PROVE k + 1 \in G
    <3> SUFFICES ASSUME NEW m \in 1..12, m + 1 + (k + 1) \in 1..12
                 PROVE  MonthStart(y, m) + DaysIn(y, m) <= MonthStart(y, m + 1 + (k + 1))
      OBVIOUS
    <3>1. m + 1 + k \in 1..11 /\ m + 1 + k \in 1..12 /\ m + 1 + (k + 1) = (m + 1 + k) + 1
      OBVIOUS
    <3>2. MonthStart(y, m) + DaysIn(y, m) <= MonthStart(y, m + 1 + k)
      BY <2>2, <3>1
    <3>3. MonthStart(y, (m + 1 + k) + 1) = MonthStart(y, m + 1 + k) + DaysIn(y, m + 1 + k)
      BY <1>4, <3>1
    <3>4. /\ MonthStart(y, m) \in Nat /\ DaysIn(y, m) \in 28..31
          /\ MonthStart(y, m + 1 + k) \in Nat /\ DaysIn(y, m + 1 + k) \in 28..31
      BY <1>3, <3>1
    <3> QED BY <3>1, <3>2, <3>3, <3>4
  <2>3. \A k \in Nat : k \in G
    <3> HIDE DEF G
    <3> QED BY <2>1, <2>2, Counting
  <2>4. \A m, n \in 1..12 : m < n => n - (m + 1) \in Nat /\ m + 1 + (n - (m + 1)) = n
    OBVIOUS
  <2> QED BY <2>3, <2>4
<1> QED BY <1>1, <1>3, <1>4, <1>5, <1>6

\* The months of its year hold a time.
LEMMA MonthFound ==
  ASSUME NEW t \in Instants
  PROVE  /\ MonthOf(t) \in 1..12
         /\ DayOfMonth(t) \in 1 .. DaysIn(YearOf(t), MonthOf(t))
         /\ DayOf(t) = Day(YearOf(t), MonthOf(t), DayOfMonth(t))
<1> DEFINE y == YearOf(t)
           x == DayOf(t) - YearStart(y)
           begun == {m \in 1..12 : MonthStart(y, m) <= x}
           m == Max(begun)
<1>1. y \in FirstYear .. FirstYear + Years - 1 /\ YearStart(y) <= DayOf(t) /\ DayOf(t) < YearStart(y + 1)
  BY YearFound
<1>2. FirstYear \in Nat /\ Years \in Nat \ {0}
  BY CalendarAssumption
<1>3. YearStart(y) \in Nat /\ YearStart(y + 1) = YearStart(y) + DaysOfYear(y)
  <2>1. y \in FirstYear .. FirstYear + Years
    BY <1>1, <1>2
  <2> QED BY <1>1, <2>1, YearStarts
<1>4. DayOf(t) \in Nat
  BY YearFound, DayAndTime
<1>5. x \in Nat /\ x < DaysOfYear(y) /\ DaysOfYear(y) \in Nat
  <2>1. DaysOfYear(y) \in Nat
    BY DEF DaysOfYear
  <2> HIDE DEF y
  <2> QED BY <1>1, <1>3, <1>4, <2>1
<1> HIDE DEF y, x
<1>6. 1 \in begun
  BY <1>5, MonthStarts
<1>7. m \in begun /\ \A n \in begun : n <= m
  <2>1. IsFiniteSet(1..12) /\ begun \subseteq 1..12
    <3>1. \A n \in Nat : IsFiniteSet(1..n)
      BY FS_Interval
    <3> QED BY <3>1
  <2>2. IsFiniteSet(begun) /\ begun \subseteq Nat
    BY <2>1, FS_Subset
  <2> HIDE DEF begun
  <2> QED BY <1>6, <2>2, Greatest
<1>8. m \in 1..12 /\ MonthStart(y, m) <= x
  BY <1>7
<1>9. x < MonthStart(y, m) + DaysIn(y, m)
  <2>1. CASE m = 12
    BY <1>5, <2>1, MonthsJoin
  <2>2. CASE m # 12
    <3>1. m + 1 \in 1..12 /\ m \in 1..11 /\ ~ (m + 1 <= m)
      BY <1>8, <2>2
    <3>2. m + 1 \notin begun
      <4> HIDE DEF begun
      <4> QED BY <1>7, <3>1
    <3>3. ~ (MonthStart(y, m + 1) <= x)
      BY <3>1, <3>2
    <3>4. MonthStart(y, m + 1) = MonthStart(y, m) + DaysIn(y, m) /\ MonthStart(y, m + 1) \in Nat
      BY <3>1, MonthsJoin
    <3> HIDE DEF m
    <3> QED BY <1>5, <3>3, <3>4
  <2> QED BY <2>1, <2>2
<1> HIDE DEF m
<1>10. MonthStart(y, m) \in Nat /\ DaysIn(y, m) \in 28..31
  BY <1>8, MonthsJoin
<1> DEFINE Holds(k) == LET into == DayOf(t) - YearStart(YearOf(t)) - MonthStart(YearOf(t), k)
                       IN 0 <= into /\ into < DaysIn(YearOf(t), k)
<1>11. Holds(m)
  <2>1. DayOf(t) - YearStart(y) - MonthStart(y, m) = x - MonthStart(y, m)
    BY <1>3, <1>4, <1>10 DEF x
  <2>2. 0 <= x - MonthStart(y, m) /\ x - MonthStart(y, m) < DaysIn(y, m)
    BY <1>5, <1>8, <1>9, <1>10
  <2> QED BY <2>1, <2>2 DEF y
<1>12. MonthOf(t) = CHOOSE k \in 1..12 : Holds(k)
  BY Zenon DEF MonthOf
<1> HIDE DEF Holds
<1>13. MonthOf(t) \in 1..12 /\ Holds(MonthOf(t))
  BY <1>8, <1>11, <1>12
<1> USE DEF Holds
<1> DEFINE n == MonthOf(t)
           d == DayOfMonth(t)
<1>14. n \in 1..12 /\ 0 <= d - 1 /\ d - 1 < DaysIn(y, n) /\ d \in Int
       /\ DayOf(t) = YearStart(y) + MonthStart(y, n) + (d - 1)
  <2>1. MonthStart(y, n) \in Nat /\ DaysIn(y, n) \in Nat
    BY <1>13, MonthsJoin
  <2>2. d = DayOf(t) - YearStart(y) - MonthStart(y, n) + 1
    BY DEF DayOfMonth, y
  <2>3. n \in 1..12 /\ 0 <= DayOf(t) - YearStart(y) - MonthStart(y, n)
        /\ DayOf(t) - YearStart(y) - MonthStart(y, n) < DaysIn(y, n)
    BY <1>13 DEF y
  <2> HIDE DEF n, d
  <2> QED BY <1>3, <1>4, <2>1, <2>2, <2>3
<1>15. d \in 1..DaysIn(y, n)
  <2>1. DaysIn(y, n) \in Nat
    BY <1>14, MonthsJoin
  <2> HIDE DEF n, d
  <2> QED BY <1>14, <2>1
<1>16. DayOf(t) = Day(y, n, d)
  <2>1. MonthStart(y, n) \in Nat
    BY <1>14, MonthsJoin
  <2> HIDE DEF n, d
  <2> QED BY <1>3, <1>14, <2>1 DEF Day
<1> QED BY <1>14, <1>15, <1>16 DEF y

\* A date is of one year, one month and one day.
LEMMA DateAlone ==
  ASSUME NEW t \in Instants, NEW y \in FirstYear .. FirstYear + Years - 1,
         NEW m \in 1..12, NEW d \in 1..DaysIn(y, m), DayOf(t) = Day(y, m, d)
  PROVE  YearOf(t) = y /\ MonthOf(t) = m /\ DayOfMonth(t) = d
<1>1. FirstYear \in Nat /\ Years \in Nat \ {0} /\ y \in Nat
  BY CalendarAssumption
<1>2. YearStart(y) \in Nat /\ YearStart(y + 1) = YearStart(y) + DaysOfYear(y)
  <2>1. y \in FirstYear .. FirstYear + Years
    BY <1>1
  <2> QED BY <2>1, YearStarts
<1>3. MonthStart(y, m) \in Nat /\ DaysIn(y, m) \in 28..31 /\ DaysOfYear(y) \in Nat
  BY MonthsJoin DEF DaysOfYear
<1>4. MonthStart(y, m) + DaysIn(y, m) <= DaysOfYear(y)
  <2>1. CASE m = 12
    BY <2>1, MonthsJoin
  <2>2. CASE m # 12
    <3>1. m < 12 /\ 12 \in 1..12
      BY <2>2
    <3>2. MonthStart(y, m) + DaysIn(y, m) <= MonthStart(y, 12)
      BY <3>1, MonthsJoin
    <3>3. MonthStart(y, 12) + 31 = DaysOfYear(y) /\ MonthStart(y, 12) \in Nat
      BY <3>1, MonthsJoin
    <3> QED BY <1>3, <3>2, <3>3
  <2> QED BY <2>1, <2>2
<1>5. DayOf(t) = YearStart(y) + MonthStart(y, m) + d - 1 /\ d \in Nat /\ d >= 1 /\ d <= DaysIn(y, m)
  BY <1>3 DEF Day
<1>6. YearStart(y) <= DayOf(t) /\ DayOf(t) < YearStart(y + 1)
  BY <1>2, <1>3, <1>4, <1>5
<1>7. YearOf(t) = y
  BY <1>6, YearAlone
<1> DEFINE n == MonthOf(t)
           e == DayOfMonth(t)
<1>8. n \in 1..12 /\ e \in 1..DaysIn(y, n) /\ DayOf(t) = Day(y, n, e)
  BY <1>7, MonthFound
<1>9. MonthStart(y, n) \in Nat /\ DaysIn(y, n) \in 28..31
  BY <1>8, MonthsJoin
<1> HIDE DEF n, e
<1>10. DayOf(t) = YearStart(y) + MonthStart(y, n) + e - 1 /\ e \in Nat /\ e >= 1 /\ e <= DaysIn(y, n)
  BY <1>8, <1>9 DEF Day
<1>11. ~ (m < n)
  <2> SUFFICES ASSUME m < n PROVE FALSE
    OBVIOUS
  <2>1. MonthStart(y, m) + DaysIn(y, m) <= MonthStart(y, n)
    BY <1>8, MonthsJoin
  <2> QED BY <1>2, <1>3, <1>5, <1>9, <1>10, <2>1
<1>12. ~ (n < m)
  <2> SUFFICES ASSUME n < m PROVE FALSE
    OBVIOUS
  <2>1. MonthStart(y, n) + DaysIn(y, n) <= MonthStart(y, m)
    BY <1>8, MonthsJoin
  <2> QED BY <1>2, <1>3, <1>5, <1>9, <1>10, <2>1
<1>13. m = n
  BY <1>8, <1>11, <1>12
<1>14. d = e
  BY <1>2, <1>3, <1>5, <1>10, <1>13
<1> QED BY <1>7, <1>13, <1>14 DEF n, e

\* A time with the year of another time.
LEMMA InYearTyped ==
  ASSUME NEW t \in Instants, NEW y \in FirstYear .. FirstYear + Years - 1
  PROVE  LET u == InYear(t, y)
         IN  /\ u \in Instants /\ TimeOfDay(u) = TimeOfDay(t) /\ YearOf(u) = y
             /\ DayOf(u) = Day(y, MonthOf(t), DayOfMonth(t))
             /\ u = DayOf(u) * DayLen + TimeOfDay(t)
<1> DEFINE m == MonthOf(t)
           d == DayOfMonth(t)
           day == Day(y, m, d)
           tod == TimeOfDay(t)
           u == InYear(t, y)
<1>1. FirstYear \in Nat /\ Years \in Nat \ {0} /\ y \in Nat /\ DayLen \in Nat \ {0}
  BY CalendarAssumption
<1>2. YearStart(y) \in Nat /\ YearStart(y + 1) = YearStart(y) + DaysOfYear(y) /\ YearStart(y + 1) \in Nat
  <2>1. y \in FirstYear .. FirstYear + Years /\ y + 1 \in FirstYear .. FirstYear + Years
    BY <1>1
  <2> QED BY <2>1, YearStarts
<1>3. m \in 1..12 /\ d \in 1..DaysIn(YearOf(t), m) /\ t \in Nat
  BY MonthFound, YearFound
<1>4. tod \in 0 .. DayLen - 1
  BY <1>3, DayAndTime
<1>5. MonthStart(y, m) \in Nat /\ d \in Nat /\ d >= 1 /\ MonthStart(y, m) + d <= DaysOfYear(y)
  <2>1. MonthStart(y, m) \in Nat /\ DaysIn(y, m) \in 28..31 /\ DaysIn(YearOf(t), m) \in 28..31
    BY <1>3, MonthsJoin
  <2>2. d \in Nat /\ d >= 1 /\ d <= DaysIn(YearOf(t), m)
    <3> HIDE DEF m, d
    <3> QED BY <1>3, <2>1
  <2>3. CASE m = 2
    <3>1. MonthStart(y, m) = 31 /\ DaysOfYear(y) >= 365 /\ DaysOfYear(y) \in Nat
      BY <2>3, MonthStarts DEF DaysOfYear
    <3> HIDE DEF m, d
    <3> QED BY <2>1, <2>2, <3>1
  <2>4. CASE m # 2
    <3>1. DaysIn(y, m) = DaysIn(YearOf(t), m)
      BY <2>4 DEF DaysIn
    <3>2. MonthStart(y, m) + DaysIn(y, m) <= DaysOfYear(y)
      <4>1. CASE m = 12
        BY <4>1, MonthsJoin
      <4>2. CASE m # 12
        <5>1. MonthStart(y, m) + DaysIn(y, m) <= MonthStart(y, 12)
          <6>1. m < 12 /\ 12 \in 1..12
            BY <1>3, <4>2
          <6> HIDE DEF m
          <6> QED BY <1>3, <6>1, MonthsJoin
        <5>2. MonthStart(y, 12) + 31 = DaysOfYear(y) /\ MonthStart(y, 12) \in Nat
          BY MonthsJoin
        <5> HIDE DEF m
        <5> QED BY <2>1, <5>1, <5>2
      <4> QED BY <4>1, <4>2
    <3>3. DaysOfYear(y) \in Nat
      BY DEF DaysOfYear
    <3> HIDE DEF m, d
    <3> QED BY <2>1, <2>2, <3>1, <3>2, <3>3
  <2> QED BY <2>1, <2>2, <2>3, <2>4
<1>6. day = YearStart(y) + MonthStart(y, m) + d - 1
  BY DEF Day
<1>7. day \in Nat /\ YearStart(y) <= day /\ day < YearStart(y + 1)
  <2>1. DaysOfYear(y) \in Nat
    BY DEF DaysOfYear
  <2> HIDE DEF m, d, day
  <2> QED BY <1>2, <1>5, <1>6, <2>1
<1>8. u = day * DayLen + tod
  BY DEF InYear
<1> HIDE DEF day, tod, u
<1>9. u \in Nat /\ DayOf(u) = day /\ TimeOfDay(u) = tod
  BY <1>4, <1>7, <1>8, TimeMade
<1>10. u \in Instants
  <2> DEFINE n == YearStart(FirstYear + Years)
  <2>1. n \in Nat /\ YearStart(y + 1) <= n
    <3>1. FirstYear + Years \in FirstYear .. FirstYear + Years /\ y \in FirstYear .. FirstYear + Years
          /\ y < FirstYear + Years
      BY <1>1
    <3> QED BY <3>1, YearStarts, YearsApart
  <2> HIDE DEF n
  <2>2. day + 1 <= n
    BY <1>2, <1>7, <2>1
  <2>3. (day + 1) * DayLen <= n * DayLen /\ (day + 1) * DayLen = day * DayLen + DayLen
        /\ n * DayLen \in Nat /\ day * DayLen \in Nat
    BY <1>1, <1>7, <2>1, <2>2, Times
  <2> DEFINE p == n * DayLen
             q == day * DayLen
  <2>4. q + DayLen <= p /\ p \in Nat /\ q \in Nat /\ u = q + tod
    BY <1>8, <2>3
  <2> HIDE DEF p, q
  <2>5. u \in 0 .. p - 1
    BY <1>1, <1>4, <1>9, <2>4
  <2> QED BY <2>5 DEF p, n, Instants
<1>11. YearOf(u) = y
  BY <1>7, <1>9, <1>10, YearAlone
<1> QED BY <1>8, <1>9, <1>10, <1>11 DEF u, tod, day

\* Times whose days are apart are apart.
LEMMA DaysApart ==
  ASSUME NEW a \in Nat, NEW b \in Nat, NEW k \in Nat, DayOf(a) + k + 1 <= DayOf(b)
  PROVE  a + k * DayLen < b
<1> DEFINE x == DayOf(a)
           y == DayOf(b)
           p == x * DayLen
           q == y * DayLen
           r == k * DayLen
<1>1. DayLen \in Nat \ {0}
  BY CalendarAssumption
<1>2. /\ x \in Nat /\ a = p + TimeOfDay(a) /\ TimeOfDay(a) \in 0 .. DayLen - 1
      /\ y \in Nat /\ b = q + TimeOfDay(b) /\ TimeOfDay(b) \in 0 .. DayLen - 1
  BY DayAndTime
<1> HIDE DEF x, y
<1>3. (x + k + 1) * DayLen = p + r + DayLen /\ p \in Nat /\ r \in Nat /\ q \in Nat
  BY <1>1, <1>2, Times
<1>4. (x + k + 1) * DayLen <= q
  <2>1. x + k + 1 \in Nat /\ x + k + 1 <= y
    BY <1>2 DEF x, y
  <2> QED BY <1>1, <1>2, <2>1, Times
<1> HIDE DEF p, q, r
<1>5. a + r < b
  BY <1>1, <1>2, <1>3, <1>4
<1> QED BY <1>5 DEF r

\* A reading within a day of one in the midst of the calendar is in it too, and
\* not in its first year.
LEMMA NearBy ==
  ASSUME NEW o \in Instants, YearOf(o) \in FirstYear + 2 .. FirstYear + Years - 2,
         NEW s \in Int, o - DayLen <= s, s <= o + DayLen
  PROVE  s \in Instants /\ YearOf(s) - 1 \in FirstYear .. FirstYear + Years - 1
<1> DEFINE Y == YearOf(o)
           F == FirstYear
           e == YearStart(F + Years)
           p == DayOf(o) * DayLen
<1>1. F \in Nat /\ Years \in Nat \ {0} /\ DayLen \in Nat \ {0} /\ Y \in Nat
  BY CalendarAssumption
<1>2. \A k \in {F, F + 1, Y, Y + 1, F + Years - 1, F + Years} :
        k \in F .. F + Years /\ YearStart(k) \in Nat
  <2>1. \A k \in {F, F + 1, Y, Y + 1, F + Years - 1, F + Years} : k \in F .. F + Years
    BY <1>1
  <2> QED BY <2>1, YearStarts
<1>3. /\ o \in Nat /\ DayOf(o) \in Nat /\ TimeOfDay(o) \in 0 .. DayLen - 1
      /\ o = p + TimeOfDay(o) /\ YearStart(Y) <= DayOf(o) /\ DayOf(o) < YearStart(Y + 1)
  BY YearFound, DayAndTime
<1> HIDE DEF Y, F, e, p
<1>4. YearStart(F + 1) >= 365 /\ YearStart(F + 1) + 365 <= YearStart(Y)
  <2>1. \A y : DaysOfYear(y) >= 365 /\ DaysOfYear(y) \in Nat
    BY DEF DaysOfYear
  <2>2. YearStart(F) = 0 /\ YearStart(F + 1) = YearStart(F) + DaysOfYear(F)
    <3>1. F \in F .. F + Years - 1
      BY <1>1
    <3> QED BY <3>1, YearStarts DEF F
  <2>3. YearStart((F + 1) + 1) = YearStart(F + 1) + DaysOfYear(F + 1)
        /\ YearStart((F + 1) + 1) <= YearStart(Y)
    <3>1. F + 1 \in F .. F + Years - 1 /\ F + 1 < Y
      BY <1>1 DEF Y, F
    <3>2. YearStart((F + 1) + 1) <= YearStart(Y)
      BY <1>2, <3>1, YearsApart DEF F
    <3> QED BY <3>1, <3>2, YearStarts DEF F
  <2>4. YearStart((F + 1) + 1) \in Nat
    <3>1. (F + 1) + 1 \in F .. F + Years
      BY <1>1 DEF Y, F
    <3> QED BY <3>1, YearStarts DEF F
  <2> QED BY <1>2, <2>1, <2>2, <2>3, <2>4
<1>5. YearStart(Y + 1) + 365 <= e /\ e \in Nat
  <2>1. /\ F + Years - 1 \in F .. F + Years - 1 /\ (F + Years - 1) + 1 = F + Years
        /\ Y < F + Years - 1
    BY <1>1 DEF Y, F
  <2>2. YearStart(F + Years) = YearStart(F + Years - 1) + DaysOfYear(F + Years - 1)
    BY <2>1, YearStarts DEF F
  <2>3. YearStart(Y + 1) <= YearStart(F + Years - 1)
    BY <1>2, <2>1, YearsApart DEF F
  <2>4. DaysOfYear(F + Years - 1) >= 365 /\ DaysOfYear(F + Years - 1) \in Nat
    BY DEF DaysOfYear
  <2> QED BY <1>2, <2>2, <2>3, <2>4 DEF e
<1>6. s \in Instants
  <2> DEFINE q == e * DayLen
  <2>1. q \in Nat /\ p \in Nat /\ p + 2 * DayLen <= q /\ 1 * DayLen <= p
    <3>1. DayOf(o) + 2 \in Nat /\ DayOf(o) + 2 <= e /\ 1 <= DayOf(o)
      BY <1>2, <1>3, <1>4, <1>5
    <3>2. (DayOf(o) + 2) * DayLen <= e * DayLen /\ 1 * DayLen <= DayOf(o) * DayLen
          /\ (DayOf(o) + 2) * DayLen = DayOf(o) * DayLen + 2 * DayLen
          /\ e * DayLen \in Nat /\ DayOf(o) * DayLen \in Nat
      BY <1>1, <1>3, <1>5, <3>1, Times
    <3> QED BY <3>2 DEF p
  <2>2. Instants = 0 .. q - 1
    BY DEF Instants, e, F
  <2> HIDE DEF q
  <2>3. 0 <= s /\ s <= q - 1
    BY <1>1, <1>3, <2>1
  <2> QED BY <2>1, <2>2, <2>3
<1>7. /\ s \in Nat /\ YearOf(s) \in F .. F + Years - 1 /\ DayOf(s) \in Nat
      /\ DayOf(s) < YearStart(YearOf(s) + 1)
  BY <1>6, YearFound, DayAndTime DEF F
<1>8. YearOf(s) # F
  <2> SUFFICES ASSUME YearOf(s) = F PROVE FALSE
    OBVIOUS
  <2>1. DayOf(s) + 363 + 1 <= DayOf(o)
    BY <1>2, <1>3, <1>4, <1>7
  <2>2. s + 363 * DayLen < o
    BY <1>3, <1>7, <2>1, DaysApart
  <2> QED BY <1>1, <1>3, <1>7, <2>2
<1> QED BY <1>1, <1>6, <1>7, <1>8 DEF F

-----------------------------------------------------------------------------
(* Time zones *)

\* An offset is one of those of the zone.
LEMMA OffsetTyped ==
  ASSUME NEW z \in Zones, NEW t \in Int
  PROVE  Offset(z, t) \in Offsets(z) /\ Offset(z, t) \in 1 - DayLen .. DayLen - 1
<1> DEFINE past == {c \in DOMAIN z.changes : c <= t}
<1>1. /\ IsFiniteSet(DOMAIN z.changes) /\ DOMAIN z.changes \subseteq Int
      /\ Offsets(z) \subseteq 1 - DayLen .. DayLen - 1
  BY CalendarAssumption
<1>2. past # {} => Max(past) \in past
  <2>1. IsFiniteSet(past) /\ past \subseteq Int
    BY <1>1, FS_Subset
  <2> QED BY <2>1, GreatestInt
<1>3. Offset(z, t) = IF past = {} THEN z.base ELSE z.changes[Max(past)]
  BY DEF Offset
<1>4. past \subseteq DOMAIN z.changes
  OBVIOUS
<1> HIDE DEF past
<1>5. Offset(z, t) \in Offsets(z)
  BY <1>2, <1>3, <1>4 DEF Offsets
<1> QED BY <1>1, <1>5

\* What the clocks show, and the time they show it at, are numbers.
LEMMA ClockTyped ==
  ASSUME NEW z \in Zones, NEW t \in Int
  PROVE  /\ Offset(z, t) \in Int /\ ToClock(z, t) \in Int /\ FromClock(z, t) \in Int
         /\ ToClock(z, t) = t + Offset(z, t)
<1>1. DayLen \in Nat
  BY CalendarAssumption
<1>2. \A u \in Int : Offset(z, u) \in Int
  BY <1>1, OffsetTyped
<1>3. t - Offset(z, t) \in Int
  BY <1>2
<1> QED BY <1>2, <1>3 DEF ToClock, FromClock

\* A change of the clocks is of a day at most.
LEMMA OffsetsNear ==
  ASSUME NEW z \in Zones, NEW t \in Int, NEW u \in Int
  PROVE  Offset(z, t) - Offset(z, u) <= DayLen
BY OffsetTyped, CalendarAssumption

\* The clocks are changed once in four days at most.
LEMMA OneChange ==
  ASSUME NEW z \in Zones, NEW a \in Int, NEW b \in Int, NEW c \in Int,
         a <= b, b <= c, c - a <= 4 * DayLen
  PROVE  Offset(z, a) = Offset(z, b) \/ Offset(z, b) = Offset(z, c)
<1> DEFINE past(t) == {k \in DOMAIN z.changes : k <= t}
<1>1. /\ DOMAIN z.changes \subseteq Int /\ DayLen \in Nat
      /\ \A k, l \in DOMAIN z.changes : k < l => k + 4 * DayLen < l
  BY CalendarAssumption
<1>2. past(a) = past(b) \/ past(b) = past(c)
  <2> SUFFICES ASSUME past(a) # past(b), past(b) # past(c) PROVE FALSE
    OBVIOUS
  <2>1. PICK k \in DOMAIN z.changes : a < k /\ k <= b
    BY <1>1
  <2>2. PICK l \in DOMAIN z.changes : b < l /\ l <= c
    BY <1>1
  <2>3. k \in Int /\ l \in Int /\ k < l
    BY <1>1, <2>1, <2>2
  <2>4. k + 4 * DayLen < l
    BY <1>1, <2>1, <2>2, <2>3
  <2> QED BY <1>1, <2>1, <2>2, <2>3, <2>4
<1>3. \A t, u : past(t) = past(u) => Offset(z, t) = Offset(z, u)
  BY DEF Offset
<1> QED BY <1>2, <1>3

\* Of three times within four days two have one offset.
LEMMA TwoOffsets ==
  ASSUME NEW z \in Zones, NEW a \in Int, NEW b \in Int, NEW c \in Int,
         \A t, u \in {a, b, c} : t - u <= 4 * DayLen
  PROVE  Offset(z, a) = Offset(z, b) \/ Offset(z, b) = Offset(z, c) \/ Offset(z, a) = Offset(z, c)
<1>1. CASE a <= b /\ b <= c
  BY <1>1, OneChange
<1>2. CASE a <= c /\ c <= b
  BY <1>2, OneChange
<1>3. CASE b <= a /\ a <= c
  BY <1>3, OneChange
<1>4. CASE b <= c /\ c <= a
  BY <1>4, OneChange
<1>5. CASE c <= a /\ a <= b
  BY <1>5, OneChange
<1>6. CASE c <= b /\ b <= a
  BY <1>6, OneChange
<1> QED BY <1>1, <1>2, <1>3, <1>4, <1>5, <1>6

\* A reading that is not shown twice tells the time.
LEMMA ReadingTold ==
  ASSUME NEW z \in Zones, NEW t \in Int, Unambiguous(z, t)
  PROVE  FromClock(z, ToClock(z, t)) = t
<1> DEFINE w == ToClock(z, t)
           u == w - Offset(z, w)
           ot == Offset(z, t)
           ow == Offset(z, w)
           ou == Offset(z, u)
<1>1. DayLen \in Nat
  BY CalendarAssumption
<1>2. w \in Int /\ w = t + ot /\ ot \in 1 - DayLen .. DayLen - 1
  BY ClockTyped, OffsetTyped
<1>3. ow \in 1 - DayLen .. DayLen - 1 /\ u \in Int /\ u = w - ow
  <2> HIDE DEF w
  <2>1. ow \in 1 - DayLen .. DayLen - 1
    BY <1>2, OffsetTyped
  <2> QED BY <1>1, <1>2, <2>1
<1>4. ou \in 1 - DayLen .. DayLen - 1 /\ ToClock(z, u) = u + ou
  <2> HIDE DEF u
  <2> QED BY <1>3, OffsetTyped, ClockTyped
<1>5. FromClock(z, w) = w - ou
  BY DEF FromClock
<1>6. ToClock(z, u) = w => u = t
  <2>1. \A s \in t - 2 * DayLen .. t + 2 * DayLen : ToClock(z, s) = w => s = t
    BY DEF Unambiguous
  <2> HIDE DEF w, u, ot, ow, ou
  <2>2. u \in t - 2 * DayLen .. t + 2 * DayLen
    BY <1>1, <1>2, <1>3
  <2> QED BY <2>1, <2>2
<1>7. ot = ow \/ ow = ou \/ ot = ou
  <2> HIDE DEF w, u
  <2>1. \A a, b \in {t, w, u} : a - b <= 4 * DayLen
    <3> HIDE DEF ot, ow, ou
    <3> QED BY <1>1, <1>2, <1>3
  <2> QED BY <1>2, <1>3, <2>1, TwoOffsets
<1>8. u = t => ou = ot
  OBVIOUS
<1> HIDE DEF w, u, ot, ow, ou
<1>9. ou = ot
  <2>1. CASE ot = ow
    <3>1. u = t
      BY <1>1, <1>2, <1>3, <2>1
    <3> QED BY <1>8, <3>1
  <2>2. CASE ow = ou
    <3>1. ToClock(z, u) = w
      BY <1>1, <1>2, <1>3, <1>4, <2>2
    <3> QED BY <1>6, <1>8, <3>1
  <2> QED BY <1>7, <2>1, <2>2
<1>10. FromClock(z, w) = t
  BY <1>1, <1>2, <1>5, <1>9
<1> QED BY <1>10 DEF w

\* The year that is borrowed from a file is the right one for a line that was
\* written in the year before the file was, leap days and changes of the clocks
\* aside.
LEMMA YearBorrowed ==
  ASSUME NEW z \in Zones, NEW t \in Int, NEW v \in Int,
         ToClock(z, t) \in Instants, ToClock(z, v) \in Instants,
         YearOf(ToClock(z, v)) \in FirstYear + 2 .. FirstYear + Years - 2
  PROVE  LET w == ToClock(z, t)
             u == ToClock(z, v)
         IN  /\ WithMtimeYear(z, w, v) \in Int
             /\ (/\ u - 363 * DayLen < w /\ w <= u
                 /\ <<MonthOf(w), DayOfMonth(w)>> # <<2, 29>>
                 /\ Unambiguous(z, t) /\ Shown(z, InYear(w, YearOf(u)))) =>
                  WithMtimeYear(z, w, v) = t
<1> DEFINE w == ToClock(z, t)
           u == ToClock(z, v)
           Y == YearOf(u)
           y == YearOf(w)
           m == MonthOf(w)
           d == DayOfMonth(w)
           o == InYear(w, Y)
           x == FromClock(z, o)
           shown == ToClock(z, x)
           day == DayOf(w)
           tod == TimeOfDay(w)
<1>1. FirstYear \in Nat /\ Years \in Nat \ {0} /\ DayLen \in Nat \ {0}
  BY CalendarAssumption
<1>2. /\ Y \in FirstYear .. FirstYear + Years - 1 /\ u \in Nat
      /\ YearStart(Y) <= DayOf(u) /\ DayOf(u) < YearStart(Y + 1)
      /\ y \in FirstYear .. FirstYear + Years - 1 /\ w \in Nat
      /\ YearStart(y) <= day /\ day < YearStart(y + 1)
  BY YearFound
<1>3. Y - 1 \in FirstYear .. FirstYear + Years - 1 /\ Y \in Nat
      /\ Y \in FirstYear + 2 .. FirstYear + Years - 2
  BY <1>1, <1>2
<1>4. /\ o \in Instants /\ TimeOfDay(o) = tod /\ YearOf(o) = Y
      /\ DayOf(o) = Day(Y, m, d) /\ o = DayOf(o) * DayLen + tod
  BY <1>2, InYearTyped
<1>5. WithMtimeYear(z, w, v) =
        IF x - v > DayLen THEN FromClock(z, InYear(shown, YearOf(shown) - 1)) ELSE x
  BY DEF WithMtimeYear
<1>6. w = t + Offset(z, t) /\ u = v + Offset(z, v)
  BY ClockTyped
<1> DEFINE ox == Offset(z, x)
           ot == Offset(z, t)
           ov == Offset(z, v)
           oo == Offset(z, o - Offset(z, o))
<1>20. /\ x \in Int /\ x = o - oo /\ shown \in Int /\ shown = x + ox
       /\ ox \in Int /\ oo \in Int /\ ox - oo <= DayLen /\ oo - ox <= DayLen
  <2> HIDE DEF o
  <2>1. o \in Int
    BY <1>4, YearFound
  <2>2. o - Offset(z, o) \in Int
    BY <2>1, ClockTyped
  <2>3. x = o - oo
    BY DEF FromClock
  <2>4. x \in Int
    BY <2>1, ClockTyped
  <2> HIDE DEF x
  <2> QED BY <2>2, <2>3, <2>4, ClockTyped, OffsetsNear
<1>21. ot \in Int /\ ov \in Int /\ ov - ot <= DayLen
  BY ClockTyped, OffsetsNear
<1> HIDE DEF x, shown, ox, ot, ov, oo
<1>22. shown \in Instants /\ YearOf(shown) - 1 \in FirstYear .. FirstYear + Years - 1
  <2>1. o \in Int
    BY <1>4, YearFound
  <2> HIDE DEF o, Y
  <2>2. o - DayLen <= shown /\ shown <= o + DayLen
    BY <1>1, <1>20, <2>1
  <2> QED BY <1>3, <1>4, <1>20, <2>2, NearBy
<1>7. WithMtimeYear(z, w, v) \in Int
  <2>1. InYear(shown, YearOf(shown) - 1) \in Int
    BY <1>22, InYearTyped, YearFound
  <2> QED BY <1>5, <1>20, <2>1, ClockTyped
<1> SUFFICES ASSUME u - 363 * DayLen < w, w <= u,
                    <<MonthOf(w), DayOfMonth(w)>> # <<2, 29>>,
                    Unambiguous(z, t), Shown(z, InYear(w, YearOf(u)))
             PROVE  WithMtimeYear(z, w, v) = t
  BY <1>7
<1>8. /\ m \in 1..12 /\ d \in 1..DaysIn(y, m) /\ day = Day(y, m, d)
      /\ day \in Nat /\ tod \in 0 .. DayLen - 1 /\ w = day * DayLen + tod /\ DayOf(u) \in Nat
      /\ o \in Nat /\ DayOf(o) \in Nat
  BY <1>2, <1>4, MonthFound, YearFound, DayAndTime
<1>9. <<m, d>> # <<2, 29>>
  OBVIOUS
<1>23. FromClock(z, w) = t
  BY ReadingTold
<1>24. shown = o
  BY DEF Shown, shown, x
<1>25. w = t + ot /\ u = v + ov
  BY <1>6 DEF ot, ov
<1> HIDE DEF w, u
<1> HIDE DEF Y, y, m, d, o, day, tod
<1>10. \A k \in {Y, y, Y - 1, Y + 1, y + 1} : k \in FirstYear .. FirstYear + Years
  BY <1>1, <1>2, <1>3
<1>11. \A k \in {Y, y, Y - 1, Y + 1, y + 1} : YearStart(k) \in Nat
  BY <1>10, YearStarts
<1>12. ~ (Y < y)
  <2> SUFFICES ASSUME Y < y PROVE FALSE
    OBVIOUS
  <2>1. YearStart(Y + 1) <= YearStart(y)
    BY <1>10, YearsApart
  <2>2. DayOf(u) + 0 + 1 <= DayOf(w)
    BY <1>2, <1>8, <1>11, <2>1 DEF day
  <2>3. u + 0 * DayLen < w
    BY <1>2, <2>2, DaysApart
  <2> QED BY <1>1, <1>2, <2>3
<1>13. YearStart(Y) = YearStart(Y - 1) + DaysOfYear(Y - 1) /\ DaysOfYear(Y - 1) >= 365
       /\ DaysOfYear(Y - 1) \in Nat
  <2>1. (Y - 1) + 1 = Y
    BY <1>3
  <2>2. YearStart((Y - 1) + 1) = YearStart(Y - 1) + DaysOfYear(Y - 1)
    BY <1>3, YearStarts
  <2> QED BY <2>1, <2>2 DEF DaysOfYear
<1>14. ~ (y < Y - 1)
  <2> SUFFICES ASSUME y < Y - 1 PROVE FALSE
    OBVIOUS
  <2>1. YearStart(y + 1) <= YearStart(Y - 1)
    BY <1>10, YearsApart
  <2>2. DayOf(w) + 364 + 1 <= DayOf(u)
    BY <1>2, <1>8, <1>11, <1>13, <2>1 DEF day
  <2>3. w + 364 * DayLen < u
    BY <1>2, <2>2, DaysApart
  <2> QED BY <1>1, <1>2, <2>3
<1>15. y = Y \/ y = Y - 1
  <2>1. y \in Nat
    BY <1>1, <1>2
  <2> QED BY <1>3, <1>12, <1>14, <2>1
<1>16. CASE y = Y
  <2>1. o = w
    BY <1>4, <1>8, <1>16
  <2>2. x = t
    BY <1>23, <2>1 DEF x
  <2>3. ~ (x - v > DayLen)
    BY <1>1, <1>2, <1>21, <1>25, <2>2
  <2> QED BY <1>5, <2>2, <2>3
<1>17. CASE y = Y - 1
  <2>1. MonthStart(Y, m) \in Nat /\ DaysIn(Y, m) \in 28..31 /\ MonthStart(y, m) \in Nat
        /\ DaysIn(y, m) \in 28..31
    BY <1>8, MonthsJoin
  <2>2. d \in Nat /\ d >= 1 /\ d <= DaysIn(y, m)
    BY <1>8, <2>1
  <2>3. d \in 1..DaysIn(Y, m)
    <3>1. CASE m = 2
      <4>1. d # 29
        BY <1>9, <3>1
      <4>2. DaysIn(y, m) \in {28, 29} /\ DaysIn(Y, m) \in {28, 29}
        BY <3>1 DEF DaysIn
      <4> QED BY <2>2, <4>1, <4>2
    <3>2. CASE m # 2
      <4>1. DaysIn(y, m) = DaysIn(Y, m)
        BY <3>2 DEF DaysIn
      <4> QED BY <1>8, <4>1
    <3> QED BY <3>1, <3>2
  <2>4. MonthOf(o) = m /\ DayOfMonth(o) = d
    BY <1>2, <1>4, <1>8, <2>3, DateAlone
  <2>5. InYear(o, Y - 1) = w
    <3>1. InYear(o, Y - 1) = Day(Y - 1, m, d) * DayLen + tod
      BY <1>4, <2>4 DEF InYear
    <3> QED BY <1>8, <1>17, <3>1
  <2>6. DaysOfYear(y) + MonthStart(Y, m) >= MonthStart(y, m) + 365
    <3>1. \/ m = 1 \/ m = 2 \/ m = 3 \/ m = 4 \/ m = 5 \/ m = 6
          \/ m = 7 \/ m = 8 \/ m = 9 \/ m = 10 \/ m = 11 \/ m = 12
      BY <1>8
    <3>2. CASE m \in {1, 2}
      <4>1. MonthStart(Y, m) = MonthStart(y, m)
        BY <3>2, MonthStarts
      <4> QED BY <1>13, <1>17, <2>1, <4>1
    <3>3. CASE m \notin {1, 2}
      <4> DEFINE l(k) == IF Leap(k) THEN 1 ELSE 0
                 b == MonthStart(y, m) - l(y)
      <4>1. b \in Nat /\ MonthStart(y, m) = b + l(y) /\ MonthStart(Y, m) = b + l(Y)
        BY <3>1, <3>3, MonthStarts
      <4>2. DaysOfYear(y) = 365 + l(y) /\ l(y) \in {0, 1} /\ l(Y) \in {0, 1}
        BY DEF DaysOfYear
      <4> HIDE DEF b, l
      <4> QED BY <4>1, <4>2
    <3> QED BY <3>2, <3>3
  <2>7. DayOf(w) + 365 <= DayOf(o)
    <3>1. day = YearStart(y) + MonthStart(y, m) + d - 1
      BY <1>8 DEF Day
    <3>2. DayOf(o) = YearStart(Y) + MonthStart(Y, m) + d - 1
      BY <1>4 DEF Day
    <3> QED BY <1>11, <1>13, <1>17, <2>1, <2>2, <2>6, <3>1, <3>2 DEF day
  <2>8. o - u > 2 * DayLen
    <3> DEFINE p == day * DayLen
               q == DayOf(o) * DayLen
    <3>1. (day + 365) * DayLen <= q /\ (day + 365) * DayLen = p + 365 * DayLen
          /\ p \in Nat /\ q \in Nat
      <4>1. day + 365 \in Nat /\ day + 365 <= DayOf(o)
        BY <1>8, <2>7 DEF day
      <4> QED BY <1>1, <1>8, <4>1, Times
    <3>2. w = p + tod /\ o = q + tod
      BY <1>4, <1>8
    <3> HIDE DEF p, q
    <3> QED BY <1>1, <1>2, <1>8, <3>1, <3>2
  <2>9. x - v > DayLen
    BY <1>1, <1>2, <1>8, <1>20, <1>21, <1>24, <1>25, <2>8, OffsetsNear DEF ox, ov
  <2>10. YearOf(shown) - 1 = Y - 1
    BY <1>4, <1>24
  <2> QED BY <1>5, <1>23, <1>24, <2>5, <2>9, <2>10
<1> QED BY <1>15, <1>16, <1>17

-----------------------------------------------------------------------------
(* The state *)

\* r is one of the rules, alone.
OneRule(r) == \E i \in DOMAIN LineRules : r = <<LineRules[i]>>

\* A rule fits the head of the file.
HeadFits == \E i \in DOMAIN LineRules : AnyLineMatches(LineRules[i], HeadOf(file, LineSniffLines))

\* The time of a file is in the midst of the calendar, in every zone.
FileTime(t) ==
  /\ t \in Int
  /\ \A z \in Zones : /\ ToClock(z, t) \in Instants
                      /\ YearOf(ToClock(z, t)) \in FirstYear + 2 .. FirstYear + Years - 2

TypeInv ==
  /\ job \in {"load", "preview"}
  /\ file \in Seq(Lines)
  /\ pos \in 0 .. Len(file)
  /\ FileTime(mtime)
  /\ phase \in {"stat", "pick", "open"} =>
       pos = 0 /\ open = NoRecord /\ out = <<>> /\ lastTod = NoTime
  /\ phase = "done" => open = NoRecord /\ pos = Len(file)

\* What was detected is still so when the file is opened again.
ChoiceInv ==
  /\ phase = "pick" => job = "load"
  /\ phase = "open" /\ chosen = "line" => IF job = "load" THEN HeadFits ELSE OneRule(rule)
  /\ job = "load" => phase # "norule"
  /\ Streamed("line") => OneRule(rule)

\* A file that a job begins with, and the time of the file.
LEMMA FilesTyped ==
  ASSUME NEW x \in Files \cup Samples
  PROVE  /\ x.lines \in Seq(Lines)
         /\ x \in Files => FileTime(x.mtime)
         /\ x \in Samples => FileTime(x.now)
BY IngestAssumption DEF FileTime

LEMMA InitTyped == Init => TypeInv /\ ChoiceInv
<1> SUFFICES ASSUME Init PROVE TypeInv /\ ChoiceInv
  OBVIOUS
<1>1. /\ job \in {"load", "preview"} /\ phase = "stat" /\ chosen = "none" /\ pos = 0
      /\ open = NoRecord /\ out = <<>> /\ lastTod = NoTime
  BY DEF Init, Begin
<1>2. file \in Seq(Lines) /\ FileTime(mtime)
  BY FilesTyped DEF Init, Begin
<1>3. pos \in 0 .. Len(file)
  <2>1. Len(file) \in Nat
    BY <1>2
  <2> QED BY <1>1, <2>1
<1> QED BY <1>1, <1>2, <1>3 DEF TypeInv, ChoiceInv, Streamed

\* A file that grows keeps what it had.
LEMMA GrownFile ==
  ASSUME NEW f \in Seq(Lines), NEW line \in Lines
  PROVE  LET g == Append(f, line)
         IN  /\ g \in Seq(Lines) /\ Len(f) \in Nat /\ Len(g) = Len(f) + 1
             /\ \A k \in 1..Len(f) : g[k] = f[k]
OBVIOUS

\* No step reads past the end, and the file has the lines it may have.
LEMMA TypeKept ==
  ASSUME TypeInv, [Next]_vars
  PROVE  TypeInv'
<1> USE DEF TypeInv
<1>0. Len(file) \in Nat
  OBVIOUS
<1>1. CASE UNCHANGED vars
  BY <1>1 DEF vars
<1>2. CASE Grow
  <2>1. PICK line \in Growth : file' = Append(file, line)
    BY <1>2 DEF Grow
  <2>2. line \in Lines
    BY DEF Lines
  <2>3. file' \in Seq(Lines) /\ Len(file') = Len(file) + 1
    BY <2>1, <2>2, GrownFile
  <2>4. pos \in 0 .. Len(file')
    BY <1>0, <2>3
  <2> QED BY <1>2, <2>3, <2>4 DEF Grow, source, memory, choice
<1>3. CASE HintForFile \/ Choose \/ Preview \/ OpenLine \/ OpenOther \/ OpenXml \/ Abort
  <2>1. UNCHANGED <<job, file, pos, mtime, open, out>>
    BY <1>3 DEF HintForFile, Choose, Preview, OpenLine, OpenOther, OpenXml, Abort, source, memory, choice
  <2>2. phase' # "done" /\ (phase' \in {"stat", "pick", "open"} =>
          phase \in {"stat", "pick", "open"} /\ UNCHANGED lastTod)
    BY <1>3 DEF HintForFile, Choose, Preview, OpenLine, OpenOther, OpenXml, Abort, source, memory, choice
  <2> QED BY <2>1, <2>2
<1>4. CASE SkipLong \/ ContinueMessage \/ StampLine \/ StartBlock \/ ReadField \/ ContinueField \/ SkipToken
  <2>1. UNCHANGED <<job, file, mtime, phase>> /\ phase = "stream" /\ pos < Len(file) /\ pos' = pos + 1
    BY <1>4 DEF SkipLong, ContinueMessage, StampLine, StartBlock, ReadField, ContinueField, SkipToken,
                Advance, Reading, source, choice
  <2>2. pos' \in 0 .. Len(file)
    BY <1>0, <2>1
  <2> QED BY <2>1, <2>2
<1>5. CASE ReadRow
  <2>1. UNCHANGED <<job, file, mtime, phase>> /\ phase = "stream" /\ pos < Len(file)
        /\ pos' = IF CloseOf(file, pos + 1) > Len(file) THEN Len(file) ELSE CloseOf(file, pos + 1)
    BY <1>5 DEF ReadRow, Reading, source, choice
  <2> DEFINE ends == {j \in pos + 1 .. Len(file) :
                 Cardinality(Tags(file, pos + 1, j, "open")) = Cardinality(Tags(file, pos + 1, j, "close"))}
  <2>2. CloseOf(file, pos + 1) = IF ends = {} THEN Len(file) + 1 ELSE Min(ends)
    BY DEF CloseOf
  <2>3. ends # {} => Min(ends) \in pos + 1 .. Len(file)
    <3>1. ends \subseteq pos + 1 .. Len(file) /\ ends \subseteq Nat
      BY <1>0
    <3> HIDE DEF ends
    <3> QED BY <3>1, FirstPlace
  <2>4. pos' \in 0 .. Len(file)
    <3> HIDE DEF ends
    <3> QED BY <1>0, <2>1, <2>2, <2>3
  <2> QED BY <2>1, <2>4
<1>6. CASE ReadChunk
  <2>1. UNCHANGED <<job, file, mtime, phase>> /\ phase = "stream" /\ pos < Len(file) /\ pos' = pos + 1
    BY <1>6 DEF ReadChunk, Reading, source, choice
  <2>2. pos' \in 0 .. Len(file)
    BY <1>0, <2>1
  <2> QED BY <2>1, <2>2
<1>7. CASE EndOfFile
  <2>1. UNCHANGED <<job, file, mtime, pos>> /\ pos = Len(file) /\ open' = NoRecord
        /\ phase' \in {"failed", "done"}
    BY <1>7 DEF EndOfFile, source, choice
  <2> QED BY <2>1
<1> QED BY <1>1, <1>2, <1>3, <1>4, <1>5, <1>6, <1>7 DEF Next

\* The choice holds from the detection on.
LEMMA ChoiceKept ==
  ASSUME TypeInv, ChoiceInv, [Next]_vars
  PROVE  ChoiceInv'
<1> USE DEF ChoiceInv, Streamed
<1>1. CASE UNCHANGED vars
  BY <1>1 DEF vars, HeadFits
<1>2. CASE Grow
  <2>1. PICK line \in Growth : file' = Append(file, line)
    BY <1>2 DEF Grow
  <2>2. line \in Lines /\ file \in Seq(Lines) /\ LineSniffLines \in Nat
    BY RegistryAssumption DEF Lines, TypeInv
  <2>3. HeadFits => HeadFits'
    BY <2>1, <2>2, HeadStays DEF HeadFits
  <2>4. UNCHANGED <<job, phase, chosen, rule>>
    BY <1>2 DEF Grow, source, choice
  <2> QED BY <2>3, <2>4
<1>3. CASE HintForFile
  <2>1. job = "load" /\ UNCHANGED job /\ phase' \in {"pick", "failed"}
    BY <1>3 DEF HintForFile, source
  <2> QED BY <2>1
<1>4. CASE Choose
  <2>1. job = "load" /\ UNCHANGED <<job, file>> /\ chosen' = Pick(hint, file)
        /\ phase' \in {"refused", "direct", "open"} /\ (phase' = "open" => chosen' # "none")
    BY <1>4 DEF Choose, source
  <2>2. phase' = "open" /\ chosen' = "line" => HeadFits
    <3> SUFFICES ASSUME Pick(hint, file) = "line" PROVE HeadFits
      BY <2>1
    <3>1. Detect("line", hint, file) > 0
      BY PickExplained
    <3>2. LineDetect(file) > 0
      BY <3>1 DEF Detect
    <3> QED BY <3>2, LineDetected DEF HeadFits
  <2>3. HeadFits => HeadFits'
    BY <2>1 DEF HeadFits
  <2> QED BY <2>1, <2>2, <2>3
<1>5. CASE Preview
  <2>1. job = "preview" /\ UNCHANGED job /\ phase' = "open" /\ OneRule(rule')
    BY <1>5 DEF Preview, source, OneRule
  <2> QED BY <2>1
<1>6. CASE OpenLine
  <2> DEFINE rules == IF job = "preview" THEN rule ELSE LineRules
  <2>1. phase = "open" /\ chosen = "line" /\ UNCHANGED <<job, file, chosen>>
        /\ rule' = PickRule(rules, file) /\ phase' = IF rule' = <<>> THEN "norule" ELSE "stream"
    BY <1>6 DEF OpenLine, source
  <2>2. CASE job = "load"
    <3>1. rule' # <<>>
      BY <2>1, <2>2, RulesTyped, RulePicked DEF HeadFits
    <3>2. OneRule(rule')
      BY <2>1, <2>2, <3>1, RulesTyped, RulePicked DEF OneRule
    <3> QED BY <2>1, <2>2, <3>1, <3>2
  <2>3. CASE job # "load"
    <3>1. job = "preview" /\ OneRule(rule)
      BY <2>1, <2>3 DEF TypeInv
    <3>2. PICK i \in DOMAIN LineRules : rule = <<LineRules[i]>>
      BY <3>1 DEF OneRule
    <3>3. DOMAIN rule = {1} /\ rule[1] = LineRules[i]
      BY <3>2
    <3>4. IsFiniteSet({1})
      BY FS_Singleton
    <3>5. rule' # <<>> => \E j \in DOMAIN rule : rule' = <<rule[j]>>
      <4>1. DOMAIN rule \subseteq Nat /\ IsFiniteSet(DOMAIN rule)
            /\ \A j \in DOMAIN rule : rule[j].priority \in Nat
        BY <3>3, <3>4, RulesTyped
      <4>2. rule' = PickRule(rule, file)
        BY <2>1, <3>1
      <4> QED BY <4>1, <4>2, RulePicked
    <3>6. rule' # <<>> => OneRule(rule')
      BY <3>3, <3>5 DEF OneRule
    <3> QED BY <2>1, <2>3, <3>6
  <2> QED BY <2>2, <2>3
<1>7. CASE OpenOther \/ OpenXml
  <2>1. chosen # "line" /\ UNCHANGED <<job, chosen>> /\ phase' \notin {"pick", "norule"}
    BY <1>7 DEF OpenOther, OpenXml, source, choice
  <2> QED BY <2>1
<1>8. CASE \/ SkipLong \/ ContinueMessage \/ StampLine \/ StartBlock \/ ReadField
           \/ ContinueField \/ SkipToken \/ ReadRow \/ ReadChunk
  <2>1. UNCHANGED <<job, phase, chosen, rule>> /\ phase = "stream"
    BY <1>8 DEF SkipLong, ContinueMessage, StampLine, StartBlock, ReadField, ContinueField, SkipToken,
                ReadRow, ReadChunk, Advance, Reading, source, choice
  <2> QED BY <2>1
<1>9. CASE EndOfFile \/ Abort
  <2>1. UNCHANGED <<job, chosen, rule>> /\ phase' \in {"failed", "done"}
        /\ (phase' = "done" => phase = "stream")
    BY <1>9 DEF EndOfFile, Abort, source, choice
  <2> QED BY <2>1
<1> QED BY <1>1, <1>2, <1>3, <1>4, <1>5, <1>6, <1>7, <1>8, <1>9 DEF Next

\* The diagnosis names the adapter that a load takes, and it reads the file.
THEOREM DiagnosisHolds == Spec => []ChosenReads
<1>1. TypeInv /\ ChoiceInv /\ [Next]_vars => TypeInv' /\ ChoiceInv'
  BY TypeKept, ChoiceKept
<1>2. ChoiceInv => ChosenReads
  BY PickExplained DEF ChoiceInv, ChosenReads
<1> QED BY <1>1, <1>2, InitTyped, PTL DEF Spec

-----------------------------------------------------------------------------
(* The line adapter, step by step *)

Records == out \o Pending

LineRecords == [src : STRING, ts : Int \cup {NoTime}, body : [{"message"} -> Seq(Nat)]]

ReadInv ==
  Streamed("line") =>
    /\ out \in Seq(LineRecords) /\ open \in LineRecords \cup {NoRecord}
    /\ working \in Int /\ lastTod \in Nat \cup {NoTime}

\* The line adapter begins.
Opens ==
  /\ pos' = 0 /\ out' = <<>> /\ open' = NoRecord /\ phase' = "stream"
  /\ OneRule(rule') /\ working' = Midnight(rule'[1].tz, mtime)
  /\ lastTod' = NoTime /\ mtime' = mtime

\* The records are what they were; the file may have grown.
Stays ==
  /\ Streamed("line")
  /\ UNCHANGED <<job, rule, mtime, pos, working, lastTod>>
  /\ Records' = Records
  /\ phase' = "stream" => phase = "stream" /\ UNCHANGED <<out, open>>
  /\ phase' = "done" => open' = NoRecord /\ out' = Records
  /\ \A k \in 1..pos : file'[k] = file[k]

\* A line is read.
Reads ==
  /\ Reading("line") /\ pos' = pos + 1
  /\ UNCHANGED <<job, rule, mtime, phase, chosen, file>>

\* It is nobody's.
Passes ==
  /\ Reads /\ ~Matches(rule[1], Line) /\ (HasText(Line) => open = NoRecord)
  /\ UNCHANGED <<out, open, working, lastTod>>

\* It belongs to the record that is open.
Continues ==
  /\ Reads /\ ~Matches(rule[1], Line) /\ HasText(Line) /\ open # NoRecord
  /\ open' = Extended(open, "message") /\ UNCHANGED <<out, working, lastTod>>

\* It opens a record.
Stamps(ts) ==
  /\ Reads /\ Matches(rule[1], Line)
  /\ out' = Records /\ open' = LineRecord(ts)
  /\ ~Line.ok => ts = NoTime /\ UNCHANGED <<working, lastTod>>
  /\ Line.ok =>
       LET shown == ToClock(Zone, Line.at)
           tod == TimeOfDay(shown)
           day == IF RolledOver(tod) THEN FromClock(Zone, ToClock(Zone, working) + DayLen)
                  ELSE working
       IN CASE rule[1].form = "tod" -> ts = day + tod /\ working' = day /\ lastTod' = tod
            [] rule[1].form = "monthday" ->
                 ts = WithMtimeYear(Zone, shown, mtime) /\ UNCHANGED <<working, lastTod>>
            [] rule[1].form = "full" ->
                 ts = FromClock(Zone, shown) /\ UNCHANGED <<working, lastTod>>

\* What a rule matches has text, and is a stamp of the rule's form.
LEMMA MatchedLine ==
  ASSUME NEW r, OneRule(r), NEW line \in Lines, Matches(r[1], line)
  PROVE  /\ HasText(line) /\ line.kind # "long" /\ line.kind # "blank"
         /\ line.form = r[1].form /\ r[1].form \in Forms
         /\ line.ok \in BOOLEAN /\ line.at \in Int
         /\ r[1].tz \in Zones /\ ToClock(r[1].tz, line.at) \in Instants
<1>1. r[1].form \in Forms /\ r[1].tz \in Zones
  BY RulesTyped DEF OneRule
<1>2. line.kind = "stamp" /\ line.form = r[1].form
  BY DEF Matches
<1> QED BY <1>1, <1>2, IngestAssumption DEF HasText

\* Each step of the line adapter is one of these.
LEMMA LineSteps ==
  ASSUME TypeInv, ChoiceInv, ReadInv, [Next]_vars, Streamed("line")'
  PROVE  Opens \/ Stays \/ Passes \/ Continues \/ \E ts : Stamps(ts)
<1>0. Len(file) \in Nat /\ file \in Seq(Lines) /\ pos \in 0..Len(file)
  BY DEF TypeInv
<1>1. CASE UNCHANGED vars
  <2>1. Streamed("line") /\ Records' = Records /\ UNCHANGED <<job, rule, mtime, phase, pos, out, open, working, lastTod, file>>
    BY <1>1 DEF vars, Streamed, Records, Pending
  <2>2. phase = "done" => out = Records
    <3>1. phase = "done" => open = NoRecord
      BY DEF TypeInv
    <3>2. out \in Seq(LineRecords)
      BY <2>1 DEF ReadInv
    <3>3. out \o <<>> = out
      BY <3>2
    <3> QED BY <3>1, <3>3 DEF Records, Pending
  <2>3. phase = "done" => open = NoRecord
    BY DEF TypeInv
  <2> QED BY <2>1, <2>2, <2>3 DEF Stays
<1>2. CASE Grow
  <2>1. PICK line \in Growth : file' = Append(file, line)
    BY <1>2 DEF Grow
  <2>2. \A k \in 1..pos : file'[k] = file[k]
    BY <1>0, <2>1
  <2>3. Streamed("line") /\ Records' = Records /\ phase = "stream"
        /\ UNCHANGED <<job, rule, mtime, phase, pos, out, open, working, lastTod>>
    BY <1>2 DEF Grow, Streamed, Records, Pending, source, choice, memory
  <2> QED BY <2>2, <2>3 DEF Stays
<1>3. CASE HintForFile \/ Choose \/ Preview \/ Abort
  BY <1>3 DEF HintForFile, Choose, Preview, Abort, Streamed
<1>4. CASE OpenLine
  <2>1. Streamed("line")' /\ phase = "open" /\ chosen = "line"
    BY <1>4 DEF OpenLine
  <2>2. OneRule(rule')
    BY <2>1, ChoiceKept DEF ChoiceInv, Streamed, OneRule
  <2>3. rule' # <<>> /\ phase' = "stream"
    BY <1>4, <2>1 DEF OpenLine, Streamed
  <2> QED BY <1>4, <2>2, <2>3 DEF OpenLine, Opens, TypeInv, source
<1>5. CASE \/ OpenOther \/ OpenXml \/ StartBlock \/ ReadField \/ ContinueField \/ SkipToken
           \/ ReadRow \/ ReadChunk
  <2>1. chosen # "line" /\ UNCHANGED chosen
    BY <1>5 DEF OpenOther, OpenXml, StartBlock, ReadField, ContinueField, SkipToken, ReadRow,
                ReadChunk, Advance, Reading, choice
  <2> QED BY <2>1 DEF Streamed
<1>6. CASE EndOfFile
  <2>1. phase = "stream" /\ UNCHANGED <<job, rule, mtime, chosen, pos, working, lastTod, file>>
        /\ chosen = "line" /\ out' = out \o Pending /\ open' = NoRecord /\ phase' # "stream"
    BY <1>6 DEF EndOfFile, source, memory, choice, Streamed
  <2>2. Streamed("line")
    BY <2>1 DEF Streamed
  <2>3. out \in Seq(LineRecords) /\ open \in LineRecords \cup {NoRecord}
    BY <2>2 DEF ReadInv
  <2>4. out' \in Seq(LineRecords)
    BY <2>1, <2>3 DEF Pending
  <2>5. Records' = out'
    BY <2>1, <2>4 DEF Records, Pending
  <2> QED BY <2>1, <2>2, <2>5 DEF Stays, Records
<1>7. CASE SkipLong
  <2>1. Reads /\ Line.kind = "long"
    BY <1>7 DEF SkipLong, Reads, Reading, Advance, source, choice, Streamed
  <2>2. Streamed("line")
    BY <2>1 DEF Streamed, Reads, Reading
  <2>3. out' = out /\ UNCHANGED <<open, working, lastTod>>
    <3>1. out' = out \o <<>> /\ UNCHANGED <<open, working, lastTod>>
      BY <1>7 DEF SkipLong, Advance
    <3>2. out \in Seq(LineRecords)
      BY <2>2 DEF ReadInv
    <3> QED BY <3>1, <3>2
  <2>4. ~Matches(rule[1], Line) /\ ~HasText(Line)
    BY <2>1 DEF Matches, HasText
  <2> QED BY <2>1, <2>3, <2>4 DEF Passes
<1>8. CASE ContinueMessage
  <2>1. Reads /\ Line.kind # "long" /\ ~Matches(rule[1], Line)
        /\ open' = (IF open # NoRecord /\ Line.kind # "blank" THEN Extended(open, "message") ELSE open)
        /\ out' = out \o <<>> /\ UNCHANGED <<working, lastTod>>
    BY <1>8 DEF ContinueMessage, Reads, Advance, source, choice
  <2>2. out \in Seq(LineRecords)
    BY <2>1 DEF Streamed, Reads, Reading, ReadInv
  <2>3. out' = out
    BY <2>1, <2>2
  <2>4. HasText(Line) <=> Line.kind # "blank"
    BY <2>1 DEF HasText
  <2>5. CASE HasText(Line) /\ open # NoRecord
    BY <2>1, <2>3, <2>4, <2>5 DEF Continues
  <2>6. CASE ~ (HasText(Line) /\ open # NoRecord)
    BY <2>1, <2>3, <2>4, <2>6 DEF Passes
  <2> QED BY <2>5, <2>6
<1>9. CASE StampLine
  <2> DEFINE shown == ToClock(Zone, Line.at)
             tod == TimeOfDay(shown)
             day == IF RolledOver(tod) THEN FromClock(Zone, ToClock(Zone, working) + DayLen)
                    ELSE working
             other == CASE ~Line.ok -> NoTime
                        [] Line.ok /\ rule[1].form = "monthday" -> WithMtimeYear(Zone, shown, mtime)
                        [] Line.ok /\ rule[1].form = "full" -> FromClock(Zone, shown)
  <2>1. Reads /\ Matches(rule[1], Line)
    BY <1>9 DEF StampLine, Reads, Advance, source, choice
  <2>2. Line \in Lines /\ OneRule(rule)
    BY <1>0, <2>1 DEF Reads, Reading, Line, ChoiceInv, Streamed
  <2>3. rule[1].form \in Forms /\ Line.ok \in BOOLEAN
    BY <2>1, <2>2, MatchedLine
  <2>4. \/ /\ Line.ok /\ rule[1].form = "tod" /\ working' = day /\ lastTod' = tod
           /\ out' = Records /\ open' = LineRecord(day + tod)
        \/ /\ ~(Line.ok /\ rule[1].form = "tod") /\ UNCHANGED <<working, lastTod>>
           /\ out' = Records /\ open' = LineRecord(other)
    BY <1>9 DEF StampLine, Advance, Records
  <2>5. CASE Line.ok /\ rule[1].form = "tod"
    <3>1. Stamps(day + tod)
      BY <2>1, <2>4, <2>5 DEF Stamps
    <3> QED BY <3>1
  <2>6. CASE ~(Line.ok /\ rule[1].form = "tod")
    <3>1. Stamps(other)
      BY <2>1, <2>3, <2>4, <2>6 DEF Stamps, Forms
    <3> QED BY <3>1
  <2> QED BY <2>5, <2>6
<1> QED BY <1>1, <1>2, <1>3, <1>4, <1>5, <1>6, <1>7, <1>8, <1>9 DEF Next

\* What the records are made of.
LEMMA RecordsTyped ==
  ASSUME ReadInv, Streamed("line")
  PROVE  /\ Records \in Seq(LineRecords) /\ out \in Seq(LineRecords)
         /\ open = NoRecord => Records = out
         /\ open # NoRecord => open \in LineRecords /\ Records = Append(out, open)
BY DEF ReadInv, Records, Pending

\* A record with a line more.
LEMMA ExtendedTyped ==
  ASSUME NEW record \in LineRecords, pos \in Nat
  PROVE  LET longer == Extended(record, "message")
         IN  /\ longer \in LineRecords /\ longer.ts = record.ts
             /\ longer.body["message"] = Append(record.body["message"], pos + 1)
<1>1. record.body \in [{"message"} -> Seq(Nat)] /\ pos + 1 \in Nat
  BY DEF LineRecords
<1>2. Append(record.body["message"], pos + 1) \in Seq(Nat)
  BY <1>1
<1>3. Extended(record, "message").body = [record.body EXCEPT !["message"] = Append(@, pos + 1)]
  BY DEF Extended, LineRecords
<1> QED BY <1>1, <1>2, <1>3 DEF Extended, LineRecords

\* A record that a line opens.
LEMMA LineRecordTyped ==
  ASSUME OneRule(rule), pos \in Nat, NEW ts \in Int \cup {NoTime}
  PROVE  /\ LineRecord(ts) \in LineRecords /\ LineRecord(ts).ts = ts
         /\ LineRecord(ts).body["message"] = <<pos + 1>>
<1>1. rule[1].name \in STRING
  BY RulesTyped DEF OneRule
<1>2. <<pos + 1>> \in Seq(Nat)
  OBVIOUS
<1> QED BY <1>1, <1>2 DEF LineRecord, LineRecords

\* No record is a record.
LEMMA NoRecordApart == NoRecord \notin LineRecords
<1>1. DOMAIN NoFields = {}
  BY DEF NoFields
<1>2. NoRecord.body = NoFields
  BY DEF NoRecord
<1>3. \A record \in LineRecords : DOMAIN record.body = {"message"}
  BY DEF LineRecords
<1> QED BY <1>1, <1>2, <1>3

\* What a step needs to know of the line it reads.
LEMMA LineRead ==
  ASSUME TypeInv, ChoiceInv, Reads
  PROVE  /\ pos \in Nat /\ Line \in Lines /\ OneRule(rule) /\ Streamed("line")
         /\ Line = file[pos + 1] /\ phase = "stream"
         /\ Matches(rule[1], Line) =>
              /\ HasText(Line) /\ Line.form = rule[1].form
              /\ Line.ok \in BOOLEAN /\ Line.at \in Int
              /\ Zone \in Zones /\ ToClock(Zone, Line.at) \in Instants
<1>1. pos \in Nat /\ Line \in Lines /\ Line = file[pos + 1]
  BY DEF TypeInv, Reads, Reading, Line
<1>2. Streamed("line") /\ phase = "stream"
  BY DEF Reads, Reading, Streamed
<1>3. OneRule(rule)
  BY <1>2 DEF ChoiceInv
<1> QED BY <1>1, <1>2, <1>3, MatchedLine DEF Zone

\* The time a record is given.
LEMMA TimeGiven ==
  ASSUME TypeInv, ChoiceInv, ReadInv, NEW ts, Stamps(ts)
  PROVE  /\ ts \in Int \cup {NoTime} /\ (ts = NoTime <=> ~Line.ok)
         /\ working' \in Int /\ lastTod' \in Nat \cup {NoTime}
<1> DEFINE shown == ToClock(Zone, Line.at)
           next == FromClock(Zone, ToClock(Zone, working) + DayLen)
<1>1. /\ Line.ok \in BOOLEAN /\ Line.at \in Int /\ rule[1].form \in Forms
      /\ working \in Int /\ lastTod \in Nat \cup {NoTime} /\ DayLen \in Nat
      /\ Zone \in Zones /\ shown \in Instants
  BY LineRead, MatchedLine, CalendarAssumption DEF Stamps, ReadInv
<1>2. FileTime(mtime)
  BY DEF TypeInv
<1>3. /\ TimeOfDay(shown) \in Nat /\ FromClock(Zone, shown) \in Int
      /\ WithMtimeYear(Zone, shown, mtime) \in Int
  <2>1. WithMtimeYear(Zone, shown, mtime) \in Int
    BY <1>1, <1>2, YearBorrowed DEF FileTime
  <2> HIDE DEF shown
  <2> QED BY <1>1, <2>1, YearFound, DayAndTime, ClockTyped
<1>9. next \in Int
  <2>1. ToClock(Zone, working) + DayLen \in Int
    BY <1>1, ClockTyped
  <2> QED BY <1>1, <2>1, ClockTyped
<1> HIDE DEF next
<1>4. \A n \in Int : n # NoTime
  BY RegistryAssumption
<1>5. CASE ~Line.ok
  BY <1>1, <1>5 DEF Stamps
<1>6. CASE Line.ok /\ rule[1].form = "tod"
  BY <1>1, <1>3, <1>4, <1>6, <1>9 DEF Stamps, next
<1>7. CASE Line.ok /\ rule[1].form = "monthday"
  BY <1>1, <1>3, <1>4, <1>7 DEF Stamps
<1>8. CASE Line.ok /\ rule[1].form = "full"
  BY <1>1, <1>3, <1>4, <1>8 DEF Stamps
<1> QED BY <1>1, <1>5, <1>6, <1>7, <1>8 DEF Forms

\* What the steps do to the records.
LEMMA RecordSteps ==
  ASSUME TypeInv, ChoiceInv, ReadInv
  PROVE  /\ Opens => Records' = <<>>
         /\ Passes => Records' = Records
         /\ Continues => LET longer == Extended(open, "message")
                         IN  /\ Records = Append(out, open) /\ open \in LineRecords
                             /\ Records' = Append(out, longer) /\ longer \in LineRecords
                             /\ longer # NoRecord
         /\ \A ts : Stamps(ts) => /\ Records' = Append(Records, LineRecord(ts))
                                  /\ LineRecord(ts) \in LineRecords /\ LineRecord(ts) # NoRecord
<1>1. Opens => Records' = <<>>
  BY DEF Opens, Records, Pending
<1>2. Passes => Records' = Records
  BY DEF Passes, Records, Pending
<1>3. ASSUME Continues
      PROVE  LET longer == Extended(open, "message")
             IN  /\ Records = Append(out, open) /\ open \in LineRecords
                 /\ Records' = Append(out, longer) /\ longer \in LineRecords
                 /\ longer # NoRecord
  <2>1. /\ open \in LineRecords /\ Records = Append(out, open) /\ out \in Seq(LineRecords)
        /\ pos \in Nat
    BY <1>3, LineRead, RecordsTyped DEF Continues
  <2> DEFINE longer == Extended(open, "message")
  <2>2. longer \in LineRecords /\ longer # NoRecord
    BY <2>1, ExtendedTyped, NoRecordApart
  <2>3. open' = longer /\ out' = out
    BY <1>3 DEF Continues
  <2> HIDE DEF longer
  <2>4. Records' = Append(out, longer)
    BY <2>1, <2>2, <2>3 DEF Records, Pending
  <2> QED BY <2>1, <2>2, <2>4 DEF longer
<1>4. ASSUME NEW ts, Stamps(ts)
      PROVE  /\ Records' = Append(Records, LineRecord(ts))
             /\ LineRecord(ts) \in LineRecords /\ LineRecord(ts) # NoRecord
  <2>1. Records \in Seq(LineRecords) /\ OneRule(rule) /\ pos \in Nat
    BY <1>4, LineRead, RecordsTyped DEF Stamps
  <2>2. LineRecord(ts) \in LineRecords /\ LineRecord(ts) # NoRecord
    BY <1>4, <2>1, TimeGiven, LineRecordTyped, NoRecordApart
  <2>3. open' = LineRecord(ts) /\ out' = Records
    BY <1>4 DEF Stamps
  <2>4. Records' = out' \o <<open'>>
    BY <2>2, <2>3 DEF Records, Pending
  <2> QED BY <2>1, <2>2, <2>3, <2>4
<1> QED BY <1>1, <1>2, <1>3, <1>4

\* The records are records.
LEMMA ReadKept ==
  ASSUME TypeInv, ChoiceInv, ReadInv, [Next]_vars
  PROVE  ReadInv'
<1> SUFFICES ASSUME Streamed("line")'
             PROVE  /\ out' \in Seq(LineRecords) /\ open' \in LineRecords \cup {NoRecord}
                    /\ working' \in Int /\ lastTod' \in Nat \cup {NoTime}
  BY DEF ReadInv
<1>1. CASE Opens
  <2>1. rule'[1].tz \in Zones
    BY <1>1, RulesTyped DEF Opens, OneRule
  <2> DEFINE w == ToClock(rule'[1].tz, mtime)
  <2>2. w \in Instants
    BY <2>1 DEF TypeInv, FileTime
  <2>3. Midnight(rule'[1].tz, mtime) = FromClock(rule'[1].tz, DayOf(w) * DayLen)
    BY DEF Midnight
  <2> HIDE DEF w
  <2>4. DayOf(w) * DayLen \in Nat
    BY <2>2, YearFound, DayAndTime, CalendarAssumption, Times
  <2>5. Midnight(rule'[1].tz, mtime) \in Int
    BY <2>1, <2>3, <2>4, ClockTyped
  <2> QED BY <1>1, <2>5 DEF Opens
<1>2. CASE Stays
  <2>1. phase' \in {"stream", "done"}
    BY DEF Streamed
  <2> QED BY <1>2, <2>1, RecordsTyped DEF Stays, ReadInv
<1>3. CASE Passes
  BY <1>3, LineRead DEF Passes, ReadInv
<1>4. CASE Continues
  BY <1>4, LineRead, RecordSteps DEF Continues, ReadInv
<1>5. CASE \E ts : Stamps(ts)
  <2>1. PICK ts : Stamps(ts)
    BY <1>5
  <2> QED BY <2>1, LineRead, RecordsTyped, RecordSteps, TimeGiven DEF Stamps
<1> QED BY <1>1, <1>2, <1>3, <1>4, <1>5, LineSteps

-----------------------------------------------------------------------------
(* Lines and messages *)

Matched == {k \in 1 .. pos : Matches(rule[1], file[k])}

Timed == {k \in 1 .. pos : Matches(rule[1], file[k]) /\ file[k].ok}

Refused == {k \in 1 .. pos : Matches(rule[1], file[k]) /\ ~file[k].ok}

Had == {k \in 1 .. pos : HasText(file[k]) /\ \E s \in 1 .. k : Matches(rule[1], file[s])}

\* What has been read is finite, and before the next line.
LEMMA SetsTyped ==
  ASSUME TypeInv, NEW S \in SUBSET (1 .. pos)
  PROVE  /\ IsFiniteSet(S) /\ S \subseteq Nat /\ pos + 1 \in Nat
         /\ \A x \in S : x < pos + 1
<1>1. pos \in Nat
  BY DEF TypeInv
<1>2. IsFiniteSet(1 .. pos)
  BY <1>1, FS_Interval
<1>3. IsFiniteSet(S)
  BY <1>2, FS_Subset
<1>4. S \subseteq Nat /\ pos + 1 \in Nat /\ \A x \in S : x < pos + 1
  BY <1>1
<1> QED BY <1>3, <1>4

\* Nothing has been read.
LEMMA SetsOpen ==
  ASSUME Opens
  PROVE  Matched' = {} /\ Timed' = {} /\ Refused' = {} /\ Had' = {}
<1>1. 1 .. pos' = {}
  BY DEF Opens
<1> QED BY <1>1 DEF Matched, Timed, Refused, Had

\* Nothing more has been read.
LEMMA SetsStay ==
  ASSUME TypeInv, Stays
  PROVE  Matched' = Matched /\ Timed' = Timed /\ Refused' = Refused /\ Had' = Had
<1>1. pos \in Nat /\ pos' = pos /\ rule' = rule /\ \A k \in 1 .. pos : file'[k] = file[k]
  BY DEF TypeInv, Stays
<1>2. Matched' = Matched /\ Timed' = Timed /\ Refused' = Refused
  BY <1>1 DEF Matched, Timed, Refused
<1>3. \A k \in 1 .. pos : 1 .. k \subseteq 1 .. pos
  BY <1>1
<1>4. Had' = Had
  BY <1>1, <1>3 DEF Had
<1> QED BY <1>2, <1>4

\* One line more has been read.
LEMMA SetsRead ==
  ASSUME TypeInv, ChoiceInv, Reads
  PROVE  /\ ~Matches(rule[1], Line) =>
               Matched' = Matched /\ Timed' = Timed /\ Refused' = Refused
         /\ Matches(rule[1], Line) =>
               /\ Matched' = Matched \cup {pos + 1}
               /\ Line.ok => Timed' = Timed \cup {pos + 1} /\ Refused' = Refused
               /\ ~Line.ok => Timed' = Timed /\ Refused' = Refused \cup {pos + 1}
         /\ Had' = IF HasText(Line) /\ (Matched # {} \/ Matches(rule[1], Line))
                   THEN Had \cup {pos + 1} ELSE Had
<1>1. pos \in Nat /\ Line = file[pos + 1]
  BY LineRead
<1>2. pos' = pos + 1 /\ rule' = rule /\ file' = file
  BY DEF Reads
<1>3. 1 .. pos' = (1 .. pos) \cup {pos + 1} /\ pos + 1 \notin 1 .. pos
  BY <1>1, <1>2
<1>4. Matched' = {k \in (1 .. pos) \cup {pos + 1} : Matches(rule[1], file[k])}
  BY <1>2, <1>3 DEF Matched
<1>5. Timed' = {k \in (1 .. pos) \cup {pos + 1} : Matches(rule[1], file[k]) /\ file[k].ok}
  BY <1>2, <1>3 DEF Timed
<1>6. Refused' = {k \in (1 .. pos) \cup {pos + 1} : Matches(rule[1], file[k]) /\ ~file[k].ok}
  BY <1>2, <1>3 DEF Refused
<1>7. Had' = {k \in (1 .. pos) \cup {pos + 1} :
                HasText(file[k]) /\ \E s \in 1 .. k : Matches(rule[1], file[s])}
  BY <1>2, <1>3 DEF Had
<1>8. (\E s \in 1 .. pos + 1 : Matches(rule[1], file[s])) <=> Matched # {} \/ Matches(rule[1], Line)
  <2>1. 1 .. pos + 1 = (1 .. pos) \cup {pos + 1}
    BY <1>2, <1>3
  <2> QED BY <1>1, <2>1 DEF Matched
<1>9. Had' = IF HasText(Line) /\ (Matched # {} \/ Matches(rule[1], Line))
             THEN Had \cup {pos + 1} ELSE Had
  BY <1>1, <1>7, <1>8 DEF Had
<1>10. ~Matches(rule[1], Line) => Matched' = Matched /\ Timed' = Timed /\ Refused' = Refused
  BY <1>1, <1>4, <1>5, <1>6 DEF Matched, Timed, Refused
<1>11. Matches(rule[1], Line) => Matched' = Matched \cup {pos + 1}
  BY <1>1, <1>4 DEF Matched
<1>12. Matches(rule[1], Line) /\ Line.ok => Timed' = Timed \cup {pos + 1} /\ Refused' = Refused
  BY <1>1, <1>5, <1>6 DEF Timed, Refused
<1>13. Matches(rule[1], Line) /\ ~Line.ok => Timed' = Timed /\ Refused' = Refused \cup {pos + 1}
  BY <1>1, <1>5, <1>6 DEF Timed, Refused
<1> QED BY <1>9, <1>10, <1>11, <1>12, <1>13

\* The messages of records.
Texts(s) == [i \in DOMAIN s |-> s[i].body["message"]]

\* A record more, a message more.
LEMMA TextsAppend ==
  ASSUME NEW s \in Seq(LineRecords), NEW record \in LineRecords
  PROVE  /\ Texts(s) \in Seq(Seq(Nat)) /\ record.body["message"] \in Seq(Nat)
         /\ Texts(Append(s, record)) = Append(Texts(s), record.body["message"])
<1>1. \A x \in LineRecords : x.body["message"] \in Seq(Nat)
  BY DEF LineRecords
<1> DEFINE T == LineRecords
           U == Seq(Nat)
<1>2. s \in Seq(T) /\ record \in T /\ \A x \in T : x.body["message"] \in U
  BY <1>1
<1> HIDE DEF T, U
<1>3. Texts(s) \in Seq(U) /\ record.body["message"] \in U
  BY <1>2 DEF Texts
<1>4. Texts(Append(s, record)) = Append(Texts(s), record.body["message"])
  BY <1>2, <1>3 DEF Texts
<1> QED BY <1>3, <1>4 DEF U

\* The places of a sequence that has one element more.
LEMMA PlacesAppend ==
  ASSUME NEW T, NEW s \in Seq(T), NEW x \in T
  PROVE  LET t == Append(s, x)
         IN  /\ DOMAIN s = 1..Len(s) /\ Len(s) \in Nat /\ Len(t) = Len(s) + 1
             /\ DOMAIN t = DOMAIN s \cup {Len(s) + 1} /\ Len(s) + 1 \notin DOMAIN s
             /\ \A i \in DOMAIN s : t[i] = s[i]
             /\ t[Len(s) + 1] = x
OBVIOUS

\* A sequence with one more element, by its places.
LEMMA AppendMade ==
  ASSUME NEW T, NEW s \in Seq(T), NEW x \in T
  PROVE  Append(s, x) = [i \in 1..Len(s) + 1 |-> IF i # Len(s) + 1 THEN s[i] ELSE x]
<1> DEFINE t == [i \in 1..Len(s) + 1 |-> IF i # Len(s) + 1 THEN s[i] ELSE x]
<1>1. Len(s) \in Nat /\ DOMAIN s = 1..Len(s) /\ \A i \in 1..Len(s) : s[i] \in T
  OBVIOUS
<1>2. t \in [1..Len(s) + 1 -> T]
  BY <1>1
<1>3. t \in Seq(T) /\ Len(t) = Len(s) + 1
  BY <1>1, <1>2
<1>4. Append(s, x) \in Seq(T) /\ Len(Append(s, x)) = Len(s) + 1
      /\ \A i \in 1..Len(s) + 1 : Append(s, x)[i] = t[i]
  BY <1>1
<1> HIDE DEF t
<1>5. Append(s, x) = t
  BY <1>1, <1>3, <1>4, SeqEqual
<1> QED BY <1>5 DEF t

\* The record begins with a line that matches, and has no other.
Whole(record, r, f, p) ==
  LET m == record.body["message"] IN
  /\ m # <<>>
  /\ \A j \in DOMAIN m : m[j] \in 1 .. p /\ (Matches(r, f[m[j]]) <=> j = 1)

TextInv ==
  Streamed("line") =>
    /\ FlattenSeq(Texts(Records)) = InOrder(Had)
    /\ \A i \in DOMAIN Records : Whole(Records[i], rule[1], file, pos)
    /\ phase = "stream" => (open = NoRecord <=> Matched = {})

\* A record stays whole while lines are added after it.
LEMMA WholeStays ==
  ASSUME NEW record, NEW r, NEW f, NEW p \in Nat, NEW g, NEW q \in Nat, p <= q,
         \A k \in 1..p : g[k] = f[k], Whole(record, r, f, p)
  PROVE  Whole(record, r, g, q)
BY DEF Whole

LEMMA TextKept ==
  ASSUME TypeInv, ChoiceInv, ReadInv, TextInv, [Next]_vars
  PROVE  TextInv'
<1> SUFFICES ASSUME Streamed("line")'
             PROVE  /\ FlattenSeq(Texts(Records')) = InOrder(Had')
                    /\ \A i \in DOMAIN Records' : Whole(Records'[i], rule'[1], file', pos')
                    /\ phase' = "stream" => (open' = NoRecord <=> Matched' = {})
  BY DEF TextInv, Texts, Whole
<1>0. pos \in Nat
  BY DEF TypeInv
<1>1. CASE Opens
  <2>1. Records' = <<>> /\ Had' = {} /\ Matched' = {} /\ open' = NoRecord
    BY <1>1, RecordSteps, SetsOpen DEF Opens
  <2>2. InOrder({}) = <<>>
    <3>1. Cardinality({}) = 0
      BY FS_EmptySet
    <3> QED BY <3>1 DEF InOrder
  <2>3. Texts(<<>>) = <<>> /\ FlattenSeq(<<>>) = <<>> /\ DOMAIN <<>> = {}
    BY DEF Texts, FlattenSeq
  <2> QED BY <2>1, <2>2, <2>3
<1>2. CASE Stays
  <2>1. /\ Streamed("line") /\ Records' = Records /\ pos' = pos /\ rule' = rule
        /\ phase' = "stream" => phase = "stream" /\ open' = open
        /\ \A k \in 1..pos : file'[k] = file[k]
    BY <1>2 DEF Stays
  <2>2. Had' = Had /\ Matched' = Matched
    BY <1>2, SetsStay
  <2>3. \A i \in DOMAIN Records : Whole(Records[i], rule[1], file', pos)
    BY <1>0, <2>1, WholeStays DEF TextInv
  <2> QED BY <2>1, <2>2, <2>3 DEF TextInv
<1>3. ASSUME Reads
      PROVE  /\ FlattenSeq(Texts(Records)) = InOrder(Had) /\ (open = NoRecord <=> Matched = {})
             /\ \A i \in DOMAIN Records : Whole(Records[i], rule[1], file, pos)
             /\ \A i \in DOMAIN Records : Whole(Records[i], rule'[1], file', pos')
             /\ pos' = pos + 1 /\ rule' = rule /\ file' = file
             /\ Records \in Seq(LineRecords) /\ out \in Seq(LineRecords)
             /\ Had \in SUBSET (1..pos)
             /\ IsFiniteSet(Had) /\ InOrder(Had \cup {pos + 1}) = Append(InOrder(Had), pos + 1)
  <2>1. /\ FlattenSeq(Texts(Records)) = InOrder(Had) /\ (open = NoRecord <=> Matched = {})
        /\ \A i \in DOMAIN Records : Whole(Records[i], rule[1], file, pos)
    BY <1>3, LineRead DEF TextInv
  <2>2. pos' = pos + 1 /\ rule' = rule /\ file' = file
    BY <1>3 DEF Reads
  <2>3. \A i \in DOMAIN Records : Whole(Records[i], rule'[1], file', pos')
    BY <1>0, <2>1, <2>2, WholeStays
  <2>4. Records \in Seq(LineRecords) /\ out \in Seq(LineRecords)
    BY <1>3, LineRead, RecordsTyped
  <2>5. Had \in SUBSET (1..pos)
    BY DEF Had
  <2>6. IsFiniteSet(Had) /\ InOrder(Had \cup {pos + 1}) = Append(InOrder(Had), pos + 1)
    BY <2>5, SetsTyped, InOrderLast
  <2> QED BY <2>1, <2>2, <2>3, <2>4, <2>5, <2>6
<1>4. CASE Passes
  <2>1. Reads /\ ~Matches(rule[1], Line) /\ (HasText(Line) => open = NoRecord) /\ open' = open
    BY <1>4 DEF Passes
  <2>2. Had' = Had /\ Matched' = Matched
    BY <1>3, <2>1, SetsRead
  <2>3. Records' = Records
    BY <1>4, RecordSteps
  <2> QED BY <1>3, <2>1, <2>2, <2>3
<1>5. CASE Continues
  <2> DEFINE longer == Extended(open, "message")
             m == open.body["message"]
             n == longer.body["message"]
  <2>1. Reads /\ ~Matches(rule[1], Line) /\ HasText(Line) /\ open # NoRecord /\ open' = longer
    BY <1>5 DEF Continues
  <2>2. /\ Records = Append(out, open) /\ open \in LineRecords
        /\ Records' = Append(out, longer) /\ longer \in LineRecords /\ longer # NoRecord
    BY <1>5, RecordSteps
  <2>3. Had' = Had \cup {pos + 1} /\ Matched' = Matched
    BY <1>3, <2>1, SetsRead
  <2>4. n = Append(m, pos + 1) /\ m \in Seq(Nat)
    BY <1>0, <2>2, ExtendedTyped, TextsAppend, <1>3, <2>1
  <2>5. FlattenSeq(Texts(Records)) = FlattenSeq(Texts(out)) \o m
        /\ FlattenSeq(Texts(Records')) = FlattenSeq(Texts(out)) \o n
        /\ FlattenSeq(Texts(out)) \in Seq(Nat)
    BY <1>3, <2>1, <2>2, TextsAppend, FlattenAppend
  <2>6. FlattenSeq(Texts(Records')) = Append(FlattenSeq(Texts(Records)), pos + 1)
    <3> DEFINE a == FlattenSeq(Texts(out))
    <3>1. a \in Seq(Nat) /\ m \in Seq(Nat) /\ pos + 1 \in Nat
      BY <1>0, <2>4, <2>5
    <3> HIDE DEF a, m
    <3>2. a \o Append(m, pos + 1) = Append(a \o m, pos + 1)
      BY <3>1
    <3> QED BY <2>4, <2>5, <3>2 DEF a, m
  <2>7. FlattenSeq(Texts(Records')) = InOrder(Had')
    BY <1>3, <2>1, <2>3, <2>6
  <2>8. Whole(open, rule[1], file, pos)
    <3>1. Len(out) + 1 \in DOMAIN Records /\ Records[Len(out) + 1] = open
      BY <1>3, <2>1, <2>2, PlacesAppend
    <3> QED BY <1>3, <2>1, <3>1
  <2>9. Whole(longer, rule[1], file, pos + 1)
    <3>1. /\ DOMAIN m = 1..Len(m) /\ Len(m) \in Nat /\ Len(n) = Len(m) + 1
          /\ DOMAIN n = DOMAIN m \cup {Len(m) + 1}
          /\ \A i \in DOMAIN m : n[i] = m[i]
          /\ n[Len(m) + 1] = pos + 1
      <4> HIDE DEF m, n
      <4>1. pos + 1 \in Nat
        BY <1>0
      <4> QED BY <2>4, <4>1, PlacesAppend
    <3>2. m # <<>> /\ \A j \in DOMAIN m : m[j] \in 1..pos /\ (Matches(rule[1], file[m[j]]) <=> j = 1)
      BY <2>8 DEF Whole
    <3>3. ~Matches(rule[1], file[pos + 1])
      BY <2>1, LineRead
    <3> HIDE DEF m, n
    <3>4. Len(m) # 0 /\ n # <<>>
      BY <2>4, <3>1, <3>2
    <3>5. ASSUME NEW j \in DOMAIN n
          PROVE  n[j] \in 1..pos + 1 /\ (Matches(rule[1], file[n[j]]) <=> j = 1)
      <4>1. CASE j \in DOMAIN m
        BY <1>0, <3>1, <3>2, <4>1
      <4>2. CASE j = Len(m) + 1
        <5>1. j # 1 /\ n[j] = pos + 1
          BY <3>1, <3>4, <4>2
        <5> QED BY <1>0, <3>3, <5>1
      <4> QED BY <3>1, <4>1, <4>2
    <3> QED BY <3>4, <3>5 DEF Whole, n
  <2>10. \A i \in DOMAIN Records' : Whole(Records'[i], rule'[1], file', pos')
    <3> SUFFICES ASSUME NEW i \in DOMAIN Records'
                 PROVE  Whole(Records'[i], rule'[1], file', pos')
      OBVIOUS
    <3> HIDE DEF longer
    <3>1. CASE i \in DOMAIN out
      <4>1. i \in DOMAIN Records /\ Records[i] = out[i] /\ Records'[i] = out[i]
        BY <1>3, <2>1, <2>2, <3>1, PlacesAppend
      <4> QED BY <1>3, <2>1, <4>1
    <3>2. CASE i = Len(out) + 1
      <4>1. Records'[i] = longer
        BY <1>3, <2>1, <2>2, <3>2, PlacesAppend
      <4> QED BY <1>3, <2>1, <2>9, <4>1
    <3>3. i \in DOMAIN out \/ i = Len(out) + 1
      BY <1>3, <2>1, <2>2, PlacesAppend
    <3> QED BY <3>1, <3>2, <3>3
  <2>11. open' # NoRecord /\ Matched' # {}
    BY <1>3, <2>1, <2>2, <2>3
  <2> QED BY <2>7, <2>10, <2>11
<1>6. CASE \E ts : Stamps(ts)
  <2>1. PICK ts : Stamps(ts)
    BY <1>6
  <2> DEFINE new == LineRecord(ts)
  <2>2. Reads /\ Matches(rule[1], Line) /\ open' = new
    BY <2>1 DEF Stamps
  <2>3. Records' = Append(Records, new) /\ new \in LineRecords /\ new # NoRecord
    BY <2>1, RecordSteps
  <2>4. new.body["message"] = <<pos + 1>>
    BY DEF LineRecord
  <2>5. HasText(Line) /\ Had' = Had \cup {pos + 1} /\ Matched' = Matched \cup {pos + 1}
    BY <2>2, SetsRead, LineRead
  <2>6. Line = file[pos + 1]
    BY DEF Line
  <2> HIDE DEF new
  <2>7. FlattenSeq(Texts(Records')) = InOrder(Had')
    <3>1. FlattenSeq(Texts(Records')) = FlattenSeq(Texts(Records)) \o <<pos + 1>>
          /\ FlattenSeq(Texts(Records)) \in Seq(Nat)
      BY <1>3, <2>2, <2>3, <2>4, TextsAppend, FlattenAppend
    <3> DEFINE a == FlattenSeq(Texts(Records))
    <3>2. a \in Seq(Nat) /\ pos + 1 \in Nat
      BY <1>0, <3>1
    <3> HIDE DEF a
    <3>3. a \o <<pos + 1>> = Append(a, pos + 1)
      BY <3>2
    <3> QED BY <1>3, <2>2, <2>5, <3>1, <3>3 DEF a
  <2>8. Whole(new, rule[1], file, pos + 1)
    <3>1. DOMAIN <<pos + 1>> = {1} /\ <<pos + 1>> # <<>> /\ <<pos + 1>>[1] = pos + 1
      OBVIOUS
    <3>2. pos + 1 \in 1..pos + 1
      BY <1>0
    <3> QED BY <2>2, <2>4, <2>6, <3>1, <3>2 DEF Whole
  <2>9. \A i \in DOMAIN Records' : Whole(Records'[i], rule'[1], file', pos')
    <3> SUFFICES ASSUME NEW i \in DOMAIN Records'
                 PROVE  Whole(Records'[i], rule'[1], file', pos')
      OBVIOUS
    <3>1. CASE i \in DOMAIN Records
      <4>1. Records'[i] = Records[i]
        BY <1>3, <2>2, <2>3, <3>1, PlacesAppend
      <4> QED BY <1>3, <2>2, <3>1, <4>1
    <3>2. CASE i = Len(Records) + 1
      <4>1. Records'[i] = new
        BY <1>3, <2>2, <2>3, <3>2, PlacesAppend
      <4> QED BY <1>3, <2>2, <2>8, <4>1
    <3>3. i \in DOMAIN Records \/ i = Len(Records) + 1
      BY <1>3, <2>2, <2>3, PlacesAppend
    <3> QED BY <3>1, <3>2, <3>3
  <2> QED BY <2>2, <2>3, <2>5, <2>7, <2>9
<1> QED BY <1>1, <1>2, <1>4, <1>5, <1>6, LineSteps

\* The line adapter loses, repeats and moves no line.
THEOREM NoLineLost == Spec => []LinesKept
<1> DEFINE IInv == TypeInv /\ ChoiceInv /\ ReadInv /\ TextInv
<1>1. Init => IInv
  BY InitTyped DEF Init, Begin, ReadInv, TextInv, Streamed
<1>2. IInv /\ [Next]_vars => IInv'
  BY TypeKept, ChoiceKept, ReadKept, TextKept
<1>3. IInv => LinesKept
  <2> SUFFICES ASSUME IInv, Streamed("line") PROVE LinesKept
    BY DEF LinesKept
  <2> DEFINE records == out \o Pending
             messages == [i \in DOMAIN records |-> records[i].body["message"]]
  <2>1. messages = Texts(Records)
    BY DEF Texts, Records
  <2>2. FlattenSeq(messages)
          = InOrder({k \in 1 .. pos : HasText(file[k])
                                      /\ \E s \in 1 .. k : Matches(rule[1], file[s])})
    BY <2>1 DEF TextInv, Had
  <2>3. \A i \in DOMAIN messages : \A j \in DOMAIN messages[i] :
          Matches(rule[1], file[messages[i][j]]) <=> j = 1
    BY DEF TextInv, Whole, Records
  <2> QED BY <2>2, <2>3 DEF LinesKept
<1> QED BY <1>1, <1>2, <1>3, PTL DEF Spec

-----------------------------------------------------------------------------
(* What the preview counts *)

\* The records without a time.
Undated(s) == {i \in DOMAIN s : s[i].ts = NoTime}

CountInv ==
  Streamed("line") =>
    /\ Len(Records) = Cardinality(Matched)
    /\ Cardinality(Undated(Records)) = Cardinality(Refused)

\* An element more counts one.
LEMMA OneMore ==
  ASSUME NEW S, IsFiniteSet(S), NEW x, x \notin S
  PROVE  IsFiniteSet(S \cup {x}) /\ Cardinality(S \cup {x}) = Cardinality(S) + 1
         /\ Cardinality(S) \in Nat
BY FS_AddElement, FS_CardinalityType

LEMMA CountKept ==
  ASSUME TypeInv, ChoiceInv, ReadInv, CountInv, [Next]_vars
  PROVE  CountInv'
<1> SUFFICES ASSUME Streamed("line")'
             PROVE  /\ Len(Records') = Cardinality(Matched')
                    /\ Cardinality(Undated(Records')) = Cardinality(Refused')
  BY DEF CountInv, Undated
<1>1. CASE Opens
  <2>1. Records' = <<>> /\ Matched' = {} /\ Refused' = {}
    BY <1>1, RecordSteps, SetsOpen
  <2>2. Undated(<<>>) = {} /\ Cardinality({}) = 0 /\ Len(<<>>) = 0
    BY FS_EmptySet DEF Undated
  <2> QED BY <2>1, <2>2
<1>2. CASE Stays
  <2>1. Streamed("line") /\ Records' = Records
    BY <1>2 DEF Stays
  <2> QED BY <1>2, <2>1, SetsStay DEF CountInv
<1>3. CASE Passes
  <2>1. Reads /\ ~Matches(rule[1], Line) /\ Streamed("line")
    BY <1>3, LineRead DEF Passes
  <2> QED BY <1>3, <2>1, SetsRead, RecordSteps DEF CountInv
<1>4. CASE Continues
  <2> DEFINE longer == Extended(open, "message")
  <2>1. Reads /\ ~Matches(rule[1], Line) /\ Streamed("line") /\ pos \in Nat
    BY <1>4, LineRead DEF Continues
  <2>2. /\ Records = Append(out, open) /\ open \in LineRecords /\ out \in Seq(LineRecords)
        /\ Records' = Append(out, longer) /\ longer \in LineRecords /\ longer.ts = open.ts
    BY <1>4, <2>1, RecordSteps, RecordsTyped, ExtendedTyped
  <2> HIDE DEF longer
  <2>3. Len(Records') = Len(Records) /\ Undated(Records') = Undated(Records)
    <3>1. /\ Len(Records) = Len(out) + 1 /\ Len(Records') = Len(out) + 1
          /\ DOMAIN Records = DOMAIN out \cup {Len(out) + 1} /\ DOMAIN Records' = DOMAIN Records
          /\ \A i \in DOMAIN out : Records[i] = out[i] /\ Records'[i] = out[i]
          /\ Records[Len(out) + 1] = open /\ Records'[Len(out) + 1] = longer
      BY <2>2, PlacesAppend
    <3>2. \A i \in DOMAIN Records : Records[i].ts = Records'[i].ts
      BY <2>2, <3>1
    <3> QED BY <3>1, <3>2 DEF Undated
  <2> QED BY <2>1, <2>3, SetsRead DEF CountInv
<1>5. CASE \E ts : Stamps(ts)
  <2>1. PICK ts : Stamps(ts)
    BY <1>5
  <2> DEFINE new == LineRecord(ts)
             n == Len(Records) + 1
  <2>2. Reads /\ Matches(rule[1], Line) /\ Streamed("line") /\ pos \in Nat /\ Line.ok \in BOOLEAN
    BY <2>1, LineRead DEF Stamps
  <2>3. Records' = Append(Records, new) /\ new \in LineRecords /\ Records \in Seq(LineRecords)
    BY <2>1, <2>2, RecordSteps, RecordsTyped
  <2>4. new.ts = NoTime <=> ~Line.ok
    BY <2>1, TimeGiven DEF LineRecord
  <2> HIDE DEF new
  <2>5. /\ Len(Records') = n /\ Len(Records) \in Nat /\ DOMAIN Records' = DOMAIN Records \cup {n}
        /\ n \notin DOMAIN Records /\ IsFiniteSet(DOMAIN Records)
        /\ \A i \in DOMAIN Records : Records'[i] = Records[i]
        /\ Records'[n] = new
    <3>1. /\ Len(Records') = n /\ Len(Records) \in Nat /\ DOMAIN Records' = DOMAIN Records \cup {n}
          /\ n \notin DOMAIN Records /\ DOMAIN Records = 1..Len(Records)
          /\ \A i \in DOMAIN Records : Records'[i] = Records[i]
          /\ Records'[n] = new
      BY <2>3, PlacesAppend
    <3>2. IsFiniteSet(1..Len(Records))
      BY <3>1, FS_Interval
    <3> QED BY <3>1, <3>2
  <2>6. /\ IsFiniteSet(Matched) /\ IsFiniteSet(Refused)
        /\ pos + 1 \notin Matched /\ pos + 1 \notin Refused
    <3>1. Matched \in SUBSET (1..pos) /\ Refused \in SUBSET (1..pos) /\ pos + 1 \notin 1..pos
      BY <2>2 DEF Matched, Refused
    <3> QED BY <3>1, SetsTyped
  <2>7. Len(Records') = Cardinality(Matched')
    <3>1. Matched' = Matched \cup {pos + 1}
      BY <2>2, SetsRead
    <3> QED BY <2>2, <2>5, <2>6, <3>1, OneMore DEF CountInv
  <2>8. Undated(Records') = IF Line.ok THEN Undated(Records) ELSE Undated(Records) \cup {n}
    BY <2>4, <2>5 DEF Undated
  <2>9. IsFiniteSet(Undated(Records)) /\ n \notin Undated(Records)
    <3>1. Undated(Records) \subseteq DOMAIN Records
      BY DEF Undated
    <3> QED BY <2>5, <3>1, FS_Subset
  <2> HIDE DEF n
  <2>10. Cardinality(Undated(Records')) = Cardinality(Refused')
    <3>1. CASE Line.ok
      <4>1. Refused' = Refused
        BY <2>2, <3>1, SetsRead
      <4> QED BY <2>2, <2>8, <3>1, <4>1 DEF CountInv
    <3>2. CASE ~Line.ok
      <4>1. Refused' = Refused \cup {pos + 1}
        BY <2>2, <3>2, SetsRead
      <4>2. Cardinality(Refused') = Cardinality(Refused) + 1
        BY <2>6, <4>1, OneMore
      <4>3. Cardinality(Undated(Records) \cup {n}) = Cardinality(Undated(Records)) + 1
        BY <2>9, OneMore
      <4> QED BY <2>2, <2>8, <3>2, <4>2, <4>3 DEF CountInv
    <3> QED BY <3>1, <3>2
  <2> QED BY <2>7, <2>10
<1> QED BY <1>1, <1>2, <1>3, <1>4, <1>5, LineSteps

\* A preview is of the line adapter.
PreviewInv == job = "preview" /\ phase \notin {"stat", "failed"} => chosen = "line"

LEMMA PreviewKept ==
  ASSUME ChoiceInv, PreviewInv, [Next]_vars
  PROVE  PreviewInv'
<1> USE DEF PreviewInv
<1>1. CASE UNCHANGED vars
  BY <1>1 DEF vars
<1>2. CASE Choose
  BY <1>2 DEF Choose, ChoiceInv, source
<1>3. CASE Preview
  BY <1>3 DEF Preview
<1>4. CASE HintForFile
  BY <1>4 DEF HintForFile, source
<1>5. CASE ~ (Choose \/ Preview \/ HintForFile)
  <2>1. Next => UNCHANGED <<job, chosen>> /\ (phase' = phase \/ phase \in {"open", "stream"})
    BY <1>5 DEF Next, Grow, OpenLine, OpenOther, OpenXml, SkipLong, ContinueMessage, StampLine, StartBlock,
                ReadField, ContinueField, ReadRow, SkipToken, ReadChunk, EndOfFile, Abort, Advance,
                Reading, source, choice
  <2> QED BY <1>1, <2>1
<1> QED BY <1>1, <1>2, <1>3, <1>4, <1>5

\* What the preview counts is what the adapter did.
THEOREM PreviewExact == Spec => []PreviewTallies
<1> DEFINE IInv == TypeInv /\ ChoiceInv /\ ReadInv /\ CountInv /\ PreviewInv
<1>1. Init => IInv
  BY InitTyped DEF Init, Begin, ReadInv, CountInv, PreviewInv, Streamed
<1>2. IInv /\ [Next]_vars => IInv'
  BY TypeKept, ChoiceKept, ReadKept, CountKept, PreviewKept
<1>3. IInv => PreviewTallies
  <2> SUFFICES ASSUME IInv, job = "preview", phase = "done"
               PROVE  /\ Parsed = Len(out)
                      /\ TimestampErrors = Cardinality({i \in DOMAIN out : out[i].ts = NoTime})
    BY DEF PreviewTallies
  <2>1. Streamed("line") /\ open = NoRecord /\ pos = Len(file) /\ file \in Seq(Lines)
    BY DEF PreviewInv, Streamed, TypeInv
  <2>2. Records = out
    BY <2>1, RecordsTyped
  <2>3. DOMAIN file = 1 .. pos
    BY <2>1
  <2>4. \A i \in 1 .. pos : /\ Classify[i].parsed = Matches(rule[1], file[i])
                            /\ Classify[i].tsError = (Matches(rule[1], file[i]) /\ ~file[i].ok)
    BY <2>3 DEF Classify
  <2>5. Parsed = Cardinality(Matched)
    <3>1. {i \in DOMAIN file : Classify[i].parsed} = Matched
      BY <2>3, <2>4, Zenon DEF Matched
    <3> QED BY <3>1 DEF Parsed
  <2>6. TimestampErrors = Cardinality(Refused)
    <3>1. {i \in DOMAIN file : Classify[i].tsError} = Refused
      BY <2>3, <2>4, Zenon DEF Refused
    <3> QED BY <3>1 DEF TimestampErrors
  <2> QED BY <2>1, <2>2, <2>5, <2>6 DEF CountInv, Undated
<1> QED BY <1>1, <1>2, <1>3, PTL DEF Spec

-----------------------------------------------------------------------------
(* Dates and years that are borrowed *)

\* Positions in order are positions.
LEMMA InOrderTyped ==
  ASSUME NEW S, IsFiniteSet(S), S \subseteq Nat
  PROVE  InOrder(S) \in Seq(S) /\ Len(InOrder(S)) = Cardinality(S)
<1> DEFINE G == {T \in SUBSET S : InOrder(T) \in Seq(T)}
<1>1. {} \in G
  <2>1. Cardinality({}) = 0
    BY FS_EmptySet
  <2>2. InOrder({}) = <<>>
    BY <2>1 DEF InOrder
  <2>3. <<>> \in Seq({})
    OBVIOUS
  <2> QED BY <2>2, <2>3
<1>2. ASSUME NEW T \in SUBSET S, T # {}, \A x \in T : T \ {x} \in G
      PROVE  T \in G
  <2>1. IsFiniteSet(T) /\ T \subseteq Nat
    BY FS_Subset
  <2> DEFINE n == Max(T)
             R == T \ {n}
  <2>2. n \in T /\ \A y \in T : y <= n
    BY <1>2, <2>1, Greatest
  <2> HIDE DEF n
  <2>3. IsFiniteSet(R) /\ R \subseteq Nat /\ n \in Nat /\ T = R \cup {n} /\ \A x \in R : x < n
    <3>1. IsFiniteSet(R)
      BY <2>1, FS_Subset
    <3> QED BY <2>1, <2>2, <3>1
  <2>4. InOrder(R) \in Seq(R)
    BY <1>2, <2>2
  <2>5. InOrder(T) = Append(InOrder(R), n)
    BY <2>3, InOrderLast
  <2>6. Append(InOrder(R), n) \in Seq(T)
    <3> DEFINE s == InOrder(R)
    <3>1. s \in Seq(T)
      BY <2>3, <2>4
    <3> HIDE DEF s
    <3>2. Append(s, n) \in Seq(T)
      BY <2>2, <3>1
    <3> QED BY <3>2 DEF s
  <2> QED BY <2>5, <2>6
<1>3. S \in G
  <2> HIDE DEF G
  <2> QED BY <1>1, <1>2, SubsetInduction
<1>4. Cardinality(S) \in Nat
  BY FS_CardinalityType
<1>5. DOMAIN InOrder(S) = 1..Cardinality(S)
  BY DEF InOrder
<1> QED BY <1>3, <1>4, <1>5

\* What the clocks showed at the stamps read.
LEMMA ClocksRead ==
  ASSUME TypeInv, ChoiceInv, Streamed("line")
  PROVE  /\ StampClocks \in Seq(Instants)
         /\ StampClocks = [i \in DOMAIN InOrder(Timed) |-> ToClock(Zone, file[InOrder(Timed)[i]].at)]
         /\ InOrder(Timed) \in Seq(Timed)
         /\ Timed # {} => StampClocks # <<>>
<1>1. /\ IsFiniteSet(Timed) /\ Timed \subseteq Nat /\ Timed \subseteq 1..pos
  <2>1. Timed \in SUBSET (1..pos)
    BY DEF Timed
  <2> QED BY <2>1, SetsTyped
<1>2. \A k \in Timed : ToClock(Zone, file[k].at) \in Instants
  <2>1. \A k \in 1..pos : file[k] \in Lines
    BY DEF TypeInv
  <2> QED BY <2>1, MatchedLine DEF Timed, ChoiceInv, Zone
<1> DEFINE s == InOrder(Timed)
<1>3. s \in Seq(Timed) /\ Len(s) = Cardinality(Timed)
  BY <1>1, InOrderTyped
<1>4. StampClocks = [i \in DOMAIN s |-> ToClock(Zone, file[s[i]].at)]
  BY DEF StampClocks, Timed
<1> HIDE DEF s
<1>5. StampClocks \in Seq(Instants) /\ Len(StampClocks) = Len(s)
  BY <1>2, <1>3, <1>4
<1>6. Timed # {} => StampClocks # <<>>
  <2>1. Timed # {} => Cardinality(Timed) # 0
    BY <1>1, FS_EmptySet
  <2> QED BY <1>3, <1>5, <2>1
<1> QED BY <1>3, <1>4, <1>5, <1>6 DEF s

\* What the steps do to them.
LEMMA ClocksSteps ==
  ASSUME TypeInv, ChoiceInv, ReadInv, [Next]_vars
  PROVE  /\ Opens => StampClocks' = <<>>
         /\ Stays => StampClocks' = StampClocks
         /\ Reads => IF Matches(rule[1], Line) /\ Line.ok
                     THEN StampClocks' = Append(StampClocks, ToClock(Zone, Line.at))
                     ELSE StampClocks' = StampClocks
<1>0. StampClocks' = [i \in DOMAIN InOrder(Timed') |-> ToClock(Zone', file'[InOrder(Timed')[i]].at)]
  BY DEF StampClocks, Timed
<1>1. Opens => StampClocks' = <<>>
  <2>1. Cardinality({}) = 0
    BY FS_EmptySet
  <2>2. InOrder({}) = <<>>
    BY <2>1 DEF InOrder
  <2>3. ASSUME Opens PROVE Timed' = {}
    BY <2>3, SetsOpen
  <2>4. ASSUME Opens PROVE InOrder(Timed') = <<>>
    BY <2>2, <2>3, <2>4
  <2>5. DOMAIN <<>> = {}
    <3> DEFINE none == <<>>
    <3>1. none \in Seq(Nat)
      OBVIOUS
    <3>2. Len(none) = 0
      OBVIOUS
    <3> HIDE DEF none
    <3>3. DOMAIN none = 1..0
      BY <3>1, <3>2
    <3> QED BY <3>3 DEF none
  <2>6. ASSUME Opens PROVE StampClocks' = [i \in {} |-> ToClock(Zone', file'[InOrder(Timed')[i]].at)]
    BY <1>0, <2>4, <2>5, <2>6
  <2> DEFINE e == [i \in {} |-> ToClock(Zone', file'[InOrder(Timed')[i]].at)]
  <2>7. DOMAIN e = {}
    OBVIOUS
  <2>8. e = [i \in 1..0 |-> e[i]]
    OBVIOUS
  <2>9. e = <<>>
    BY <2>8
  <2> QED BY <2>6, <2>9
<1> DEFINE s == InOrder(Timed)
<1>2. ASSUME Streamed("line")
      PROVE  /\ s \in Seq(Timed) /\ DOMAIN s = 1..Len(s) /\ Len(s) \in Nat
             /\ \A i \in DOMAIN s : s[i] \in Timed /\ s[i] \in 1..pos
             /\ StampClocks = [i \in DOMAIN s |-> ToClock(Zone, file[s[i]].at)]
  <2>1. s \in Seq(Timed) /\ StampClocks = [i \in DOMAIN s |-> ToClock(Zone, file[s[i]].at)]
    BY <1>2, ClocksRead
  <2>2. \A k \in Timed : k \in 1..pos
    BY DEF Timed
  <2> HIDE DEF s
  <2>3. DOMAIN s = 1..Len(s) /\ Len(s) \in Nat /\ \A i \in DOMAIN s : s[i] \in Timed
    BY <2>1
  <2> QED BY <2>1, <2>2, <2>3
<1>3. ASSUME Stays PROVE StampClocks' = StampClocks
  <2>1. Timed' = Timed /\ Streamed("line") /\ (\A k \in 1..pos : file'[k] = file[k])
        /\ Zone' = Zone
    BY <1>3, SetsStay DEF Stays, Zone
  <2>2. StampClocks' = [i \in DOMAIN s |-> ToClock(Zone, file'[s[i]].at)]
    BY <1>0, <2>1
  <2> HIDE DEF s
  <2> QED BY <1>2, <2>1, <2>2
<1>4. ASSUME Reads
      PROVE  IF Matches(rule[1], Line) /\ Line.ok
             THEN StampClocks' = Append(StampClocks, ToClock(Zone, Line.at))
             ELSE StampClocks' = StampClocks
  <2> DEFINE timed == Matches(rule[1], Line) /\ Line.ok
  <2>1. Streamed("line") /\ file' = file /\ Line = file[pos + 1] /\ Zone' = Zone
    BY <1>4, LineRead DEF Reads, Zone
  <2>2. CASE timed
    <3>1. Timed' = Timed \cup {pos + 1}
      BY <1>4, <2>2, SetsRead
    <3>2. InOrder(Timed') = Append(s, pos + 1)
      <4>1. Timed \in SUBSET (1..pos)
        BY DEF Timed
      <4> QED BY <3>1, <4>1, SetsTyped, InOrderLast
    <3> DEFINE u == Append(s, pos + 1)
    <3> HIDE DEF s
    <3>3. StampClocks' = [i \in DOMAIN u |-> ToClock(Zone, file[u[i]].at)]
      BY <1>0, <2>1, <3>2
    <3>4. /\ DOMAIN u = DOMAIN s \cup {Len(s) + 1} /\ Len(s) + 1 \notin DOMAIN s
          /\ \A i \in DOMAIN s : u[i] = s[i]
          /\ u[Len(s) + 1] = pos + 1
          /\ DOMAIN u = 1..Len(s) + 1
      BY <1>2, <2>1
    <3> HIDE DEF u
    <3> DEFINE a == StampClocks
    <3>5. DOMAIN a = 1..Len(s) /\ Len(s) \in Nat /\ a \in Seq(Instants) /\ Len(a) = Len(s)
          /\ \A i \in DOMAIN s : a[i] = ToClock(Zone, file[s[i]].at)
      BY <1>2, <2>1, ClocksRead
    <3> DEFINE c == ToClock(Zone, Line.at)
    <3>9. c \in Instants
      BY <1>4, <2>2, LineRead
    <3>6. StampClocks' = [i \in 1..Len(a) + 1 |-> IF i \in DOMAIN s THEN a[i] ELSE c]
      BY <1>2, <2>1, <3>3, <3>4, <3>5
    <3> HIDE DEF c
    <3>7. Append(a, c) = [i \in 1..Len(a) + 1 |-> IF i \in DOMAIN s THEN a[i] ELSE c]
      <4>1. \A i \in 1..Len(a) + 1 : i \in DOMAIN s <=> i # Len(a) + 1
        BY <1>2, <2>1, <3>5
      <4>2. a \in Seq(Instants) /\ Len(a) \in Nat
        BY <3>5
      <4> HIDE DEF a
      <4>3. Append(a, c) = [i \in 1..Len(a) + 1 |-> IF i # Len(a) + 1 THEN a[i] ELSE c]
        BY <3>9, <4>2, AppendMade
      <4> QED BY <4>1, <4>3
    <3>8. StampClocks' = Append(StampClocks, c)
      BY <3>6, <3>7, Zenon
    <3> QED BY <2>2, <3>8 DEF c
  <2>3. CASE ~timed
    <3>1. Timed' = Timed
      BY <1>4, <2>3, SetsRead
    <3> QED BY <1>0, <1>2, <2>1, <2>3, <3>1
  <2>4. timed => StampClocks' = Append(StampClocks, ToClock(Zone, Line.at))
    BY <2>2, Zenon
  <2>5. ~timed => StampClocks' = StampClocks
    BY <2>3, Zenon
  <2> QED BY <2>4, <2>5, Zenon
<1> QED BY <1>1, <1>3, <1>4

\* The readings of a log that begins on the day of u and goes on without a pause,
\* of days that begin with a midnight.
OnTime(z, s, u) ==
  /\ DayOf(s[1]) = DayOf(u)
  /\ \A i \in 2 .. Len(s) : /\ s[i] - s[i - 1] \in -(DayLen \div 2) .. DayLen \div 2 - 1
                            /\ DayOf(s[i - 1]) <= DayOf(s[i])
  /\ \A i \in DOMAIN s : Shown(z, DayOf(s[i]) * DayLen)

\* What Recoverable says, of a zone z, readings s, a file last written at m and a
\* time t.
Sound(z, form, s, m, t) ==
  LET u == ToClock(z, m)
      w == ToClock(z, t)
  IN CASE form = "full" -> Unambiguous(z, t)
       [] form = "tod" -> /\ OnTime(z, s, u)
                          /\ w - t = DayOf(w) * DayLen - FromClock(z, DayOf(w) * DayLen)
       [] form = "monthday" -> /\ u - 363 * DayLen < w /\ w <= u
                               /\ <<MonthOf(w), DayOfMonth(w)>> # <<2, 29>>
                               /\ Unambiguous(z, t) /\ Shown(z, InYear(w, YearOf(u)))

\* The day d and the time of day l that the last of the readings gives.
Clock(z, s, u, d, l) ==
  /\ s = <<>> => d = FromClock(z, DayOf(u) * DayLen) /\ l = NoTime
  /\ s # <<>> /\ OnTime(z, s, u) =>
       d = FromClock(z, DayOf(s[Len(s)]) * DayLen) /\ l = TimeOfDay(s[Len(s)])

\* What is on time now was so before.
LEMMA OnTimeBefore ==
  ASSUME NEW s \in Seq(Instants), s # <<>>, NEW t \in Instants, NEW u, NEW z,
         OnTime(z, Append(s, t), u)
  PROVE  /\ OnTime(z, s, u)
         /\ t - s[Len(s)] \in -(DayLen \div 2) .. DayLen \div 2 - 1
         /\ DayOf(s[Len(s)]) <= DayOf(t)
<1> DEFINE n == Len(s)
           a == Append(s, t)
<1>1. /\ n \in Nat /\ n # 0 /\ Len(a) = n + 1 /\ a[n + 1] = t
      /\ \A i \in 1..n : a[i] = s[i]
  OBVIOUS
<1> HIDE DEF n, a
<1>2. /\ DayOf(a[1]) = DayOf(u)
      /\ \A i \in 2 .. n + 1 : /\ a[i] - a[i - 1] \in -(DayLen \div 2) .. DayLen \div 2 - 1
                               /\ DayOf(a[i - 1]) <= DayOf(a[i])
      /\ \A i \in DOMAIN a : Shown(z, DayOf(a[i]) * DayLen)
  BY <1>1 DEF OnTime, a
<1>3. 1 \in 1..n /\ n + 1 \in 2 .. n + 1 /\ n + 1 - 1 = n /\ n \in 1..n
  BY <1>1
<1>4. \A i \in 2..n : i \in 2 .. n + 1 /\ i \in 1..n /\ i - 1 \in 1..n
  BY <1>1
<1>5. DayOf(s[1]) = DayOf(u)
  BY <1>1, <1>2, <1>3
<1>6. \A i \in 2..n : /\ s[i] - s[i - 1] \in -(DayLen \div 2) .. DayLen \div 2 - 1
                      /\ DayOf(s[i - 1]) <= DayOf(s[i])
  BY <1>1, <1>2, <1>4
<1>7. /\ t - s[n] \in -(DayLen \div 2) .. DayLen \div 2 - 1
      /\ DayOf(s[n]) <= DayOf(t)
  BY <1>1, <1>2, <1>3
<1>8. \A i \in DOMAIN s : Shown(z, DayOf(s[i]) * DayLen)
  <2>1. \A i \in DOMAIN s : i \in DOMAIN a /\ a[i] = s[i]
    BY DEF a
  <2> QED BY <1>2, <2>1
<1> QED BY <1>5, <1>6, <1>7, <1>8 DEF OnTime, n

\* Of two times that are less than half a day apart, and on days in order, the
\* times of day tell whether midnight is between them.
LEMMA NextDay ==
  ASSUME NEW a \in Nat, NEW t \in Nat, DayOf(a) <= DayOf(t),
         t - a \in -(DayLen \div 2) .. DayLen \div 2 - 1
  PROVE  DayOf(t) = IF TimeOfDay(t) + DayLen \div 2 < TimeOfDay(a)
                    THEN DayOf(a) + 1 ELSE DayOf(a)
<1> DEFINE h == DayLen \div 2
           p == DayOf(a) * DayLen
<1>1. h \in Nat /\ DayLen = 2 * h /\ DayLen \in Nat /\ h > 0
  BY CalendarAssumption
<1>2. /\ DayOf(a) \in Nat /\ DayOf(t) \in Nat
      /\ TimeOfDay(a) \in 0 .. DayLen - 1 /\ TimeOfDay(t) \in 0 .. DayLen - 1
      /\ a = p + TimeOfDay(a) /\ t = DayOf(t) * DayLen + TimeOfDay(t)
  BY DayAndTime
<1>3. p \in Nat /\ (DayOf(a) + 1) * DayLen = p + DayLen /\ 1 * DayLen = DayLen
  BY <1>1, <1>2, Times
<1>4. DayOf(t) = DayOf(a) \/ DayOf(t) = DayOf(a) + 1
  <2> SUFFICES ASSUME DayOf(a) + 1 + 1 <= DayOf(t) PROVE FALSE
    BY <1>2
  <2>1. a + 1 * DayLen < t
    BY DaysApart
  <2> QED BY <1>1, <1>3, <2>1
<1> HIDE DEF h, p
<1>5. t - a >= -h /\ t - a <= h - 1
  BY <1>1 DEF h
<1>6. CASE DayOf(t) = DayOf(a)
  <2>1. t = p + TimeOfDay(t)
    BY <1>2, <1>6 DEF p
  <2>2. ~(TimeOfDay(t) + h < TimeOfDay(a))
    BY <1>1, <1>2, <1>3, <1>5, <2>1
  <2> QED BY <1>6, <2>2 DEF h
<1>7. CASE DayOf(t) = DayOf(a) + 1
  <2>1. t = p + DayLen + TimeOfDay(t)
    BY <1>2, <1>3, <1>7
  <2>2. TimeOfDay(t) + h < TimeOfDay(a)
    BY <1>1, <1>2, <1>3, <1>5, <2>1
  <2> QED BY <1>7, <2>2 DEF h
<1> QED BY <1>4, <1>6, <1>7

\* The clock of the adapter gives the next reading its day.
LEMMA ClockGoes ==
  ASSUME NEW z, NEW s \in Seq(Instants), NEW u \in Instants, NEW t \in Instants, NEW d, NEW l,
         Clock(z, s, u, d, l), OnTime(z, Append(s, t), u)
  PROVE  LET rolled == l # NoTime /\ TimeOfDay(t) + DayLen \div 2 < l
         IN  (IF rolled THEN FromClock(z, ToClock(z, d) + DayLen) ELSE d)
               = FromClock(z, DayOf(t) * DayLen)
<1>1. t \in Nat /\ t = DayOf(t) * DayLen + TimeOfDay(t)
  BY YearFound, DayAndTime
<1>2. CASE s = <<>>
  <2>1. Append(s, t)[1] = t
    BY <1>2
  <2>2. DayOf(t) = DayOf(u)
    BY <2>1 DEF OnTime
  <2> QED BY <1>1, <1>2, <2>2 DEF Clock
<1>3. CASE s # <<>>
  <2> DEFINE a == s[Len(s)]
  <2>1. a \in Instants /\ Len(s) \in DOMAIN s
    BY <1>3
  <2>2. /\ OnTime(z, s, u) /\ DayOf(a) <= DayOf(t)
        /\ t - a \in -(DayLen \div 2) .. DayLen \div 2 - 1
    BY <1>3, OnTimeBefore
  <2>3. d = FromClock(z, DayOf(a) * DayLen) /\ l = TimeOfDay(a)
    BY <1>3, <2>2 DEF Clock
  <2>4. ToClock(z, d) = DayOf(a) * DayLen
    BY <2>1, <2>2, <2>3 DEF OnTime, Shown
  <2> HIDE DEF a
  <2>5. a \in Nat /\ DayOf(a) \in Nat /\ TimeOfDay(a) \in 0 .. DayLen - 1 /\ DayLen \in Nat
    BY <2>1, YearFound, DayAndTime, CalendarAssumption
  <2>6. l # NoTime
    BY <2>3, <2>5, RegistryAssumption
  <2>7. DayOf(t) = IF TimeOfDay(t) + DayLen \div 2 < l THEN DayOf(a) + 1 ELSE DayOf(a)
    BY <1>1, <2>2, <2>3, <2>5, NextDay
  <2>8. (DayOf(a) + 1) * DayLen = ToClock(z, d) + DayLen
    BY <2>4, <2>5
  <2> QED BY <2>3, <2>6, <2>7, <2>8
<1> QED BY <1>2, <1>3

\* After it, the clock is at that reading.
LEMMA ClockSet ==
  ASSUME NEW z, NEW s \in Seq(Instants), NEW u, NEW t \in Instants, NEW d,
         OnTime(z, Append(s, t), u) => d = FromClock(z, DayOf(t) * DayLen)
  PROVE  Clock(z, Append(s, t), u, d, TimeOfDay(t))
<1> DEFINE a == Append(s, t)
<1>1. a # <<>> /\ a[Len(a)] = t
  OBVIOUS
<1> HIDE DEF a
<1>2. OnTime(z, a, u) => d = FromClock(z, DayOf(t) * DayLen)
  BY DEF a
<1>3. Clock(z, a, u, d, TimeOfDay(t))
  BY <1>1, <1>2 DEF Clock
<1> QED BY <1>3 DEF a

ClockInv ==
  Streamed("line") /\ rule[1].form = "tod" =>
    Clock(Zone, StampClocks, ToClock(Zone, mtime), working, lastTod)

\* The clock is that of the last time read.
LEMMA ClockKept ==
  ASSUME TypeInv, ChoiceInv, ReadInv, ClockInv, [Next]_vars
  PROVE  ClockInv'
<1> SUFFICES ASSUME Streamed("line")', rule'[1].form = "tod"
             PROVE  Clock(Zone', StampClocks', ToClock(Zone', mtime'), working', lastTod')
  BY DEF ClockInv
<1>1. CASE Opens
  <2>1. StampClocks' = <<>> /\ mtime' = mtime /\ working' = Midnight(Zone', mtime) /\ lastTod' = NoTime
    BY <1>1, ClocksSteps DEF Opens, Zone
  <2> QED BY <2>1 DEF Clock, Midnight
<1>2. CASE Stays
  <2>1. StampClocks' = StampClocks
    BY <1>2, ClocksSteps
  <2>2. Streamed("line") /\ UNCHANGED <<rule, mtime, working, lastTod>> /\ Zone' = Zone
    BY <1>2 DEF Stays, Zone
  <2> QED BY <2>1, <2>2 DEF ClockInv
<1>3. CASE Reads /\ ~Matches(rule[1], Line) /\ UNCHANGED <<working, lastTod>>
  <2>1. StampClocks' = StampClocks
    BY <1>3, ClocksSteps
  <2>2. Streamed("line") /\ UNCHANGED <<rule, mtime>> /\ Zone' = Zone
    BY <1>3, LineRead DEF Reads, Zone
  <2> QED BY <1>3, <2>1, <2>2 DEF ClockInv
<1>4. ASSUME NEW ts, Stamps(ts)
      PROVE  Clock(Zone', StampClocks', ToClock(Zone', mtime'), working', lastTod')
  <2> DEFINE c == ToClock(Zone, Line.at)
             u == ToClock(Zone, mtime)
  <2>1. /\ Reads /\ Matches(rule[1], Line) /\ Streamed("line") /\ rule' = rule
        /\ Zone \in Zones /\ c \in Instants
    BY <1>4, LineRead DEF Stamps, Reads
  <2>2. mtime' = mtime /\ Zone' = Zone
    BY <2>1 DEF Reads, Zone
  <2>3. CASE Line.ok
    <3>1. StampClocks' = Append(StampClocks, c)
      BY <2>1, <2>3, ClocksSteps
    <3> DEFINE tod == TimeOfDay(c)
               day == IF RolledOver(tod) THEN FromClock(Zone, ToClock(Zone, working) + DayLen)
                      ELSE working
    <3>2. working' = day /\ lastTod' = tod
      BY <1>4, <2>1, <2>3 DEF Stamps
    <3>3. StampClocks \in Seq(Instants) /\ u \in Instants
          /\ Clock(Zone, StampClocks, u, working, lastTod)
      BY <2>1, ClocksRead DEF ClockInv, TypeInv, FileTime
    <3> HIDE DEF c, u
    <3>4. OnTime(Zone, Append(StampClocks, c), u) => day = FromClock(Zone, DayOf(c) * DayLen)
      BY <2>1, <3>3, ClockGoes DEF RolledOver
    <3> HIDE DEF day
    <3>5. Clock(Zone, Append(StampClocks, c), u, day, TimeOfDay(c))
      BY <2>1, <3>3, <3>4, ClockSet
    <3> QED BY <2>2, <3>1, <3>2, <3>5 DEF u
  <2>4. CASE ~Line.ok
    <3>1. StampClocks' = StampClocks
      BY <2>1, <2>4, ClocksSteps
    <3>2. UNCHANGED <<working, lastTod>>
      BY <1>4, <2>4 DEF Stamps
    <3> QED BY <2>1, <2>2, <3>1, <3>2 DEF ClockInv
  <2> QED BY <2>3, <2>4
<1> QED BY <1>1, <1>2, <1>3, <1>4, LineSteps DEF Passes, Continues

\* The record has the time of its first line, if that can be found again.
Dated(record, f, r, s, m) ==
  LET line == f[record.body["message"][1]] IN
  (line.ok /\ Sound(r.tz, r.form, s, m, line.at)) => record.ts = line.at

DatedInv ==
  Streamed("line") => \A i \in DOMAIN Records :
    Dated(Records[i], file, rule[1], StampClocks, mtime)

\* The first line of a record has been read, and is a stamp.
LEMMA FirstLine ==
  ASSUME ChoiceInv, ReadInv, TextInv, Streamed("line"), NEW i \in DOMAIN Records
  PROVE  LET k == Records[i].body["message"][1]
         IN  /\ k \in 1 .. pos
             /\ file[k].ok => k \in Timed
<1> DEFINE m == Records[i].body["message"]
<1>1. m # <<>> /\ \A j \in DOMAIN m : m[j] \in 1 .. pos /\ (Matches(rule[1], file[m[j]]) <=> j = 1)
  BY DEF TextInv, Whole
<1>2. m \in Seq(Nat)
  <2>1. Records[i] \in LineRecords
    BY RecordsTyped
  <2> QED BY <2>1 DEF LineRecords
<1> HIDE DEF m
<1>3. 1 \in DOMAIN m
  BY <1>1, <1>2
<1>4. m[1] \in 1 .. pos /\ Matches(rule[1], file[m[1]])
  BY <1>1, <1>3
<1> QED BY <1>4 DEF Timed, m

\* A stamp with a time gets that time.
LEMMA StampDated ==
  ASSUME TypeInv, ChoiceInv, ReadInv, ClockInv, NEW ts, Stamps(ts), Line.ok,
         Sound(Zone, rule[1].form, Append(StampClocks, ToClock(Zone, Line.at)), mtime, Line.at)
  PROVE  ts = Line.at
<1> DEFINE c == ToClock(Zone, Line.at)
           u == ToClock(Zone, mtime)
<1>1. /\ Reads /\ Matches(rule[1], Line) /\ Streamed("line") /\ Line.at \in Int
      /\ rule[1].form \in Forms /\ Zone \in Zones /\ c \in Instants
  BY LineRead, RulesTyped DEF Stamps, OneRule
<1>2. CASE rule[1].form = "full"
  <2>1. ts = FromClock(Zone, c) /\ Unambiguous(Zone, Line.at)
    BY <1>2 DEF Stamps, Sound
  <2> QED BY <1>1, <2>1, ReadingTold
<1>3. CASE rule[1].form = "tod"
  <2> DEFINE p == DayOf(c) * DayLen
  <2>1. /\ OnTime(Zone, Append(StampClocks, c), u)
        /\ c - Line.at = p - FromClock(Zone, p)
    BY <1>3 DEF Sound
  <2>2. StampClocks \in Seq(Instants) /\ u \in Instants
        /\ Clock(Zone, StampClocks, u, working, lastTod)
    BY <1>1, <1>3, ClocksRead DEF ClockInv, TypeInv, FileTime
  <2> DEFINE tod == TimeOfDay(c)
             day == IF RolledOver(tod) THEN FromClock(Zone, ToClock(Zone, working) + DayLen)
                    ELSE working
  <2>3. ts = day + tod
    BY <1>3 DEF Stamps
  <2> HIDE DEF c, u
  <2>4. day = FromClock(Zone, p)
    BY <1>1, <2>1, <2>2, ClockGoes DEF RolledOver
  <2>5. /\ c \in Int /\ tod \in Int /\ c = p + tod /\ p \in Int
    BY <1>1, YearFound, DayAndTime, CalendarAssumption, Times
  <2>6. FromClock(Zone, p) \in Int
    BY <1>1, <2>5, ClockTyped
  <2> HIDE DEF p, tod, day
  <2> QED BY <1>1, <2>1, <2>3, <2>4, <2>5, <2>6
<1>4. CASE rule[1].form = "monthday"
  <2>1. /\ u - 363 * DayLen < c /\ c <= u
        /\ <<MonthOf(c), DayOfMonth(c)>> # <<2, 29>>
        /\ Unambiguous(Zone, Line.at) /\ Shown(Zone, InYear(c, YearOf(u)))
    BY <1>4 DEF Sound
  <2>2. ts = WithMtimeYear(Zone, c, mtime)
    BY <1>4 DEF Stamps
  <2>3. FileTime(mtime)
    BY DEF TypeInv
  <2> QED BY <1>1, <2>1, <2>2, <2>3, YearBorrowed DEF FileTime
<1> QED BY <1>1, <1>2, <1>3, <1>4 DEF Forms

\* Every record is dated right.
LEMMA DatedKept ==
  ASSUME TypeInv, ChoiceInv, ReadInv, TextInv, ClockInv, DatedInv, [Next]_vars
  PROVE  DatedInv'
<1> SUFFICES ASSUME Streamed("line")'
             PROVE  \A i \in DOMAIN Records' :
                      Dated(Records'[i], file', rule'[1], StampClocks', mtime')
  BY DEF DatedInv, Dated
<1>1. CASE Opens
  <2>1. Records' = <<>>
    BY <1>1, RecordSteps
  <2>2. \A i \in DOMAIN Records' : FALSE
    BY <2>1
  <2> QED BY <2>2
<1>2. CASE Stays
  <2>1. StampClocks' = StampClocks /\ Records' = Records /\ Streamed("line")
        /\ UNCHANGED <<rule, mtime>> /\ \A k \in 1..pos : file'[k] = file[k]
    BY <1>2, ClocksSteps DEF Stays
  <2>2. SUFFICES ASSUME NEW i \in DOMAIN Records
                 PROVE  Dated(Records[i], file', rule[1], StampClocks, mtime)
    BY <2>1
  <2>3. Records[i].body["message"][1] \in 1 .. pos
    BY <2>1, FirstLine
  <2>4. Dated(Records[i], file, rule[1], StampClocks, mtime)
    BY <2>1 DEF DatedInv
  <2> QED BY <2>1, <2>3, <2>4 DEF Dated
<1>3. CASE Passes
  <2>1. /\ Records' = Records /\ StampClocks' = StampClocks /\ Streamed("line")
        /\ UNCHANGED <<rule, mtime, file>>
    BY <1>3, RecordSteps, ClocksSteps, LineRead DEF Passes, Reads
  <2> QED BY <2>1 DEF DatedInv
<1>4. CASE Continues
  <2> DEFINE longer == Extended(open, "message")
             m == open.body["message"]
  <2>1. /\ StampClocks' = StampClocks /\ Streamed("line") /\ UNCHANGED <<rule, mtime, file>>
        /\ pos \in Nat
    BY <1>4, ClocksSteps, LineRead DEF Continues, Reads
  <2>2. /\ Records = Append(out, open) /\ open \in LineRecords
        /\ Records' = Append(out, longer) /\ longer \in LineRecords
        /\ out \in Seq(LineRecords)
    BY <1>4, <2>1, RecordSteps, RecordsTyped
  <2>3. /\ DOMAIN Records = DOMAIN out \cup {Len(out) + 1}
        /\ \A i \in DOMAIN out : Records[i] = out[i]
        /\ Records[Len(out) + 1] = open
    BY <2>2, PlacesAppend
  <2>4. /\ DOMAIN Records' = DOMAIN out \cup {Len(out) + 1}
        /\ \A i \in DOMAIN out : Records'[i] = out[i]
        /\ Records'[Len(out) + 1] = longer
    <3> HIDE DEF longer
    <3> QED BY <2>2, PlacesAppend
  <2>5. longer.ts = open.ts /\ longer.body["message"] = Append(m, pos + 1)
    BY <2>1, <2>2, ExtendedTyped
  <2>6. m # <<>>
    BY <2>1, <2>3 DEF TextInv, Whole
  <2>7. m \in Seq(Nat)
    BY <2>2 DEF LineRecords
  <2>8. longer.body["message"][1] = m[1]
    <3> HIDE DEF m, longer
    <3> QED BY <2>1, <2>5, <2>6, <2>7
  <2>9. \A i \in DOMAIN Records : Dated(Records[i], file, rule[1], StampClocks, mtime)
    BY <2>1 DEF DatedInv
  <2>10. Dated(longer, file, rule[1], StampClocks, mtime)
    <3>1. Dated(open, file, rule[1], StampClocks, mtime)
      BY <2>3, <2>9
    <3> HIDE DEF longer
    <3> QED BY <2>5, <2>8, <3>1 DEF Dated, m
  <2> HIDE DEF longer
  <2> QED BY <2>1, <2>3, <2>4, <2>9, <2>10
<1>5. ASSUME NEW ts, Stamps(ts)
      PROVE  \A i \in DOMAIN Records' :
               Dated(Records'[i], file', rule'[1], StampClocks', mtime')
  <2> DEFINE new == LineRecord(ts)
  <2>1. /\ Reads /\ Matches(rule[1], Line) /\ Streamed("line") /\ ToClock(Zone, Line.at) \in Instants
        /\ UNCHANGED <<rule, mtime, file>> /\ Line = file[pos + 1] /\ OneRule(rule)
        /\ pos \in Nat /\ rule[1].form \in Forms
    BY <1>5, LineRead, RulesTyped DEF Stamps, Reads, OneRule
  <2>2. /\ Records \in Seq(LineRecords) /\ new \in LineRecords /\ Records' = Append(Records, new)
    BY <1>5, <2>1, RecordsTyped, RecordSteps
  <2>3. new.ts = ts /\ new.body["message"][1] = pos + 1
    <3>1. ts \in Int \cup {NoTime}
      BY <1>5, TimeGiven
    <3>2. new.ts = ts /\ new.body["message"] = <<pos + 1>>
      BY <2>1, <3>1, LineRecordTyped
    <3> HIDE DEF new
    <3> QED BY <3>2
  <2> HIDE DEF new
  <2>4. /\ DOMAIN Records' = DOMAIN Records \cup {Len(Records) + 1}
        /\ \A i \in DOMAIN Records : Records'[i] = Records[i]
        /\ Records'[Len(Records) + 1] = new
    BY <2>2, PlacesAppend
  <2>5. Dated(new, file, rule[1], StampClocks', mtime)
    <3> SUFFICES ASSUME Line.ok, Sound(Zone, rule[1].form, StampClocks', mtime, Line.at)
                 PROVE  ts = Line.at
      BY <2>1, <2>3 DEF Dated, Zone
    <3>1. StampClocks' = Append(StampClocks, ToClock(Zone, Line.at))
      BY <2>1, ClocksSteps
    <3> QED BY <1>5, <3>1, StampDated
  <2>6. ASSUME NEW i \in DOMAIN Records
        PROVE  Dated(Records[i], file, rule[1], StampClocks', mtime)
    <3> DEFINE k == Records[i].body["message"][1]
    <3>1. Dated(Records[i], file, rule[1], StampClocks, mtime)
      BY <2>1 DEF DatedInv
    <3>2. file[k].ok => Timed # {}
      BY <2>1, FirstLine
    <3>3. StampClocks \in Seq(Instants) /\ (Timed # {} => StampClocks # <<>>)
      BY <2>1, ClocksRead
    <3>4. CASE Line.ok /\ Timed # {}
      <4>1. StampClocks' = Append(StampClocks, ToClock(Zone, Line.at))
        BY <2>1, <3>4, ClocksSteps
      <4>2. OnTime(Zone, StampClocks', ToClock(Zone, mtime))
              => OnTime(Zone, StampClocks, ToClock(Zone, mtime))
        BY <2>1, <3>3, <3>4, <4>1, OnTimeBefore
      <4>3. Sound(Zone, rule[1].form, StampClocks', mtime, file[k].at)
              => Sound(Zone, rule[1].form, StampClocks, mtime, file[k].at)
        BY <2>1, <4>2 DEF Sound, Forms
      <4> QED BY <3>1, <4>3 DEF Dated, Zone
    <3>5. CASE ~Line.ok
      <4>1. StampClocks' = StampClocks
        BY <2>1, <3>5, ClocksSteps
      <4> QED BY <3>1, <4>1
    <3>6. CASE ~file[k].ok
      BY <3>6 DEF Dated
    <3> QED BY <3>2, <3>4, <3>5, <3>6
  <2> QED BY <2>1, <2>4, <2>5, <2>6
<1> QED BY <1>1, <1>2, <1>3, <1>4, <1>5, LineSteps

\* A date or a year that the file still tells is the right one, whatever rule
\* reads the log and however the log grows (line.go).
THEOREM TimesRight == Spec => []TimesRecovered
<1> DEFINE IInv == /\ TypeInv /\ ChoiceInv /\ ReadInv /\ TextInv
                   /\ ClockInv /\ DatedInv
<1>1. Init => IInv
  <2>1. Init => phase = "stat"
    BY Zenon DEF Init, Begin
  <2> QED BY <2>1, InitTyped DEF ReadInv, TextInv, ClockInv, DatedInv, Streamed
<1>2. IInv /\ [Next]_vars => IInv'
  BY TypeKept, ChoiceKept, ReadKept, TextKept, ClockKept, DatedKept
<1>3. IInv => TimesRecovered
  <2> SUFFICES ASSUME IInv, Streamed("line"), NEW record \in Range(Records),
                      LineOf(record).ok, Recoverable(LineOf(record).at)
               PROVE  record.ts = LineOf(record).at
    BY DEF TimesRecovered, Records
  <2>1. PICK i \in DOMAIN Records : record = Records[i]
    BY DEF Range
  <2>2. Sound(Zone, rule[1].form, StampClocks, mtime, LineOf(record).at)
    BY DEF Recoverable, Sound, OnTime
  <2> QED BY <2>1, <2>2 DEF DatedInv, Dated, LineOf, Zone
<1> QED BY <1>1, <1>2, <1>3, PTL DEF Spec

-----------------------------------------------------------------------------
(* Blocks *)

\* What BlocksKept says of a file f read up to p, the file and the place as
\* parameters: its separators, and of the block that begins at s and ends at e,
\* the fields, their values and the record.
SepsIn(f, p) == {s \in 1 .. p : f[s].kind = "sep"}

EndIn(f, p, s) ==
  IF \E t \in SepsIn(f, p) : t > s THEN Min({t \in SepsIn(f, p) : t > s}) - 1 ELSE p

FieldsIn(f, s, e) == {k \in s .. e : f[k].kind = "field"}

LastIn(f, s, e, key) == Max({k \in FieldsIn(f, s, e) : f[k].key = key})

NextIn(f, s, e, key) == {k \in FieldsIn(f, s, e) : k > LastIn(f, s, e, key)}

TextOf(f, s, e, key) ==
  LET next == NextIn(f, s, e, key) IN
  {k \in LastIn(f, s, e, key) .. (IF next = {} THEN e ELSE Min(next) - 1) : HasText(f[k])}

BodyIn(f, s, e) ==
  [key \in {f[k].key : k \in FieldsIn(f, s, e)} |-> InOrder(TextOf(f, s, e, key))]

FullIn(f, p) == {s \in SepsIn(f, p) : FieldsIn(f, s, EndIn(f, p, s)) # {}}

Blocks(f, p) ==
  LET full == InOrder(FullIn(f, p)) IN
  [i \in DOMAIN full |-> BodyIn(f, full[i], EndIn(f, p, full[i]))]

Bodies(s) == [i \in DOMAIN s |-> s[i].body]

\* The greatest and the least of a set of naturals are one each.
LEMMA Extremes ==
  ASSUME NEW T, IsFiniteSet(T), T \subseteq Nat, NEW n \in T
  PROVE  /\ (\A x \in T : x <= n) => Max(T) = n
         /\ (\A x \in T : n <= x) => Min(T) = n
<1>1. Max(T) \in T /\ \A y \in T : y <= Max(T)
  BY Greatest
<1>2. Min(T) \in T /\ \A y \in T : Min(T) <= y
  BY FirstPlace
<1> DEFINE g == Max(T)
           l == Min(T)
<1>3. g \in Nat /\ l \in Nat /\ n \in Nat /\ n <= g /\ l <= n
  BY <1>1, <1>2
<1> HIDE DEF g, l
<1>4. (\A x \in T : x <= n) => g = n
  BY <1>1, <1>3 DEF g
<1>5. (\A x \in T : n <= x) => l = n
  BY <1>2, <1>3 DEF l
<1> QED BY <1>4, <1>5 DEF g, l

\* Places of a file are natural numbers, and there are finitely many.
LEMMA PlacesTyped ==
  ASSUME NEW a \in Nat, NEW b \in Nat, NEW T \in SUBSET (a .. b)
  PROVE  T \subseteq Nat /\ IsFiniteSet(T)
<1>1. IsFiniteSet(a .. b)
  BY FS_Interval
<1>2. IsFiniteSet(T)
  BY <1>1, FS_Subset
<1>3. T \subseteq Nat
  OBVIOUS
<1> QED BY <1>2, <1>3

\* The last field of a name.
LEMMA LastField ==
  ASSUME NEW f, NEW s \in Nat, NEW e \in Nat, NEW key \in {f[k].key : k \in FieldsIn(f, s, e)}
  PROVE  LET l == LastIn(f, s, e, key)
             next == NextIn(f, s, e, key)
         IN  /\ l \in FieldsIn(f, s, e) /\ l \in s .. e /\ l \in Nat /\ f[l].key = key
             /\ \A k \in FieldsIn(f, s, e) : f[k].key = key => k <= l
             /\ next \subseteq Nat /\ IsFiniteSet(next)
             /\ next # {} => Min(next) \in next /\ \A k \in next : Min(next) <= k
<1> DEFINE T == {k \in FieldsIn(f, s, e) : f[k].key = key}
<1>1. T \in SUBSET (s .. e) /\ T # {} /\ NextIn(f, s, e, key) \in SUBSET (s .. e)
  BY DEF FieldsIn, NextIn
<1>2. T \subseteq Nat /\ IsFiniteSet(T)
  BY <1>1, PlacesTyped
<1>3. LastIn(f, s, e, key) = Max(T)
  BY DEF LastIn
<1>4. Max(T) \in T /\ \A y \in T : y <= Max(T)
  BY <1>1, <1>2, Greatest
<1>5. NextIn(f, s, e, key) \subseteq Nat /\ IsFiniteSet(NextIn(f, s, e, key))
  BY <1>1, PlacesTyped
<1>6. NextIn(f, s, e, key) # {} =>
        /\ Min(NextIn(f, s, e, key)) \in NextIn(f, s, e, key)
        /\ \A k \in NextIn(f, s, e, key) : Min(NextIn(f, s, e, key)) <= k
  BY <1>5, FirstPlace
<1>7. LastIn(f, s, e, key) \in s .. e
  BY <1>1, <1>3, <1>4
<1> QED BY <1>3, <1>4, <1>5, <1>6, <1>7

\* A block without fields has no values.
LEMMA NoBody ==
  ASSUME NEW f, NEW s, NEW e
  PROVE  BodyIn(f, s, e) = NoFields <=> FieldsIn(f, s, e) = {}
<1> DEFINE K == {f[k].key : k \in FieldsIn(f, s, e)}
<1>1. DOMAIN BodyIn(f, s, e) = K /\ DOMAIN NoFields = {}
  BY DEF BodyIn, NoFields
<1>2. K = {} <=> FieldsIn(f, s, e) = {}
  OBVIOUS
<1>3. K = {} => BodyIn(f, s, e) = NoFields
  BY DEF BodyIn, NoFields
<1> QED BY <1>1, <1>2, <1>3

\* The values of a block are of its own lines.
LEMMA BodyOfLines ==
  ASSUME NEW f, NEW g, NEW s \in Nat, NEW e \in Nat, \A k \in s .. e : g[k] = f[k]
  PROVE  FieldsIn(g, s, e) = FieldsIn(f, s, e) /\ BodyIn(g, s, e) = BodyIn(f, s, e)
<1>1. FieldsIn(g, s, e) = FieldsIn(f, s, e)
  BY DEF FieldsIn
<1> DEFINE F == FieldsIn(f, s, e)
           K == {f[k].key : k \in F}
<1>2. \A k \in F : k \in s .. e
  BY DEF FieldsIn
<1>3. {g[k].key : k \in FieldsIn(g, s, e)} = K
  BY <1>1, <1>2
<1>4. ASSUME NEW key \in K
      PROVE  TextOf(g, s, e, key) = TextOf(f, s, e, key)
  <2>1. {k \in FieldsIn(g, s, e) : g[k].key = key} = {k \in F : f[k].key = key}
    BY <1>1, <1>2
  <2>2. LastIn(g, s, e, key) = LastIn(f, s, e, key)
    BY <2>1 DEF LastIn
  <2>3. NextIn(g, s, e, key) = NextIn(f, s, e, key)
    BY <1>1, <2>2 DEF NextIn
  <2> DEFINE l == LastIn(f, s, e, key)
             next == NextIn(f, s, e, key)
             to == IF next = {} THEN e ELSE Min(next) - 1
  <2>4. /\ l \in s .. e
        /\ next # {} => Min(next) \in next
    BY LastField
  <2>5. \A k \in next : k \in s .. e
    BY <1>2 DEF NextIn
  <2>6. to \in Int /\ to <= e
    BY <2>4, <2>5
  <2> HIDE DEF l, to
  <2>7. \A k \in l .. to : k \in s .. e
    BY <2>4, <2>6
  <2>8. TextOf(f, s, e, key) = {k \in l .. to : HasText(f[k])}
    BY DEF TextOf, l, to
  <2>9. TextOf(g, s, e, key) = {k \in l .. to : HasText(g[k])}
    BY <2>2, <2>3 DEF TextOf, l, to
  <2> QED BY <2>7, <2>8, <2>9
<1> QED BY <1>1, <1>3, <1>4 DEF BodyIn

\* The fields when a line more is in the block.
LEMMA FieldsGrow ==
  ASSUME NEW f, NEW s \in Nat, NEW e \in Nat, s <= e + 1
  PROVE  /\ e + 1 \in s .. e + 1 /\ \A k \in FieldsIn(f, s, e) : k \in s .. e /\ k < e + 1
         /\ FieldsIn(f, s, e + 1) = IF f[e + 1].kind = "field"
                                    THEN FieldsIn(f, s, e) \cup {e + 1} ELSE FieldsIn(f, s, e)
<1>1. s .. e + 1 = (s .. e) \cup {e + 1} /\ e + 1 \in s .. e + 1 /\ \A k \in s .. e : k < e + 1
  OBVIOUS
<1> QED BY <1>1 DEF FieldsIn

\* A line that is not of the value's field leaves the value as it was.
LEMMA ValueStays ==
  ASSUME NEW f, NEW s \in Nat, NEW e \in Nat, s <= e + 1,
         NEW key \in {f[k].key : k \in FieldsIn(f, s, e)},
         \/ f[e + 1].kind = "field" /\ f[e + 1].key # key
         \/ f[e + 1].kind # "field" /\ NextIn(f, s, e, key) # {}
  PROVE  TextOf(f, s, e + 1, key) = TextOf(f, s, e, key)
<1> DEFINE F == FieldsIn(f, s, e)
           G == FieldsIn(f, s, e + 1)
           l == LastIn(f, s, e, key)
           next == NextIn(f, s, e, key)
           later == NextIn(f, s, e + 1, key)
<1>1. /\ \A k \in F : k \in s .. e /\ k < e + 1
      /\ G = IF f[e + 1].kind = "field" THEN F \cup {e + 1} ELSE F
  BY FieldsGrow
<1>2. {k \in G : f[k].key = key} = {k \in F : f[k].key = key}
  BY <1>1
<1>3. LastIn(f, s, e + 1, key) = l
  BY <1>2 DEF LastIn
<1>4. /\ l \in F /\ l \in s .. e /\ l \in Nat /\ next \subseteq Nat /\ IsFiniteSet(next)
      /\ next # {} => Min(next) \in next /\ \A k \in next : Min(next) <= k
  BY LastField
<1>5. later = IF f[e + 1].kind = "field" THEN next \cup {e + 1} ELSE next
  BY <1>1, <1>3, <1>4 DEF NextIn
<1>6. /\ TextOf(f, s, e, key) = {k \in l .. (IF next = {} THEN e ELSE Min(next) - 1) : HasText(f[k])}
      /\ TextOf(f, s, e + 1, key)
           = {k \in l .. (IF later = {} THEN e + 1 ELSE Min(later) - 1) : HasText(f[k])}
  BY <1>3 DEF TextOf
<1>7. \A k \in next : k < e + 1
  BY <1>1 DEF NextIn
<1>8. f[e + 1].kind # "field" => next # {}
  OBVIOUS
<1> HIDE DEF F, G, l, next, later
<1>9. CASE f[e + 1].kind # "field"
  BY <1>5, <1>6, <1>8, <1>9
<1>10. CASE f[e + 1].kind = "field"
  <2>1. later = next \cup {e + 1} /\ later \subseteq Nat /\ IsFiniteSet(later) /\ later # {}
    BY <1>4, <1>5, <1>10, FS_AddElement
  <2>2. CASE next = {}
    <3>1. Min(later) = e + 1
      BY <2>1, <2>2, FirstPlace
    <3> QED BY <1>6, <2>1, <2>2, <3>1
  <2>3. CASE next # {}
    <3>1. Min(next) \in next /\ \A k \in next : Min(next) <= k
      BY <1>4, <2>3
    <3>2. \A k \in later : Min(next) <= k
      BY <1>4, <1>7, <2>1, <3>1
    <3>3. Min(next) \in later
      BY <2>1, <3>1
    <3>4. Min(later) = Min(next)
      BY <2>1, <3>2, <3>3, Extremes
    <3> QED BY <1>6, <2>1, <2>3, <3>4
  <2> QED BY <2>2, <2>3
<1> QED BY <1>9, <1>10

\* The positions that are one alone.
LEMMA InOrderOne ==
  ASSUME NEW n \in Nat
  PROVE  InOrder({n}) = <<n>>
<1>1. Cardinality({}) = 0 /\ IsFiniteSet({})
  BY FS_EmptySet
<1>2. InOrder({}) = <<>>
  BY <1>1 DEF InOrder
<1>3. InOrder({} \cup {n}) = Append(InOrder({}), n)
  BY <1>1, InOrderLast
<1>4. {} \cup {n} = {n} /\ Append(<<>>, n) = <<n>>
  OBVIOUS
<1> QED BY <1>2, <1>3, <1>4

\* A field takes the place of one of its name.
LEMMA BodyOfField ==
  ASSUME NEW f, NEW s \in Nat, NEW e \in Nat, s <= e + 1, f[e + 1].kind = "field"
  PROVE  LET body == BodyIn(f, s, e)
             new == f[e + 1].key
         IN  BodyIn(f, s, e + 1) = [key \in DOMAIN body \cup {new} |->
                                      IF key = new THEN <<e + 1>> ELSE body[key]]
<1> DEFINE F == FieldsIn(f, s, e)
           G == FieldsIn(f, s, e + 1)
           K == {f[k].key : k \in F}
           new == f[e + 1].key
           body == BodyIn(f, s, e)
<1>1. G = F \cup {e + 1} /\ \A k \in F : k < e + 1
  BY FieldsGrow
<1>2. {f[k].key : k \in G} = K \cup {new}
  BY <1>1
<1>3. DOMAIN body = K /\ \A key \in K : body[key] = InOrder(TextOf(f, s, e, key))
  BY DEF BodyIn
<1>4. ASSUME NEW key \in K, key # new
      PROVE  TextOf(f, s, e + 1, key) = TextOf(f, s, e, key)
  BY <1>4, ValueStays
<1>5. InOrder(TextOf(f, s, e + 1, new)) = <<e + 1>>
  <2>1. LastIn(f, s, e + 1, new) = e + 1
    <3> DEFINE T == {k \in G : f[k].key = new}
    <3>1. T \in SUBSET (s .. e + 1) /\ e + 1 \in Nat
      BY DEF FieldsIn
    <3>2. T \subseteq Nat /\ IsFiniteSet(T)
      BY <3>1, PlacesTyped
    <3>3. e + 1 \in T /\ \A k \in T : k <= e + 1
      BY <1>1, <3>1, <3>2
    <3>4. Max(T) = e + 1
      <4> HIDE DEF T
      <4> QED BY <3>2, <3>3, Extremes
    <3> QED BY <3>4 DEF LastIn
  <2>2. NextIn(f, s, e + 1, new) = {}
    <3>1. \A k \in G : k <= e + 1 /\ k \in Nat
      BY DEF FieldsIn
    <3> QED BY <2>1, <3>1 DEF NextIn
  <2>3. TextOf(f, s, e + 1, new) = {k \in e + 1 .. e + 1 : HasText(f[k])}
    BY <2>1, <2>2 DEF TextOf
  <2>4. HasText(f[e + 1])
    BY DEF HasText
  <2>5. TextOf(f, s, e + 1, new) = {e + 1}
    BY <2>3, <2>4
  <2> QED BY <2>5, InOrderOne
<1>6. BodyIn(f, s, e + 1) = [key \in K \cup {new} |-> InOrder(TextOf(f, s, e + 1, key))]
  BY <1>2 DEF BodyIn
<1> HIDE DEF K, new, body
<1>7. BodyIn(f, s, e + 1) = [key \in DOMAIN body \cup {new} |->
                               IF key = new THEN <<e + 1>> ELSE body[key]]
  BY <1>3, <1>4, <1>5, <1>6
<1> QED BY <1>7 DEF body, new

\* Any other line with text goes on with the last field.
LEMMA BodyGoesOn ==
  ASSUME NEW f, NEW s \in Nat, NEW e \in Nat, s <= e + 1, f[e + 1].kind # "field",
         FieldsIn(f, s, e) # {}
  PROVE  LET body == BodyIn(f, s, e)
             last == f[Max(FieldsIn(f, s, e))].key
         IN  /\ last \in DOMAIN body
             /\ BodyIn(f, s, e + 1) = IF HasText(f[e + 1])
                                      THEN [body EXCEPT ![last] = Append(@, e + 1)] ELSE body
<1> DEFINE F == FieldsIn(f, s, e)
           K == {f[k].key : k \in F}
           m == Max(F)
           last == f[m].key
           body == BodyIn(f, s, e)
           longer == BodyIn(f, s, e + 1)
<1>1. FieldsIn(f, s, e + 1) = F /\ \A k \in F : k < e + 1
  BY FieldsGrow
<1>2. F \in SUBSET (s .. e)
  BY DEF FieldsIn
<1>3. F \subseteq Nat /\ IsFiniteSet(F)
  BY <1>2, PlacesTyped
<1>4. m \in F /\ \A k \in F : k <= m
  BY <1>3, Greatest
<1>5. last \in K /\ m \in s .. e /\ m \in Nat
  BY <1>2, <1>4
<1>6. /\ DOMAIN body = K /\ \A key \in K : body[key] = InOrder(TextOf(f, s, e, key))
      /\ longer = [key \in K |-> InOrder(TextOf(f, s, e + 1, key))]
  BY <1>1 DEF BodyIn
<1>7. ASSUME NEW key \in K, key # last
      PROVE  TextOf(f, s, e + 1, key) = TextOf(f, s, e, key)
  <2> DEFINE l == LastIn(f, s, e, key)
  <2>1. l \in F /\ f[l].key = key /\ l \in Nat
    BY LastField
  <2>2. l <= m /\ l # m
    BY <1>4, <1>7, <2>1
  <2>3. m > l
    BY <1>5, <2>1, <2>2
  <2>4. m \in NextIn(f, s, e, key)
    BY <1>4, <2>3 DEF NextIn
  <2> QED BY <2>4, ValueStays
<1>8. \A d \in {e, e + 1} : /\ LastIn(f, s, d, last) = m /\ NextIn(f, s, d, last) = {}
                            /\ TextOf(f, s, d, last) = {k \in m .. d : HasText(f[k])}
  <2> TAKE d \in {e, e + 1}
  <2>1. FieldsIn(f, s, d) = F
    BY <1>1
  <2> DEFINE T == {k \in F : f[k].key = last}
  <2>2. T \subseteq Nat /\ IsFiniteSet(T)
    BY <1>3, FS_Subset
  <2>3. m \in T /\ \A k \in T : k <= m
    BY <1>4
  <2>4. Max(T) = m
    <3> HIDE DEF T, m
    <3> QED BY <2>2, <2>3, Extremes
  <2>5. LastIn(f, s, d, last) = m
    BY <2>1, <2>4 DEF LastIn
  <2>6. NextIn(f, s, d, last) = {}
    <3>1. \A k \in F : ~(k > m)
      BY <1>3, <1>4, <1>5
    <3> QED BY <2>1, <2>5, <3>1 DEF NextIn
  <2>7. TextOf(f, s, d, last) = {k \in m .. d : HasText(f[k])}
    BY <2>5, <2>6 DEF TextOf
  <2> QED BY <2>5, <2>6, <2>7
<1> HIDE DEF F, K, m, last, body, longer
<1> DEFINE T == TextOf(f, s, e, last)
<1>9. T = {k \in m .. e : HasText(f[k])}
      /\ TextOf(f, s, e + 1, last) = {k \in m .. e + 1 : HasText(f[k])}
  BY <1>8
<1>10. m .. e + 1 = (m .. e) \cup {e + 1} /\ \A k \in m .. e : k < e + 1
  BY <1>5
<1>11. TextOf(f, s, e + 1, last) = IF HasText(f[e + 1]) THEN T \cup {e + 1} ELSE T
  BY <1>9, <1>10
<1>12. T \subseteq Nat /\ IsFiniteSet(T) /\ \A k \in T : k < e + 1
  <2>1. T \in SUBSET (m .. e)
    BY <1>9
  <2>2. T \subseteq Nat /\ IsFiniteSet(T)
    BY <1>5, <2>1, PlacesTyped
  <2> QED BY <1>10, <2>1, <2>2
<1>13. HasText(f[e + 1]) => InOrder(T \cup {e + 1}) = Append(InOrder(T), e + 1)
  <2> HIDE DEF T
  <2>1. e + 1 \in Nat
    OBVIOUS
  <2> QED BY <1>12, <2>1, InOrderLast
<1>14. body = [key \in K |-> body[key]]
  BY <1>6 DEF BodyIn, body, K, F
<1> HIDE DEF T
<1>15. longer = IF HasText(f[e + 1]) THEN [body EXCEPT ![last] = Append(@, e + 1)] ELSE body
  <2>1. CASE HasText(f[e + 1])
    <3>1. TextOf(f, s, e + 1, last) = T \cup {e + 1} /\ body[last] = InOrder(T)
      BY <1>5, <1>6, <1>11, <2>1 DEF T
    <3>2. longer[last] = Append(body[last], e + 1)
      BY <1>5, <1>6, <1>13, <2>1, <3>1
    <3>3. \A key \in K : key # last => longer[key] = body[key]
      BY <1>6, <1>7
    <3> QED BY <1>6, <1>14, <2>1, <3>2, <3>3
  <2>2. CASE ~HasText(f[e + 1])
    <3>1. \A key \in K : longer[key] = body[key]
      BY <1>5, <1>6, <1>7, <1>11, <2>2 DEF T
    <3> QED BY <1>6, <1>14, <2>2, <3>1
  <2> QED BY <2>1, <2>2
<1> QED BY <1>5, <1>6, <1>15 DEF body, longer, last, m, F

\* Where a block ends.
LEMMA BlockEnd ==
  ASSUME NEW f, NEW p \in Nat, NEW s \in SepsIn(f, p)
  PROVE  s \in 1 .. p /\ EndIn(f, p, s) \in Nat /\ EndIn(f, p, s) <= p
<1> DEFINE T == {t \in SepsIn(f, p) : t > s}
<1>1. T \in SUBSET (1 .. p) /\ s \in 1 .. p
  BY DEF SepsIn
<1>2. T # {} => Min(T) \in T
  <2>1. T \subseteq Nat
    <3>1. 1 \in Nat
      OBVIOUS
    <3> QED BY <1>1, <3>1, PlacesTyped
  <2> HIDE DEF T
  <2> QED BY <2>1, FirstPlace
<1>3. T # {} <=> \E t \in SepsIn(f, p) : t > s
  OBVIOUS
<1>4. EndIn(f, p, s) = IF T # {} THEN Min(T) - 1 ELSE p
  BY <1>3 DEF EndIn
<1> DEFINE m == Min(T)
<1>5. T # {} => m \in 1 .. p
  BY <1>1, <1>2
<1> HIDE DEF m
<1>6. T # {} => m - 1 \in Nat /\ m - 1 <= p
  BY <1>5
<1> HIDE DEF T
<1> QED BY <1>1, <1>4, <1>6 DEF m

\* The blocks are of the lines that have been read.
LEMMA BlocksOfLines ==
  ASSUME NEW f, NEW g, NEW p \in Nat, \A k \in 1 .. p : g[k] = f[k]
  PROVE  SepsIn(g, p) = SepsIn(f, p) /\ Blocks(g, p) = Blocks(f, p)
<1>1. SepsIn(g, p) = SepsIn(f, p)
  BY DEF SepsIn
<1>2. \A s : EndIn(g, p, s) = EndIn(f, p, s)
  BY <1>1 DEF EndIn
<1>3. ASSUME NEW s \in SepsIn(f, p)
      PROVE  /\ FieldsIn(g, s, EndIn(f, p, s)) = FieldsIn(f, s, EndIn(f, p, s))
             /\ BodyIn(g, s, EndIn(f, p, s)) = BodyIn(f, s, EndIn(f, p, s))
  <2> DEFINE e == EndIn(f, p, s)
  <2>1. s \in 1 .. p /\ e \in Nat /\ e <= p
    BY BlockEnd
  <2> HIDE DEF e
  <2>2. \A k \in s .. e : g[k] = f[k]
    BY <2>1
  <2>3. s \in Nat
    BY <2>1
  <2> QED BY <2>1, <2>2, <2>3, BodyOfLines DEF e
<1>4. FullIn(g, p) = FullIn(f, p)
  BY <1>1, <1>2, <1>3 DEF FullIn
<1> DEFINE full == InOrder(FullIn(f, p))
<1>5. full \in Seq(FullIn(f, p))
  <2>1. FullIn(f, p) \in SUBSET (1 .. p)
    BY DEF FullIn, SepsIn
  <2>2. FullIn(f, p) \subseteq Nat /\ IsFiniteSet(FullIn(f, p))
    BY <2>1, PlacesTyped
  <2> QED BY <2>2, InOrderTyped
<1>6. \A i \in DOMAIN full : full[i] \in SepsIn(f, p)
  <2> HIDE DEF full
  <2>1. \A i \in DOMAIN full : full[i] \in FullIn(f, p)
    BY <1>5
  <2> QED BY <2>1 DEF FullIn
<1>7. Blocks(g, p) = [i \in DOMAIN full |-> BodyIn(g, full[i], EndIn(f, p, full[i]))]
  BY <1>2, <1>4 DEF Blocks
<1>8. Blocks(f, p) = [i \in DOMAIN full |-> BodyIn(f, full[i], EndIn(f, p, full[i]))]
  BY DEF Blocks
<1> HIDE DEF full
<1>9. Blocks(g, p) = Blocks(f, p)
  BY <1>3, <1>6, <1>7, <1>8
<1> QED BY <1>1, <1>9

\* No separator, no block.
LEMMA NoBlocks ==
  ASSUME NEW f, NEW p, SepsIn(f, p) = {}
  PROVE  Blocks(f, p) = <<>>
<1>1. FullIn(f, p) = {} /\ Cardinality({}) = 0
  BY FS_EmptySet DEF FullIn
<1>2. DOMAIN InOrder(FullIn(f, p)) = 1 .. 0
  BY <1>1 DEF InOrder
<1> DEFINE b == Blocks(f, p)
<1>3. b = [i \in 1 .. 0 |-> b[i]]
  BY <1>2 DEF Blocks
<1> HIDE DEF b
<1>4. b = <<>>
  BY <1>3
<1> QED BY <1>4 DEF b

\* A sequence over a sequence that is one longer.
LEMMA MapAppend ==
  ASSUME NEW T, NEW s \in Seq(T), NEW x \in T, NEW h, NEW t, t = Append(s, x)
  PROVE  [i \in DOMAIN t |-> h[t[i]]] = Append([i \in DOMAIN s |-> h[s[i]]], h[x])
<1> DEFINE a == [i \in DOMAIN s |-> h[s[i]]]
<1>1. /\ DOMAIN s = 1 .. Len(s) /\ Len(s) \in Nat
      /\ DOMAIN t = 1 .. Len(s) + 1
      /\ \A i \in 1 .. Len(s) : t[i] = s[i]
      /\ t[Len(s) + 1] = x
  OBVIOUS
<1>2. a = [i \in 1 .. Len(s) |-> h[s[i]]]
  BY <1>1
<1>3. Len(a) = Len(s) /\ a \in Seq({h[s[i]] : i \in 1 .. Len(s)})
  BY <1>1, <1>2
<1> HIDE DEF a
<1>4. /\ DOMAIN Append(a, h[x]) = 1 .. Len(s) + 1
      /\ \A i \in 1 .. Len(s) : Append(a, h[x])[i] = a[i]
      /\ Append(a, h[x])[Len(s) + 1] = h[x]
      /\ Append(a, h[x]) = [i \in 1 .. Len(s) + 1 |-> Append(a, h[x])[i]]
  BY <1>1, <1>3
<1>5. \A i \in 1 .. Len(s) + 1 : Append(a, h[x])[i] = h[t[i]]
  <2> TAKE i \in 1 .. Len(s) + 1
  <2>1. i \in 1 .. Len(s) \/ i = Len(s) + 1
    BY <1>1
  <2> QED BY <1>1, <1>2, <1>4, <2>1
<1>6. [i \in DOMAIN t |-> h[t[i]]] = [i \in 1 .. Len(s) + 1 |-> h[t[i]]]
  BY <1>1
<1> QED BY <1>4, <1>5, <1>6 DEF a

\* The blocks are those before the last separator, and the one after it.
LEMMA BlocksLast ==
  ASSUME NEW f, NEW p \in Nat, SepsIn(f, p) # {}
  PROVE  LET s == Max(SepsIn(f, p))
         IN  /\ s \in 1 .. p /\ s - 1 \in Nat /\ f[s].kind = "sep"
             /\ Blocks(f, p) = IF FieldsIn(f, s, p) = {} THEN Blocks(f, s - 1)
                               ELSE Append(Blocks(f, s - 1), BodyIn(f, s, p))
<1> DEFINE S == SepsIn(f, p)
           s == Max(S)
           R == SepsIn(f, s - 1)
<1>1. S \in SUBSET (1 .. p)
  BY DEF SepsIn
<1>2. S \subseteq Nat /\ IsFiniteSet(S)
  BY <1>1, PlacesTyped
<1>3. s \in S /\ \A t \in S : t <= s
  BY <1>2, Greatest
<1>4. s \in 1 .. p /\ s \in Nat /\ s - 1 \in Nat /\ f[s].kind = "sep"
  BY <1>3 DEF SepsIn
<1> HIDE DEF s
<1>5. /\ S = R \cup {s} /\ s \notin R /\ R \in SUBSET (1 .. s - 1)
      /\ \A t \in R : t < s
  <2>1. \A t : t \in S <=> t \in R \/ t = s
    BY <1>3, <1>4 DEF SepsIn
  <2>2. R \in SUBSET (1 .. s - 1)
    BY DEF SepsIn
  <2> QED BY <1>4, <2>1, <2>2
<1>6. R \subseteq Nat /\ IsFiniteSet(R)
  BY <1>4, <1>5, PlacesTyped
<1>7. EndIn(f, p, s) = p
  <2>1. ~ \E t \in S : t > s
    BY <1>2, <1>3, <1>4
  <2> QED BY <2>1 DEF EndIn
<1>8. ASSUME NEW t \in R
      PROVE  EndIn(f, p, t) = EndIn(f, s - 1, t)
  <2> DEFINE A == {u \in R : u > t}
             B == {u \in S : u > t}
  <2>1. t < s /\ t \in Nat
    BY <1>5, <1>6
  <2>2. s > t
    BY <1>4, <2>1
  <2>3. B = A \cup {s} /\ B # {}
    BY <1>5, <2>2
  <2>4. A \subseteq Nat /\ IsFiniteSet(A) /\ B \subseteq Nat /\ IsFiniteSet(B)
    BY <1>2, <1>6, FS_Subset
  <2>5. /\ EndIn(f, p, t) = Min(B) - 1
        /\ EndIn(f, s - 1, t) = IF A # {} THEN Min(A) - 1 ELSE s - 1
    BY <2>3 DEF EndIn
  <2>6. \A u \in A : u < s
    BY <1>5
  <2> HIDE DEF A, B
  <2>7. CASE A = {}
    <3>1. \A u \in B : s <= u
      BY <1>4, <2>3, <2>7
    <3>2. Min(B) = s
      BY <2>3, <2>4, <3>1, Extremes
    <3> QED BY <2>5, <2>7, <3>2
  <2>8. CASE A # {}
    <3> DEFINE m == Min(A)
    <3>1. m \in A /\ \A u \in A : m <= u
      BY <2>4, <2>8, FirstPlace
    <3> HIDE DEF m
    <3>2. m \in B /\ \A u \in B : m <= u
      <4>1. m < s /\ m \in Nat
        BY <2>4, <2>6, <3>1
      <4> QED BY <1>4, <2>3, <3>1, <4>1
    <3>3. Min(B) = m
      BY <2>4, <3>2, Extremes
    <3> QED BY <2>5, <2>8, <3>3 DEF m
  <2> QED BY <2>7, <2>8
<1> DEFINE old == FullIn(f, s - 1)
           w == [t \in S |-> BodyIn(f, t, EndIn(f, p, t))]
           a == InOrder(old)
<1>9. old = {t \in R : FieldsIn(f, t, EndIn(f, p, t)) # {}}
  BY <1>8 DEF FullIn
<1>10. FullIn(f, p) = IF FieldsIn(f, s, p) = {} THEN old ELSE old \cup {s}
  BY <1>5, <1>7, <1>9 DEF FullIn
<1>11. old \subseteq R
  BY <1>9
<1>12. old \subseteq Nat /\ IsFiniteSet(old) /\ \A t \in old : t < s
  BY <1>5, <1>6, <1>11, FS_Subset
<1>13. a \in Seq(old) /\ a \in Seq(S)
  <2>1. a \in Seq(old) /\ old \subseteq S
    BY <1>5, <1>11, <1>12, InOrderTyped
  <2> HIDE DEF a, old
  <2> QED BY <2>1
<1>14. Blocks(f, s - 1) = [i \in DOMAIN a |-> w[a[i]]]
  <2>1. Blocks(f, s - 1) = [i \in DOMAIN a |-> BodyIn(f, a[i], EndIn(f, s - 1, a[i]))]
    BY DEF Blocks
  <2>2. \A i \in DOMAIN a : a[i] \in R /\ a[i] \in S
    <3> HIDE DEF a, old
    <3>1. \A i \in DOMAIN a : a[i] \in old
      BY <1>13
    <3> QED BY <1>5, <1>11, <3>1
  <2>3. \A i \in DOMAIN a : BodyIn(f, a[i], EndIn(f, s - 1, a[i])) = w[a[i]]
    BY <1>8, <2>2
  <2> HIDE DEF a, w
  <2> QED BY <2>1, <2>3
<1>15. CASE FieldsIn(f, s, p) = {}
  <2>1. Blocks(f, p) = [i \in DOMAIN a |-> BodyIn(f, a[i], EndIn(f, p, a[i]))]
    BY <1>10, <1>15 DEF Blocks
  <2>2. \A i \in DOMAIN a : a[i] \in S
    <3> HIDE DEF a, old
    <3> QED BY <1>13
  <2>3. \A i \in DOMAIN a : BodyIn(f, a[i], EndIn(f, p, a[i])) = w[a[i]]
    BY <2>2
  <2>4. Blocks(f, p) = [i \in DOMAIN a |-> w[a[i]]]
    <3> HIDE DEF a, w
    <3> QED BY <2>1, <2>3
  <2> QED BY <1>4, <1>14, <1>15, <2>4 DEF s
<1>16. CASE FieldsIn(f, s, p) # {}
  <2> DEFINE b == InOrder(old \cup {s})
  <2>1. b = Append(a, s)
    BY <1>4, <1>12, InOrderLast
  <2>2. Blocks(f, p) = [i \in DOMAIN b |-> BodyIn(f, b[i], EndIn(f, p, b[i]))]
    BY <1>10, <1>16 DEF Blocks
  <2>3. \A i \in DOMAIN b : b[i] \in S
    <3> HIDE DEF a, b, old, S
    <3> QED BY <1>3, <1>13, <2>1
  <2>4. \A i \in DOMAIN b : BodyIn(f, b[i], EndIn(f, p, b[i])) = w[b[i]]
    BY <2>3
  <2>5. Blocks(f, p) = [i \in DOMAIN b |-> w[b[i]]]
    <3> HIDE DEF b, w
    <3> QED BY <2>2, <2>4
  <2>6. w[s] = BodyIn(f, s, p)
    BY <1>3, <1>7
  <2> HIDE DEF a, b, w, old, S
  <2>7. Blocks(f, p) = Append(Blocks(f, s - 1), w[s])
    BY <1>3, <1>13, <1>14, <2>1, <2>5, MapAppend
  <2> QED BY <1>4, <1>16, <2>6, <2>7 DEF s, S
<1> QED BY <1>15, <1>16

\* The record and the field the adapter has open at p, and the records it has
\* emitted: those of the blocks before the last separator.
Reached(f, p, record, key, bodies) ==
  IF SepsIn(f, p) = {} THEN record = NoRecord /\ key = NoKey /\ bodies = <<>>
  ELSE LET s == Max(SepsIn(f, p))
           fields == FieldsIn(f, s, p)
       IN  /\ record = [src |-> "block", ts |-> NoTime, body |-> BodyIn(f, s, p)]
           /\ key = IF fields = {} THEN NoKey ELSE f[Max(fields)].key
           /\ bodies = Blocks(f, s - 1)

\* With the record that is open they are all.
LEMMA BlocksReached ==
  ASSUME NEW f, NEW p \in Nat, NEW record, NEW key, NEW bodies,
         Reached(f, p, record, key, bodies)
  PROVE  Blocks(f, p) = IF record.body = NoFields THEN bodies ELSE Append(bodies, record.body)
<1>1. CASE SepsIn(f, p) = {}
  <2>1. record.body = NoFields /\ bodies = <<>>
    BY <1>1 DEF Reached, NoRecord
  <2> QED BY <1>1, <2>1, NoBlocks
<1>2. CASE SepsIn(f, p) # {}
  <2> DEFINE s == Max(SepsIn(f, p))
  <2>1. record.body = BodyIn(f, s, p) /\ bodies = Blocks(f, s - 1)
    BY <1>2 DEF Reached
  <2> QED BY <1>2, <2>1, BlocksLast, NoBody
<1> QED BY <1>1, <1>2

\* A separator more, or none.
LEMMA SepsRead ==
  ASSUME NEW f, NEW p \in Nat
  PROVE  /\ f[p + 1].kind = "sep" => SepsIn(f, p + 1) # {} /\ Max(SepsIn(f, p + 1)) = p + 1
         /\ f[p + 1].kind # "sep" => SepsIn(f, p + 1) = SepsIn(f, p)
<1>1. 1 .. p + 1 = (1 .. p) \cup {p + 1} /\ p + 1 \in Nat /\ 1 \in Nat
  OBVIOUS
<1>2. f[p + 1].kind # "sep" => SepsIn(f, p + 1) = SepsIn(f, p)
  BY <1>1 DEF SepsIn
<1>3. ASSUME f[p + 1].kind = "sep"
      PROVE  SepsIn(f, p + 1) # {} /\ Max(SepsIn(f, p + 1)) = p + 1
  <2> DEFINE S == SepsIn(f, p + 1)
  <2>1. S \in SUBSET (1 .. p + 1) /\ p + 1 \in S
    BY <1>1, <1>3 DEF SepsIn
  <2>2. S \subseteq Nat /\ IsFiniteSet(S)
    BY <1>1, <2>1, PlacesTyped
  <2>3. \A x \in S : x <= p + 1
    BY <2>1
  <2> HIDE DEF S
  <2>4. Max(S) = p + 1
    BY <2>1, <2>2, <2>3, Extremes
  <2> QED BY <2>1, <2>4 DEF S
<1> QED BY <1>2, <1>3

\* At a separator the next block is open, and empty.
LEMMA ReachedSep ==
  ASSUME NEW f, NEW p \in Nat, NEW record, NEW key, NEW bodies,
         Reached(f, p, record, key, bodies), f[p + 1].kind = "sep"
  PROVE  Reached(f, p + 1, [NoRecord EXCEPT !.src = "block"], NoKey,
                 IF record.body = NoFields THEN bodies ELSE Append(bodies, record.body))
<1>1. SepsIn(f, p + 1) # {} /\ Max(SepsIn(f, p + 1)) = p + 1 /\ p + 1 - 1 = p
  BY SepsRead
<1>2. FieldsIn(f, p + 1, p + 1) = {}
  BY DEF FieldsIn
<1>3. BodyIn(f, p + 1, p + 1) = NoFields
  BY <1>2, NoBody
<1>4. [NoRecord EXCEPT !.src = "block"] = [src |-> "block", ts |-> NoTime, body |-> NoFields]
  BY DEF NoRecord
<1> DEFINE all == IF record.body = NoFields THEN bodies ELSE Append(bodies, record.body)
           next == [NoRecord EXCEPT !.src = "block"]
<1>5. Blocks(f, p) = all
  BY BlocksReached
<1> HIDE DEF all, next
<1>6. Reached(f, p + 1, next, NoKey, all)
  BY <1>1, <1>2, <1>3, <1>4, <1>5 DEF Reached, next
<1> QED BY <1>6 DEF all, next

\* A field is of the block that is open, if there is one.
LEMMA ReachedField ==
  ASSUME NEW f, NEW p \in Nat, NEW record, NEW key, NEW bodies,
         Reached(f, p, record, key, bodies), f[p + 1].kind = "field"
  PROVE  LET new == f[p + 1].key IN
         IF record = NoRecord THEN Reached(f, p + 1, record, key, bodies)
         ELSE Reached(f, p + 1,
                [record EXCEPT !.body = [k \in DOMAIN record.body \cup {new} |->
                                           IF k = new THEN <<p + 1>> ELSE record.body[k]]],
                new, bodies)
<1>1. SepsIn(f, p + 1) = SepsIn(f, p)
  BY SepsRead
<1>2. CASE SepsIn(f, p) = {}
  BY <1>1, <1>2 DEF Reached
<1>3. CASE SepsIn(f, p) # {}
  <2> DEFINE s == Max(SepsIn(f, p))
             new == f[p + 1].key
             body == BodyIn(f, s, p)
             longer == [k \in DOMAIN body \cup {new} |-> IF k = new THEN <<p + 1>> ELSE body[k]]
             G == FieldsIn(f, s, p + 1)
  <2>1. s \in 1 .. p
    BY <1>3, BlocksLast
  <2> HIDE DEF s
  <2>2. record = [src |-> "block", ts |-> NoTime, body |-> body] /\ bodies = Blocks(f, s - 1)
    BY <1>3 DEF Reached, s
  <2>3. s \in Nat /\ s <= p + 1 /\ p + 1 \in Nat
    BY <2>1
  <2>4. BodyIn(f, s, p + 1) = longer
    BY <2>3, BodyOfField
  <2>5. G # {} /\ Max(G) = p + 1
    <3>1. p + 1 \in G /\ G \in SUBSET (s .. p + 1)
      BY <2>3 DEF FieldsIn
    <3>2. G \subseteq Nat /\ IsFiniteSet(G)
      BY <2>3, <3>1, PlacesTyped
    <3>3. \A x \in G : x <= p + 1
      BY <2>3, <3>1
    <3> HIDE DEF G
    <3> QED BY <3>1, <3>2, <3>3, Extremes
  <2> HIDE DEF body, longer, G
  <2>6. record # NoRecord
    BY <2>2 DEF NoRecord
  <2>7. [record EXCEPT !.body = longer] = [src |-> "block", ts |-> NoTime, body |-> longer]
    BY <2>2
  <2>8. Reached(f, p + 1, [record EXCEPT !.body = longer], new, bodies)
    BY <1>1, <1>3, <2>2, <2>4, <2>5, <2>7 DEF Reached, s, G
  <2>9. record.body = body
    BY <2>2
  <2> QED BY <2>6, <2>8, <2>9 DEF longer
<1> QED BY <1>2, <1>3

\* Any other line goes on with the last field, if it has text.
LEMMA ReachedOther ==
  ASSUME NEW f, NEW p \in Nat, NEW record, NEW key, NEW bodies,
         Reached(f, p, record, key, bodies), f[p + 1].kind \notin {"sep", "field"},
         \A k \in 1 .. p : f[k].kind = "field" => f[k].key # NoKey
  PROVE  IF key # NoKey /\ HasText(f[p + 1])
         THEN /\ key \in DOMAIN record.body
              /\ Reached(f, p + 1, [record EXCEPT !.body[key] = Append(@, p + 1)], key, bodies)
         ELSE Reached(f, p + 1, record, key, bodies)
<1>1. SepsIn(f, p + 1) = SepsIn(f, p)
  BY SepsRead
<1>2. CASE SepsIn(f, p) = {}
  BY <1>1, <1>2 DEF Reached
<1>3. CASE SepsIn(f, p) # {}
  <2> DEFINE s == Max(SepsIn(f, p))
             body == BodyIn(f, s, p)
             F == FieldsIn(f, s, p)
             m == Max(F)
  <2>1. s \in 1 .. p
    BY <1>3, BlocksLast
  <2> HIDE DEF s
  <2>2. /\ record = [src |-> "block", ts |-> NoTime, body |-> body] /\ bodies = Blocks(f, s - 1)
        /\ key = IF F = {} THEN NoKey ELSE f[m].key
    BY <1>3 DEF Reached, s
  <2>3. s \in Nat /\ s <= p + 1 /\ p \in Nat
    BY <2>1
  <2>4. FieldsIn(f, s, p + 1) = F
    BY <2>3, FieldsGrow
  <2>5. CASE F = {}
    <3>1. BodyIn(f, s, p + 1) = NoFields /\ body = NoFields
      BY <2>4, <2>5, NoBody
    <3>2. key = NoKey
      BY <2>2, <2>5
    <3> HIDE DEF body
    <3>3. Reached(f, p + 1, record, key, bodies)
      BY <1>1, <1>3, <2>2, <2>4, <2>5, <3>1, <3>2 DEF Reached, s
    <3> QED BY <3>2, <3>3
  <2>6. CASE F # {}
    <3>1. F \in SUBSET (s .. p)
      BY DEF FieldsIn
    <3>2. F \subseteq Nat /\ IsFiniteSet(F)
      BY <2>3, <3>1, PlacesTyped
    <3>3. m \in F
      BY <2>6, <3>2, Greatest
    <3>4. key = f[m].key /\ key # NoKey
      <4>1. m \in 1 .. p /\ f[m].kind = "field"
        BY <2>1, <3>3 DEF FieldsIn
      <4> QED BY <2>2, <2>6, <4>1
    <3>5. /\ key \in DOMAIN body
          /\ BodyIn(f, s, p + 1) = IF HasText(f[p + 1])
                                   THEN [body EXCEPT ![key] = Append(@, p + 1)] ELSE body
      BY <2>3, <2>6, <3>4, BodyGoesOn
    <3> HIDE DEF body, m, F
    <3>6. CASE HasText(f[p + 1])
      <4> DEFINE longer == [record EXCEPT !.body[key] = Append(@, p + 1)]
                 text == [record.body EXCEPT ![key] = Append(@, p + 1)]
      <4>1. longer = [src |-> "block", ts |-> NoTime,
                      body |-> [body EXCEPT ![key] = Append(@, p + 1)]]
        <5>1. longer = [record EXCEPT !.body = text]
          OBVIOUS
        <5>2. text = [body EXCEPT ![key] = Append(@, p + 1)]
          BY <2>2
        <5> HIDE DEF text, longer
        <5> QED BY <2>2, <5>1, <5>2
      <4>2. record.body = body
        BY <2>2
      <4> HIDE DEF longer
      <4>3. Reached(f, p + 1, longer, key, bodies)
        BY <1>1, <1>3, <2>2, <2>4, <2>6, <3>4, <3>5, <3>6, <4>1 DEF Reached, s, m
      <4> QED BY <3>4, <3>5, <3>6, <4>2, <4>3 DEF longer
    <3>7. CASE ~HasText(f[p + 1])
      <4>1. Reached(f, p + 1, record, key, bodies)
        BY <1>1, <1>3, <2>2, <2>4, <2>6, <3>4, <3>5, <3>7 DEF Reached, s, m
      <4> QED BY <3>7, <4>1
    <3> QED BY <3>6, <3>7
  <2> QED BY <2>5, <2>6
<1> QED BY <1>2, <1>3

\* What has been reached stays so while the log grows.
LEMMA ReachedStays ==
  ASSUME NEW f, NEW g, NEW p \in Nat, NEW record, NEW key, NEW bodies,
         Reached(f, p, record, key, bodies), \A k \in 1 .. p : g[k] = f[k]
  PROVE  Reached(g, p, record, key, bodies)
<1>1. SepsIn(g, p) = SepsIn(f, p)
  BY BlocksOfLines
<1>2. CASE SepsIn(f, p) = {}
  BY <1>1, <1>2 DEF Reached
<1>3. CASE SepsIn(f, p) # {}
  <2> DEFINE s == Max(SepsIn(f, p))
             F == FieldsIn(f, s, p)
  <2>1. s \in 1 .. p /\ s - 1 \in Nat
    BY <1>3, BlocksLast
  <2> HIDE DEF s
  <2>2. s \in Nat /\ (\A k \in s .. p : g[k] = f[k]) /\ (\A k \in 1 .. s - 1 : g[k] = f[k])
    BY <2>1
  <2>3. FieldsIn(g, s, p) = F /\ BodyIn(g, s, p) = BodyIn(f, s, p)
    BY <2>2, BodyOfLines
  <2>4. Blocks(g, s - 1) = Blocks(f, s - 1)
    BY <2>1, <2>2, BlocksOfLines
  <2>5. F # {} => g[Max(F)] = f[Max(F)]
    <3>1. F \in SUBSET (s .. p)
      BY DEF FieldsIn
    <3>2. F \subseteq Nat /\ IsFiniteSet(F)
      BY <2>2, <3>1, PlacesTyped
    <3>3. F # {} => Max(F) \in s .. p
      BY <3>1, <3>2, Greatest
    <3> QED BY <2>2, <3>3
  <2> HIDE DEF F
  <2> QED BY <1>1, <1>3, <2>3, <2>4, <2>5 DEF Reached, s, F
<1> QED BY <1>2, <1>3

\* A sequence whatever it is of, and one more.
LEMMA SequenceGrows ==
  ASSUME NEW s, s \in Seq(Range(s)), NEW x
  PROVE  /\ Append(s, x) \in Seq(Range(Append(s, x)))
         /\ Bodies(Append(s, x)) = Append(Bodies(s), x.body)
<1> DEFINE t == Append(s, x)
           T == Range(s) \cup {x}
<1>1. s \in Seq(T) /\ x \in T
  <2> DEFINE R == Range(s)
  <2>1. s \in Seq(R)
    OBVIOUS
  <2> HIDE DEF R
  <2>2. s \in Seq(R \cup {x})
    BY <2>1
  <2> QED BY <2>2 DEF R
<1> HIDE DEF T
<1>2. /\ t \in Seq(T) /\ DOMAIN t = 1 .. Len(t) /\ Len(t) \in Nat
  BY <1>1
<1>3. \A i \in 1 .. Len(t) : t[i] \in Range(t)
  BY <1>2 DEF Range
<1> DEFINE b == [y \in T |-> y.body]
<1>4. [i \in DOMAIN t |-> b[t[i]]] = Append([i \in DOMAIN s |-> b[s[i]]], b[x])
  BY <1>1, MapAppend
<1>5. (\A i \in DOMAIN t : t[i] \in T) /\ (\A i \in DOMAIN s : s[i] \in T)
  BY <1>1, <1>2
<1>6. Bodies(t) = [i \in DOMAIN t |-> b[t[i]]] /\ Bodies(s) = [i \in DOMAIN s |-> b[s[i]]]
      /\ b[x] = x.body
  BY <1>1, <1>5 DEF Bodies
<1> HIDE DEF t, b
<1>7. t \in Seq(Range(t))
  BY <1>2, <1>3
<1> QED BY <1>4, <1>6, <1>7 DEF t

BlockInv ==
  /\ phase \in {"stat", "pick", "open"} => lastKey = NoKey
  /\ Streamed("block") =>
       /\ out \in Seq(Range(out))
       /\ phase = "stream" => Reached(file, pos, open, lastKey, Bodies(out))
       /\ phase = "done" => Bodies(out) = Blocks(file, pos)

\* The block adapter begins.
BlockOpens ==
  /\ phase = "open" /\ phase' = "stream" /\ UNCHANGED <<pos, open, out, lastKey>>

\* The log grows while it is read, or nothing happens.
BlockStays ==
  /\ Streamed("block") /\ UNCHANGED <<phase, pos, open, out, lastKey>>
  /\ \A k \in 1 .. pos : file'[k] = file[k]

\* Each step of the block adapter is one of these.
LEMMA BlockSteps ==
  ASSUME TypeInv, [Next]_vars, Streamed("block")'
  PROVE  \/ BlockOpens \/ BlockStays
         \/ SkipLong \/ StartBlock \/ ReadField \/ ContinueField \/ EndOfFile
<1>1. CASE UNCHANGED vars
  BY <1>1 DEF vars, BlockStays, Streamed
<1>2. CASE Grow
  <2>1. PICK line \in Growth : file' = Append(file, line)
    BY <1>2 DEF Grow
  <2>2. line \in Lines /\ file \in Seq(Lines) /\ pos \in 0 .. Len(file)
    BY <2>1 DEF Lines, TypeInv
  <2>3. \A k \in 1 .. pos : file'[k] = file[k]
    BY <2>1, <2>2
  <2> QED BY <1>2, <2>3 DEF Grow, BlockStays, Streamed, choice, memory
<1>3. CASE OpenOther
  BY <1>3 DEF OpenOther, BlockOpens, memory
<1>4. CASE HintForFile \/ Choose \/ Preview \/ OpenLine \/ OpenXml \/ Abort
  BY <1>4 DEF HintForFile, Choose, Preview, OpenLine, OpenXml, Abort, Streamed
<1>5. CASE ContinueMessage \/ StampLine \/ ReadRow \/ SkipToken \/ ReadChunk
  BY <1>5 DEF ContinueMessage, StampLine, ReadRow, SkipToken, ReadChunk, Reading, Advance, choice,
              Streamed
<1> QED BY <1>1, <1>2, <1>3, <1>4, <1>5 DEF Next

\* What is emitted when a block is closed.
LEMMA BlockClosed ==
  ASSUME out \in Seq(Range(out))
  PROVE  LET all == out \o Built
         IN  /\ all \in Seq(Range(all))
             /\ Bodies(all) = IF open.body = NoFields THEN Bodies(out)
                              ELSE Append(Bodies(out), open.body)
<1>1. CASE open.body = NoFields
  <2>1. out \o Built = out
    BY <1>1 DEF Built
  <2> QED BY <1>1, <2>1
<1>2. CASE open.body # NoFields
  <2> DEFINE x == [open EXCEPT !.ts = BlockTime(file, open.body, BlockTsKeys)]
  <2>1. Built = <<x>>
    BY <1>2 DEF Built
  <2>2. x.body = open.body
    OBVIOUS
  <2> HIDE DEF x
  <2>3. out \o Built = Append(out, x)
    <3> DEFINE R == Range(out)
    <3>1. out \in Seq(R)
      OBVIOUS
    <3> HIDE DEF R
    <3> QED BY <2>1, <3>1
  <2> QED BY <1>2, <2>2, <2>3, SequenceGrows
<1> QED BY <1>1, <1>2

\* A line that the block adapter reads.
LEMMA BlockLine ==
  ASSUME TypeInv, Reading("block")
  PROVE  /\ pos \in Nat /\ Line = file[pos + 1] /\ Streamed("block")
         /\ \A k \in 1 .. pos : file[k].kind = "field" => file[k].key # NoKey
<1>1. pos \in Nat /\ Line = file[pos + 1] /\ Streamed("block")
  BY DEF TypeInv, Reading, Streamed, Line
<1>2. \A k \in 1 .. pos : file[k] \in Lines
  BY DEF TypeInv
<1> QED BY <1>1, <1>2, IngestAssumption

\* Every step keeps the blocks.
LEMMA BlockKept ==
  ASSUME TypeInv, BlockInv, [Next]_vars
  PROVE  BlockInv'
<1>1. phase' \in {"stat", "pick", "open"} => lastKey' = NoKey
  <2>1. phase' \in {"stat", "pick", "open"} =>
          phase \in {"stat", "pick", "open"} /\ lastKey' = lastKey
    BY DEF Next, vars, Grow, HintForFile, Choose, Preview, OpenLine, OpenOther, OpenXml, SkipLong,
           ContinueMessage, StampLine, StartBlock, ReadField, ContinueField, ReadRow, SkipToken,
           ReadChunk, EndOfFile, Abort, Advance, Reading, memory
  <2> QED BY <2>1 DEF BlockInv
<1>2. ASSUME Streamed("block")'
      PROVE  /\ out' \in Seq(Range(out'))
             /\ phase' = "stream" => Reached(file', pos', open', lastKey', Bodies(out'))
             /\ phase' = "done" => Bodies(out') = Blocks(file', pos')
  <2>1. CASE BlockOpens
    <3>1. pos' = 0 /\ open' = NoRecord /\ out' = <<>> /\ lastKey' = NoKey /\ phase' = "stream"
      BY <2>1 DEF BlockOpens, TypeInv, BlockInv
    <3>2. SepsIn(file', 0) = {}
      BY DEF SepsIn
    <3>3. Bodies(<<>>) = <<>>
      BY DEF Bodies
    <3>4. <<>> \in Seq(Range(<<>>))
      OBVIOUS
    <3> QED BY <3>1, <3>2, <3>3, <3>4 DEF Reached
  <2>2. CASE BlockStays
    <3>1. pos \in Nat
      BY DEF TypeInv
    <3> QED BY <2>2, <3>1, ReachedStays, BlocksOfLines DEF BlockStays, BlockInv
  <2>3. CASE SkipLong
    <3>1. /\ Reading("block") /\ Line.kind = "long" /\ out' = out \o <<>> /\ open' = open
          /\ pos' = pos + 1 /\ UNCHANGED <<file, phase, lastKey>>
      BY <1>2, <2>3 DEF SkipLong, Advance, Reading, Streamed, choice
    <3>2. pos \in Nat /\ Line = file[pos + 1] /\ Streamed("block")
          /\ \A k \in 1 .. pos : file[k].kind = "field" => file[k].key # NoKey
      BY <3>1, BlockLine
    <3>3. /\ phase = "stream" /\ out \in Seq(Range(out))
          /\ Reached(file, pos, open, lastKey, Bodies(out))
      BY <3>1, <3>2 DEF Reading, BlockInv
    <3>4. out' = out
      BY <3>1, <3>3
    <3>5. ~HasText(file[pos + 1]) /\ file[pos + 1].kind \notin {"sep", "field"}
      BY <3>1, <3>2 DEF HasText
    <3>6. Reached(file, pos + 1, open, lastKey, Bodies(out))
      BY <3>2, <3>3, <3>5, ReachedOther
    <3> QED BY <3>1, <3>3, <3>4, <3>6
  <2>4. CASE StartBlock
    <3>1. /\ Reading("block") /\ Line.kind = "sep" /\ out' = out \o Built
          /\ open' = [NoRecord EXCEPT !.src = "block"]
          /\ pos' = pos + 1 /\ UNCHANGED <<file, phase>> /\ lastKey' = NoKey
      BY <2>4 DEF StartBlock, Advance
    <3>2. pos \in Nat /\ Line = file[pos + 1] /\ Streamed("block")
      BY <3>1, BlockLine
    <3>3. /\ phase = "stream" /\ out \in Seq(Range(out))
          /\ Reached(file, pos, open, lastKey, Bodies(out))
      BY <3>1, <3>2 DEF Reading, BlockInv
    <3>4. /\ out' \in Seq(Range(out'))
          /\ Bodies(out') = IF open.body = NoFields THEN Bodies(out)
                            ELSE Append(Bodies(out), open.body)
      BY <3>1, <3>3, BlockClosed
    <3>5. Reached(file, pos + 1, [NoRecord EXCEPT !.src = "block"], NoKey,
                  IF open.body = NoFields THEN Bodies(out) ELSE Append(Bodies(out), open.body))
      BY <3>1, <3>2, <3>3, ReachedSep
    <3> QED BY <3>1, <3>3, <3>4, <3>5, Zenon
  <2>5. CASE ReadField
    <3>1. /\ Reading("block") /\ Line.kind = "field" /\ out' = out \o <<>>
          /\ pos' = pos + 1 /\ UNCHANGED <<file, phase>>
      BY <2>5 DEF ReadField, Advance
    <3>2. pos \in Nat /\ Line = file[pos + 1] /\ Streamed("block")
      BY <3>1, BlockLine
    <3>3. /\ phase = "stream" /\ out \in Seq(Range(out))
          /\ Reached(file, pos, open, lastKey, Bodies(out))
      BY <3>1, <3>2 DEF Reading, BlockInv
    <3>4. out' = out
      BY <3>1, <3>3
    <3>5. IF open = NoRecord THEN Reached(file, pos + 1, open, lastKey, Bodies(out))
          ELSE Reached(file, pos + 1,
                 [open EXCEPT !.body = [k \in DOMAIN open.body \cup {Line.key} |->
                                          IF k = Line.key THEN <<pos + 1>> ELSE open.body[k]]],
                 Line.key, Bodies(out))
      BY <3>1, <3>2, <3>3, ReachedField
    <3>6. IF open = NoRecord THEN open' = open /\ lastKey' = lastKey
          ELSE /\ open' = [open EXCEPT !.body = [k \in DOMAIN open.body \cup {Line.key} |->
                             IF k = Line.key THEN <<pos + 1>> ELSE open.body[k]]]
               /\ lastKey' = Line.key
      BY <2>5, Zenon DEF ReadField, Advance
    <3>7. Reached(file, pos + 1, open', lastKey', Bodies(out))
      BY <3>5, <3>6, Zenon
    <3> QED BY <3>1, <3>3, <3>4, <3>7
  <2>6. CASE ContinueField
    <3>1. /\ Reading("block") /\ Line.kind \notin {"sep", "field", "long"} /\ out' = out \o <<>>
          /\ pos' = pos + 1 /\ UNCHANGED <<file, phase, lastKey>>
      BY <2>6 DEF ContinueField, Advance
    <3>2. pos \in Nat /\ Line = file[pos + 1] /\ Streamed("block")
          /\ \A k \in 1 .. pos : file[k].kind = "field" => file[k].key # NoKey
      BY <3>1, BlockLine
    <3>3. /\ phase = "stream" /\ out \in Seq(Range(out))
          /\ Reached(file, pos, open, lastKey, Bodies(out))
      BY <3>1, <3>2 DEF Reading, BlockInv
    <3>4. out' = out
      BY <3>1, <3>3
    <3>5. HasText(file[pos + 1]) <=> Line.kind # "blank"
      BY <3>1, <3>2 DEF HasText
    <3>6. IF lastKey # NoKey /\ HasText(file[pos + 1])
          THEN /\ lastKey \in DOMAIN open.body
               /\ Reached(file, pos + 1, [open EXCEPT !.body[lastKey] = Append(@, pos + 1)],
                          lastKey, Bodies(out))
          ELSE Reached(file, pos + 1, open, lastKey, Bodies(out))
      BY <3>1, <3>2, <3>3, ReachedOther
    <3>7. CASE lastKey # NoKey /\ Line.kind # "blank"
      <4>1. lastKey \in DOMAIN open.body
        BY <3>5, <3>6, <3>7
      <4>2. open' = [open EXCEPT !.body[lastKey] = Append(@, pos + 1)]
        BY <2>6, <3>7, <4>1, Zenon DEF ContinueField, Advance, Extended
      <4> QED BY <3>1, <3>3, <3>4, <3>5, <3>6, <3>7, <4>2, Zenon
    <3>8. CASE ~(lastKey # NoKey /\ Line.kind # "blank")
      <4>1. open' = open
        BY <2>6, <3>8, Zenon DEF ContinueField, Advance
      <4> QED BY <3>1, <3>3, <3>4, <3>5, <3>6, <3>8, <4>1, Zenon
    <3> QED BY <3>7, <3>8
  <2>7. CASE EndOfFile
    <3>1. /\ phase = "stream" /\ pos = Len(file) /\ Streamed("block") /\ UNCHANGED <<file, pos>>
          /\ out' = out \o Built /\ phase' # "stream"
      BY <1>2, <2>7 DEF EndOfFile, Streamed, choice
    <3>2. out \in Seq(Range(out)) /\ Reached(file, pos, open, lastKey, Bodies(out)) /\ pos \in Nat
      BY <3>1 DEF BlockInv, TypeInv
    <3>3. /\ out' \in Seq(Range(out'))
          /\ Bodies(out') = IF open.body = NoFields THEN Bodies(out)
                            ELSE Append(Bodies(out), open.body)
      BY <3>1, <3>2, BlockClosed
    <3>4. Blocks(file, pos) = IF open.body = NoFields THEN Bodies(out)
                              ELSE Append(Bodies(out), open.body)
      BY <3>2, BlocksReached
    <3> QED BY <3>1, <3>3, <3>4
  <2> QED BY <1>2, <2>1, <2>2, <2>3, <2>4, <2>5, <2>6, <2>7, BlockSteps
<1> QED BY <1>1, <1>2 DEF BlockInv, Bodies

\* Every block is a record, with its own lines (block.go, Stream).
THEOREM NoBlockLost == Spec => []BlocksKept
<1> DEFINE IInv == TypeInv /\ BlockInv
<1>1. Init => IInv
  <2>1. Init => phase = "stat" /\ lastKey = NoKey
    BY Zenon DEF Init, Begin
  <2> QED BY <2>1, InitTyped DEF BlockInv, Streamed
<1>2. IInv /\ [Next]_vars => IInv'
  BY TypeKept, BlockKept
<1>3. IInv => BlocksKept
  <2> SUFFICES ASSUME IInv, Streamed("block")
               PROVE  Bodies(out \o Built) = Blocks(file, pos)
    <3>1. Separators = SepsIn(file, pos) /\ \A s : EndOf(s) = EndIn(file, pos, s)
      BY DEF Separators, EndOf, SepsIn, EndIn
    <3>2. \A s : FieldsOf(s) = FieldsIn(file, s, EndIn(file, pos, s))
      BY <3>1 DEF FieldsOf, FieldsIn
    <3>3. \A s, key : ValueOf(s, key) = InOrder(TextOf(file, s, EndIn(file, pos, s), key))
      BY <3>1, <3>2 DEF ValueOf, TextOf, NextIn, LastIn
    <3>4. \A s : [key \in {file[k].key : k \in FieldsOf(s)} |-> ValueOf(s, key)]
                  = BodyIn(file, s, EndIn(file, pos, s))
      BY <3>2, <3>3 DEF BodyIn
    <3>5. {s \in Separators : FieldsOf(s) # {}} = FullIn(file, pos)
      BY <3>1, <3>2 DEF FullIn
    <3> DEFINE full == InOrder({s \in Separators : FieldsOf(s) # {}})
    <3>6. [i \in DOMAIN full |->
             [key \in {file[k].key : k \in FieldsOf(full[i])} |-> ValueOf(full[i], key)]]
            = Blocks(file, pos)
      BY <3>4, <3>5 DEF Blocks
    <3> QED BY <3>6, Zenon DEF BlocksKept, Bodies
  <2>1. pos \in Nat /\ out \in Seq(Range(out))
    BY DEF TypeInv, BlockInv
  <2>2. Bodies(out \o Built) = IF open.body = NoFields THEN Bodies(out)
                               ELSE Append(Bodies(out), open.body)
    BY <2>1, BlockClosed
  <2>3. CASE phase = "stream"
    BY <2>1, <2>2, <2>3, BlocksReached DEF BlockInv
  <2>4. CASE phase = "done"
    <3>1. open.body = NoFields
      BY <2>4 DEF TypeInv, NoRecord
    <3> QED BY <2>2, <2>4, <3>1 DEF BlockInv
  <2> QED BY <2>3, <2>4 DEF Streamed
<1> QED BY <1>1, <1>2, <1>3, PTL DEF Spec

-----------------------------------------------------------------------------
(* Elements *)

Opened(f, a, b) == Tags(f, a, b, "open")

Closed(f, a, b) == Tags(f, a, b, "close")

Depth(f, a, b) == Cardinality(Opened(f, a, b)) - Cardinality(Closed(f, a, b))

\* Tags are few.
LEMMA TagsTyped ==
  ASSUME NEW f, NEW a \in Nat, NEW b \in Nat, NEW kind
  PROVE  /\ Tags(f, a, b, kind) \subseteq Nat /\ IsFiniteSet(Tags(f, a, b, kind))
         /\ Cardinality(Tags(f, a, b, kind)) \in Nat
<1>1. Tags(f, a, b, kind) \in SUBSET (a .. b)
  BY DEF Tags
<1> QED BY <1>1, PlacesTyped, FS_CardinalityType

\* Tags are counted piece by piece.
LEMMA TagsJoin ==
  ASSUME NEW f, NEW a \in Nat, NEW b \in Nat, NEW c \in Nat, a <= b + 1, b <= c, NEW kind
  PROVE  Cardinality(Tags(f, a, c, kind))
           = Cardinality(Tags(f, a, b, kind)) + Cardinality(Tags(f, b + 1, c, kind))
<1> DEFINE A == Tags(f, a, b, kind)
           B == Tags(f, b + 1, c, kind)
<1>1. /\ a .. c = (a .. b) \cup (b + 1 .. c) /\ b + 1 \in Nat
      /\ \A x \in a .. b : x \notin b + 1 .. c
  OBVIOUS
<1>2. Tags(f, a, c, kind) = A \cup B /\ A \cap B = {}
  BY <1>1 DEF Tags
<1>3. IsFiniteSet(A) /\ IsFiniteSet(B) /\ Cardinality(A) \in Nat /\ Cardinality(B) \in Nat
  BY <1>1, TagsTyped
<1>4. Cardinality({}) = 0
  BY FS_EmptySet
<1> HIDE DEF A, B
<1>5. Cardinality(A \cup B) = Cardinality(A) + Cardinality(B) - Cardinality(A \cap B)
  BY <1>3, FS_Union
<1>6. Cardinality(A \cap B) = 0 /\ Cardinality(Tags(f, a, c, kind)) = Cardinality(A \cup B)
  BY <1>2, <1>4, Zenon
<1>7. Cardinality(Tags(f, a, c, kind)) = Cardinality(A) + Cardinality(B)
  BY <1>3, <1>5, <1>6
<1> QED BY <1>7 DEF A, B

\* The depth is the sum of that of the pieces.
LEMMA DepthJoins ==
  ASSUME NEW f, NEW a \in Nat, NEW b \in Nat, NEW c \in Nat, a <= b + 1, b <= c
  PROVE  /\ Depth(f, a, c) = Depth(f, a, b) + Depth(f, b + 1, c)
         /\ Depth(f, a, b) \in Int /\ Depth(f, b + 1, c) \in Int
<1>0. b + 1 \in Nat
  OBVIOUS
<1>1. /\ Cardinality(Opened(f, a, b)) \in Nat /\ Cardinality(Closed(f, a, b)) \in Nat
      /\ Cardinality(Opened(f, b + 1, c)) \in Nat /\ Cardinality(Closed(f, b + 1, c)) \in Nat
  BY <1>0, TagsTyped DEF Opened, Closed
<1>2. /\ Cardinality(Opened(f, a, c)) = Cardinality(Opened(f, a, b)) + Cardinality(Opened(f, b + 1, c))
      /\ Cardinality(Closed(f, a, c)) = Cardinality(Closed(f, a, b)) + Cardinality(Closed(f, b + 1, c))
  BY TagsJoin DEF Opened, Closed
<1> QED BY <1>1, <1>2 DEF Depth

\* One token is one deeper, one less deep, or neither.
LEMMA DepthOfOne ==
  ASSUME NEW f, NEW a \in Nat
  PROVE  Depth(f, a, a) = CASE f[a].kind = "open" -> 1 [] f[a].kind = "close" -> -1 [] OTHER -> 0
<1>1. Cardinality({}) = 0 /\ Cardinality({a}) = 1
  BY FS_EmptySet, FS_Singleton
<1>2. ASSUME NEW kind
      PROVE  Tags(f, a, a, kind) = IF f[a].kind = kind THEN {a} ELSE {}
  BY DEF Tags
<1>3. /\ Cardinality(Opened(f, a, a)) = IF f[a].kind = "open" THEN 1 ELSE 0
      /\ Cardinality(Closed(f, a, a)) = IF f[a].kind = "close" THEN 1 ELSE 0
  BY <1>1, <1>2, Zenon DEF Opened, Closed
<1>4. ~ (f[a].kind = "open" /\ f[a].kind = "close")
  OBVIOUS
<1> QED BY <1>3, <1>4 DEF Depth

\* Where an element ends.
LEMMA ElementEnds ==
  ASSUME NEW f, Len(f) \in Nat, NEW i \in Nat, i <= Len(f)
  PROVE  /\ CloseOf(f, i) \in Nat /\ i <= CloseOf(f, i) /\ CloseOf(f, i) <= Len(f) + 1
         /\ CloseOf(f, i) <= Len(f) => Depth(f, i, CloseOf(f, i)) = 0
         /\ \A m \in i .. Len(f) : m < CloseOf(f, i) => Depth(f, i, m) # 0
<1> DEFINE ends == {j \in i .. Len(f) :
                      Cardinality(Tags(f, i, j, "open")) = Cardinality(Tags(f, i, j, "close"))}
           c == CloseOf(f, i)
<1>1. c = IF ends = {} THEN Len(f) + 1 ELSE Min(ends)
  BY DEF CloseOf
<1>2. \A j \in i .. Len(f) : j \in ends <=> Depth(f, i, j) = 0
  <2> TAKE j \in i .. Len(f)
  <2>0. j \in Nat
    OBVIOUS
  <2>1. Cardinality(Tags(f, i, j, "open")) \in Nat /\ Cardinality(Tags(f, i, j, "close")) \in Nat
    BY <2>0, TagsTyped
  <2> QED BY <2>1 DEF Depth, Opened, Closed
<1>3. ends \subseteq Nat /\ \A j \in ends : j \in i .. Len(f)
  OBVIOUS
<1> HIDE DEF ends, c
<1>4. CASE ends = {}
  BY <1>1, <1>2, <1>4 DEF c
<1>5. CASE ends # {}
  <2>1. c \in ends /\ \A j \in ends : c <= j
    BY <1>1, <1>3, <1>5, FirstPlace
  <2>2. c \in i .. Len(f) /\ c \in Nat
    BY <1>3, <2>1
  <2>3. \A m \in i .. Len(f) : m < c => m \notin ends
    BY <2>1, <2>2
  <2>4. Depth(f, i, c) = 0 /\ \A m \in i .. Len(f) : m < c => Depth(f, i, m) # 0
    BY <1>2, <2>1, <2>2, <2>3
  <2>5. c <= Len(f) + 1 /\ i <= c
    BY <2>2
  <2> QED BY <2>2, <2>4, <2>5 DEF c
<1> QED BY <1>4, <1>5

\* Before its end an element is deep.
LEMMA DeepInside ==
  ASSUME NEW f, Len(f) \in Nat, NEW i \in Nat, i <= Len(f), f[i].kind = "open"
  PROVE  \A m \in i .. Len(f) : m < CloseOf(f, i) => Depth(f, i, m) \in Int /\ Depth(f, i, m) > 0
<1> DEFINE c == CloseOf(f, i)
           G == {n \in Nat : i + n <= Len(f) /\ i + n < c
                               => Depth(f, i, i + n) \in Int /\ Depth(f, i, i + n) > 0}
<1>1. c \in Nat /\ \A m \in i .. Len(f) : m < c => Depth(f, i, m) # 0
  BY ElementEnds
<1>2. 0 \in G
  BY DepthOfOne
<1>3. ASSUME NEW n \in Nat, n \in G
      PROVE  n + 1 \in G
  <2> SUFFICES ASSUME i + (n + 1) <= Len(f), i + (n + 1) < c
               PROVE  Depth(f, i, i + (n + 1)) \in Int /\ Depth(f, i, i + (n + 1)) > 0
    OBVIOUS
  <2> DEFINE m == i + n
  <2>1. m \in Nat /\ i + (n + 1) = m + 1 /\ m + 1 \in Nat /\ i <= m + 1 /\ m <= m + 1
    OBVIOUS
  <2>2. Depth(f, i, m) \in Int /\ Depth(f, i, m) > 0
    BY <1>1, <1>3
  <2> HIDE DEF m, c
  <2>3. Depth(f, i, m + 1) = Depth(f, i, m) + Depth(f, m + 1, m + 1)
    BY <2>1, DepthJoins
  <2>4. Depth(f, m + 1, m + 1) \in {-1, 0, 1}
    BY <2>1, DepthOfOne
  <2>5. Depth(f, i, m + 1) # 0
    <3>1. m + 1 \in i .. Len(f) /\ m + 1 < c
      BY <2>1
    <3> QED BY <1>1, <3>1
  <2>6. Depth(f, i, m + 1) \in Int /\ Depth(f, i, m + 1) > 0
    BY <2>2, <2>3, <2>4, <2>5
  <2> QED BY <2>1, <2>6
<1> HIDE DEF G
<1>4. \A n \in Nat : n \in G
  BY <1>2, <1>3, Counting
<1>5. ASSUME NEW m \in i .. Len(f), m < c
      PROVE  Depth(f, i, m) \in Int /\ Depth(f, i, m) > 0
  <2>1. m - i \in Nat /\ i + (m - i) = m
    OBVIOUS
  <2>2. m - i \in G
    BY <1>4, <2>1
  <2> HIDE DEF c
  <2>3. i + (m - i) <= Len(f) /\ i + (m - i) < c
    BY <1>5, <2>1
  <2>4. Depth(f, i, i + (m - i)) \in Int /\ Depth(f, i, i + (m - i)) > 0
    BY <2>2, <2>3 DEF G
  <2> QED BY <2>1, <2>4
<1> QED BY <1>5

\* An element ends at a closing tag, and what opens in it has ended by then.
LEMMA ElementsNest ==
  ASSUME NEW f, Len(f) \in Nat, NEW i \in Nat, f[i].kind = "open",
         CloseOf(f, i) <= Len(f), i <= Len(f)
  PROVE  /\ f[CloseOf(f, i)].kind = "close"
         /\ \A j \in Nat : i < j /\ j < CloseOf(f, i) /\ f[j].kind = "open"
                             => CloseOf(f, j) <= CloseOf(f, i)
<1> DEFINE c == CloseOf(f, i)
<1>1. c \in Nat /\ i <= c /\ c <= Len(f) /\ Depth(f, i, c) = 0
  BY ElementEnds
<1>2. \A m \in i .. Len(f) : m < c => Depth(f, i, m) \in Int /\ Depth(f, i, m) > 0
  BY DeepInside
<1> HIDE DEF c
<1>3. Depth(f, i, i) = 1
  BY DepthOfOne
<1>4. i < c /\ c - 1 \in Nat /\ c - 1 \in i .. Len(f) /\ c - 1 < c /\ c - 1 + 1 = c
  <2>1. i # c
    BY <1>1, <1>3
  <2> QED BY <1>1, <2>1
<1>5. f[c].kind = "close"
  <2>1. Depth(f, i, c - 1) \in Int /\ Depth(f, i, c - 1) > 0
    BY <1>2, <1>4
  <2>2. Depth(f, i, c) = Depth(f, i, c - 1) + Depth(f, c, c)
    <3> DEFINE b == c - 1
    <3>1. b \in Nat /\ i <= b + 1 /\ b <= c /\ b + 1 = c
      BY <1>1, <1>4
    <3> HIDE DEF b
    <3>2. Depth(f, i, c) = Depth(f, i, b) + Depth(f, b + 1, c)
      BY <1>1, <3>1, DepthJoins
    <3> QED BY <3>1, <3>2 DEF b
  <2>3. Depth(f, c, c) = CASE f[c].kind = "open" -> 1 [] f[c].kind = "close" -> -1 [] OTHER -> 0
    BY <1>1, DepthOfOne
  <2> QED BY <1>1, <2>1, <2>2, <2>3
<1>6. ASSUME NEW j \in Nat, i < j, j < c, f[j].kind = "open", ~(CloseOf(f, j) <= c)
      PROVE  FALSE
  <2> DEFINE b == j - 1
  <2>1. b \in Nat /\ b + 1 = j /\ i <= b + 1 /\ b <= c /\ b \in i .. Len(f) /\ b < c
    BY <1>1, <1>6
  <2> HIDE DEF b
  <2>2. Depth(f, i, b) \in Int /\ Depth(f, i, b) > 0
    BY <1>2, <2>1
  <2>3. Depth(f, i, c) = Depth(f, i, b) + Depth(f, b + 1, c)
    BY <1>1, <2>1, DepthJoins
  <2>4. Depth(f, j, c) \in Int /\ Depth(f, j, c) > 0
    <3>1. j <= Len(f)
      BY <1>1, <1>6
    <3>2. CloseOf(f, j) \in Nat
      BY <3>1, ElementEnds
    <3>3. c \in j .. Len(f) /\ c < CloseOf(f, j)
      BY <1>1, <1>6, <3>1, <3>2
    <3> QED BY <1>6, <3>1, <3>3, DeepInside
  <2> QED BY <1>1, <2>1, <2>2, <2>3, <2>4
<1>7. \A j \in Nat : i < j /\ j < c /\ f[j].kind = "open" => CloseOf(f, j) <= c
  BY <1>6
<1> QED BY <1>5, <1>7 DEF c

\* The elements of a name, and those of them up to p that are in no other.
Named(f, name) == {i \in DOMAIN f : f[i].kind = "open" /\ f[i].name = name}

RowsIn(f, name, p) == {i \in Named(f, name) : i <= p /\ Around(f, i) \cap Named(f, name) = {}}

\* All elements of that name up to p have ended.
Ended(f, name, p) == \A i \in Named(f, name) : i <= p => CloseOf(f, i) <= p

\* What is around a place is opened before it.
LEMMA AroundBefore ==
  ASSUME NEW f, Len(f) \in Nat, NEW k \in Nat, k >= 1, k <= Len(f) + 1
  PROVE  /\ Around(f, k) \subseteq Nat /\ IsFiniteSet(Around(f, k))
         /\ \A i \in 1 .. Len(f) :
              i \in Around(f, k) <=> i < k /\ f[i].kind = "open" /\ CloseOf(f, i) > k
         /\ \A i \in Around(f, k) : i \in 1 .. Len(f) /\ i < k
<1>1. k - 1 \in Nat /\ 1 \in Nat
  OBVIOUS
<1>2. Around(f, k) \in SUBSET (1 .. k - 1)
  BY DEF Around, Tags
<1>3. Around(f, k) \subseteq Nat /\ IsFiniteSet(Around(f, k))
  BY <1>1, <1>2, PlacesTyped
<1>4. \A i \in 1 .. Len(f) : i < k <=> i \in 1 .. k - 1
  OBVIOUS
<1>5. \A i \in 1 .. Len(f) :
         i \in Around(f, k) <=> i < k /\ f[i].kind = "open" /\ CloseOf(f, i) > k
  BY <1>4 DEF Around, Tags
<1>6. \A i \in 1 .. k - 1 : i \in 1 .. Len(f) /\ i < k
  OBVIOUS
<1> QED BY <1>2, <1>3, <1>5, <1>6

\* A row begins at p + 1: what is opened in it is in it, and it is in no other.
LEMMA RowRead ==
  ASSUME NEW T, NEW f \in Seq(T), NEW name,
         NEW p \in Nat, p < Len(f), Ended(f, name, p), p + 1 \in Named(f, name),
         NEW q \in Nat, q = IF CloseOf(f, p + 1) > Len(f) THEN Len(f) ELSE CloseOf(f, p + 1)
  PROVE  /\ RowsIn(f, name, q) = RowsIn(f, name, p) \cup {p + 1}
         /\ Ended(f, name, q) \/ q = Len(f)
         /\ p + 1 <= q /\ q <= Len(f)
<1> DEFINE i == p + 1
           c == CloseOf(f, i)
<1>0. Len(f) \in Nat /\ \A j \in DOMAIN f : j \in 1 .. Len(f)
  OBVIOUS
<1>1. i \in Nat /\ i \in 1 .. Len(f) /\ f[i].kind = "open" /\ i \in Named(f, name) /\ i = p + 1
  BY <1>0 DEF Named
<1>2. c \in Nat /\ i <= c /\ c <= Len(f) + 1 /\ q = IF c > Len(f) THEN Len(f) ELSE c
  BY <1>0, <1>1, ElementEnds
<1>3. c <= Len(f) => /\ f[c].kind = "close"
                     /\ \A j \in Nat : i < j /\ j < c /\ f[j].kind = "open" => CloseOf(f, j) <= c
  BY <1>0, <1>1, ElementsNest
<1> HIDE DEF c, i
<1>4. i <= q /\ q <= Len(f)
  BY <1>0, <1>1, <1>2
<1>5. \A j \in Named(f, name) : j \in 1 .. Len(f) /\ f[j].kind = "open"
  BY <1>0 DEF Named
<1>6. Around(f, i) \cap Named(f, name) = {}
  <2> SUFFICES ASSUME NEW j \in Named(f, name), j \in Around(f, i) PROVE FALSE
    OBVIOUS
  <2>1. j \in 1 .. Len(f) /\ j < i /\ CloseOf(f, j) > i
    BY <1>1, <1>5, AroundBefore, <1>0
  <2>2. CloseOf(f, j) \in Nat
    BY <1>0, <2>1, ElementEnds
  <2>3. CloseOf(f, j) <= p
    <3>1. j <= p
      BY <1>1, <2>1
    <3> QED BY <3>1 DEF Ended
  <2> QED BY <1>1, <2>1, <2>2, <2>3
<1>7. ASSUME NEW j \in Named(f, name), i < j, j <= q
      PROVE  i \in Around(f, j)
  <2>1. j \in Nat /\ j \in 1 .. Len(f) /\ f[j].kind = "open" /\ j >= 1 /\ j <= Len(f) + 1
    BY <1>5, <1>7
  <2>2. c > j
    BY <1>2, <1>3, <1>4, <1>7, <2>1
  <2> QED BY <1>1, <1>7, <2>1, <2>2, AroundBefore, <1>0 DEF c
<1>8. RowsIn(f, name, q) = RowsIn(f, name, p) \cup {i}
  <2>1. \A j \in Named(f, name) : j <= p => j <= q
    BY <1>1, <1>4, <1>5
  <2>2. ASSUME NEW j \in RowsIn(f, name, q)
        PROVE  j \in RowsIn(f, name, p) \cup {i}
    <3>1. j \in Named(f, name) /\ j <= q /\ Around(f, j) \cap Named(f, name) = {} /\ j \in Nat
      BY <1>5, <2>2 DEF RowsIn
    <3>2. ~ (i < j)
      BY <1>1, <1>7, <3>1
    <3>3. j <= p \/ j = i
      BY <1>1, <3>1, <3>2
    <3> QED BY <3>1, <3>3 DEF RowsIn
  <2>3. i \in RowsIn(f, name, q)
    BY <1>1, <1>4, <1>6 DEF RowsIn
  <2>4. RowsIn(f, name, p) \subseteq RowsIn(f, name, q)
    BY <2>1 DEF RowsIn
  <2> QED BY <2>2, <2>3, <2>4
<1>9. ASSUME q # Len(f)
      PROVE  Ended(f, name, q)
  <2> SUFFICES ASSUME NEW j \in Named(f, name), j <= q
               PROVE  CloseOf(f, j) <= q
    BY DEF Ended
  <2>1. q = c /\ c <= Len(f)
    BY <1>2, <1>9
  <2>2. j \in 1 .. Len(f) /\ j \in Nat /\ f[j].kind = "open" /\ CloseOf(f, j) \in Nat
    BY <1>0, <1>5, ElementEnds
  <2>3. CASE j <= p
    BY <1>1, <1>4, <2>2, <2>3 DEF Ended
  <2>4. CASE j = i
    BY <2>1, <2>4 DEF c
  <2>5. CASE i < j
    <3>1. j < c
      BY <1>2, <1>3, <2>1, <2>2
    <3> QED BY <1>3, <2>1, <2>2, <2>5, <3>1
  <2> QED BY <1>1, <2>2, <2>3, <2>4, <2>5
<1> QED BY <1>4, <1>8, <1>9 DEF i

\* Any other token: no row begins.
LEMMA TokenRead ==
  ASSUME NEW T, NEW f \in Seq(T), NEW name,
         NEW p \in Nat, p < Len(f), Ended(f, name, p), p + 1 \notin Named(f, name)
  PROVE  RowsIn(f, name, p + 1) = RowsIn(f, name, p) /\ Ended(f, name, p + 1)
<1>1. \A j \in Named(f, name) : j \in Nat /\ j # p + 1 /\ j \in 1 .. Len(f) /\ CloseOf(f, j) \in Nat
  <2>1. Len(f) \in Nat /\ \A j \in DOMAIN f : j \in 1 .. Len(f)
    OBVIOUS
  <2>2. \A j \in 1 .. Len(f) : CloseOf(f, j) \in Nat
    BY <2>1, ElementEnds
  <2> QED BY <2>1, <2>2 DEF Named
<1>2. \A j \in Named(f, name) : j <= p + 1 <=> j <= p
  BY <1>1
<1>3. RowsIn(f, name, p + 1) = RowsIn(f, name, p)
  BY <1>2 DEF RowsIn
<1>4. \A j \in Named(f, name) : j <= p + 1 => CloseOf(f, j) <= p + 1
  BY <1>1, <1>2 DEF Ended
<1> QED BY <1>3, <1>4 DEF Ended

\* A row as a record, and the records of the rows up to p.
RowRecord(f, name, i) == [src |-> name, ts |-> RowTime(f, i), body |-> Flatten(f, i)]

RowRecords(f, name, p) ==
  LET rows == InOrder(RowsIn(f, name, p)) IN
  [n \in DOMAIN rows |-> RowRecord(f, name, rows[n])]

\* Rows are places of the file.
LEMMA RowsTyped ==
  ASSUME NEW T, NEW f \in Seq(T), NEW name, NEW p \in Nat
  PROVE  /\ RowsIn(f, name, p) \subseteq Nat /\ IsFiniteSet(RowsIn(f, name, p))
         /\ \A i \in RowsIn(f, name, p) : i \in 1 .. Len(f) /\ i <= p /\ i \in Named(f, name)
<1>1. Len(f) \in Nat /\ \A j \in DOMAIN f : j \in 1 .. Len(f)
  OBVIOUS
<1>2. \A i \in RowsIn(f, name, p) : i \in 1 .. Len(f) /\ i <= p /\ i \in Named(f, name)
  BY <1>1 DEF RowsIn, Named
<1>3. RowsIn(f, name, p) \in SUBSET (1 .. Len(f))
  BY <1>2
<1> QED BY <1>1, <1>2, <1>3, PlacesTyped

\* A sequence of values of a set is one of values of a larger set.
LEMMA SeqWider ==
  ASSUME NEW A, NEW B, A \subseteq B, NEW s \in Seq(A)
  PROVE  s \in Seq(B)
OBVIOUS

\* What is made of places in order, and of one more place.
Mapped(h, R) == [i \in DOMAIN InOrder(R) |-> h[InOrder(R)[i]]]

LEMMA MappedLast ==
  ASSUME NEW R, IsFiniteSet(R), R \subseteq Nat, NEW n \in Nat, \A x \in R : x < n, NEW h
  PROVE  Mapped(h, R \cup {n}) = Append(Mapped(h, R), h[n])
<1> DEFINE s == InOrder(R)
           t == InOrder(R \cup {n})
<1>1. t = Append(s, n)
  BY InOrderLast
<1>2. s \in Seq(R)
  BY InOrderTyped
<1> HIDE DEF s, t
<1>3. s \in Seq(Nat)
  BY <1>2, SeqWider
<1>4. [i \in DOMAIN t |-> h[t[i]]] = Append([i \in DOMAIN s |-> h[s[i]]], h[n])
  BY <1>1, <1>3, MapAppend
<1> QED BY <1>4, Zenon DEF Mapped, s, t

\* The records of the rows are made of the places of the rows in order.
LEMMA RowsMapped ==
  ASSUME NEW T, NEW f \in Seq(T), NEW name, NEW p \in Nat
  PROVE  RowRecords(f, name, p) = Mapped([i \in Nat |-> RowRecord(f, name, i)], RowsIn(f, name, p))
<1> DEFINE R == RowsIn(f, name, p)
           h == [i \in Nat |-> RowRecord(f, name, i)]
           s == InOrder(R)
<1>1. R \subseteq Nat /\ IsFiniteSet(R)
  BY RowsTyped
<1>2. s \in Seq(Nat)
  <2> HIDE DEF R
  <2> QED BY <1>1, InOrderTyped, SeqWider
<1> HIDE DEF R
<1>3. (\A i \in DOMAIN s : s[i] \in Nat) /\ \A i \in Nat : h[i] = RowRecord(f, name, i)
  <2> HIDE DEF s
  <2> QED BY <1>2
<1> HIDE DEF h
<1>4. [i \in DOMAIN s |-> RowRecord(f, name, s[i])] = [i \in DOMAIN s |-> h[s[i]]]
  BY <1>3, Zenon
<1>5. RowRecords(f, name, p) = [i \in DOMAIN s |-> RowRecord(f, name, s[i])]
  BY Zenon DEF RowRecords, s, R
<1> QED BY <1>4, <1>5, Zenon DEF Mapped, h, R

\* One more row is one more record.
LEMMA RowsLast ==
  ASSUME NEW T, NEW f \in Seq(T), NEW name, NEW p \in Nat, NEW q \in Nat,
         RowsIn(f, name, q) = RowsIn(f, name, p) \cup {p + 1}
  PROVE  RowRecords(f, name, q) = Append(RowRecords(f, name, p), RowRecord(f, name, p + 1))
<1> DEFINE n == p + 1
           h == [i \in Nat |-> RowRecord(f, name, i)]
<1>1. RowsIn(f, name, p) \subseteq Nat /\ IsFiniteSet(RowsIn(f, name, p))
      /\ n \in Nat /\ \A i \in RowsIn(f, name, p) : i < n
  BY RowsTyped
<1>2. h[n] = RowRecord(f, name, n)
  BY <1>1
<1> HIDE DEF n, h
<1>3. Mapped(h, RowsIn(f, name, p) \cup {n}) = Append(Mapped(h, RowsIn(f, name, p)), h[n])
  BY <1>1, MappedLast
<1>4. RowRecords(f, name, p) = Mapped(h, RowsIn(f, name, p))
      /\ RowRecords(f, name, q) = Mapped(h, RowsIn(f, name, q))
  BY RowsMapped, Zenon DEF h
<1> QED BY <1>2, <1>3, <1>4, Zenon DEF n

\* The places of a set in order are all of them.
LEMMA InOrderAll ==
  ASSUME NEW S, IsFiniteSet(S), S \subseteq Nat
  PROVE  Range(InOrder(S)) = S
<1> DEFINE G == {T \in SUBSET S : Range(InOrder(T)) = T}
<1>1. {} \in G
  <2>1. Cardinality({}) = 0
    BY FS_EmptySet
  <2>2. InOrder({}) = <<>>
    BY <2>1 DEF InOrder
  <2>3. Range(<<>>) = {}
    BY DEF Range
  <2> QED BY <2>2, <2>3
<1>2. ASSUME NEW T \in SUBSET S, T # {}, \A x \in T : T \ {x} \in G
      PROVE  T \in G
  <2>1. IsFiniteSet(T) /\ T \subseteq Nat
    BY FS_Subset
  <2> DEFINE n == Max(T)
             R == T \ {n}
  <2>2. n \in T /\ \A y \in T : y <= n
    BY <1>2, <2>1, Greatest
  <2> HIDE DEF n
  <2>3. IsFiniteSet(R) /\ R \subseteq Nat /\ n \in Nat /\ T = R \cup {n} /\ \A x \in R : x < n
    <3>1. IsFiniteSet(R)
      BY <2>1, FS_Subset
    <3> QED BY <2>1, <2>2, <3>1
  <2>4. Range(InOrder(R)) = R /\ InOrder(R) \in Seq(R)
    BY <1>2, <2>2, <2>3, InOrderTyped
  <2>5. InOrder(T) = Append(InOrder(R), n)
    BY <2>3, InOrderLast
  <2>6. Range(Append(InOrder(R), n)) = Range(InOrder(R)) \cup {n}
    <3> DEFINE s == InOrder(R)
               t == Append(s, n)
    <3>1. s \in Seq(R)
      BY <2>4
    <3> HIDE DEF s, R
    <3>2. /\ DOMAIN t = 1 .. Len(s) + 1 /\ Len(s) \in Nat /\ DOMAIN s = 1 .. Len(s)
          /\ t[Len(s) + 1] = n /\ \A i \in 1 .. Len(s) : t[i] = s[i]
      BY <3>1
    <3> HIDE DEF t
    <3>3. Range(t) = {t[i] : i \in 1 .. Len(s) + 1} /\ Range(s) = {s[i] : i \in 1 .. Len(s)}
      BY <3>2 DEF Range
    <3>4. \A i \in 1 .. Len(s) + 1 : i \in 1 .. Len(s) \/ i = Len(s) + 1
      BY <3>2
    <3>5. Range(t) = Range(s) \cup {n}
      <4>1. Range(t) \subseteq Range(s) \cup {n}
        BY <3>2, <3>3, <3>4
      <4>2. Range(s) \subseteq Range(t)
        BY <3>2, <3>3
      <4>3. n \in Range(t)
        BY <3>2, <3>3
      <4> QED BY <4>1, <4>2, <4>3
    <3> QED BY <3>5 DEF s, t
  <2> QED BY <2>3, <2>4, <2>5, <2>6
<1>3. S \in G
  <2> HIDE DEF G
  <2> QED BY <1>1, <1>2, SubsetInduction
<1> QED BY <1>3

\* Each text inside a row is under one of its paths.
LEMMA RowTexts ==
  ASSUME NEW T, NEW f \in Seq(T), NEW r \in 1 .. Len(f), f[r].kind = "open",
         NEW k \in r .. CloseOf(f, r) - 1, f[k].kind = "text", Max(Around(f, k)) # r
  PROVE  \E key \in DOMAIN Flatten(f, r) :
           /\ Max(Around(f, k)) \in Range(Flatten(f, r)[key])
           /\ key[Len(key)] = f[Max(Around(f, k))].name
<1> DEFINE c == CloseOf(f, r)
           e == Max(Around(f, k))
           in == r + 1 .. c - 1
           inside == {i \in in : f[i].kind = "open"}
           path == PathIn(f, r, e)
           key == Append(path, f[e].name)
           Under(q) == {v[2] : v \in {w \in Values(f, r) : w[1] = q}}
<1>1. Len(f) \in Nat /\ r \in Nat /\ r >= 1 /\ r <= Len(f)
  OBVIOUS
<1>2. c \in Nat /\ r <= c /\ c <= Len(f) + 1
  BY <1>1, ElementEnds
<1>3. k \in Nat /\ r < k /\ k < c /\ k >= 1 /\ k <= Len(f) + 1
  <2>1. k # r
    OBVIOUS
  <2> HIDE DEF c
  <2>2. k \in r .. c - 1
    BY DEF c
  <2> QED BY <1>1, <1>2, <2>1, <2>2
<1>4. r \in Around(f, k)
  BY <1>1, <1>3, AroundBefore
<1>5. e \in Around(f, k) /\ r <= e /\ e \in 1 .. Len(f) /\ e < k /\ f[e].kind = "open"
  <2>1. Around(f, k) \subseteq Nat /\ IsFiniteSet(Around(f, k)) /\ Around(f, k) # {}
    BY <1>1, <1>3, <1>4, AroundBefore
  <2>2. e \in Around(f, k) /\ \A y \in Around(f, k) : y <= e
    BY <2>1, Greatest
  <2> HIDE DEF e
  <2>3. e \in 1 .. Len(f) /\ e < k /\ f[e].kind = "open"
    BY <1>1, <1>3, <2>2, AroundBefore
  <2> QED BY <1>4, <2>2, <2>3
<1>6. e \in Nat /\ e # r /\ e \in in /\ k \in in
  <2>1. e # r
    OBVIOUS
  <2> HIDE DEF e, c
  <2> QED BY <1>1, <1>2, <1>3, <1>5, <2>1
<1>7. <<key, e>> \in Values(f, r)
  <2> DEFINE Here(i) == IF i = r THEN <<>> ELSE Append(PathIn(f, r, i), f[i].name)
             texts == {i \in inside : \E j \in in : f[j].kind = "text" /\ Max(Around(f, j)) = i}
  <2>1. e \in texts
    BY <1>5, <1>6, Zenon
  <2>2. Here(e) = key
    BY <1>6, Zenon
  <2>3. <<Here(e), e>> \in {<<Here(i), i>> : i \in texts}
    <3> HIDE DEF texts, Here, e
    <3> QED BY <2>1
  <2>4. {<<Here(i), i>> : i \in texts} \subseteq Values(f, r)
    BY Zenon DEF Values
  <2> QED BY <2>2, <2>3, <2>4, Zenon
<1>8. \A v \in Values(f, r) : v[2] \in 1 .. Len(f)
  <2> DEFINE Here(i) == IF i = r THEN <<>> ELSE Append(PathIn(f, r, i), f[i].name)
             texts == {i \in inside : \E j \in in : f[j].kind = "text" /\ Max(Around(f, j)) = i}
             times == {j \in {r} \cup inside : f[j].attr # NoTime}
  <2>1. Values(f, r) = {<<Append(Here(i), "@"), i>> : i \in times} \cup {<<Here(i), i>> : i \in texts}
    BY Zenon DEF Values
  <2>2. times \subseteq 1 .. Len(f) /\ texts \subseteq 1 .. Len(f)
    <3>1. \A i \in in : i \in 1 .. Len(f)
      <4> HIDE DEF c
      <4> QED BY <1>1, <1>2
    <3> HIDE DEF in
    <3> QED BY <3>1
  <2> HIDE DEF texts, times, Here
  <2> QED BY <2>1, <2>2
<1>9. e \in Range(InOrder(Under(key)))
  <2>1. Under(key) \in SUBSET (1 .. Len(f)) /\ e \in Under(key)
    <3> HIDE DEF key, e
    <3>1. <<key, e>>[1] = key /\ <<key, e>>[2] = e
      OBVIOUS
    <3>2. <<key, e>> \in {w \in Values(f, r) : w[1] = key}
      BY <1>7, <3>1
    <3>3. e \in Under(key)
      BY <3>1, <3>2
    <3>4. Under(key) \subseteq 1 .. Len(f)
      BY <1>8
    <3> QED BY <3>3, <3>4
  <2> HIDE DEF Under, e, key
  <2>2. Under(key) \subseteq Nat /\ IsFiniteSet(Under(key))
    BY <1>1, <2>1, PlacesTyped
  <2> QED BY <2>1, <2>2, InOrderAll
<1>10. key \in DOMAIN Flatten(f, r) /\ Flatten(f, r)[key] = InOrder(Under(key))
  <2> HIDE DEF key, e
  <2>1. <<key, e>>[1] = key
    OBVIOUS
  <2>2. key \in {v[1] : v \in Values(f, r)}
    BY <1>7, <2>1
  <2> QED BY <2>2, Zenon DEF Flatten
<1>11. key[Len(key)] = f[e].name
  <2> DEFINE n == Cardinality({i \in Around(f, e) : i > r})
             S == {path[i] : i \in 1 .. n}
  <2>1. n \in Nat
    <3>1. IsFiniteSet(Around(f, e))
      BY <1>1, <1>5, <1>6, AroundBefore
    <3>2. IsFiniteSet({i \in Around(f, e) : i > r})
      BY <3>1, FS_Subset
    <3> QED BY <3>2, FS_CardinalityType
  <2>2. path = [i \in 1 .. n |-> path[i]]
    BY DEF PathIn
  <2> HIDE DEF n, path
  <2>3. path \in Seq(S)
    BY <2>1, <2>2
  <2> HIDE DEF S, e
  <2>4. key[Len(key)] = f[e].name
    BY <2>3
  <2> QED BY <2>4
<1> HIDE DEF key, Under, e
<1>12. \E q \in DOMAIN Flatten(f, r) : e \in Range(Flatten(f, r)[q]) /\ q[Len(q)] = f[e].name
  BY <1>9, <1>10, <1>11, Zenon
<1> QED BY <1>12 DEF e

\* The rows up to the place that was read are the records; elements of that name
\* have ended by then, unless the file has.
XmlInv ==
  Streamed("xml") =>
    /\ out = RowRecords(file, row, pos)
    /\ Ended(file, row, pos) \/ pos = Len(file)

\* The XML adapter begins.
XmlOpens ==
  /\ phase = "open" /\ phase' = "stream" /\ UNCHANGED <<file, pos, out>>

\* Nothing happens to the records.
XmlStays == Streamed("xml") /\ UNCHANGED <<file, row, pos, out>>

\* Each step of the XML adapter is one of these.
LEMMA XmlSteps ==
  ASSUME [Next]_vars, Streamed("xml")'
  PROVE  XmlOpens \/ XmlStays \/ ReadRow \/ SkipToken \/ EndOfFile
<1>1. CASE UNCHANGED vars
  BY <1>1 DEF vars, XmlStays, Streamed
<1>2. CASE Grow
  BY <1>2 DEF Grow, Streamed, choice
<1>3. CASE OpenXml
  BY <1>3 DEF OpenXml, XmlOpens, Streamed
<1>4. CASE HintForFile \/ Choose \/ Preview \/ OpenLine \/ OpenOther \/ Abort
  BY <1>4 DEF HintForFile, Choose, Preview, OpenLine, OpenOther, Abort, Streamed, choice
<1>5. CASE SkipLong \/ ContinueMessage \/ StampLine \/ StartBlock \/ ReadField \/ ContinueField
           \/ ReadChunk
  BY <1>5 DEF SkipLong, ContinueMessage, StampLine, StartBlock, ReadField, ContinueField, ReadChunk,
              Reading, Advance, choice, Streamed
<1> QED BY <1>1, <1>2, <1>3, <1>4, <1>5 DEF Next

\* At the beginning there are no rows.
LEMMA NoRows ==
  ASSUME NEW T, NEW f \in Seq(T), NEW name
  PROVE  RowRecords(f, name, 0) = <<>> /\ Ended(f, name, 0)
<1>1. \A i \in Named(f, name) : i \in Nat /\ i >= 1
  <2>1. \A i \in DOMAIN f : i \in Nat /\ i >= 1
    OBVIOUS
  <2> QED BY <2>1 DEF Named
<1>2. Ended(f, name, 0)
  BY <1>1 DEF Ended
<1>3. RowsIn(f, name, 0) = {}
  BY <1>1 DEF RowsIn
<1>4. Cardinality({}) = 0
  BY FS_EmptySet
<1>5. InOrder({}) = <<>>
  BY <1>4 DEF InOrder
<1>6. RowRecords(f, name, 0) = [n \in DOMAIN <<>> |-> RowRecord(f, name, <<>>[n])]
  BY <1>3, <1>5, Zenon DEF RowRecords
<1> QED BY <1>2, <1>6

\* Nothing is added to the records of the rows.
LEMMA RowsJoined ==
  ASSUME NEW T, NEW f \in Seq(T), NEW name, NEW p \in Nat
  PROVE  RowRecords(f, name, p) \o <<>> = RowRecords(f, name, p)
<1> DEFINE rows == InOrder(RowsIn(f, name, p))
           s == RowRecords(f, name, p)
<1>1. rows \in Seq(RowsIn(f, name, p))
  BY RowsTyped, InOrderTyped
<1>2. DOMAIN rows = 1 .. Len(rows) /\ Len(rows) \in Nat
  BY <1>1
<1>3. s = [n \in DOMAIN rows |-> RowRecord(f, name, rows[n])]
  BY Zenon DEF RowRecords
<1> HIDE DEF rows, s
<1>4. s = [n \in 1 .. Len(rows) |-> s[n]] /\ DOMAIN s = 1 .. Len(rows)
  BY <1>2, <1>3
<1>5. s \in Seq({s[i] : i \in DOMAIN s})
  BY <1>2, <1>4
<1>6. s \o <<>> = s
  BY <1>5
<1> QED BY <1>6 DEF s

\* No step disturbs the rows.
LEMMA XmlKept ==
  ASSUME TypeInv, XmlInv, [Next]_vars
  PROVE  XmlInv'
<1> SUFFICES ASSUME Streamed("xml")'
             PROVE  /\ out' = RowRecords(file', row', pos')
                    /\ Ended(file', row', pos') \/ pos' = Len(file')
  BY DEF XmlInv
<1>1. file \in Seq(Lines) /\ pos \in Nat /\ pos <= Len(file) /\ Len(file) \in Nat
  BY DEF TypeInv
<1>2. CASE XmlOpens
  <2>1. pos' = 0 /\ out' = <<>> /\ file' = file
    BY <1>2 DEF XmlOpens, TypeInv
  <2> QED BY <1>1, <2>1, NoRows
<1>3. CASE XmlStays
  BY <1>3 DEF XmlStays, XmlInv
<1>4. CASE ReadRow
  <2> DEFINE q == IF CloseOf(file, pos + 1) > Len(file) THEN Len(file) ELSE CloseOf(file, pos + 1)
  <2>1. /\ UNCHANGED <<file, row>> /\ pos < Len(file) /\ Streamed("xml")
        /\ file[pos + 1].kind = "open" /\ file[pos + 1].name = row
    BY <1>4 DEF ReadRow, Reading, Streamed, Line, choice
  <2>2. /\ pos' = q
        /\ out' = Append(out, [src |-> row, ts |-> RowTime(file, pos + 1),
                               body |-> Flatten(file, pos + 1)])
    BY <1>4, Zenon DEF ReadRow
  <2>3. out = RowRecords(file, row, pos) /\ Ended(file, row, pos)
    BY <1>1, <2>1 DEF XmlInv
  <2>4. pos + 1 \in Named(file, row)
    <3>1. pos + 1 \in DOMAIN file
      BY <1>1, <2>1
    <3> QED BY <2>1, <3>1 DEF Named
  <2>5. q \in Nat
    <3>1. CloseOf(file, pos + 1) \in Nat
      BY <1>1, <2>1, ElementEnds
    <3> QED BY <1>1, <3>1
  <2>6. /\ RowsIn(file, row, q) = RowsIn(file, row, pos) \cup {pos + 1}
        /\ Ended(file, row, q) \/ q = Len(file)
    BY <1>1, <2>1, <2>3, <2>4, <2>5, RowRead
  <2> HIDE DEF q
  <2>7. RowRecords(file, row, q) = Append(RowRecords(file, row, pos), RowRecord(file, row, pos + 1))
    BY <1>1, <2>5, <2>6, RowsLast
  <2>8. out' = RowRecords(file, row, q)
    BY <2>2, <2>3, <2>7, Zenon DEF RowRecord
  <2> QED BY <2>1, <2>2, <2>6, <2>8
<1>5. CASE SkipToken
  <2>1. /\ UNCHANGED <<file, row>> /\ pos < Len(file) /\ Streamed("xml") /\ pos' = pos + 1
        /\ ~ (file[pos + 1].kind = "open" /\ file[pos + 1].name = row)
        /\ out' = out \o <<>>
    BY <1>5 DEF SkipToken, Reading, Streamed, Line, choice, Advance
  <2>2. out = RowRecords(file, row, pos) /\ Ended(file, row, pos)
    BY <1>1, <2>1 DEF XmlInv
  <2>3. pos + 1 \notin Named(file, row)
    BY <2>1 DEF Named
  <2>4. RowsIn(file, row, pos + 1) = RowsIn(file, row, pos) /\ Ended(file, row, pos + 1)
    BY <1>1, <2>1, <2>2, <2>3, TokenRead
  <2>5. RowRecords(file, row, pos + 1) = RowRecords(file, row, pos)
    BY <2>4, Zenon DEF RowRecords
  <2>6. out' = out
    BY <1>1, <2>1, <2>2, RowsJoined, Zenon
  <2> QED BY <2>1, <2>2, <2>4, <2>5, <2>6
<1>6. CASE EndOfFile
  <2>1. UNCHANGED <<file, row, pos>> /\ Streamed("xml") /\ out' = out \o <<>>
    BY <1>6 DEF EndOfFile, Streamed, choice
  <2>2. out' = out
    <3>1. out = RowRecords(file, row, pos)
      BY <2>1 DEF XmlInv
    <3> QED BY <1>1, <2>1, <3>1, RowsJoined, Zenon
  <2> QED BY <2>1, <2>2 DEF XmlInv
<1> QED BY <1>2, <1>3, <1>4, <1>5, <1>6, XmlSteps

\* The records of a chunk's events.
Events(s, k) == {i \in DOMAIN s : s[i].body["event"] = <<k>>}

\* The places of the events that are dictionaries.
Dicts(times) == {i \in DOMAIN times : times[i] # NoDict}

\* Every such event of the chunks read that parse is emitted, with a time.
EvtxInv ==
  Streamed("evtx") =>
    /\ out \in Seq(Range(out))
    /\ \A i \in DOMAIN out : /\ out[i].ts # NoTime
                             /\ \E k \in 1 .. pos : out[i].body["event"] = <<k>>
    /\ \A k \in 1 .. pos : (file[k].kind = "chunk" /\ file[k].ok) =>
         Cardinality(Events(out, k)) = Cardinality(Dicts(file[k].times))

\* The event log's adapter begins.
EvtxOpens ==
  /\ phase = "open" /\ phase' = "stream" /\ UNCHANGED <<file, pos, out>>

\* Nothing happens to the records.
EvtxStays == Streamed("evtx") /\ UNCHANGED <<file, pos, out>>

\* Each step of the event log's adapter is one of these.
LEMMA EvtxSteps ==
  ASSUME [Next]_vars, Streamed("evtx")'
  PROVE  EvtxOpens \/ EvtxStays \/ ReadChunk \/ EndOfFile
<1>1. CASE UNCHANGED vars
  BY <1>1 DEF vars, EvtxStays, Streamed
<1>2. CASE Grow
  BY <1>2 DEF Grow, Streamed, choice
<1>3. CASE OpenOther
  BY <1>3 DEF OpenOther, EvtxOpens, Streamed
<1>4. CASE HintForFile \/ Choose \/ Preview \/ OpenLine \/ OpenXml \/ Abort
  BY <1>4 DEF HintForFile, Choose, Preview, OpenLine, OpenXml, Abort, Streamed, choice
<1>5. CASE SkipLong \/ ContinueMessage \/ StampLine \/ StartBlock \/ ReadField \/ ContinueField
           \/ ReadRow \/ SkipToken
  BY <1>5 DEF SkipLong, ContinueMessage, StampLine, StartBlock, ReadField, ContinueField, ReadRow,
              SkipToken, Reading, Advance, choice, Streamed
<1> QED BY <1>1, <1>2, <1>3, <1>4, <1>5 DEF Next

\* The events of one more chunk follow those there are.
LEMMA ChunkRead ==
  ASSUME NEW T, NEW s \in Seq(T), NEW U, NEW e \in Seq(U), NEW p \in Nat,
         \A i \in DOMAIN s : \E k \in 1 .. p : s[i].body["event"] = <<k>>,
         \A i \in DOMAIN e : e[i].body["event"] = <<p + 1>>
  PROVE  /\ \A k \in 1 .. p : Events(s \o e, k) = Events(s, k)
         /\ Cardinality(Events(s \o e, p + 1)) = Len(e)
<1> DEFINE t == s \o e
           n == p + 1
           a == Len(s)
           b == a + Len(e)
<1>1. a \in Nat /\ b \in Nat /\ Len(e) \in Nat /\ n \in Nat /\ b = a + Len(e) /\ p < n
  OBVIOUS
<1>2. \A i \in DOMAIN s : i \in 1 .. a
  OBVIOUS
<1>3. \A i \in 1 .. a : i \in DOMAIN s /\ i \in 1 .. b /\ t[i] = s[i]
  OBVIOUS
<1>4. \A i \in a + 1 .. b : i \in 1 .. b /\ t[i] = e[i - a] /\ i - a \in DOMAIN e
  OBVIOUS
<1>5. \A i : i \in DOMAIN t <=> i \in 1 .. b
  OBVIOUS
<1>6. \A i \in 1 .. b : i \in 1 .. a \/ i \in a + 1 .. b
  OBVIOUS
<1> HIDE DEF t, n, b
<1>7. \A k, m \in Nat : <<k>> = <<m>> => k = m
  OBVIOUS
<1>8. \A i \in 1 .. a : \E k \in 1 .. p : t[i].body["event"] = <<k>>
  BY <1>3
<1>9. \A i \in a + 1 .. b : t[i].body["event"] = <<n>>
  BY <1>4 DEF n
<1>10. \A k \in 1 .. p : k \in Nat /\ k # n
  BY <1>1
<1>11. \A i \in 1 .. a : t[i].body["event"] # <<n>>
  BY <1>1, <1>7, <1>8, <1>10
<1>12. Events(t, n) = a + 1 .. b
  <2>1. \A i \in a + 1 .. b : i \in DOMAIN t
    BY <1>4, <1>5
  <2>2. \A i \in DOMAIN t : t[i].body["event"] = <<n>> <=> i \in a + 1 .. b
    BY <1>5, <1>6, <1>9, <1>11
  <2> QED BY <2>1, <2>2 DEF Events
<1>13. Cardinality(Events(t, n)) = Len(e)
  <2>1. Cardinality(a + 1 .. b) = IF a + 1 > b THEN 0 ELSE b - (a + 1) + 1
    <3>1. a + 1 \in Int /\ b \in Int
      BY <1>1
    <3> QED BY <3>1, FS_Interval
  <2>2. (IF a + 1 > b THEN 0 ELSE b - (a + 1) + 1) = Len(e)
    BY <1>1
  <2> QED BY <1>12, <2>1, <2>2
<1>14. ASSUME NEW k \in 1 .. p
       PROVE  Events(t, k) = Events(s, k)
  <2>1. \A i \in a + 1 .. b : t[i].body["event"] # <<k>>
    BY <1>1, <1>7, <1>9, <1>10
  <2>2. \A i \in DOMAIN t : t[i].body["event"] = <<k>> => i \in 1 .. a
    BY <1>5, <1>6, <2>1
  <2>3. \A i \in DOMAIN s : i \in DOMAIN t /\ t[i] = s[i]
    BY <1>2, <1>3, <1>5
  <2>4. \A i \in 1 .. a : i \in DOMAIN s /\ t[i] = s[i]
    BY <1>3
  <2> QED BY <2>2, <2>3, <2>4 DEF Events
<1> QED BY <1>13, <1>14 DEF t, n

\* No step disturbs the events.
LEMMA EvtxKept ==
  ASSUME TypeInv, EvtxInv, [Next]_vars
  PROVE  EvtxInv'
<1> SUFFICES ASSUME Streamed("evtx")'
             PROVE  /\ out' \in Seq(Range(out'))
                    /\ \A i \in DOMAIN out' :
                         /\ out'[i].ts # NoTime
                         /\ \E k \in 1 .. pos' : out'[i].body["event"] = <<k>>
                    /\ \A k \in 1 .. pos' : (file'[k].kind = "chunk" /\ file'[k].ok) =>
                         Cardinality(Events(out', k)) = Cardinality(Dicts(file'[k].times))
  BY DEF EvtxInv, Events, Dicts
<1>1. file \in Seq(Lines) /\ pos \in Nat /\ pos <= Len(file) /\ Len(file) \in Nat
  BY DEF TypeInv
<1>2. CASE EvtxOpens
  <2>1. pos' = 0 /\ out' = <<>>
    BY <1>2 DEF EvtxOpens, TypeInv
  <2>2. out' \in Seq(Range(out')) /\ DOMAIN out' = {}
    BY <2>1
  <2> QED BY <2>1, <2>2
<1>3. CASE EvtxStays
  BY <1>3 DEF EvtxStays, EvtxInv
<1>4. CASE EndOfFile
  <2>1. UNCHANGED <<file, pos>> /\ Streamed("evtx") /\ out' = out \o <<>>
    BY <1>4 DEF EndOfFile, Streamed, choice
  <2>2. out \in Seq(Range(out))
    BY <2>1 DEF EvtxInv
  <2>3. out' = out
    <3> DEFINE R == Range(out)
    <3>1. out \in Seq(R)
      BY <2>2
    <3> HIDE DEF R
    <3> QED BY <2>1, <3>1
  <2> QED BY <2>1, <2>3 DEF EvtxInv
<1>5. CASE ReadChunk
  <2> DEFINE times == IF Line.kind = "chunk" /\ Line.ok THEN Line.times ELSE <<>>
             dicts == InOrder(Dicts(times))
             Time(i) == IF times[i] = NoTime THEN mtime ELSE times[i]
             new == [i \in DOMAIN dicts |->
                       [src |-> "evtx", ts |-> Time(dicts[i]),
                        body |-> [key \in {"event"} |-> <<pos + 1>>]]]
             n == pos + 1
  <2>1. /\ UNCHANGED file /\ pos < Len(file) /\ Streamed("evtx") /\ pos' = n
        /\ out' = out \o new
    BY <1>5 DEF ReadChunk, Reading, Streamed, choice, Dicts
  <2>2. /\ out \in Seq(Range(out))
        /\ \A i \in DOMAIN out : /\ out[i].ts # NoTime
                                 /\ \E k \in 1 .. pos : out[i].body["event"] = <<k>>
        /\ \A k \in 1 .. pos : (file[k].kind = "chunk" /\ file[k].ok) =>
             Cardinality(Events(out, k)) = Cardinality(Dicts(file[k].times))
    <3>1. Streamed("evtx")
      BY <2>1
    <3> HIDE DEF new
    <3> QED BY <3>1 DEF EvtxInv
  <2>3. n \in Nat /\ n \in DOMAIN file /\ Line = file[n] /\ Line \in Lines
    <3>1. pos < Len(file)
      BY <2>1
    <3> HIDE DEF new, times
    <3> QED BY <1>1, <3>1 DEF Line
  <2>4. times \in Seq(Int \cup {NoTime, NoDict})
    <3>1. Line.kind = "chunk" => Line.times \in Seq(Int \cup {NoTime, NoDict})
      BY <2>3, IngestAssumption
    <3>2. <<>> \in Seq(Int \cup {NoTime, NoDict})
      OBVIOUS
    <3> QED BY <3>1, <3>2
  <2>5. mtime # NoTime
    BY RegistryAssumption DEF TypeInv, FileTime
  <2> HIDE DEF times
  <2>6. /\ dicts \in Seq(Dicts(times)) /\ Len(dicts) = Cardinality(Dicts(times))
    <3>1. DOMAIN times = 1 .. Len(times) /\ Len(times) \in Nat
      BY <2>4
    <3>2. IsFiniteSet(1 .. Len(times))
      BY <3>1, FS_Interval
    <3>3. Dicts(times) \subseteq DOMAIN times
      BY DEF Dicts
    <3>4. IsFiniteSet(Dicts(times)) /\ Dicts(times) \subseteq Nat
      BY <3>1, <3>2, <3>3, FS_Subset
    <3> QED BY <3>4, InOrderTyped
  <2>15. \A i \in Dicts(times) : Time(i) # NoTime
    BY <2>5
  <2> HIDE DEF dicts, Time
  <2>16. DOMAIN dicts = 1 .. Len(dicts) /\ Len(dicts) \in Nat
         /\ \A i \in DOMAIN dicts : dicts[i] \in Dicts(times)
    BY <2>6
  <2>7. \A i \in DOMAIN dicts : new[i].ts # NoTime /\ new[i].body["event"] = <<n>>
    BY <2>15, <2>16
  <2>8. new \in Seq({new[i] : i \in DOMAIN dicts}) /\ Len(new) = Len(dicts)
        /\ DOMAIN new = 1 .. Len(dicts)
    BY <2>16
  <2> DEFINE R == Range(out)
             U == {new[i] : i \in DOMAIN dicts}
  <2>9. out \in Seq(R) /\ new \in Seq(U)
    BY <2>2, <2>8
  <2> HIDE DEF new, R, U
  <2>10. \A i \in DOMAIN new : new[i].ts # NoTime /\ new[i].body["event"] = <<n>>
    BY <2>7, <2>8, <2>16
  <2>11. /\ \A k \in 1 .. pos : Events(out', k) = Events(out, k)
         /\ Cardinality(Events(out', n)) = Len(new)
    BY <1>1, <2>1, <2>2, <2>9, <2>10, ChunkRead
  <2>12. out' \in Seq(Range(out'))
    <3> DEFINE t == out \o new
    <3>1. t \in Seq(R \cup U)
      BY <2>9
    <3> HIDE DEF t
    <3>2. DOMAIN t = 1 .. Len(t) /\ Len(t) \in Nat /\ t = [i \in 1 .. Len(t) |-> t[i]]
      BY <3>1
    <3>3. \A i \in 1 .. Len(t) : t[i] \in Range(t)
      BY <3>2 DEF Range
    <3>4. t \in Seq(Range(t))
      BY <3>1, <3>2, <3>3
    <3> QED BY <2>1, <3>4 DEF t
  <2>13. ASSUME NEW i \in DOMAIN out'
         PROVE  /\ out'[i].ts # NoTime
                /\ \E k \in 1 .. n : out'[i].body["event"] = <<k>>
    <3>1. \/ i \in DOMAIN out /\ out'[i] = out[i]
          \/ \E j \in DOMAIN new : out'[i] = new[j]
      <4> DEFINE t == out \o new
      <4>1. i \in DOMAIN t
        BY <2>1, <2>13
      <4>2. \/ i \in DOMAIN out /\ t[i] = out[i]
            \/ i - Len(out) \in DOMAIN new /\ t[i] = new[i - Len(out)]
        BY <2>9, <4>1
      <4> QED BY <2>1, <4>2
    <3>2. \A k \in 1 .. pos : k \in 1 .. n
      BY <1>1
    <3>3. n \in 1 .. n
      BY <1>1
    <3> HIDE DEF n
    <3> QED BY <2>2, <2>10, <3>1, <3>2, <3>3
  <2>14. ASSUME NEW k \in 1 .. n, file[k].kind = "chunk", file[k].ok
         PROVE  Cardinality(Events(out', k)) = Cardinality(Dicts(file[k].times))
    <3>1. k \in 1 .. pos \/ k = n
      BY <1>1
    <3>2. CASE k \in 1 .. pos
      BY <2>2, <2>11, <2>14, <3>2
    <3>3. CASE k = n
      <4>1. times = file[k].times
        BY <2>3, <2>14, <3>3 DEF times
      <4> QED BY <2>6, <2>8, <2>11, <3>3, <4>1
    <3> QED BY <3>1, <3>2, <3>3
  <2> QED BY <2>1, <2>12, <2>13, <2>14
<1> QED BY <1>2, <1>3, <1>4, <1>5, EvtxSteps

\* Every row, with its texts, and every event is a record (xml.go, setOrAppend;
\* evtx.go, Stream).
THEOREM NoRowLost == Spec => []RowsKept
<1> DEFINE IInv == TypeInv /\ XmlInv /\ EvtxInv
<1>1. Init => IInv
  <2>1. Init => phase = "stat"
    BY Zenon DEF Init, Begin
  <2> QED BY <2>1, InitTyped DEF XmlInv, EvtxInv, Streamed
<1>2. IInv /\ [Next]_vars => IInv'
  BY TypeKept, XmlKept, EvtxKept
<1>3. IInv => RowsKept
  <2> SUFFICES ASSUME IInv PROVE RowsKept
    OBVIOUS
  <2>0. file \in Seq(Lines) /\ Len(file) \in Nat /\ (phase = "done" => pos = Len(file))
        /\ (\A i \in DOMAIN file : i \in 1 .. Len(file)) /\ pos \in Nat
    BY DEF TypeInv
  <2>1. ASSUME chosen = "xml", phase = "done"
        PROVE  LET rows == InOrder({i \in Named(file, row) :
                                      Around(file, i) \cap Named(file, row) = {}})
               IN /\ Len(out) = Len(rows)
                  /\ \A n \in DOMAIN rows : \A k \in rows[n] .. CloseOf(file, rows[n]) - 1 :
                       (file[k].kind = "text" /\ Max(Around(file, k)) # rows[n]) =>
                         \E key \in DOMAIN out[n].body :
                           /\ Max(Around(file, k)) \in Range(out[n].body[key])
                           /\ key[Len(key)] = file[Max(Around(file, k))].name
    <3> DEFINE R == {i \in Named(file, row) : Around(file, i) \cap Named(file, row) = {}}
               rows == InOrder(R)
    <3>1. R = RowsIn(file, row, pos)
      <4>1. \A i \in Named(file, row) : i <= pos
        BY <2>0, <2>1 DEF Named
      <4> QED BY <4>1 DEF RowsIn
    <3>2. out = RowRecords(file, row, pos)
      BY <2>1 DEF XmlInv, Streamed
    <3> HIDE DEF R
    <3>3. out = [n \in DOMAIN rows |-> RowRecord(file, row, rows[n])]
      BY <3>1, <3>2, Zenon DEF RowRecords
    <3>4. /\ R \subseteq Nat /\ IsFiniteSet(R)
          /\ \A i \in R : i \in 1 .. Len(file) /\ file[i].kind = "open"
      <4>1. /\ RowsIn(file, row, pos) \subseteq Nat /\ IsFiniteSet(RowsIn(file, row, pos))
            /\ \A i \in RowsIn(file, row, pos) : i \in 1 .. Len(file) /\ i \in Named(file, row)
        BY <2>0, RowsTyped
      <4>2. \A i \in Named(file, row) : file[i].kind = "open"
        BY DEF Named
      <4> QED BY <3>1, <4>1, <4>2, Zenon
    <3>5. rows \in Seq(R)
      BY <3>4, InOrderTyped
    <3> HIDE DEF rows
    <3>6. DOMAIN rows = 1 .. Len(rows) /\ Len(rows) \in Nat /\ \A n \in DOMAIN rows : rows[n] \in R
      BY <3>5
    <3>7. Len(out) = Len(rows)
      BY <3>3, <3>6
    <3>8. ASSUME NEW n \in DOMAIN rows, NEW k \in rows[n] .. CloseOf(file, rows[n]) - 1,
                 file[k].kind = "text", Max(Around(file, k)) # rows[n]
          PROVE  \E key \in DOMAIN out[n].body :
                   /\ Max(Around(file, k)) \in Range(out[n].body[key])
                   /\ key[Len(key)] = file[Max(Around(file, k))].name
      <4>1. out[n].body = Flatten(file, rows[n])
        <5>1. out[n] = RowRecord(file, row, rows[n])
          BY <3>3, Zenon
        <5> QED BY <5>1 DEF RowRecord
      <4>2. rows[n] \in 1 .. Len(file) /\ file[rows[n]].kind = "open"
        BY <3>4, <3>6
      <4>3. \E key \in DOMAIN Flatten(file, rows[n]) :
              /\ Max(Around(file, k)) \in Range(Flatten(file, rows[n])[key])
              /\ key[Len(key)] = file[Max(Around(file, k))].name
        <5> DEFINE r == rows[n]
        <5>1. /\ r \in 1 .. Len(file) /\ file[r].kind = "open"
              /\ k \in r .. CloseOf(file, r) - 1 /\ file[k].kind = "text" /\ Max(Around(file, k)) # r
          BY <3>8, <4>2
        <5> HIDE DEF r
        <5>2. \E key \in DOMAIN Flatten(file, r) :
                /\ Max(Around(file, k)) \in Range(Flatten(file, r)[key])
                /\ key[Len(key)] = file[Max(Around(file, k))].name
          BY <2>0, <5>1, RowTexts
        <5> QED BY <5>2 DEF r
      <4> QED BY <4>1, <4>3
    <3> QED BY <3>7, <3>8 DEF rows, R
  <2>2. ASSUME chosen = "evtx", phase = "done"
        PROVE  /\ \A k \in DOMAIN file : (file[k].kind = "chunk" /\ file[k].ok) =>
                    Cardinality({i \in DOMAIN out : out[i].body["event"] = <<k>>})
                      = Cardinality(Dicts(file[k].times))
               /\ \A i \in DOMAIN out : out[i].ts # NoTime
    <3>1. pos = Len(file) /\ Streamed("evtx")
      BY <2>0, <2>2 DEF Streamed
    <3> QED BY <2>0, <3>1 DEF EvtxInv, Events
  <2> QED BY <2>1, <2>2, Zenon DEF RowsKept, Named, Dicts
<1> QED BY <1>1, <1>2, <1>3, PTL DEF Spec
===============================================================================
