-------------------------- MODULE QueryFilterProofs --------------------------
(***************************************************************************)
(* What buildWhereClause returns, and what the engine's reports make of    *)
(* it, proved for every set of columns, texts, instants and filters, every *)
(* number of filters in a request and any loaded files.                    *)
(*                                                                         *)
(* The argument.  The clause grows by a condition, or by a connective and  *)
(* a condition, and each stage leaves a clause whose conditions are just   *)
(* those of the request looked at so far (PartsInv).  A clause that is     *)
(* begun by a condition keeps the two alternating (ShapeInv).  Without an  *)
(* "or" no OR is in it (AndInv), so one stretch holds all conditions.      *)
(*                                                                         *)
(* The reports are then compared row by row.  Sums and lists are folds of  *)
(* the community modules; what a fold computes follows by induction over   *)
(* the subsets of a finite set (SubsetInduction), in which a set stands    *)
(* for the predicate, since no prover instantiates an operator.            *)
(***************************************************************************)
EXTENDS Reports, TLAPS, WellFoundedInduction, FiniteSetTheorems, SequenceTheorems

Condition == {<<"from">>, <<"to">>, <<"search">>} \cup {<<"filter", k>> : k \in Nat}

Stages == {"from", "to", "filters", "search", "done"}

\* The conditions of what has been looked at.
Parts ==
  {c \in Condition :
    \/ c = <<"from">> /\ stage # "from" /\ req.from # NoBound
    \/ c = <<"to">> /\ stage \notin {"from", "to"} /\ req.to # NoBound
    \/ c = <<"search">> /\ stage = "done" /\ req.search # NoSearch
    \/ \E k \in Kept : c = <<"filter", k>> /\ k < next}

\* What makes the clause begin with a condition.
Begun == req.from # NoBound \/ req.to # NoBound \/ 1 \in Kept \/ Kept = {}

\* No filter that is kept has an "or".
AllAnd == \A k \in Kept : req.filters[k].logic = "and"

TypeInv ==
  /\ req \in Request
  /\ stage \in Stages
  /\ next \in Nat \ {0}
  /\ next <= Len(req.filters) + 1
  /\ stage = "from" => clauses = << >>
  /\ stage \in {"from", "to"} => next = 1
  /\ stage \in {"search", "done"} => next = Len(req.filters) + 1
  /\ clauses \in Seq(Condition \cup Connective)

\* s is made of connectives and the conditions P, all of them.
MadeOf(s, P) ==
  /\ \A k \in 1..Len(s) : s[k] \in Connective \cup P
  /\ \A c \in P : \E k \in 1..Len(s) : s[k] = c

PartsInv == MadeOf(clauses, Parts)

ShapeInv == Begun => WellFormed(clauses)

AndInv ==
  AllAnd => \A k \in 1..Len(clauses) : clauses[k] # Or

IInv == TypeInv /\ PartsInv /\ ShapeInv /\ AndInv

-----------------------------------------------------------------------------
(* Lists that grow at their end *)

\* A condition is not a connective.
LEMMA ConditionsDiffer == Condition \cap Connective = {}
BY DEF Condition, Connective, And, Or

\* A condition alone is a clause.
LEMMA Alone ==
  ASSUME NEW c \in Condition
  PROVE  WellFormed(<<c>>)
<1>1. c \notin Connective
  BY ConditionsDiffer
<1> QED BY <1>1 DEF WellFormed

\* What is at the places of a clause that was extended.
LEMMA Extended ==
  ASSUME NEW s \in Seq(Condition \cup Connective),
         NEW con \in Connective, NEW c \in Condition,
         NEW t, t = s \o <<con, c>>
  PROVE  /\ t \in Seq(Condition \cup Connective)
         /\ Len(t) = Len(s) + 2
         /\ \A k \in 1..Len(s) : t[k] = s[k]
         /\ t[Len(s) + 1] = con /\ t[Len(s) + 2] = c
OBVIOUS

\* A clause that is extended by a connective and a condition is one.
LEMMA Joined ==
  ASSUME NEW s \in Seq(Condition \cup Connective), s # << >>, WellFormed(s),
         NEW con \in Connective, NEW c \in Condition
  PROVE  WellFormed(s \o <<con, c>>)
<1> DEFINE t == s \o <<con, c>>
<1>1. /\ Len(t) = Len(s) + 2
      /\ \A k \in 1..Len(s) : t[k] = s[k]
      /\ t[Len(s) + 1] = con /\ t[Len(s) + 2] = c
  BY Extended
<1>2. Len(s) \in Nat /\ Len(s) % 2 = 1 /\ \A k \in 1..Len(s) : s[k] \in Connective <=> k % 2 = 0
  BY DEF WellFormed
<1>3. c \notin Connective
  BY ConditionsDiffer
<1> HIDE DEF t
<1>4. Len(t) % 2 = 1
  BY <1>1, <1>2
<1>5. ASSUME NEW k \in 1..Len(t)
      PROVE  t[k] \in Connective <=> k % 2 = 0
  <2>1. CASE k \in 1..Len(s)
    BY <1>1, <1>2, <2>1
  <2>2. CASE k = Len(s) + 1
    BY <1>1, <1>2, <2>2
  <2>3. CASE k = Len(s) + 2
    BY <1>1, <1>2, <1>3, <2>3
  <2> QED BY <1>1, <1>2, <2>1, <2>2, <2>3
<1>6. WellFormed(t)
  BY <1>4, <1>5 DEF WellFormed
<1> QED BY <1>6 DEF t

-----------------------------------------------------------------------------
(* The three things a step does to the clause *)

\* It leaves it alone.
LEMMA Unchanged ==
  ASSUME IInv, UNCHANGED <<req, clauses>>, Parts' = Parts
  PROVE  PartsInv' /\ ShapeInv' /\ AndInv'
BY DEF IInv, PartsInv, ShapeInv, AndInv, Begun, AllAnd, Kept

\* It begins it.
LEMMA Started ==
  ASSUME IInv, UNCHANGED req, NEW c \in Condition,
         clauses = << >>, clauses' = <<c>>, Parts' = Parts \cup {c}
  PROVE  /\ clauses' \in Seq(Condition \cup Connective)
         /\ PartsInv' /\ ShapeInv' /\ AndInv'
<1>1. Parts = {}
  BY DEF IInv, PartsInv, MadeOf
<1>2. MadeOf(<<c>>, {c})
  BY DEF MadeOf
<1>3. PartsInv'
  BY <1>1, <1>2 DEF PartsInv
<1>4. ShapeInv'
  BY Alone DEF ShapeInv
<1>5. AndInv'
  BY ConditionsDiffer DEF AndInv, Connective
<1> QED BY <1>3, <1>4, <1>5

\* It extends it; a clause that starts with a connective is possible only
\* when the request does not make it begin with a condition.
LEMMA Grown ==
  ASSUME IInv, UNCHANGED req, NEW con \in Connective, NEW c \in Condition,
         clauses' = clauses \o <<con, c>>, Parts' = Parts \cup {c},
         clauses = << >> => ~Begun,
         AllAnd => con = And
  PROVE  /\ clauses' \in Seq(Condition \cup Connective)
         /\ PartsInv' /\ ShapeInv' /\ AndInv'
<1>0. clauses \in Seq(Condition \cup Connective)
  BY DEF IInv, TypeInv
<1>1. /\ clauses' \in Seq(Condition \cup Connective)
      /\ Len(clauses') = Len(clauses) + 2
      /\ \A k \in 1..Len(clauses) : clauses'[k] = clauses[k]
      /\ clauses'[Len(clauses) + 1] = con /\ clauses'[Len(clauses) + 2] = c
  BY <1>0, Extended
<1>2. Len(clauses) \in Nat
  BY <1>0
<1>3. ASSUME NEW k \in 1..Len(clauses')
      PROVE  \/ k \in 1..Len(clauses)
             \/ k = Len(clauses) + 1
             \/ k = Len(clauses) + 2
  BY <1>1, <1>2, <1>3
<1>4. PartsInv'
  <2>1. \A k \in 1..Len(clauses') : clauses'[k] \in Connective \cup Parts'
    BY <1>1, <1>3 DEF IInv, PartsInv, MadeOf
  <2>2. ASSUME NEW d \in Parts'
        PROVE  \E k \in 1..Len(clauses') : clauses'[k] = d
    <3>1. CASE d = c
      BY <1>1, <1>2, <3>1
    <3>2. CASE d \in Parts
      <4>1. PICK k \in 1..Len(clauses) : clauses[k] = d
        BY <3>2 DEF IInv, PartsInv, MadeOf
      <4>2. k \in 1..Len(clauses') /\ clauses'[k] = d
        BY <1>1, <1>2, <4>1
      <4> QED BY <4>2
    <3> QED BY <3>1, <3>2
  <2> QED BY <2>1, <2>2 DEF PartsInv, MadeOf
<1>5. ShapeInv'
  <2>1. Begun' <=> Begun
    BY DEF Begun, Kept
  <2>2. Begun => WellFormed(clauses')
    BY <1>0, Joined DEF IInv, ShapeInv
  <2> QED BY <2>1, <2>2 DEF ShapeInv
<1>6. AndInv'
  <2>1. AllAnd' <=> AllAnd
    BY DEF AllAnd, Kept
  <2>2. c # Or /\ And # Or
    BY ConditionsDiffer DEF Connective, And, Or
  <2>3. AllAnd => \A k \in 1..Len(clauses') : clauses'[k] # Or
    BY <1>1, <1>3, <2>2 DEF IInv, AndInv
  <2> QED BY <2>1, <2>3 DEF AndInv
<1> QED BY <1>1, <1>4, <1>5, <1>6

-----------------------------------------------------------------------------
(* The actions *)

\* Filters are numbered from 1, and looked at in that order.
LEMMA FilterNumbers ==
  ASSUME TypeInv
  PROVE  /\ Len(req.filters) \in Nat
         /\ Kept \subseteq 1..Len(req.filters)
         /\ \A k \in 1..Len(req.filters) : req.filters[k] \in Filter
<1>1. PICK n \in 0..MaxFilters : req.filters \in [1..n -> Filters]
  BY DEF TypeInv, Request
<1>2. n \in Nat /\ Len(req.filters) = n
  BY <1>1, FilterAssumption
<1> QED BY <1>1, <1>2, FilterAssumption DEF Kept

\* A clause is begun before a filter other than the first is looked at, if
\* anything makes it begin with a condition.
LEMMA BegunInTime ==
  ASSUME IInv, stage = "filters", next \in Kept, next > 1, clauses = << >>
  PROVE  ~Begun
<1>1. Parts = {}
  BY DEF IInv, PartsInv, MadeOf
<1>2. req.from = NoBound
  BY <1>1 DEF Parts, Condition
<1>3. req.to = NoBound
  BY <1>1 DEF Parts, Condition
<1>4. 1 \notin Kept
  BY <1>1 DEF Parts, Condition
<1> QED BY <1>2, <1>3, <1>4 DEF Begun

\* Every step of buildWhereClause preserves the invariant.
LEMMA StepKeeps ==
  ASSUME IInv, [Next]_vars
  PROVE  IInv'
<1>0. /\ Len(req.filters) \in Nat
      /\ Kept \subseteq 1..Len(req.filters)
  BY FilterNumbers DEF IInv
<1>1. TypeInv
  BY DEF IInv
<1>2. CASE UNCHANGED vars
  BY <1>2 DEF vars, IInv, TypeInv, PartsInv, ShapeInv, AndInv, Begun, AllAnd, Kept, Parts
<1>3. CASE FromClause
  <2>1. CASE req.from = NoBound
    <3>1. Parts' = Parts
      BY <1>3, <2>1 DEF FromClause, Parts, Kept
    <3>2. PartsInv' /\ ShapeInv' /\ AndInv'
      BY <1>3, <2>1, <3>1, Unchanged DEF FromClause
    <3>3. TypeInv'
      BY <1>1, <1>3, <2>1 DEF FromClause, TypeInv, Stages
    <3> QED BY <3>2, <3>3 DEF IInv
  <2>2. CASE req.from # NoBound
    <3>1. Parts' = Parts \cup {<<"from">>}
      BY <1>3, <2>2 DEF FromClause, Parts, Kept, Condition
    <3>2. clauses' = << <<"from">> >> /\ clauses = << >> /\ UNCHANGED req
      BY <1>1, <1>3, <2>2 DEF FromClause, TypeInv
    <3>3. <<"from">> \in Condition
      BY DEF Condition
    <3>4. clauses' \in Seq(Condition \cup Connective) /\ PartsInv' /\ ShapeInv' /\ AndInv'
      BY <3>1, <3>2, <3>3, Started
    <3>5. TypeInv'
      BY <1>1, <1>3, <3>4 DEF FromClause, TypeInv, Stages
    <3> QED BY <3>4, <3>5 DEF IInv
  <2> QED BY <2>1, <2>2
<1>4. CASE ToClause
  <2>1. CASE req.to = NoBound
    <3>1. Parts' = Parts
      BY <1>4, <2>1 DEF ToClause, Parts, Kept
    <3>2. PartsInv' /\ ShapeInv' /\ AndInv'
      BY <1>4, <2>1, <3>1, Unchanged DEF ToClause
    <3>3. TypeInv'
      BY <1>1, <1>4, <2>1 DEF ToClause, TypeInv, Stages
    <3> QED BY <3>2, <3>3 DEF IInv
  <2>2. CASE req.to # NoBound
    <3>1. Parts' = Parts \cup {<<"to">>}
      BY <1>4, <2>2 DEF ToClause, Parts, Kept, Condition
    <3>2. UNCHANGED req /\ <<"to">> \in Condition /\ And \in Connective
      BY <1>4 DEF ToClause, Condition, Connective
    <3>3. clauses' \in Seq(Condition \cup Connective) /\ PartsInv' /\ ShapeInv' /\ AndInv'
      <4>1. CASE clauses = << >>
        BY <1>4, <2>2, <3>1, <3>2, <4>1, Started DEF ToClause
      <4>2. CASE clauses # << >>
        BY <1>4, <2>2, <3>1, <3>2, <4>2, Grown DEF ToClause
      <4> QED BY <4>1, <4>2
    <3>4. TypeInv'
      BY <1>1, <1>4, <3>3 DEF ToClause, TypeInv, Stages
    <3> QED BY <3>3, <3>4 DEF IInv
  <2> QED BY <2>1, <2>2
<1>5. CASE FilterDropped
  <2>1. next \notin Kept
    BY <1>5 DEF FilterDropped, Kept
  <2>2. Parts' = Parts
    <3>1. \A k \in Kept : k < next + 1 <=> k < next
      BY <1>0, <1>1, <2>1 DEF TypeInv
    <3>2. UNCHANGED <<req, stage>> /\ next' = next + 1 /\ Kept' = Kept
      BY <1>5 DEF FilterDropped, Kept
    <3> QED BY <3>1, <3>2 DEF Parts
  <2>3. PartsInv' /\ ShapeInv' /\ AndInv'
    BY <1>5, <2>2, Unchanged DEF FilterDropped
  <2>4. TypeInv'
    BY <1>0, <1>1, <1>5 DEF FilterDropped, TypeInv, Stages
  <2> QED BY <2>3, <2>4 DEF IInv
<1>6. CASE FilterAdded
  <2> DEFINE con == ConnectiveOf(req.filters[next])
             c == <<"filter", next>>
  <2>1. next \in Nat /\ next \in Kept /\ c \in Condition /\ con \in Connective /\ UNCHANGED req
    BY <1>0, <1>1, <1>6 DEF FilterAdded, TypeInv, Kept, Condition, ConnectiveOf, Connective
  <2>2. Parts' = Parts \cup {c}
    <3>1. \A k \in Kept : k < next + 1 <=> k < next \/ k = next
      BY <1>0, <2>1
    <3>2. UNCHANGED <<req, stage>> /\ next' = next + 1 /\ Kept' = Kept
      BY <1>6 DEF FilterAdded, Kept
    <3> QED BY <2>1, <3>1, <3>2 DEF Parts
  <2>3. AllAnd => con = And
    BY <2>1 DEF AllAnd, ConnectiveOf
  <2>4. clauses' \in Seq(Condition \cup Connective) /\ PartsInv' /\ ShapeInv' /\ AndInv'
    <3>1. CASE clauses = << >> /\ next = 1
      <4>1. clauses' = <<c>>
        BY <1>6, <3>1 DEF FilterAdded
      <4> QED BY <2>1, <2>2, <3>1, <4>1, Started
    <3>2. CASE ~(clauses = << >> /\ next = 1)
      <4>1. clauses' = clauses \o <<con, c>>
        BY <1>1, <1>6, <3>2 DEF FilterAdded, TypeInv
      <4>2. clauses = << >> => ~Begun
        BY <1>1, <1>6, <2>1, <3>2, BegunInTime DEF FilterAdded, TypeInv
      <4> HIDE DEF con, c
      <4> QED BY <2>1, <2>2, <2>3, <4>1, <4>2, Grown
    <3> QED BY <3>1, <3>2
  <2>5. TypeInv'
    <3>1. /\ stage = "filters" /\ next <= Len(req.filters) /\ next' = next + 1
          /\ UNCHANGED <<req, stage>>
      BY <1>6 DEF FilterAdded
    <3> QED BY <1>0, <1>1, <2>4, <3>1 DEF TypeInv, Stages
  <2> QED BY <2>4, <2>5 DEF IInv
<1>7. CASE FiltersDone
  <2>1. Parts' = Parts
    BY <1>7 DEF FiltersDone, Parts, Kept
  <2>2. PartsInv' /\ ShapeInv' /\ AndInv'
    BY <1>7, <2>1, Unchanged DEF FiltersDone
  <2>3. TypeInv'
    BY <1>0, <1>1, <1>7 DEF FiltersDone, TypeInv, Stages
  <2> QED BY <2>2, <2>3 DEF IInv
<1>8. CASE SearchClause
  <2>1. CASE req.search = NoSearch
    <3>1. Parts' = Parts
      BY <1>8, <2>1 DEF SearchClause, Parts, Kept
    <3>2. PartsInv' /\ ShapeInv' /\ AndInv'
      BY <1>8, <2>1, <3>1, Unchanged DEF SearchClause
    <3>3. TypeInv'
      BY <1>1, <1>8, <2>1 DEF SearchClause, TypeInv, Stages
    <3> QED BY <3>2, <3>3 DEF IInv
  <2>2. CASE req.search # NoSearch
    <3>1. Parts' = Parts \cup {<<"search">>}
      BY <1>8, <2>2 DEF SearchClause, Parts, Kept, Condition
    <3>2. UNCHANGED req /\ <<"search">> \in Condition /\ And \in Connective
      BY <1>8 DEF SearchClause, Condition, Connective
    <3>3. clauses' \in Seq(Condition \cup Connective) /\ PartsInv' /\ ShapeInv' /\ AndInv'
      <4>1. CASE clauses = << >>
        BY <1>8, <2>2, <3>1, <3>2, <4>1, Started DEF SearchClause
      <4>2. CASE clauses # << >>
        BY <1>8, <2>2, <3>1, <3>2, <4>2, Grown DEF SearchClause
      <4> QED BY <4>1, <4>2
    <3>4. TypeInv'
      BY <1>1, <1>8, <3>3 DEF SearchClause, TypeInv, Stages
    <3> QED BY <3>3, <3>4 DEF IInv
  <2> QED BY <2>1, <2>2
<1> QED BY <1>2, <1>3, <1>4, <1>5, <1>6, <1>7, <1>8 DEF Next

\* A request that has not been looked at.
LEMMA InitKeeps == Init => IInv
<1> SUFFICES ASSUME Init PROVE IInv
  OBVIOUS
<1>1. TypeInv
  <2>1. PICK n \in 0..MaxFilters : req.filters \in [1..n -> Filters]
    BY DEF Init, Request
  <2>2. Len(req.filters) \in Nat
    BY <2>1, FilterAssumption
  <2> QED BY <2>2 DEF Init, TypeInv, Stages
<1>2. Parts = {}
  BY <1>1, FilterNumbers DEF Init, Parts
<1> QED BY <1>1, <1>2 DEF Init, IInv, PartsInv, MadeOf, ShapeInv, AndInv, WellFormed

\* The invariant holds of every reachable state.
LEMMA Invariance == Spec => []IInv
<1>1. IInv /\ [Next]_vars => IInv'
  BY StepKeeps
<1> QED BY InitKeeps, <1>1, PTL DEF Spec

-----------------------------------------------------------------------------
(* What the clause says *)

\* A clause that the request makes begin with a condition can be parsed
\* (WellFormedAfterFirst), whatever filters buildWhereClause drops after it.
THEOREM ClauseParses == Spec => []WellFormedAfterFirst
<1>1. IInv => WellFormedAfterFirst
  BY DEF IInv, ShapeInv, Begun, WellFormedAfterFirst
<1> QED BY Invariance, <1>1, PTL

\* Without an OR a clause is TRUE of a row when all its conditions are.
LEMMA SelectedByAll ==
  ASSUME NEW s \in Seq(Condition \cup Connective), NEW P \in SUBSET Condition, MadeOf(s, P),
         \A k \in 1..Len(s) : s[k] # Or,
         NEW row
  PROVE  Selected(row, s) <=> \A c \in P : True(row, c)
<1>0. Len(s) \in Nat
  OBVIOUS
<1>1. \A k \in 1..Len(s) : s[k] # And => s[k] \in P
  BY DEF MadeOf, Connective
<1>2. And \notin P
  BY ConditionsDiffer DEF Connective
<1>3. CASE s = << >>
  BY <1>3 DEF Selected, MadeOf
<1>4. CASE s # << >>
  <2>1. 1 \in 1..Len(s) /\ Len(s) \in 1..Len(s)
    BY <1>0, <1>4
  <2>2. ASSUME Selected(row, s), NEW c \in P
        PROVE  True(row, c)
    <3>1. PICK a \in 1..Len(s), b \in 1..Len(s) :
            /\ a <= b
            /\ a = 1 \/ s[a - 1] = Or
            /\ b = Len(s) \/ s[b + 1] = Or
            /\ \A k \in a..b : s[k] # Or /\ (s[k] # And => True(row, s[k]))
      BY <1>4, <2>2 DEF Selected
    <3>2. a = 1 /\ b = Len(s)
      BY <1>0, <3>1
    <3>3. PICK k \in 1..Len(s) : s[k] = c
      BY DEF MadeOf
    <3> QED BY <1>2, <3>1, <3>2, <3>3
  <2>3. ASSUME \A c \in P : True(row, c)
        PROVE  Selected(row, s)
    <3>1. \A k \in 1..Len(s) : s[k] # Or /\ (s[k] # And => True(row, s[k]))
      BY <1>1, <2>3
    <3> QED BY <2>1, <3>1 DEF Selected
  <2> QED BY <2>2, <2>3
<1> QED BY <1>3, <1>4

\* When nothing kept has an "or", the rows that are selected are those within
\* the time range that satisfy every kept filter and contain the search text
\* (ConjunctionMeansAll), for any number of filters and however many of these
\* parts buildWhereClause finds absent or drops.
THEOREM ConjunctionExact == Spec => []ConjunctionMeansAll
<1>1. ASSUME IInv
      PROVE  ConjunctionMeansAll
  <2> SUFFICES ASSUME stage = "done", AllAnd, NEW row \in Row
               PROVE  Selected(row, clauses) <=>
                        /\ InWindow(row) /\ InSearch(row)
                        /\ \A k \in Kept : Satisfies(row, req.filters[k])
    BY DEF ConjunctionMeansAll, AllAnd
  <2>1. Len(req.filters) \in Nat /\ Kept \subseteq 1..Len(req.filters) /\ next = Len(req.filters) + 1
    BY <1>1, FilterNumbers DEF IInv, TypeInv
  <2>2. Selected(row, clauses) <=> \A c \in Parts : True(row, c)
    <3>1. Parts \in SUBSET Condition
      BY DEF Parts
    <3> QED BY <1>1, <3>1, SelectedByAll DEF IInv, TypeInv, PartsInv, AndInv
  <2>3. <<"from">> \in Parts <=> req.from # NoBound
    BY DEF Parts, Condition
  <2>4. <<"to">> \in Parts <=> req.to # NoBound
    BY DEF Parts, Condition
  <2>5. <<"search">> \in Parts <=> req.search # NoSearch
    BY DEF Parts, Condition
  <2>6. \A k \in Kept : <<"filter", k>> \in Parts
    BY <2>1 DEF Parts, Condition
  <2>7. \A c \in Parts : \/ c \in {<<"from">>, <<"to">>, <<"search">>}
                         \/ \E k \in Kept : c = <<"filter", k>>
    BY DEF Parts
  <2>8. /\ True(row, <<"from">>) <=> NotBefore(row, req.from)
        /\ True(row, <<"to">>) <=> NotAfter(row, req.to)
        /\ True(row, <<"search">>) <=> Found(row, req.search)
    BY DEF True
  <2>9. \A k \in Kept : True(row, <<"filter", k>>) <=> Satisfies(row, req.filters[k])
    BY DEF True
  <2>10. (\A c \in Parts : True(row, c)) <=>
           /\ InWindow(row) /\ InSearch(row)
           /\ \A k \in Kept : True(row, <<"filter", k>>)
    BY <2>3, <2>4, <2>5, <2>6, <2>7, <2>8 DEF InWindow, InSearch
  <2> QED BY <2>2, <2>9, <2>10
<1> QED BY Invariance, <1>1, PTL

\* What Satisfies makes of the operators that are each other's opposite.
LEMMA Opposites ==
  ASSUME NEW f \in Filter, NEW row \in Row
  PROVE  LET As(operator) == Satisfies(row, [f EXCEPT !.operator = operator])
         IN  As("exists") # As("does_not_exist") /\ As("is_one_of") # As("is_not_one_of")
<1> DEFINE With(operator) == [f EXCEPT !.operator = operator]
           v == row.cols[f.field]
<1>1. \A o : With(o).operator = o /\ With(o).field = f.field /\ With(o).value = f.value
  BY DEF Filter
<1> HIDE DEF With
<1>2. Satisfies(row, With("exists")) <=> v # Null /\ v # EmptyText
  BY <1>1 DEF Satisfies, Containing, Excluding
<1>3. Satisfies(row, With("does_not_exist")) <=> v = Null \/ v = EmptyText
  BY <1>1 DEF Satisfies, Containing, Excluding
<1>4. Satisfies(row, With("is_one_of")) <=> v # Null /\ v \in f.value
  BY <1>1 DEF Satisfies, Containing, Excluding
<1>5. Satisfies(row, With("is_not_one_of")) <=> v = Null \/ v \notin f.value
  BY <1>1 DEF Satisfies, Containing, Excluding
<1>6. /\ (Satisfies(row, With("exists"))) # (Satisfies(row, With("does_not_exist")))
      /\ (Satisfies(row, With("is_one_of"))) # (Satisfies(row, With("is_not_one_of")))
  BY <1>2, <1>3, <1>4, <1>5
<1> QED BY <1>6 DEF With

\* "exists" and "does_not_exist", "is_one_of" and "is_not_one_of" split the rows
\* (OppositesSplit), those without the field too, in any request.
THEOREM OppositesComplement == Spec => []OppositesSplit
<1>1. ASSUME IInv
      PROVE  OppositesSplit
  <2> SUFFICES ASSUME NEW k \in Kept, NEW row \in Row
               PROVE  LET f == req.filters[k]
                          As(operator) == Satisfies(row, [f EXCEPT !.operator = operator])
                      IN  /\ f.operator \in Valueless => As("exists") # As("does_not_exist")
                          /\ f.operator \in Listing => As("is_one_of") # As("is_not_one_of")
    BY DEF OppositesSplit
  <2>1. req.filters[k] \in Filter
    BY <1>1, FilterNumbers DEF IInv
  <2> QED BY <2>1, Opposites
<1> QED BY Invariance, <1>1, PTL

-----------------------------------------------------------------------------
(* Induction over data *)

\* A set of naturals has a least element.
LEMMA NatMin ==
  ASSUME NEW T, T \subseteq Nat, T # {}
  PROVE  \E x \in T : \A y \in T : x <= y
<1>1. IsWellFoundedOn(OpToRel(<, Nat), Nat)
  BY NatLessThanWellFounded
<1>2. PICK x \in T : \A y \in T : ~ (<<y, x>> \in OpToRel(<, Nat))
  BY <1>1, WFMin
<1>3. \A y \in T : ~ (y < x)
  BY <1>2 DEF OpToRel
<1> QED BY <1>3

\* Induction over the naturals, the set standing for the predicate.
LEMMA Counting ==
  ASSUME NEW G, 0 \in G, \A n \in Nat : n \in G => n + 1 \in G
  PROVE  \A n \in Nat : n \in G
<1> SUFFICES ASSUME Nat \ G # {} PROVE FALSE
  OBVIOUS
<1>1. PICK n \in Nat \ G : \A m \in Nat \ G : n <= m
  BY NatMin
<1>2. n # 0 /\ n - 1 \in Nat /\ n = (n - 1) + 1
  BY <1>1
<1>3. n - 1 \in G
  BY <1>1, <1>2
<1> QED BY <1>1, <1>2, <1>3

\* Induction over the subsets of a finite set.
LEMMA SubsetInduction ==
  ASSUME NEW S, IsFiniteSet(S), NEW G, {} \in G,
         \A T \in SUBSET S : T # {} /\ (\A x \in T : T \ {x} \in G) => T \in G
  PROVE  SUBSET S \subseteq G
<1> DEFINE N == {n \in Nat : \A T \in SUBSET S : Cardinality(T) = n => T \in G}
<1>1. \A T \in SUBSET S : IsFiniteSet(T) /\ Cardinality(T) \in Nat
  BY FS_Subset, FS_CardinalityType
<1>2. 0 \in N
  BY <1>1, FS_EmptySet
<1>3. ASSUME NEW n \in Nat, n \in N PROVE n + 1 \in N
  <2> SUFFICES ASSUME NEW T \in SUBSET S, Cardinality(T) = n + 1 PROVE T \in G
    OBVIOUS
  <2>1. T # {}
    <3>1. Cardinality({}) = 0
      BY FS_EmptySet
    <3> QED BY <3>1
  <2>2. ASSUME NEW x \in T PROVE T \ {x} \in G
    <3>1. Cardinality(T \ {x}) = n /\ T \ {x} \in SUBSET S
      BY <1>1, FS_RemoveElement
    <3> QED BY <1>3, <3>1
  <2> QED BY <2>1, <2>2
<1>4. \A n \in Nat : n \in N
  <2> HIDE DEF N
  <2> QED BY <1>2, <1>3, Counting
<1> QED BY <1>1, <1>4

\* c picks an element of each subset of S.
Picks(c, S) == \A T \in SUBSET S : T # {} => c[T] \in T

\* g is a step from V to V at each element of S.
StepsIn(g, S, V) == \A x \in S : \A v \in V : g[x][v] \in V

\* iter folds g over the subsets of S.
Folds(iter, S, V, base, c, g) ==
  /\ iter \in [SUBSET S -> V]
  /\ iter[{}] = base
  /\ \A T \in SUBSET S : T # {} => iter[T] = g[c[T]][iter[T \ {c[T]}]]

\* What is recursive over the subsets of a finite set, by an element chosen
\* from each, is defined: the functions of the folds exist.
LEMMA SetRecursion ==
  ASSUME NEW S, IsFiniteSet(S), NEW V, NEW base \in V,
         NEW c, Picks(c, S), NEW g, StepsIn(g, S, V)
  PROVE  \E iter : Folds(iter, S, V, base, c, g)
<1> USE DEF Picks, StepsIn, Folds
<1> DEFINE Small(n) == {T \in SUBSET S : Cardinality(T) <= n}
           Body(h, T) == IF T = {} THEN base ELSE g[c[T]][h[T \ {c[T]}]]
           Bad == {n \in Nat : ~ \E h \in [Small(n) -> V] : \A T \in Small(n) : h[T] = Body(h, T)}
<1>1. ASSUME NEW T \in SUBSET S
      PROVE  /\ IsFiniteSet(T) /\ Cardinality(T) \in Nat
             /\ T # {} => Cardinality(T \ {c[T]}) = Cardinality(T) - 1 /\ Cardinality(T) > 0
             /\ Cardinality(T) = 0 <=> T = {}
             /\ T # {} => c[T] \in S /\ T \ {c[T]} \in SUBSET S
  <2>1. IsFiniteSet(T)
    BY FS_Subset
  <2>2. Cardinality(T) \in Nat /\ (Cardinality(T) = 0 <=> T = {})
    BY <2>1, FS_CardinalityType, FS_EmptySet
  <2>3. T # {} => Cardinality(T \ {c[T]}) = Cardinality(T) - 1
    BY <2>1, FS_RemoveElement
  <2> QED BY <2>1, <2>2, <2>3
<1>2. ASSUME NEW n \in Nat, NEW h \in [Small(n) -> V], \A T \in Small(n) : h[T] = Body(h, T)
      PROVE  n + 1 \notin Bad
  <2> DEFINE k == [T \in Small(n + 1) |-> Body(h, T)]
  <2>1. ASSUME NEW T \in Small(n + 1), T # {}
        PROVE  T \ {c[T]} \in Small(n) /\ c[T] \in S
    <3>1. T \in SUBSET S /\ Cardinality(T) <= n + 1
      OBVIOUS
    <3>2. /\ Cardinality(T \ {c[T]}) = Cardinality(T) - 1 /\ Cardinality(T) \in Nat
          /\ c[T] \in S /\ T \ {c[T]} \in SUBSET S
      BY <1>1, <2>1, <3>1
    <3>3. Cardinality(T \ {c[T]}) <= n
      BY <3>1, <3>2
    <3> QED BY <3>2, <3>3
  <2>2. k \in [Small(n + 1) -> V]
    <3>1. ASSUME NEW T \in Small(n + 1) PROVE Body(h, T) \in V
      <4>1. CASE T = {}
        BY <4>1
      <4>2. CASE T # {}
        <5>1. h[T \ {c[T]}] \in V /\ c[T] \in S
          BY <2>1, <4>2
        <5> QED BY <4>2, <5>1
      <4> QED BY <4>1, <4>2
    <3> HIDE DEF Body
    <3> QED BY <3>1
  <2>3. ASSUME NEW T \in Small(n) PROVE T \in Small(n + 1) /\ k[T] = h[T]
    <3>1. T \in SUBSET S /\ Cardinality(T) <= n
      OBVIOUS
    <3>2. Cardinality(T) \in Nat
      BY <1>1, <3>1
    <3>3. Cardinality(T) <= n + 1
      BY <3>1, <3>2
    <3>4. T \in Small(n + 1)
      BY <3>1, <3>3
    <3>5. k[T] = Body(h, T)
      BY <3>4
    <3>6. h[T] = Body(h, T)
      BY <1>2
    <3> QED BY <3>4, <3>5, <3>6
  <2>4. ASSUME NEW T \in Small(n + 1) PROVE k[T] = Body(k, T)
    <3>1. k[T] = Body(h, T)
      BY <2>4
    <3>2. T # {} => k[T \ {c[T]}] = h[T \ {c[T]}]
      BY <2>1, <2>3, <2>4
    <3> HIDE DEF k
    <3> QED BY <3>1, <3>2
  <2> HIDE DEF k, Body, Small
  <2> QED BY <2>2, <2>4
<1>3. 0 \notin Bad
  <2> DEFINE k == [T \in Small(0) |-> base]
  <2>1. ASSUME NEW T \in Small(0) PROVE T = {}
    <3>1. T \in SUBSET S /\ Cardinality(T) <= 0
      OBVIOUS
    <3>2. Cardinality(T) \in Nat /\ (Cardinality(T) = 0 <=> T = {})
      BY <1>1, <3>1
    <3> QED BY <3>1, <3>2
  <2>2. k \in [Small(0) -> V] /\ \A T \in Small(0) : k[T] = Body(k, T)
    BY <2>1
  <2> HIDE DEF k, Body, Small
  <2> QED BY <2>2
<1>4. Bad = {}
  <2> SUFFICES ASSUME Bad # {} PROVE FALSE
    OBVIOUS
  <2>1. Bad \subseteq Nat
    OBVIOUS
  <2>2. PICK n \in Bad : \A m \in Bad : n <= m
    <3> HIDE DEF Bad
    <3> QED BY <2>1, NatMin
  <2>3. n \in Nat /\ n # 0 /\ n - 1 \notin Bad
    <3> HIDE DEF Bad
    <3> QED BY <1>3, <2>1, <2>2
  <2>4. n - 1 \in Nat /\ (n - 1) + 1 = n
    BY <2>3
  <2>5. PICK h \in [Small(n - 1) -> V] : \A T \in Small(n - 1) : h[T] = Body(h, T)
    <3> HIDE DEF Small, Body
    <3> QED BY <2>3, <2>4
  <2>6. (n - 1) + 1 \notin Bad
    <3> HIDE DEF Small, Body, Bad
    <3> QED BY <1>2, <2>4, <2>5
  <2> QED BY <2>2, <2>4, <2>6
<1>5. Cardinality(S) \in Nat
  BY <1>1
<1>6. PICK h \in [Small(Cardinality(S)) -> V] : \A T \in Small(Cardinality(S)) : h[T] = Body(h, T)
  <2> HIDE DEF Small, Body
  <2> QED BY <1>4, <1>5
<1>7. Small(Cardinality(S)) = SUBSET S
  <2>1. \A T \in SUBSET S : Cardinality(T) <= Cardinality(S)
    BY FS_Subset
  <2> QED BY <2>1
<1>8. h = [T \in SUBSET S |-> Body(h, T)]
  <2> HIDE DEF Small, Body
  <2> QED BY <1>6, <1>7
<1> QED BY <1>6, <1>7, <1>8

\* SumOfCounts is what it says, by a recursion over the subsets.
LEMMA SumUnfolds ==
  ASSUME NEW S, IsFiniteSet(S), \A r \in S : r.count \in Nat
  PROVE  \E iter \in [SUBSET S -> Nat] :
           /\ SumOfCounts(S) = iter[S]
           /\ iter[{}] = 0
           /\ \A T \in SUBSET S : T # {} =>
                \E x \in T : iter[T] = x.count + iter[T \ {x}]
<1> DEFINE c == [T \in SUBSET S |-> CHOOSE x \in T : TRUE]
           g == [x \in S |-> [v \in Nat |-> x.count + v]]
           Sums(h) == h = [T \in SUBSET S |->
                             IF T = {} THEN 0
                             ELSE LET x == CHOOSE x \in T : TRUE
                                  IN  x.count + h[T \ {x}]]
           sum == CHOOSE h : Sums(h)
<1>1. Picks(c, S)
  BY DEF Picks
<1>2. StepsIn(g, S, Nat)
  BY DEF StepsIn
<1>3. PICK iter : Folds(iter, S, Nat, 0, c, g)
  <2>1. 0 \in Nat
    OBVIOUS
  <2> HIDE DEF c, g
  <2> QED BY <1>1, <1>2, <2>1, SetRecursion
<1>4. Sums(iter)
  <2>1. ASSUME NEW T \in SUBSET S, T # {}
        PROVE  g[c[T]][iter[T \ {c[T]}]] = c[T].count + iter[T \ {c[T]}]
    <3>1. c[T] \in S /\ iter[T \ {c[T]}] \in Nat
      BY <1>1, <1>3, <2>1 DEF Picks, Folds
    <3> QED BY <3>1
  <2> QED BY <1>3, <2>1 DEF Folds
<1>5. Sums(sum)
  <2> HIDE DEF Sums
  <2> QED BY <1>4
<1>6. SumOfCounts(S) = sum[S]
  BY DEF SumOfCounts, MapThenSumSet, MapThenFoldSet
<1> HIDE DEF sum
<1>7. \A T \in SUBSET S : T # {} => \E x \in T : sum[T] = x.count + sum[T \ {x}]
  BY <1>5
<1>8. sum[{}] = 0
  BY <1>5
<1>9. sum \in [SUBSET S -> Nat]
  <2> DEFINE G == {T \in SUBSET S : sum[T] \in Nat}
  <2>1. {} \in G
    BY <1>8
  <2>2. ASSUME NEW T \in SUBSET S, T # {}, \A x \in T : T \ {x} \in G
        PROVE  T \in G
    <3>1. PICK x \in T : sum[T] = x.count + sum[T \ {x}]
      BY <1>7, <2>2
    <3>2. sum[T \ {x}] \in Nat /\ x.count \in Nat
      BY <2>2
    <3> QED BY <3>1, <3>2
  <2>3. SUBSET S \subseteq G
    <3> HIDE DEF G
    <3> QED BY <2>1, <2>2, SubsetInduction
  <2> QED BY <1>5, <2>3
<1> QED BY <1>6, <1>7, <1>8, <1>9

\* The counts of the parts of a finite set add up to its size.
LEMMA SumOfParts ==
  ASSUME NEW D, IsFiniteSet(D), NEW R, IsFiniteSet(R), NEW h \in [D -> R],
         \A r \in R : r.count = Cardinality({p \in D : h[p] = r})
  PROVE  SumOfCounts(R) = Cardinality(D)
<1> DEFINE Of(T) == {p \in D : h[p] \in T}
           Part(r) == {p \in D : h[p] = r}
<1>1. \A E \in SUBSET D : IsFiniteSet(E) /\ Cardinality(E) \in Nat
  BY FS_Subset, FS_CardinalityType
<1>2. \A r \in R : r.count \in Nat
  BY <1>1
<1>3. PICK sum \in [SUBSET R -> Nat] :
        /\ SumOfCounts(R) = sum[R]
        /\ sum[{}] = 0
        /\ \A T \in SUBSET R : T # {} => \E x \in T : sum[T] = x.count + sum[T \ {x}]
  BY <1>2, SumUnfolds
<1> DEFINE G == {T \in SUBSET R : sum[T] = Cardinality(Of(T))}
<1>4. {} \in G
  <2>1. Of({}) = {}
    OBVIOUS
  <2> QED BY <1>3, <2>1, FS_EmptySet
<1>5. ASSUME NEW T \in SUBSET R, T # {}, \A x \in T : T \ {x} \in G
      PROVE  T \in G
  <2>1. PICK x \in T : sum[T] = x.count + sum[T \ {x}]
    BY <1>3, <1>5
  <2>2. sum[T \ {x}] = Cardinality(Of(T \ {x})) /\ x.count = Cardinality(Part(x))
    BY <1>5
  <2>3. Of(T) = Part(x) \cup Of(T \ {x}) /\ Part(x) \cap Of(T \ {x}) = {}
    OBVIOUS
  <2>4. Cardinality(Of(T)) = Cardinality(Part(x)) + Cardinality(Of(T \ {x}))
    <3>1. IsFiniteSet(Part(x)) /\ IsFiniteSet(Of(T \ {x})) /\ IsFiniteSet({})
      BY <1>1, FS_EmptySet
    <3>2. Cardinality(Part(x)) \in Nat /\ Cardinality(Of(T \ {x})) \in Nat
      BY <1>1
    <3> HIDE DEF Of, Part
    <3>3. Cardinality(Of(T)) = Cardinality(Part(x)) + Cardinality(Of(T \ {x})) - Cardinality({})
      BY <2>3, <3>1, FS_Union
    <3> QED BY <3>2, <3>3, FS_EmptySet
  <2> QED BY <2>1, <2>2, <2>4
<1>6. R \in G
  <2> HIDE DEF G
  <2> QED BY <1>4, <1>5, SubsetInduction
<1>7. Of(R) = D
  OBVIOUS
<1> QED BY <1>3, <1>6, <1>7

-----------------------------------------------------------------------------
(* The rows of the union *)

\* A set that has one element at most.
LEMMA AtMostOne ==
  ASSUME NEW S, IsFiniteSet(S), Cardinality(S) <= 1, NEW x \in S, NEW y \in S
  PROVE  x = y
<1> SUFFICES ASSUME x # y PROVE FALSE
  OBVIOUS
<1>1. IsFiniteSet(S \ {x}) /\ Cardinality(S \ {x}) = Cardinality(S) - 1
  BY FS_RemoveElement
<1>2. Cardinality(S \ {x}) # 0
  BY <1>1, FS_EmptySet
<1>3. Cardinality(S) \in Nat /\ Cardinality(S \ {x}) \in Nat
  BY <1>1, FS_CardinalityType
<1> QED BY <1>1, <1>2, <1>3

\* The first of a set of places.
LEMMA FirstPlace ==
  ASSUME NEW I, I \subseteq Nat, I # {}
  PROVE  Min(I) \in I /\ \A i \in I : Min(I) <= i
<1>1. \E i \in I : \A k \in I : i <= k
  BY NatMin
<1> QED BY <1>1 DEF Min

\* The values of a function over a finite set.
LEMMA ImageFinite ==
  ASSUME NEW S, IsFiniteSet(S), NEW f
  PROVE  LET T == {f[x] : x \in S}
         IN  IsFiniteSet(T) /\ Cardinality(T) <= Cardinality(S)
<1> DEFINE T == {f[x] : x \in S}
           g == [x \in S |-> f[x]]
<1>1. g \in Surjection(S, T)
  BY DEF Surjection
<1> HIDE DEF g
<1> QED BY <1>1, FS_Surjection

\* What is in a list of names.
LEMMA NamesIn ==
  ASSUME NEW s \in Seq(Names)
  PROVE  /\ DOMAIN s = 1..Len(s) /\ Len(s) \in Nat
         /\ ToSet(s) = {s[k] : k \in DOMAIN s}
         /\ ToSet(s) \subseteq Names
         /\ IsFiniteSet(DOMAIN s) /\ IsFiniteSet(ToSet(s))
<1>1. DOMAIN s = 1..Len(s) /\ Len(s) \in Nat /\ \A k \in DOMAIN s : s[k] \in Names
  OBVIOUS
<1>2. ToSet(s) = {s[k] : k \in DOMAIN s}
  BY DEF ToSet
<1>3. IsFiniteSet(1..Len(s))
  BY <1>1, FS_Interval
<1>4. IsFiniteSet({s[k] : k \in DOMAIN s})
  BY <1>1, <1>3, ImageFinite
<1> QED BY <1>1, <1>2, <1>3, <1>4

\* Where a row is.
LEMMA PlaceOf ==
  ASSUME NEW cat \in Catalogs, NEW p \in Places(cat)
  PROVE  /\ p[1] \in DOMAIN cat /\ cat[p[1]].enabled
         /\ cat[p[1]].cols \in Seq(Names) /\ cat[p[1]].paths \in Seq(Names)
         /\ p[2] \in DOMAIN cat[p[1]].rows
         /\ RowAt(cat, p) = UnionRow(cat, cat[p[1]], cat[p[1]].rows[p[2]])
<1>1. PICK k \in {i \in DOMAIN cat : cat[i].enabled} : \E j \in DOMAIN cat[k].rows : p = <<k, j>>
  BY DEF Places
<1>2. PICK j \in DOMAIN cat[k].rows : p = <<k, j>>
  BY <1>1
<1>3. p[1] = k /\ p[2] = j
  BY <1>2
<1>4. RowAt(cat, p) = UnionRow(cat, cat[p[1]], cat[p[1]].rows[p[2]])
  BY DEF RowAt, Union
<1>5. cat[k].cols \in Seq(Names) /\ cat[k].paths \in Seq(Names)
  BY <1>1, ReportsAssumption
<1> QED BY <1>1, <1>2, <1>3, <1>4, <1>5

\* The value of a column, when the columns of its name disagree nowhere.
LEMMA ColumnValue ==
  ASSUME NEW t, t.cols \in Seq(Names), t.paths \in Seq(Names), NEW row, NEW f,
         \A p \in ToSet(t.paths) : ~SameName(p, f),
         Cardinality(OwnValues(t, row, f)) <= 1
  PROVE  Coalesced(t, row, f) = OwnValue(t, row, f)
<1> DEFINE own == OwnValues(t, row, f)
           filled == {i \in ColumnsNamed(t, f) : row[t.cols[i]] # Null}
<1>1. own = {row[n] : n \in {m \in ToSet(t.cols) : SameName(m, f)}} \ {Null}
  BY DEF OwnValues
<1>2. own = {row[t.cols[i]] : i \in filled}
  BY <1>1, NamesIn DEF ColumnsNamed
<1>3. IsFiniteSet(own)
  <2>1. IsFiniteSet(filled)
    BY NamesIn, FS_Subset DEF ColumnsNamed
  <2> DEFINE at == [i \in filled |-> row[t.cols[i]]]
  <2>2. own = {at[i] : i \in filled}
    BY <1>2
  <2> HIDE DEF at, filled, own
  <2> QED BY <2>1, <2>2, ImageFinite
<1>4. CASE filled = {}
  <2>1. own = {}
    BY <1>2, <1>4
  <2> QED BY <1>4, <2>1 DEF Coalesced, OwnValue
<1>5. CASE filled # {}
  <2>1. filled \subseteq Nat
    BY NamesIn DEF ColumnsNamed
  <2>2. Min(filled) \in filled
    BY <1>5, <2>1, FirstPlace
  <2>3. Coalesced(t, row, f) = row[t.cols[Min(filled)]]
    BY <1>5 DEF Coalesced
  <2>4. Coalesced(t, row, f) \in own
    BY <1>2, <2>2, <2>3
  <2>5. OwnValue(t, row, f) \in own
    BY <2>4 DEF OwnValue
  <2> QED BY <1>3, <2>4, <2>5, AtMostOne
<1> QED BY <1>4, <1>5

\* Two rows that say the same of the fields, and of the time when the request
\* bounds it, are selected by the same clauses.
LEMMA SelectedAlike ==
  ASSUME IInv, stage = "done",
         NEW r, NEW q,
         \A f \in Fields : r.cols[f] = q.cols[f],
         req.from # NoBound \/ req.to # NoBound => r.time = q.time
  PROVE  Selected(r, clauses) <=> Selected(q, clauses)
<1>1. ASSUME NEW c \in Parts
      PROVE  True(r, c) <=> True(q, c)
  <2>1. CASE c = <<"from">>
    <3>1. req.from # NoBound
      BY <2>1 DEF Parts
    <3> QED BY <2>1, <3>1 DEF True, NotBefore
  <2>2. CASE c = <<"to">>
    <3>1. req.to # NoBound
      BY <2>2 DEF Parts
    <3> QED BY <2>2, <3>1 DEF True, NotAfter
  <2>3. CASE c = <<"search">>
    BY <2>3 DEF True, Found
  <2>4. CASE \E k \in Kept : c = <<"filter", k>>
    <3>1. PICK k \in Kept : c = <<"filter", k>>
      BY <2>4
    <3>2. req.filters[k].field \in Fields
      BY FilterNumbers DEF IInv, Kept, Dropped, Filter
    <3>3. Satisfies(r, req.filters[k]) <=> Satisfies(q, req.filters[k])
      BY <3>2 DEF Satisfies
    <3> QED BY <3>1, <3>3 DEF True
  <2> QED BY <2>1, <2>2, <2>3, <2>4 DEF Parts
<1>2. \A k \in 1..Len(clauses) : clauses[k] # And /\ clauses[k] # Or => clauses[k] \in Parts
  BY DEF IInv, PartsInv, MadeOf, Connective
<1>3. Len(clauses) \in Nat
  BY DEF IInv, TypeInv
<1>4. \A k \in 1..Len(clauses) :
        (clauses[k] # Or /\ (clauses[k] # And => True(r, clauses[k])))
          <=> (clauses[k] # Or /\ (clauses[k] # And => True(q, clauses[k])))
  BY <1>1, <1>2
<1>5. ASSUME NEW a \in 1..Len(clauses), NEW b \in 1..Len(clauses)
      PROVE  (\A k \in a..b : clauses[k] # Or /\ (clauses[k] # And => True(r, clauses[k])))
               <=> (\A k \in a..b : clauses[k] # Or /\ (clauses[k] # And => True(q, clauses[k])))
  <2>1. a..b \subseteq 1..Len(clauses)
    BY <1>3
  <2> QED BY <1>4, <2>1
<1> QED BY <1>5, Zenon DEF Selected

\* A row of the union says of a field what the file's row says itself.
LEMMA FieldOfRow ==
  ASSUME NEW cat \in Catalogs, NoClash(cat), OneSpelling(cat), NEW p \in Places(cat),
         Clear(cat[p[1]], cat[p[1]].rows[p[2]]), NEW f \in Fields
  PROVE  RowAt(cat, p).cols[f] = OwnRow(cat[p[1]], cat[p[1]].rows[p[2]]).cols[f]
<1> DEFINE t == cat[p[1]]
           row == t.rows[p[2]]
           paths == {m \in ToSet(t.paths) : SameName(m, f)}
<1>1. /\ p[1] \in DOMAIN cat /\ t.cols \in Seq(Names) /\ t.paths \in Seq(Names)
      /\ RowAt(cat, p) = UnionRow(cat, t, row)
  BY PlaceOf
<1>2. RowAt(cat, p).cols[f] = UnionValue(cat, t, row, f)
  BY <1>1 DEF UnionRow
<1>3. OwnRow(t, row).cols[f] = OwnValue(t, row, f)
  BY DEF OwnRow
<1>4. Cardinality(OwnValues(t, row, f)) <= 1
  BY DEF Clear
<1>5. CASE IsColumn(cat, f)
  <2>1. PICK i \in DOMAIN cat : ColumnsNamed(cat[i], f) # {}
    BY <1>5 DEF IsColumn
  <2>2. PICK k \in DOMAIN cat[i].cols : SameName(cat[i].cols[k], f)
    BY <2>1 DEF ColumnsNamed
  <2>3. cat[i].cols[k] \in ToSet(cat[i].cols)
    <3>1. cat[i].cols \in Seq(Names)
      BY <2>1, ReportsAssumption
    <3> QED BY <2>2, <3>1, NamesIn
  <2>4. \A m \in ToSet(t.paths) : ~SameName(m, f)
    BY <1>1, <2>1, <2>2, <2>3 DEF NoClash, SameName
  <2>5. Coalesced(t, row, f) = OwnValue(t, row, f)
    <3> HIDE DEF t, row
    <3> QED BY <1>1, <1>4, <2>4, ColumnValue
  <2> QED BY <1>2, <1>3, <1>5, <2>5 DEF UnionValue
<1>6. CASE ~IsColumn(cat, f)
  <2>1. ColumnsNamed(t, f) = {}
    BY <1>1, <1>6 DEF IsColumn
  <2>2. \A m \in ToSet(t.cols) : ~SameName(m, f)
    BY <1>1, <2>1, NamesIn DEF ColumnsNamed
  <2>3. OwnValues(t, row, f) = {row[m] : m \in paths} \ {Null}
    BY <2>2 DEF OwnValues
  <2>4. ASSUME NEW m \in paths, NEW n \in paths
        PROVE  m = n
    <3>1. SameName(m, n)
      BY DEF SameName
    <3>2. m \in ToSet(cat[p[1]].paths) /\ n \in ToSet(cat[p[1]].paths)
      OBVIOUS
    <3>3. \A i, k \in DOMAIN cat : \A a \in ToSet(cat[i].paths), b \in ToSet(cat[k].paths) :
            SameName(a, b) => a = b
      BY Zenon DEF OneSpelling
    <3> QED BY <1>1, <3>1, <3>2, <3>3
  <2> DEFINE spellings == {m \in UNION {ToSet(cat[k].paths) : k \in DOMAIN cat} : SameName(m, f)}
             path == CHOOSE m \in spellings : TRUE
  <2>5. UnionValue(cat, t, row, f)
          = IF path \in spellings \cap ToSet(t.paths) THEN row[path] ELSE Null
    BY <1>6 DEF UnionValue
  <2>6. CASE paths = {}
    <3>1. OwnValues(t, row, f) = {}
      BY <2>3, <2>6
    <3>2. spellings \cap ToSet(t.paths) = {}
      BY <2>6
    <3>3. UnionValue(cat, t, row, f) = Null
      <4> HIDE DEF spellings, path
      <4> QED BY <2>5, <3>2
    <3> QED BY <1>2, <1>3, <3>1, <3>3 DEF OwnValue
  <2>7. CASE paths # {}
    <3>1. PICK m \in paths : TRUE
      BY <2>7
    <3>2. m \in spellings /\ path \in spellings
      BY <1>1, <3>1
    <3>3. PICK i \in DOMAIN cat : path \in ToSet(cat[i].paths)
      BY <3>2
    <3>4. SameName(path, m)
      BY <3>1, <3>2 DEF SameName
    <3>5. path = m
      <4>1. m \in ToSet(cat[p[1]].paths)
        BY <3>1
      <4> HIDE DEF path, paths
      <4> QED BY <1>1, <3>3, <3>4, <4>1 DEF OneSpelling
    <3>6. UnionValue(cat, t, row, f) = row[m]
      <4> HIDE DEF path, spellings
      <4> QED BY <2>5, <3>1, <3>2, <3>5
    <3>7. OwnValues(t, row, f) = {row[m]} \ {Null}
      BY <2>3, <2>4, <2>7, <3>1
    <3>8. OwnValue(t, row, f) = row[m]
      BY <3>7 DEF OwnValue
    <3> QED BY <1>2, <1>3, <3>6, <3>8
  <2> QED BY <2>6, <2>7
<1> QED BY <1>5, <1>6

\* And of its time, when that is a column at all.
LEMMA TimeOfRow ==
  ASSUME NEW cat \in Catalogs, NoClash(cat), HasTime(cat), NEW p \in Places(cat),
         Clear(cat[p[1]], cat[p[1]].rows[p[2]])
  PROVE  RowAt(cat, p).time = OwnRow(cat[p[1]], cat[p[1]].rows[p[2]]).time
<1> DEFINE t == cat[p[1]]
           row == t.rows[p[2]]
<1>1. /\ p[1] \in DOMAIN cat /\ t.cols \in Seq(Names) /\ t.paths \in Seq(Names)
      /\ RowAt(cat, p) = UnionRow(cat, t, row)
  BY PlaceOf
<1>2. RowAt(cat, p).time = TryCast(Coalesced(t, row, TimeField))
  BY <1>1 DEF UnionRow
<1>3. OwnRow(t, row).time = TryCast(OwnValue(t, row, TimeField))
  BY DEF OwnRow
<1>4. Cardinality(OwnValues(t, row, TimeField)) <= 1
  BY DEF Clear
<1>5. PICK i \in DOMAIN cat : ColumnsNamed(cat[i], TimeField) # {}
  BY DEF HasTime, InUnion
<1>6. PICK k \in DOMAIN cat[i].cols : SameName(cat[i].cols[k], TimeField)
  BY <1>5 DEF ColumnsNamed
<1>7. cat[i].cols[k] \in ToSet(cat[i].cols)
  <2>1. cat[i].cols \in Seq(Names)
    BY <1>5, ReportsAssumption
  <2> QED BY <1>6, <2>1, NamesIn
<1>8. \A m \in ToSet(t.paths) : ~SameName(m, TimeField)
  BY <1>1, <1>5, <1>6, <1>7 DEF NoClash, SameName
<1>9. Coalesced(t, row, TimeField) = OwnValue(t, row, TimeField)
  <2> HIDE DEF t, row
  <2> QED BY <1>1, <1>4, <1>8, ColumnValue
<1> QED BY <1>2, <1>3, <1>9

\* The union finds just the rows that each file's own columns let through
\* (RowsFound): however the names of columns differ in case, and whatever other
\* files have or lack, buildUnionSelect and quoteFieldRef change no row that is
\* clear by itself.
THEOREM UnionFindsRows == Spec => []RowsFound
<1>1. ASSUME IInv
      PROVE  RowsFound
  <2> SUFFICES ASSUME NEW cat \in Catalogs, Answered(cat), NoClash(cat),
                      OneSpelling(cat), NEW p \in Places(cat),
                      Clear(cat[p[1]], cat[p[1]].rows[p[2]])
               PROVE  p \in Matching(cat, clauses)
                        <=> Selected(OwnRow(cat[p[1]], cat[p[1]].rows[p[2]]), clauses)
    BY DEF RowsFound
  <2>1. stage = "done" /\ (req.from # NoBound \/ req.to # NoBound => HasTime(cat))
    BY DEF Answered
  <2>2. p \in Matching(cat, clauses) <=> Selected(RowAt(cat, p), clauses)
    BY DEF Matching
  <2> QED BY <1>1, <2>1, <2>2, FieldOfRow, TimeOfRow, SelectedAlike
<1> QED BY Invariance, <1>1, PTL

-----------------------------------------------------------------------------
(* The bars of the histogram *)

\* Multiplying keeps the order.
LEMMA Times ==
  ASSUME NEW a \in Nat, NEW b \in Nat, NEW d \in Nat
  PROVE  /\ a * d \in Nat
         /\ a <= b => a * d <= b * d
         /\ a < b /\ d > 0 => a * d < b * d
OBVIOUS

\* What integer division gives.
LEMMA Division ==
  ASSUME NEW a \in Nat, NEW d \in Nat, d > 0
  PROVE  /\ a \div d \in Nat
         /\ (a \div d) * d <= a
         /\ a < (a \div d + 1) * d
OBVIOUS

\* The quotient is the greatest factor that stays below.
LEMMA Quotient ==
  ASSUME NEW a \in Nat, NEW d \in Nat, d > 0, NEW n \in Nat
  PROVE  /\ a < n * d => a \div d < n
         /\ n * d <= a => n <= a \div d
BY Division, Times

\* The width of a bar is one at which there are not too many.
LEMMA IntervalFits ==
  ASSUME NEW seconds \in Nat
  PROVE  /\ PickInterval(seconds) \in Nat \ {0}
         /\ seconds < (MaxBuckets + 1) * PickInterval(seconds)
<1> DEFINE fit == {k \in DOMAIN Intervals : seconds \div Intervals[k] <= MaxBuckets}
<1>1. MaxBuckets \in Nat \ {0} /\ DayWidth \in Nat \ {0}
  BY ReportsAssumption
<1>2. Intervals \in Seq(Nat \ {0})
  BY ReportsAssumption
<1>3. CASE fit = {}
  <2> DEFINE share == seconds \div MaxBuckets
             days == share \div DayWidth
             w == (days + 1) * DayWidth
  <2>1. PickInterval(seconds) = w
    BY <1>3 DEF PickInterval
  <2>2. share \in Nat /\ seconds < (share + 1) * MaxBuckets
    BY <1>1, Division
  <2>3. days \in Nat /\ share < (days + 1) * DayWidth
    BY <1>1, <2>2, Division
  <2>4. w \in Nat
    BY <1>1, <2>3, Times
  <2> HIDE DEF days, share
  <2>5. share + 1 <= w /\ w # 0
    BY <2>2, <2>3, <2>4
  <2> HIDE DEF w
  <2>6. (share + 1) * MaxBuckets <= w * MaxBuckets
    BY <1>1, <2>2, <2>4, <2>5, Times
  <2>7. w * MaxBuckets = MaxBuckets * w /\ (MaxBuckets + 1) * w = MaxBuckets * w + w
    BY <1>1, <2>4
  <2>8. (share + 1) * MaxBuckets \in Nat /\ w * MaxBuckets \in Nat
    BY <1>1, <2>2, <2>4, Times
  <2> QED BY <2>1, <2>2, <2>4, <2>5, <2>6, <2>7, <2>8
<1>4. CASE fit # {}
  <2>0. DOMAIN Intervals = 1..Len(Intervals) /\ \A k \in DOMAIN Intervals : Intervals[k] \in Nat \ {0}
    BY <1>2
  <2>1. Min(fit) \in fit
    <3>1. fit \subseteq Nat
      BY <2>0
    <3> HIDE DEF fit
    <3> QED BY <1>4, <3>1, FirstPlace
  <2> DEFINE w == Intervals[Min(fit)]
  <2>2. PickInterval(seconds) = w
    BY <1>4 DEF PickInterval
  <2>3. w \in Nat \ {0} /\ seconds \div w <= MaxBuckets
    BY <2>0, <2>1
  <2> HIDE DEF w, fit
  <2>4. seconds \div w \in Nat /\ seconds < (seconds \div w + 1) * w
    BY <2>3, Division
  <2>5. (seconds \div w + 1) * w <= (MaxBuckets + 1) * w
    BY <1>1, <2>3, <2>4, Times
  <2>6. (seconds \div w + 1) * w \in Nat /\ (MaxBuckets + 1) * w \in Nat
    BY <1>1, <2>3, <2>4, Times
  <2> QED BY <2>2, <2>3, <2>4, <2>5, <2>6
<1> QED BY <1>3, <1>4

\* There are finitely many rows.
LEMMA PlacesFinite ==
  ASSUME NEW cat \in Catalogs
  PROVE  IsFiniteSet(Places(cat))
<1> DEFINE on == {i \in DOMAIN cat : cat[i].enabled}
           Of == [k \in on |-> {<<k, j>> : j \in DOMAIN cat[k].rows}]
           parts == {Of[k] : k \in on}
<1>1. DOMAIN cat = 1..Len(cat) /\ Len(cat) \in Nat
  BY ReportsAssumption
<1>2. IsFiniteSet(on)
  <2>1. IsFiniteSet(1..Len(cat))
    BY <1>1, FS_Interval
  <2>2. on \subseteq 1..Len(cat)
    BY <1>1
  <2> QED BY <2>1, <2>2, FS_Subset
<1>3. ASSUME NEW k \in on PROVE IsFiniteSet(Of[k])
  <2> DEFINE rows == DOMAIN cat[k].rows
             at == [j \in rows |-> <<k, j>>]
  <2>1. rows = 1..Len(cat[k].rows) /\ Len(cat[k].rows) \in Nat
    BY ReportsAssumption
  <2>2. IsFiniteSet(rows)
    BY <2>1, FS_Interval
  <2>3. Of[k] = {at[j] : j \in rows}
    OBVIOUS
  <2> HIDE DEF at, rows, Of
  <2> QED BY <2>2, <2>3, ImageFinite
<1>4. IsFiniteSet(parts)
  <2> HIDE DEF Of, on
  <2> QED BY <1>2, ImageFinite
<1>5. \A T \in parts : IsFiniteSet(T)
  <2> HIDE DEF Of
  <2> QED BY <1>3
<1>6. IsFiniteSet(UNION parts)
  <2> HIDE DEF parts
  <2> QED BY <1>4, <1>5, FS_UNION
<1>7. Places(cat) = UNION parts
  <2>1. parts = {{<<k, j>> : j \in DOMAIN cat[k].rows} : k \in on}
    OBVIOUS
  <2> HIDE DEF parts
  <2> QED BY <2>1, Zenon DEF Places
<1> QED BY <1>6, <1>7

\* A finite set of naturals has a greatest element.
LEMMA Greatest ==
  ASSUME NEW T, IsFiniteSet(T), T \subseteq Nat, T # {}
  PROVE  Max(T) \in T /\ \A y \in T : y <= Max(T)
<1> DEFINE Topped == {S \in SUBSET T : S = {} \/ \E x \in S : \A y \in S : y <= x}
<1>1. {} \in Topped
  OBVIOUS
<1>2. ASSUME NEW S \in SUBSET T, S # {}, \A x \in S : S \ {x} \in Topped
      PROVE  S \in Topped
  <2>1. PICK x \in S : TRUE
    BY <1>2
  <2>2. S \ {x} = {} \/ \E z \in S \ {x} : \A y \in S \ {x} : y <= z
    BY <1>2, <2>1
  <2>3. CASE S \ {x} = {}
    <3>1. \A y \in S : y <= x
      BY <2>1, <2>3
    <3> QED BY <2>1, <3>1
  <2>4. CASE \E z \in S \ {x} : \A y \in S \ {x} : y <= z
    <3>1. PICK z \in S \ {x} : \A y \in S \ {x} : y <= z
      BY <2>4
    <3>2. x \in Nat /\ z \in Nat
      BY <2>1, <3>1
    <3>3. CASE x <= z
      BY <3>1, <3>3
    <3>4. CASE ~ (x <= z)
      <4>1. \A y \in S : y <= x
        BY <2>1, <3>1, <3>2, <3>4
      <4> QED BY <2>1, <4>1
    <3> QED BY <3>3, <3>4
  <2> QED BY <2>2, <2>3, <2>4
<1>3. T \in Topped
  <2> HIDE DEF Topped
  <2> QED BY <1>1, <1>2, SubsetInduction
<1>4. \E x \in T : \A y \in T : x >= y
  BY <1>3
<1> QED BY <1>4 DEF Max

\* What a dated column holds is an instant, is not one, or is missing.
LEMMA DatedColumn ==
  ASSUME NEW t, t.cols \in Seq(Names), NEW row, NEW f,
         \A c \in ToSet(t.cols) : SameName(c, f) => row[c] \in Nat \cup {Null, Garbage}
  PROVE  LET filled == {i \in ColumnsNamed(t, f) : row[t.cols[i]] # Null}
         IN  /\ filled \subseteq Nat
             /\ \A i \in ColumnsNamed(t, f) : TryCast(row[t.cols[i]]) \in Nat \cup {Null}
             /\ TryCast(Coalesced(t, row, f)) \in Nat \cup {Null}
             /\ TryCast(Coalesced(t, row, f)) \in Nat =>
                  /\ filled # {}
                  /\ Coalesced(t, row, f) = row[t.cols[Min(filled)]]
<1> DEFINE filled == {i \in ColumnsNamed(t, f) : row[t.cols[i]] # Null}
<1>1. filled \subseteq Nat
  BY NamesIn DEF ColumnsNamed
<1>2. ASSUME NEW i \in ColumnsNamed(t, f)
      PROVE  TryCast(row[t.cols[i]]) \in Nat \cup {Null}
  <2>1. t.cols[i] \in ToSet(t.cols) /\ SameName(t.cols[i], f)
    BY NamesIn DEF ColumnsNamed
  <2>2. row[t.cols[i]] \in Nat \cup {Null, Garbage}
    BY <2>1
  <2> QED BY <2>2 DEF TryCast
<1>3. filled = {} => TryCast(Coalesced(t, row, f)) = Null
  BY DEF Coalesced, TryCast
<1>4. filled # {} => Coalesced(t, row, f) = row[t.cols[Min(filled)]]
  BY DEF Coalesced
<1>5. filled # {} => Min(filled) \in ColumnsNamed(t, f)
  BY <1>1, FirstPlace
<1>6. Null \notin Nat
  BY ReportsAssumption
<1> HIDE DEF filled
<1>7. TryCast(Coalesced(t, row, f)) \in Nat \cup {Null}
  BY <1>2, <1>3, <1>4, <1>5
<1> QED BY <1>1, <1>2, <1>3, <1>4, <1>6, <1>7 DEF filled

\* The rows of a file have such columns.
LEMMA DatesOfFile ==
  ASSUME NEW cat \in Catalogs, NEW p \in Places(cat), NEW c \in ToSet(cat[p[1]].cols),
         IsDated(c)
  PROVE  cat[p[1]].rows[p[2]][c] \in Nat \cup {Null, Garbage}
<1>1. p[1] \in DOMAIN cat /\ p[2] \in DOMAIN cat[p[1]].rows
  BY PlaceOf
<1>2. \A k \in DOMAIN cat : \A j \in DOMAIN cat[k].rows, d \in ToSet(cat[k].cols) :
        IsDated(d) => cat[k].rows[j][d] \in Nat \cup {Null, Garbage}
  BY ReportsAssumption, Zenon
<1> QED BY <1>1, <1>2

\* The instants of the rows, by any column.
LEMMA Instant ==
  ASSUME NEW cat \in Catalogs, NEW p \in Places(cat), NEW s \in SortFields
  PROVE  RowAt(cat, p).at[s] \in Nat \cup {Null}
<1> DEFINE t == cat[p[1]]
           row == t.rows[p[2]]
           f == SortColumn(cat, s)
<1>1. t.cols \in Seq(Names) /\ RowAt(cat, p).at[s] = InstantOf(cat, t, row, s)
  BY PlaceOf DEF UnionRow
<1>2. ASSUME IsDated(f)
      PROVE  TryCast(Coalesced(t, row, f)) \in Nat \cup {Null}
  <2>1. \A c \in ToSet(t.cols) : SameName(c, f) => row[c] \in Nat \cup {Null, Garbage}
    BY <1>2, DatesOfFile DEF SameName, IsDated
  <2> HIDE DEF t, row, f
  <2> QED BY <1>1, <2>1, DatedColumn
<1> QED BY <1>1, <1>2 DEF InstantOf

\* In particular a time column.
LEMMA TimeColumn ==
  ASSUME NEW t, t.cols \in Seq(Names), NEW row,
         \A c \in ToSet(t.cols) : SameName(c, TimeField) => row[c] \in Nat \cup {Null, Garbage}
  PROVE  LET filled == {i \in ColumnsNamed(t, TimeField) : row[t.cols[i]] # Null}
         IN  /\ filled \subseteq Nat
             /\ \A i \in ColumnsNamed(t, TimeField) : TryCast(row[t.cols[i]]) \in Nat \cup {Null}
             /\ TryCast(Coalesced(t, row, TimeField)) \in Nat \cup {Null}
             /\ TryCast(Coalesced(t, row, TimeField)) \in Nat =>
                  /\ filled # {}
                  /\ Coalesced(t, row, TimeField) = row[t.cols[Min(filled)]]
BY DatedColumn, Zenon

\* The instant by a column named as the timestamp field is that of the row.
LEMMA SameInstant ==
  ASSUME NEW cat \in Catalogs, NEW p \in Places(cat), NEW s \in SortFields,
         SameName(SortColumn(cat, s), TimeField)
  PROVE  RowAt(cat, p).at[s] = RowAt(cat, p).time
<1> DEFINE t == cat[p[1]]
           row == t.rows[p[2]]
           f == SortColumn(cat, s)
<1>1. /\ RowAt(cat, p).at[s] = InstantOf(cat, t, row, s)
      /\ RowAt(cat, p).time = TryCast(Coalesced(t, row, TimeField))
  BY PlaceOf DEF UnionRow
<1>2. IsDated(f)
  BY ReportsAssumption DEF IsDated, SameName
<1>3. ColumnsNamed(t, f) = ColumnsNamed(t, TimeField)
  BY DEF ColumnsNamed, SameName
<1>4. Coalesced(t, row, f) = Coalesced(t, row, TimeField)
  BY <1>3 DEF Coalesced
<1> QED BY <1>1, <1>2, <1>4 DEF InstantOf

\* The instants of the rows with one, and the width of their bars.
TimesOf(cat, s) == {RowAt(cat, p).at[s] : p \in DatedBy(cat, s)}

WidthOf(cat, s) == PickInterval((Max(TimesOf(cat, s)) - Min(TimesOf(cat, s))) \div Tick) * Tick

BarAt(cat, s, b) ==
  [start |-> b * WidthOf(cat, s),
   count |-> Cardinality({p \in DatedBy(cat, s) : RowAt(cat, p).at[s] \div WidthOf(cat, s) = b})]

\* The instants span fewer widths than MaxBuckets + 1.
LEMMA DatedTimes ==
  ASSUME NEW cat \in Catalogs, NEW s \in SortFields
  PROVE  /\ IsFiniteSet(DatedBy(cat, s)) /\ DatedBy(cat, s) \subseteq Places(cat)
         /\ TimesOf(cat, s) \subseteq Nat
         /\ \A p \in DatedBy(cat, s) : RowAt(cat, p).at[s] \in Nat
         /\ TimesOf(cat, s) # {} =>
              /\ WidthOf(cat, s) \in Nat \ {0}
              /\ Min(TimesOf(cat, s)) \in Nat
              /\ \A x \in TimesOf(cat, s) :
                   Min(TimesOf(cat, s)) <= x /\ x < Min(TimesOf(cat, s)) + (MaxBuckets + 1) * WidthOf(cat, s)
<1> DEFINE dated == DatedBy(cat, s)
           times == TimesOf(cat, s)
<1>1. IsFiniteSet(dated) /\ dated \subseteq Places(cat)
  BY PlacesFinite, FS_Subset DEF Matching, DatedBy
<1>2. times \subseteq Nat /\ \A p \in dated : RowAt(cat, p).at[s] \in Nat
  BY <1>1, Instant DEF DatedBy, TimesOf
<1>3. IsFiniteSet(times)
  <2> DEFINE At == [p \in dated |-> RowAt(cat, p).at[s]]
  <2>1. times = {At[p] : p \in dated}
    BY DEF TimesOf
  <2> HIDE DEF At, times, dated
  <2> QED BY <1>1, <2>1, ImageFinite
<1>4. ASSUME times # {}
      PROVE  /\ WidthOf(cat, s) \in Nat \ {0} /\ Min(times) \in Nat
             /\ \A x \in times : Min(times) <= x /\ x < Min(times) + (MaxBuckets + 1) * WidthOf(cat, s)
  <2> DEFINE lo == Min(times)
             span == Max(times) - lo
             seconds == span \div Tick
             wide == PickInterval(seconds)
  <2>1. /\ Max(times) \in Nat /\ lo \in Nat /\ lo <= Max(times)
        /\ \A x \in times : x \in Nat /\ lo <= x /\ x <= Max(times)
    <3> HIDE DEF times
    <3> QED BY <1>2, <1>3, <1>4, Greatest, FirstPlace
  <2>2. Tick \in Nat \ {0} /\ MaxBuckets \in Nat
    BY ReportsAssumption
  <2>3. span \in Nat
    <3> HIDE DEF times
    <3> QED BY <2>1
  <2>4. WidthOf(cat, s) = wide * Tick
    BY DEF WidthOf
  <2>5. seconds \in Nat /\ span < (seconds + 1) * Tick
    <3> HIDE DEF span
    <3> QED BY <2>2, <2>3, Division
  <2>6. wide \in Nat \ {0} /\ seconds < (MaxBuckets + 1) * wide
    <3> HIDE DEF seconds
    <3> QED BY <2>5, IntervalFits
  <2>7. WidthOf(cat, s) \in Nat \ {0}
    <3> HIDE DEF wide
    <3> QED BY <2>2, <2>4, <2>6
  <2>8. span < (MaxBuckets + 1) * WidthOf(cat, s)
    <3> HIDE DEF seconds, wide, span
    <3>1. (MaxBuckets + 1) * wide \in Nat /\ seconds + 1 <= (MaxBuckets + 1) * wide
      BY <2>2, <2>5, <2>6, Times
    <3>2. (seconds + 1) * Tick <= ((MaxBuckets + 1) * wide) * Tick
      BY <2>2, <2>5, <3>1, Times
    <3>3. ((MaxBuckets + 1) * wide) * Tick = (MaxBuckets + 1) * (wide * Tick)
      BY <2>2, <2>6
    <3> QED BY <2>2, <2>3, <2>4, <2>5, <3>1, <3>2, <3>3, Times
  <2>9. (MaxBuckets + 1) * WidthOf(cat, s) \in Nat
    BY <2>2, <2>7, Times
  <2> QED BY <2>1, <2>3, <2>7, <2>8, <2>9
<1> QED BY <1>1, <1>2, <1>4

\* The starts of the bars are those of the widths the instants lie in, which are
\* MaxBuckets + 2 at most.
LEMMA BarsOfTimes ==
  ASSUME NEW cat \in Catalogs, NEW s \in SortFields, Bars(cat, s) # {}
  PROVE  /\ IsFiniteSet(Bars(cat, s)) /\ Cardinality(Bars(cat, s)) <= MaxBuckets + 2
         /\ \A bar \in Bars(cat, s) : \E p \in Places(cat) :
              /\ RowAt(cat, p).at[s] \in Nat
              /\ bar.start \in Nat /\ bar.start <= RowAt(cat, p).at[s]
<1> DEFINE dated == DatedBy(cat, s)
           times == TimesOf(cat, s)
           lo == Min(times)
           width == WidthOf(cat, s)
           Bucket(p) == RowAt(cat, p).at[s] \div width
           bar == [b \in Nat |-> BarAt(cat, s, b)]
           buckets == {Bucket(p) : p \in dated}
<1>1. times # {} /\ Bars(cat, s) = {BarAt(cat, s, b) : b \in buckets}
  BY DEF Bars, BarAt, DatedBy, TimesOf, WidthOf
<1>2. IsFiniteSet(dated) /\ dated \subseteq Places(cat)
  BY DatedTimes
<1>3. times \subseteq Nat /\ \A p \in dated : RowAt(cat, p).at[s] \in Nat
  BY DatedTimes
<1>4. lo \in Nat /\ \A x \in times : lo <= x /\ x < lo + (MaxBuckets + 1) * width
  BY <1>1, DatedTimes
<1>5. MaxBuckets \in Nat
  BY ReportsAssumption
<1>6. width \in Nat \ {0}
  BY <1>1, DatedTimes
<1>7. ASSUME NEW x \in times
       PROVE  x \div width \in (lo \div width)..(lo \div width + MaxBuckets + 1)
  <2>1. x \in Nat /\ lo \in Nat /\ lo <= x /\ x < lo + (MaxBuckets + 1) * width
    BY <1>3, <1>4
  <2> HIDE DEF lo, width, times
  <2> DEFINE b == lo \div width
             top == b + MaxBuckets + 2
  <2>2. b \in Nat /\ b * width <= lo /\ lo < (b + 1) * width
    BY <1>6, <2>1, Division
  <2> HIDE DEF b
  <2>3. b <= x \div width
    <3>1. b * width <= x
      BY <1>6, <2>1, <2>2, Times
    <3> QED BY <1>6, <2>1, <2>2, <3>1, Quotient
  <2>4. x < top * width
    <3>1. top * width = (b + 1) * width + (MaxBuckets + 1) * width
      BY <1>5, <1>6, <2>2
    <3>2. (b + 1) * width \in Nat /\ (MaxBuckets + 1) * width \in Nat
      BY <1>5, <1>6, <2>2, Times
    <3> HIDE DEF top
    <3> QED BY <2>1, <2>2, <3>1, <3>2
  <2>5. x \div width \in Nat /\ x \div width < top
    BY <1>5, <1>6, <2>1, <2>2, <2>4, Quotient, Division
  <2> QED BY <1>5, <2>2, <2>3, <2>5 DEF b
<1>8. buckets \subseteq (lo \div width)..(lo \div width + MaxBuckets + 1)
  <2>1. \A p \in dated : RowAt(cat, p).at[s] \in times
    BY DEF TimesOf
  <2> HIDE DEF width, lo, dated
  <2> QED BY <1>7, <2>1
<1>9. lo \div width \in Nat
  <2> HIDE DEF width
  <2> QED BY <1>4, <1>6, Division
<1>10. IsFiniteSet(buckets) /\ Cardinality(buckets) <= MaxBuckets + 2
  <2> DEFINE first == lo \div width
  <2> HIDE DEF first, buckets
  <2>1. /\ IsFiniteSet(first..(first + MaxBuckets + 1))
        /\ Cardinality(first..(first + MaxBuckets + 1)) = MaxBuckets + 2
    <3>1. first \in Int /\ first + MaxBuckets + 1 \in Int
      BY <1>5, <1>9 DEF first
    <3> QED BY <1>5, <3>1, FS_Interval
  <2>2. buckets \subseteq first..(first + MaxBuckets + 1)
    BY <1>8 DEF first
  <2> QED BY <2>1, <2>2, FS_Subset
<1>11. buckets \subseteq Nat
  <2> HIDE DEF buckets
  <2> QED BY <1>5, <1>8, <1>9
<1>12. Bars(cat, s) = {bar[b] : b \in buckets}
  <2> HIDE DEF buckets, dated, width
  <2> QED BY <1>1, <1>11
<1>13. IsFiniteSet(Bars(cat, s)) /\ Cardinality(Bars(cat, s)) <= MaxBuckets + 2
  <2>1. IsFiniteSet(Bars(cat, s)) /\ Cardinality(Bars(cat, s)) <= Cardinality(buckets)
    <3> HIDE DEF bar, buckets
    <3> QED BY <1>10, <1>12, ImageFinite
  <2>2. Cardinality(Bars(cat, s)) \in Nat /\ Cardinality(buckets) \in Nat
    BY <1>10, <2>1, FS_CardinalityType
  <2> QED BY <1>5, <1>10, <2>1, <2>2
<1>14. ASSUME NEW h \in Bars(cat, s)
       PROVE  \E p \in Places(cat) :
                /\ RowAt(cat, p).at[s] \in Nat
                /\ h.start \in Nat /\ h.start <= RowAt(cat, p).at[s]
  <2>1. PICK p \in dated : h = bar[Bucket(p)]
    <3> HIDE DEF bar, dated
    <3> QED BY <1>12, <1>14
  <2>2. RowAt(cat, p).at[s] \in Nat
    <3> HIDE DEF dated
    <3> QED BY <1>3, <2>1
  <2>3. Bucket(p) \in Nat /\ Bucket(p) * width <= RowAt(cat, p).at[s]
    <3> HIDE DEF width
    <3> QED BY <1>6, <2>2, Division
  <2>4. h.start = Bucket(p) * width
    <3> HIDE DEF dated
    <3> QED BY <2>1, <2>3 DEF BarAt
  <2>5. Bucket(p) * width \in Nat
    <3> HIDE DEF width
    <3> QED BY <1>6, <2>3, Times
  <2>6. p \in Places(cat)
    BY <1>2
  <2> HIDE DEF width
  <2> QED BY <2>2, <2>3, <2>4, <2>5, <2>6
<1> QED BY <1>13, <1>14

\* With one time column in each file, an instant of the union is one of those
\* the range is of.
LEMMA TimesInRange ==
  ASSUME NEW cat \in Catalogs, \A k \in DOMAIN cat : OneTimeColumn(cat[k]),
         NEW p \in Places(cat), RowAt(cat, p).time \in Nat
  PROVE  GetTimeRange(cat)[2] \in Nat /\ RowAt(cat, p).time <= GetTimeRange(cat)[2]
<1> DEFINE Own(q) == ColumnsNamed(cat[q[1]], TimeField)
           At(q) == TryCast(cat[q[1]].rows[q[2]][cat[q[1]].cols[Min(Own(q))]])
           having == {q \in Places(cat) : Own(q) # {}}
           at == [q \in having |-> At(q)]
           times == TimesInFiles(cat)
<1>1. ASSUME NEW q \in Places(cat)
      PROVE  /\ Own(q) \subseteq Nat /\ IsFiniteSet(Own(q)) /\ Cardinality(Own(q)) <= 1
             /\ Own(q) # {} => At(q) \in Nat \cup {Null}
             /\ RowAt(cat, q).time \in Nat => Own(q) # {} /\ RowAt(cat, q).time = At(q)
  <2> DEFINE t == cat[q[1]]
             row == t.rows[q[2]]
             own == ColumnsNamed(t, TimeField)
             filled == {i \in own : row[t.cols[i]] # Null}
  <2>1. /\ t.cols \in Seq(Names) /\ OneTimeColumn(t)
        /\ RowAt(cat, q).time = TryCast(Coalesced(t, row, TimeField))
    BY PlaceOf DEF UnionRow
  <2>2. \A c \in ToSet(t.cols) : SameName(c, TimeField) => row[c] \in Nat \cup {Null, Garbage}
    BY DatesOfFile, ReportsAssumption DEF SameName, IsDated
  <2> HIDE DEF t, row
  <2>3. own \subseteq Nat /\ IsFiniteSet(own) /\ Cardinality(own) <= 1
    <3>1. own \subseteq DOMAIN t.cols /\ IsFiniteSet(DOMAIN t.cols) /\ DOMAIN t.cols \subseteq Nat
      BY <2>1, NamesIn DEF ColumnsNamed
    <3> QED BY <2>1, <3>1, FS_Subset DEF OneTimeColumn
  <2>4. ASSUME own # {}
        PROVE  TryCast(row[t.cols[Min(own)]]) \in Nat \cup {Null}
    <3>1. Min(own) \in own
      <4> HIDE DEF own
      <4> QED BY <2>3, <2>4, FirstPlace
    <3> QED BY <2>1, <2>2, <3>1, TimeColumn
  <2>5. ASSUME RowAt(cat, q).time \in Nat
        PROVE  own # {} /\ RowAt(cat, q).time = TryCast(row[t.cols[Min(own)]])
    <3>1. filled # {} /\ Coalesced(t, row, TimeField) = row[t.cols[Min(filled)]]
      BY <2>1, <2>2, <2>5, TimeColumn
    <3>2. own # {} /\ filled \subseteq own
      BY <3>1
    <3>3. Min(filled) \in own /\ Min(own) \in own
      <4> HIDE DEF own, filled
      <4> QED BY <2>3, <3>1, <3>2, FirstPlace
    <3>4. Min(filled) = Min(own)
      <4> HIDE DEF own, filled
      <4> QED BY <2>3, <3>3, AtMostOne
    <3> QED BY <2>1, <3>1, <3>2, <3>4
  <2> QED BY <2>3, <2>4, <2>5 DEF t, row
<1>2. times = {At(q) : q \in having} \ {Null}
  BY DEF TimesInFiles
<1>3. times \subseteq Nat
  <2>1. \A q \in having : At(q) \in Nat \cup {Null}
    <3> HIDE DEF At
    <3> QED BY <1>1
  <2> HIDE DEF At, having, times
  <2> QED BY <1>2, <2>1
<1>4. RowAt(cat, p).time \in times
  <2>1. RowAt(cat, p).time # Null
    BY ReportsAssumption
  <2>2. p \in having /\ RowAt(cat, p).time = At(p)
    <3> HIDE DEF At
    <3> QED BY <1>1
  <2> HIDE DEF At, having, times
  <2> QED BY <1>2, <2>1, <2>2
<1>5. IsFiniteSet(times)
  <2>1. IsFiniteSet(having)
    BY PlacesFinite, FS_Subset
  <2>2. {At(q) : q \in having} = {at[q] : q \in having}
    <3> HIDE DEF At, having
    <3> QED OBVIOUS
  <2>3. IsFiniteSet({at[q] : q \in having})
    <3> HIDE DEF at, having
    <3> QED BY <2>1, ImageFinite
  <2>4. times \subseteq {at[q] : q \in having}
    <3> HIDE DEF At, having, at, times
    <3> QED BY <1>2, <2>2
  <2> HIDE DEF times, at, having
  <2> QED BY <2>3, <2>4, FS_Subset
<1>6. GetTimeRange(cat)[2] = Max(times)
  <2>1. times # {}
    BY <1>4
  <2> QED BY <2>1 DEF GetTimeRange
<1> HIDE DEF times
<1>7. Max(times) \in times /\ RowAt(cat, p).time <= Max(times)
  BY <1>3, <1>4, <1>5, Greatest
<1> QED BY <1>3, <1>6, <1>7

\* A histogram has at most two bars over what pickHistogramInterval aims at, for
\* any column, length of time and table of widths that starts with a second; and with
\* one time column in each file no bar over it starts after the range the viewer
\* shows (BarsBounded).
THEOREM BarsFew == Spec => []BarsBounded
<1>1. BarsBounded
  <2> SUFFICES ASSUME NEW cat \in Catalogs, NEW s \in SortFields
               PROVE  /\ Cardinality(Bars(cat, s)) <= MaxBuckets + 2
                      /\ SameName(SortColumn(cat, s), TimeField) /\ (\A k \in DOMAIN cat : OneTimeColumn(cat[k])) =>
                           \A bar \in Bars(cat, s) : bar.start <= GetTimeRange(cat)[2]
    BY DEF BarsBounded
  <2>1. MaxBuckets \in Nat
    BY ReportsAssumption
  <2>2. CASE Bars(cat, s) = {}
    <3>1. Cardinality(Bars(cat, s)) = 0
      BY <2>2, FS_EmptySet
    <3> QED BY <2>1, <2>2, <3>1
  <2>3. CASE Bars(cat, s) # {}
    <3>1. Cardinality(Bars(cat, s)) <= MaxBuckets + 2
      BY <2>3, BarsOfTimes
    <3>2. ASSUME SameName(SortColumn(cat, s), TimeField),
                 \A k \in DOMAIN cat : OneTimeColumn(cat[k]), NEW bar \in Bars(cat, s)
          PROVE  bar.start <= GetTimeRange(cat)[2]
      <4>1. PICK p \in Places(cat) : /\ RowAt(cat, p).time \in Nat
                                     /\ bar.start \in Nat /\ bar.start <= RowAt(cat, p).time
        BY <2>3, <3>2, BarsOfTimes, SameInstant
      <4>2. GetTimeRange(cat)[2] \in Nat /\ RowAt(cat, p).time <= GetTimeRange(cat)[2]
        BY <3>2, <4>1, TimesInRange
      <4> QED BY <4>1, <4>2
    <3> QED BY <3>1, <3>2
  <2> QED BY <2>2, <2>3
<1> QED BY <1>1, PTL

-----------------------------------------------------------------------------
(* The fields on offer *)

\* What enabled tables have.
Had(cat) == {n \in Names : \E k \in DOMAIN cat : cat[k].enabled /\ TableHasField(cat[k], n)}

\* Lists that are joined stay lists of the same things.
LEMMA Lists ==
  ASSUME NEW T, NEW s \in Seq(T), NEW t \in Seq(T), NEW x \in T
  PROVE  /\ s \o t \in Seq(T)
         /\ Append(s, x) \in Seq(T)
         /\ DOMAIN s = 1..Len(s) /\ Len(s) \in Nat
         /\ \A k \in DOMAIN s : s[k] \in T
OBVIOUS

\* The last of the places looked at is chosen first.
LEMMA LastPicks ==
  ASSUME NEW n \in Nat
  PROVE  /\ IsFiniteSet(1..n)
         /\ Picks([T \in SUBSET (1..n) |-> Max(T)], 1..n)
<1>1. IsFiniteSet(1..n)
  BY FS_Interval
<1>2. ASSUME NEW T \in SUBSET (1..n), T # {}
      PROVE  Max(T) \in T
  <2>1. IsFiniteSet(T)
    BY <1>1, FS_Subset
  <2>2. T \subseteq Nat
    OBVIOUS
  <2> QED BY <1>2, <2>1, <2>2, Greatest
<1> QED BY <1>1, <1>2 DEF Picks

\* A function over the sets of places stays in V if it starts there and each
\* place leads from V to V.
LEMMA FoldStays ==
  ASSUME NEW n \in Nat, NEW V, NEW h, h[{}] \in V,
         \A T \in SUBSET (1..n) : T # {} /\ h[T \ {Max(T)}] \in V => h[T] \in V
  PROVE  h[1..n] \in V
<1> DEFINE G == {T \in SUBSET (1..n) : h[T] \in V}
<1>1. {} \in G
  OBVIOUS
<1>2. ASSUME NEW T \in SUBSET (1..n), T # {}, \A x \in T : T \ {x} \in G
      PROVE  T \in G
  <2>1. Max(T) \in T
    BY <1>2, LastPicks DEF Picks
  <2> QED BY <1>2, <2>1
<1>3. SUBSET (1..n) \subseteq G
  <2> DEFINE S == 1..n
  <2>1. IsFiniteSet(S)
    BY LastPicks
  <2>2. \A T \in SUBSET S : T # {} /\ (\A x \in T : T \ {x} \in G) => T \in G
    <3> HIDE DEF G
    <3> QED BY <1>2
  <2> HIDE DEF G, S
  <2>3. SUBSET S \subseteq G
    BY <1>1, <2>1, <2>2, SubsetInduction
  <2> QED BY <2>3 DEF S
<1> QED BY <1>3

\* What is gathered is what enabled tables have.
LEMMA GatheredHad ==
  ASSUME NEW cat \in Catalogs, NEW part \in {"cols", "paths"}
  PROVE  Gathered(cat, part) \in Seq(Had(cat))
<1> DEFINE n == Len(cat)
           V == Seq(Had(cat))
           c == [T \in SUBSET (1..n) |-> Max(T)]
           g == [x \in 1..n |-> [v \in V |-> IF cat[x].enabled THEN v \o cat[x][part] ELSE v]]
           Folded(h) == h = [T \in SUBSET DOMAIN cat |->
                               IF T = {} THEN << >>
                               ELSE LET x == Max(T)
                                    IN  IF cat[x].enabled THEN h[T \ {x}] \o cat[x][part] ELSE h[T \ {x}]]
           out == CHOOSE h : Folded(h)
<1>1. n \in Nat /\ DOMAIN cat = 1..n
  BY ReportsAssumption
<1>2. ASSUME NEW k \in 1..n, cat[k].enabled
      PROVE  cat[k][part] \in V
  <2>1. cat[k].cols \in Seq(Names) /\ cat[k].paths \in Seq(Names)
    BY <1>1, ReportsAssumption
  <2>2. cat[k][part] \in Seq(Names) /\ cat[k][part] \in {cat[k].cols, cat[k].paths}
    BY <2>1
  <2> DEFINE names == cat[k][part]
  <2>3. ASSUME NEW j \in DOMAIN names PROVE names[j] \in Had(cat)
    <3>1. names[j] \in Names /\ names[j] \in ToSet(cat[k].cols) \cup ToSet(cat[k].paths)
      BY <2>1, <2>2, NamesIn
    <3>2. SameName(names[j], names[j])
      BY DEF SameName
    <3>3. TableHasField(cat[k], names[j])
      BY <3>1, <3>2 DEF TableHasField
    <3> HIDE DEF names
    <3> QED BY <1>1, <1>2, <3>1, <3>3 DEF Had
  <2>4. names \in Seq(Names)
    BY <2>2
  <2> HIDE DEF names
  <2>5. names \in Seq(Had(cat))
    BY <2>3, <2>4
  <2> QED BY <2>5 DEF names
<1>3. << >> \in V
  OBVIOUS
<1>4. ASSUME NEW x \in 1..n, NEW v \in V
      PROVE  (IF cat[x].enabled THEN v \o cat[x][part] ELSE v) \in V
  <2>1. CASE cat[x].enabled
    <3> DEFINE more == cat[x][part]
    <3>1. more \in V
      BY <1>2, <2>1
    <3> HIDE DEF more
    <3>2. v \o more \in V
      BY <3>1
    <3> QED BY <2>1, <3>2 DEF more
  <2> QED BY <2>1
<1>5. StepsIn(g, 1..n, V)
  <2> HIDE DEF V, n
  <2> QED BY <1>4 DEF StepsIn
<1>6. PICK iter : Folds(iter, 1..n, V, << >>, c, g)
  <2> HIDE DEF V, g, c, n
  <2> QED BY <1>1, <1>3, <1>5, LastPicks, SetRecursion DEF c
<1>7. Folded(iter)
  <2>1. ASSUME NEW T \in SUBSET (1..n), T # {}
        PROVE  /\ Max(T) \in 1..n /\ iter[T \ {Max(T)}] \in V
               /\ iter[T] = IF cat[Max(T)].enabled THEN iter[T \ {Max(T)}] \o cat[Max(T)][part]
                            ELSE iter[T \ {Max(T)}]
    <3> HIDE DEF V, n
    <3>1. Max(T) \in T
      BY <1>1, <2>1, LastPicks DEF Picks
    <3>2. iter[T \ {Max(T)}] \in V /\ iter[T] = g[Max(T)][iter[T \ {Max(T)}]]
      <4> HIDE DEF g
      <4> QED BY <1>6, <2>1, <3>1 DEF Folds
    <3> QED BY <3>1, <3>2
  <2>2. iter \in [SUBSET (1..n) -> V] /\ iter[{}] = << >>
    BY <1>6 DEF Folds
  <2> HIDE DEF V, n
  <2> QED BY <1>1, <2>1, <2>2
<1>8. Folded(out)
  <2> HIDE DEF Folded
  <2> QED BY <1>7
<1>9. Gathered(cat, part) = out[DOMAIN cat]
  BY DEF Gathered, FoldLeft, MapThenFoldSet
<1>10. out[1..n] \in V
  <2> HIDE DEF out
  <2>1. out[{}] \in V
    BY <1>3, <1>8
  <2>2. ASSUME NEW T \in SUBSET (1..n), T # {}, out[T \ {Max(T)}] \in V
        PROVE  out[T] \in V
    <3>1. Max(T) \in 1..n
      BY <1>1, <2>2, LastPicks DEF Picks
    <3>2. out[T] = IF cat[Max(T)].enabled THEN out[T \ {Max(T)}] \o cat[Max(T)][part]
                   ELSE out[T \ {Max(T)}]
      <4> HIDE DEF V
      <4> QED BY <1>1, <1>8, <2>2
    <3> HIDE DEF V, n
    <3> QED BY <1>4, <2>2, <3>1, <3>2
  <2> HIDE DEF V, n
  <2> QED BY <1>1, <2>1, <2>2, FoldStays
<1> QED BY <1>1, <1>9, <1>10

\* The first spellings are among the names.
LEMMA SpellingsHad ==
  ASSUME NEW X, NEW names \in Seq(X)
  PROVE  FirstSpellings(names) \in Seq(X)
<1> DEFINE n == Len(names)
           V == Seq(X)
           Step(v, m) == IF \E k \in DOMAIN v : SameName(v[k], m) THEN v ELSE Append(v, m)
           c == [T \in SUBSET (1..n) |-> Max(T)]
           g == [x \in 1..n |-> [v \in V |-> Step(v, names[x])]]
           Folded(h) == h = [T \in SUBSET DOMAIN names |->
                               IF T = {} THEN << >>
                               ELSE LET x == Max(T) IN Step(h[T \ {x}], names[x])]
           out == CHOOSE h : Folded(h)
<1>1. n \in Nat /\ DOMAIN names = 1..n /\ \A k \in 1..n : names[k] \in X
  OBVIOUS
<1>2. << >> \in V
  OBVIOUS
<1>3. \A x \in 1..n : \A v \in V : Step(v, names[x]) \in V
  <2> SUFFICES ASSUME NEW x \in 1..n, NEW v \in V PROVE Step(v, names[x]) \in V
    OBVIOUS
  <2>1. Append(v, names[x]) \in V
    BY <1>1
  <2> HIDE DEF V
  <2> QED BY <2>1
<1>4. FirstSpellings(names) = out[DOMAIN names]
  BY DEF FirstSpellings, FoldLeft, MapThenFoldSet
<1> HIDE DEF V, n, Step
<1>5. \A T \in SUBSET (1..n) : T # {} => Max(T) \in T
  BY <1>1, LastPicks DEF Picks
<1>6. PICK iter : Folds(iter, 1..n, V, << >>, c, g)
  <2>1. StepsIn(g, 1..n, V)
    BY <1>3 DEF StepsIn
  <2> HIDE DEF g, c
  <2> QED BY <1>1, <1>2, <2>1, LastPicks, SetRecursion DEF c
<1>7. Folded(iter)
  <2>1. ASSUME NEW T \in SUBSET (1..n), T # {}
        PROVE  iter[T] = Step(iter[T \ {Max(T)}], names[Max(T)])
    <3>1. iter[T \ {Max(T)}] \in V /\ iter[T] = g[Max(T)][iter[T \ {Max(T)}]]
      <4> HIDE DEF g
      <4> QED BY <1>5, <1>6, <2>1 DEF Folds
    <3> QED BY <1>5, <2>1, <3>1
  <2>2. iter \in [SUBSET (1..n) -> V] /\ iter[{}] = << >>
    BY <1>6 DEF Folds
  <2> QED BY <1>1, <2>1, <2>2
<1>8. Folded(out)
  <2> HIDE DEF Folded
  <2> QED BY <1>7
<1>9. out[1..n] \in V
  <2> HIDE DEF out
  <2>1. out[{}] \in V
    BY <1>2, <1>8
  <2>2. \A T \in SUBSET (1..n) : T # {} => out[T] = Step(out[T \ {Max(T)}], names[Max(T)])
    BY <1>1, <1>8
  <2>3. ASSUME NEW T \in SUBSET (1..n), T # {}, out[T \ {Max(T)}] \in V
        PROVE  out[T] \in V
    <3> DEFINE x == Max(T)
    <3>1. x \in 1..n
      BY <1>5, <2>3
    <3>2. out[T] = Step(out[T \ {x}], names[x])
      BY <2>2, <2>3
    <3> HIDE DEF x
    <3>3. Step(out[T \ {x}], names[x]) \in V
      BY <1>3, <2>3, <3>1 DEF x
    <3> QED BY <3>2, <3>3
  <2> QED BY <1>1, <2>1, <2>3, FoldStays
<1> QED BY <1>1, <1>4, <1>9 DEF V

\* What is on offer are fields that enabled tables have.
LEMMA OfferedHad ==
  ASSUME NEW cat \in Catalogs
  PROVE  Offered(cat) \in Seq(Had(cat) \cap Fields)
<1> DEFINE names == GetFields(cat)
           n == Len(names)
           V == Seq(Had(cat) \cap Fields)
           Step(v, m) == IF m \in Fields THEN Append(v, m) ELSE v
           c == [T \in SUBSET (1..n) |-> Max(T)]
           g == [x \in 1..n |-> [v \in V |-> Step(v, names[x])]]
           Folded(h) == h = [T \in SUBSET DOMAIN names |->
                               IF T = {} THEN << >>
                               ELSE LET x == Max(T) IN Step(h[T \ {x}], names[x])]
           out == CHOOSE h : Folded(h)
<1>1. names \in Seq(Had(cat))
  <2> DEFINE cols == Gathered(cat, "cols")
             paths == Gathered(cat, "paths")
  <2>1. cols \in Seq(Had(cat)) /\ paths \in Seq(Had(cat))
    BY GatheredHad
  <2> HIDE DEF cols, paths
  <2>2. FirstSpellings(cols) \in Seq(Had(cat))
    BY <2>1, SpellingsHad
  <2>3. FirstSpellings(cols) \o paths \in Seq(Had(cat))
    BY <2>1, <2>2
  <2> QED BY <2>3, SpellingsHad DEF GetFields, CanonicalColumns, cols, paths
<1>2. Offered(cat) = out[DOMAIN names]
  BY DEF Offered, Offers, FoldLeft, MapThenFoldSet
<1> HIDE DEF names
<1>3. n \in Nat /\ DOMAIN names = 1..n /\ \A k \in 1..n : names[k] \in Had(cat)
  BY <1>1
<1>4. << >> \in V
  OBVIOUS
<1>5. \A x \in 1..n : \A v \in V : Step(v, names[x]) \in V
  <2> SUFFICES ASSUME NEW x \in 1..n, NEW v \in V PROVE Step(v, names[x]) \in V
    OBVIOUS
  <2>1. names[x] \in Fields => Append(v, names[x]) \in V
    BY <1>3
  <2> HIDE DEF V
  <2> QED BY <2>1
<1> HIDE DEF V, n, Step
<1>6. \A T \in SUBSET (1..n) : T # {} => Max(T) \in T
  BY <1>3, LastPicks DEF Picks
<1>7. PICK iter : Folds(iter, 1..n, V, << >>, c, g)
  <2>1. StepsIn(g, 1..n, V)
    BY <1>5 DEF StepsIn
  <2> HIDE DEF g, c
  <2> QED BY <1>3, <1>4, <2>1, LastPicks, SetRecursion DEF c
<1>8. Folded(iter)
  <2>1. ASSUME NEW T \in SUBSET (1..n), T # {}
        PROVE  iter[T] = Step(iter[T \ {Max(T)}], names[Max(T)])
    <3>1. iter[T \ {Max(T)}] \in V /\ iter[T] = g[Max(T)][iter[T \ {Max(T)}]]
      <4> HIDE DEF g
      <4> QED BY <1>6, <1>7, <2>1 DEF Folds
    <3> QED BY <1>6, <2>1, <3>1
  <2>2. iter \in [SUBSET (1..n) -> V] /\ iter[{}] = << >>
    BY <1>7 DEF Folds
  <2> QED BY <1>3, <2>1, <2>2
<1>9. Folded(out)
  <2> HIDE DEF Folded
  <2> QED BY <1>8
<1>10. out[1..n] \in V
  <2> HIDE DEF out
  <2>1. out[{}] \in V
    BY <1>4, <1>9
  <2>2. \A T \in SUBSET (1..n) : T # {} => out[T] = Step(out[T \ {Max(T)}], names[Max(T)])
    BY <1>3, <1>9
  <2>3. ASSUME NEW T \in SUBSET (1..n), T # {}, out[T \ {Max(T)}] \in V
        PROVE  out[T] \in V
    <3> DEFINE x == Max(T)
    <3>1. x \in 1..n
      BY <1>6, <2>3
    <3>2. out[T] = Step(out[T \ {x}], names[x])
      BY <2>2, <2>3
    <3> HIDE DEF x
    <3>3. Step(out[T \ {x}], names[x]) \in V
      BY <1>5, <2>3, <3>1 DEF x
    <3> QED BY <3>2, <3>3
  <2> QED BY <1>3, <2>1, <2>3, FoldStays
<1> QED BY <1>2, <1>3, <1>10 DEF V

-----------------------------------------------------------------------------
(* The panels *)

\* The bars count each row with an instant once.
LEMMA BarsAddUp ==
  ASSUME NEW cat \in Catalogs, NEW s \in SortFields
  PROVE  /\ IsFiniteSet(Matching(cat, clauses)) /\ Total(cat) \in Nat
         /\ Total(cat) = SumOfCounts(Bars(cat, s)) +
              Cardinality({p \in Matching(cat, clauses) : RowAt(cat, p).at[s] = Null})
<1> DEFINE dated == DatedBy(cat, s)
           undated == {p \in Matching(cat, clauses) : RowAt(cat, p).at[s] = Null}
           width == WidthOf(cat, s)
           Bucket(p) == RowAt(cat, p).at[s] \div width
           buckets == {Bucket(p) : p \in dated}
           h == [p \in dated |-> BarAt(cat, s, Bucket(p))]
<1>1. IsFiniteSet(Matching(cat, clauses))
  BY PlacesFinite, FS_Subset DEF Matching
<1>2. /\ IsFiniteSet(dated) /\ IsFiniteSet(undated)
      /\ Cardinality(dated) \in Nat /\ Cardinality(undated) \in Nat
  BY <1>1, FS_Subset, FS_CardinalityType DEF DatedBy
<1>3. Total(cat) = Cardinality(dated) + Cardinality(undated)
  <2>1. Matching(cat, clauses) = dated \cup undated /\ dated \cap undated = {}
    BY DEF DatedBy
  <2>2. IsFiniteSet({}) /\ Cardinality({}) = 0
    BY FS_EmptySet
  <2> HIDE DEF dated, undated
  <2>3. Cardinality(dated \cup undated) = Cardinality(dated) + Cardinality(undated) - Cardinality({})
    BY <1>2, <2>1, FS_Union
  <2> QED BY <1>2, <2>1, <2>2, <2>3 DEF Total
<1>4. Bars(cat, s) = {BarAt(cat, s, b) : b \in buckets}
  BY DEF Bars, BarAt, DatedBy, TimesOf, WidthOf
<1>5. Bars(cat, s) = {h[p] : p \in dated}
  BY <1>4
<1>6. IsFiniteSet(Bars(cat, s))
  <2> HIDE DEF h, dated
  <2> QED BY <1>2, <1>5, ImageFinite
<1>7. ASSUME NEW p \in dated, NEW q \in dated
      PROVE  h[p] = h[q] <=> Bucket(p) = Bucket(q)
  <2>1. RowAt(cat, p).at[s] \in Nat /\ RowAt(cat, q).at[s] \in Nat
    BY DatedTimes
  <2>2. width \in Nat \ {0}
    BY DatedTimes DEF TimesOf
  <2>3. Bucket(p) \in Nat /\ Bucket(q) \in Nat
    <3> HIDE DEF width
    <3> QED BY <2>1, <2>2, Division
  <2>4. h[p] = h[q] => Bucket(p) * width = Bucket(q) * width
    BY DEF BarAt
  <2>5. Bucket(p) * width = Bucket(q) * width => Bucket(p) = Bucket(q)
    <3> DEFINE x == Bucket(p)
               y == Bucket(q)
    <3>1. x \in Nat /\ y \in Nat
      BY <2>3
    <3> HIDE DEF x, y, width
    <3>2. x * width \in Nat /\ y * width \in Nat
      BY <2>2, <3>1, Times
    <3>3. x * width = y * width => x = y
      BY <2>2, <3>1, <3>2, Times
    <3> QED BY <3>3 DEF x, y
  <2> QED BY <2>4, <2>5
<1>8. ASSUME NEW bar \in Bars(cat, s)
      PROVE  bar.count = Cardinality({p \in dated : h[p] = bar})
  <2>1. PICK q \in dated : bar = h[q]
    <3> HIDE DEF h
    <3> QED BY <1>5, <1>8
  <2>2. bar.count = Cardinality({p \in dated : Bucket(p) = Bucket(q)})
    BY <2>1 DEF BarAt
  <2>3. {p \in dated : Bucket(p) = Bucket(q)} = {p \in dated : h[p] = bar}
    <3> HIDE DEF h, dated, Bucket
    <3> QED BY <1>7, <2>1
  <2> QED BY <2>2, <2>3
<1>9. h \in [dated -> Bars(cat, s)]
  BY <1>5
<1>10. SumOfCounts(Bars(cat, s)) = Cardinality(dated)
  <2> HIDE DEF h, dated
  <2> QED BY <1>2, <1>6, <1>8, <1>9, SumOfParts
<1>11. Total(cat) \in Nat
  <2> HIDE DEF dated, undated
  <2> QED BY <1>2, <1>3
<1> QED BY <1>1, <1>3, <1>10, <1>11

\* Without an OR, what is appended with AND holds besides.
LEMMA SelectedWith ==
  ASSUME NEW s \in Seq(Condition \cup Connective), \A k \in 1..Len(s) : s[k] # Or,
         NEW c, c # And, c # Or, NEW row,
         NEW t, t = IF s = << >> THEN <<c>> ELSE s \o <<And, c>>
  PROVE  Selected(row, t) <=> Selected(row, s) /\ True(row, c)
<1>0. Len(s) \in Nat
  OBVIOUS
<1>1. CASE s = << >>
  <2>1. t = <<c>> /\ Len(t) = 1 /\ t[1] = c
    BY <1>1
  <2>2. Selected(row, s)
    BY <1>1 DEF Selected
  <2>3. t # << >>
    BY <2>1
  <2>4. Selected(row, t) <=> True(row, c)
    BY <2>1, <2>3 DEF Selected
  <2> QED BY <2>2, <2>4
<1>2. CASE s # << >>
  <2> DEFINE n == Len(s)
             Holds(r, k) == r[k] # And => True(row, r[k])
  <2>1. /\ t = s \o <<And, c>> /\ Len(t) = n + 2 /\ \A k \in 1..n : t[k] = s[k]
        /\ t[n + 1] = And /\ t[n + 2] = c
    BY <1>2
  <2>2. And # Or
    BY DEF And, Or
  <2>3. \A k \in 1..Len(t) : k \in 1..n \/ k = n + 1 \/ k = n + 2
    BY <1>0, <2>1
  <2>4. \A k \in 1..Len(t) : t[k] # Or
    BY <2>1, <2>2, <2>3
  <2>5. ASSUME NEW r, r # << >>, Len(r) \in Nat \ {0}, \A k \in 1..Len(r) : r[k] # Or
        PROVE  Selected(row, r) <=> \A k \in 1..Len(r) : Holds(r, k)
    <3>1. ASSUME Selected(row, r) PROVE \A k \in 1..Len(r) : Holds(r, k)
      <4>1. PICK a \in 1..Len(r), b \in 1..Len(r) :
              /\ a <= b
              /\ a = 1 \/ r[a - 1] = Or
              /\ b = Len(r) \/ r[b + 1] = Or
              /\ \A k \in a..b : r[k] # Or /\ (r[k] # And => True(row, r[k]))
        BY <2>5, <3>1 DEF Selected
      <4>2. a = 1 /\ b = Len(r)
        BY <2>5, <4>1
      <4> QED BY <4>1, <4>2
    <3>2. ASSUME \A k \in 1..Len(r) : Holds(r, k) PROVE Selected(row, r)
      <4>1. \A k \in 1..Len(r) : r[k] # Or /\ (r[k] # And => True(row, r[k]))
        BY <2>5, <3>2
      <4>2. 1 \in 1..Len(r) /\ Len(r) \in 1..Len(r) /\ 1 <= Len(r)
        BY <2>5
      <4> QED BY <4>1, <4>2 DEF Selected
    <3> QED BY <3>1, <3>2
  <2>6. Selected(row, s) <=> \A k \in 1..n : Holds(s, k)
    <3>1. n \in Nat \ {0}
      BY <1>0, <1>2
    <3> QED BY <1>2, <2>5, <3>1
  <2>7. Selected(row, t) <=> \A k \in 1..Len(t) : Holds(t, k)
    <3>1. Len(t) \in Nat \ {0} /\ t # << >>
      BY <1>0, <2>1
    <3> QED BY <2>4, <2>5, <3>1
  <2>8. (\A k \in 1..Len(t) : Holds(t, k)) <=> (\A k \in 1..n : Holds(s, k)) /\ True(row, c)
    <3>1. 1..n \subseteq 1..Len(t) /\ n + 2 \in 1..Len(t)
      BY <1>0, <2>1
    <3> HIDE DEF n
    <3> QED BY <2>1, <2>3, <3>1
  <2> QED BY <2>6, <2>7, <2>8
<1> QED BY <1>1, <1>2

\* The rows whose values are listed are those the profile counts.
LEMMA RowsWithField ==
  ASSUME IInv, AllAnd, NEW cat \in Catalogs, NEW f \in Fields
  PROVE  Matching(cat, ValuesClause(f)) = {p \in Matching(cat, clauses) : Present(RowAt(cat, p), f)}
<1> DEFINE c == <<"present", f>>
<1>1. c # And /\ c # Or
  BY DEF And, Or
<1>2. clauses \in Seq(Condition \cup Connective) /\ \A k \in 1..Len(clauses) : clauses[k] # Or
  BY DEF IInv, TypeInv, AndInv
<1>3. ValuesClause(f) = IF clauses = << >> THEN <<c>> ELSE clauses \o <<And, c>>
  BY DEF ValuesClause
<1> HIDE DEF c
<1>4. \A row : Selected(row, ValuesClause(f)) <=> Selected(row, clauses) /\ True(row, c)
  BY <1>1, <1>2, <1>3, SelectedWith
<1>5. \A row : True(row, c) <=> Present(row, f)
  BY DEF Present, c
<1> QED BY <1>4, <1>5 DEF Matching

\* The values of a field in some rows.
ValuesIn(cat, f, rows) == {RowAt(cat, p).cols[f] : p \in rows}

\* The groups of a field's values: there is one for each value, and they count
\* each row once.
LEMMA GroupsAddUp ==
  ASSUME NEW cat \in Catalogs, NEW f, NEW rows, rows = Matching(cat, ValuesClause(f))
  PROVE  /\ IsFiniteSet(rows) /\ Cardinality(rows) \in Nat
         /\ {g.value : g \in GroupsOf(cat, f)} = ValuesIn(cat, f, rows)
         /\ Cardinality(GroupsOf(cat, f)) = Cardinality(ValuesIn(cat, f, rows))
         /\ \A list \in SUBSET GroupsOf(cat, f) : SumOfCounts(list) <= Cardinality(rows)
         /\ SumOfCounts(GroupsOf(cat, f)) = Cardinality(rows)
<1> DEFINE ValueAt(p) == RowAt(cat, p).cols[f]
           values == {ValueAt(p) : p \in rows}
           groups == GroupsOf(cat, f)
           group == [v \in values |-> [value |-> v, count |-> Cardinality({p \in rows : ValueAt(p) = v})]]
           h == [p \in rows |-> group[ValueAt(p)]]
           val == [p \in rows |-> ValueAt(p)]
           back == [g \in groups |-> g.value]
<1>1. IsFiniteSet(rows) /\ Cardinality(rows) \in Nat
  BY PlacesFinite, FS_Subset, FS_CardinalityType DEF Matching
<1>2. IsFiniteSet(values)
  <2>1. values = {val[p] : p \in rows}
    OBVIOUS
  <2> HIDE DEF val, values
  <2> QED BY <1>1, <2>1, ImageFinite
<1>3. groups = {group[v] : v \in values}
  BY DEF GroupsOf
<1>4. \A v \in values : group[v].value = v
  OBVIOUS
<1>5. values = {back[g] : g \in groups}
  <2> HIDE DEF group, values, groups
  <2> QED BY <1>3, <1>4
<1>6. IsFiniteSet(groups) /\ Cardinality(groups) = Cardinality(values)
  <2> HIDE DEF group, values, groups, back
  <2>1. IsFiniteSet(groups) /\ Cardinality(groups) <= Cardinality(values)
    BY <1>2, <1>3, ImageFinite
  <2>2. Cardinality(values) <= Cardinality(groups)
    BY <1>5, <2>1, ImageFinite
  <2>3. Cardinality(values) \in Nat /\ Cardinality(groups) \in Nat
    BY <1>2, <2>1, FS_CardinalityType
  <2> QED BY <2>1, <2>2, <2>3
<1>7. \A p \in rows : h[p] \in groups /\ (\A q \in rows : h[p] = h[q] <=> ValueAt(p) = ValueAt(q))
  <2>1. \A p \in rows : ValueAt(p) \in values /\ h[p] = group[ValueAt(p)]
    OBVIOUS
  <2> HIDE DEF group, values, groups, ValueAt, h
  <2> QED BY <1>3, <1>4, <2>1
<1>8. ASSUME NEW g \in groups
      PROVE  g.count = Cardinality({p \in rows : h[p] = g})
  <2>1. PICK q \in rows : g = h[q]
    <3>1. PICK v \in values : g = group[v]
      <4> HIDE DEF group, values, groups
      <4> QED BY <1>3, <1>8
    <3>2. PICK q \in rows : v = ValueAt(q)
      OBVIOUS
    <3> QED BY <3>1, <3>2
  <2>2. g.count = Cardinality({p \in rows : ValueAt(p) = ValueAt(q)})
    BY <2>1
  <2>3. {p \in rows : ValueAt(p) = ValueAt(q)} = {p \in rows : h[p] = g}
    <3> HIDE DEF h, ValueAt
    <3> QED BY <1>7, <2>1
  <2> QED BY <2>2, <2>3
<1>9. ASSUME NEW list \in SUBSET groups
      PROVE  /\ SumOfCounts(list) = Cardinality({p \in rows : h[p] \in list})
             /\ SumOfCounts(list) <= Cardinality(rows)
  <2> DEFINE D == {p \in rows : h[p] \in list}
             k == [p \in D |-> h[p]]
  <2> HIDE DEF h, groups
  <2>1. IsFiniteSet(D) /\ IsFiniteSet(list) /\ Cardinality(D) <= Cardinality(rows)
    BY <1>1, <1>6, FS_Subset
  <2>2. k \in [D -> list]
    OBVIOUS
  <2>3. ASSUME NEW g \in list
        PROVE  g.count = Cardinality({p \in D : k[p] = g})
    <3>1. {p \in D : k[p] = g} = {p \in rows : h[p] = g}
      OBVIOUS
    <3> QED BY <1>8, <3>1
  <2> HIDE DEF D, k
  <2>4. SumOfCounts(list) = Cardinality(D)
    BY <2>1, <2>2, <2>3, SumOfParts
  <2> QED BY <2>1, <2>4 DEF D
<1>10. SumOfCounts(groups) = Cardinality(rows)
  <2>1. {p \in rows : h[p] \in groups} = rows
    <3> HIDE DEF h, groups
    <3> QED BY <1>7
  <2> HIDE DEF h, groups
  <2> QED BY <1>9, <2>1
<1>11. {g.value : g \in groups} = values
  BY <1>5
<1>12. values = ValuesIn(cat, f, rows)
  BY DEF ValuesIn
<1> HIDE DEF h, group, back, val, values
<1> QED BY <1>1, <1>6, <1>9, <1>10, <1>11, <1>12

\* A field on offer is in some enabled file.
LEMMA FileOfField ==
  ASSUME NEW cat \in Catalogs, NEW f \in Had(cat)
  PROVE  Cardinality({k \in DOMAIN cat : cat[k].enabled /\ TableHasField(cat[k], f)}) > 0
<1> DEFINE files == {k \in DOMAIN cat : cat[k].enabled /\ TableHasField(cat[k], f)}
<1>1. files # {}
  BY DEF Had
<1>2. IsFiniteSet(files)
  <2>1. DOMAIN cat = 1..Len(cat) /\ Len(cat) \in Nat
    BY ReportsAssumption
  <2>2. IsFiniteSet(DOMAIN cat)
    BY <2>1, FS_Interval
  <2> QED BY <2>2, FS_Subset
<1> HIDE DEF files
<1>3. Cardinality(files) \in Nat /\ Cardinality(files) # 0
  BY <1>1, <1>2, FS_CardinalityType, FS_EmptySet
<1> QED BY <1>3 DEF files

\* What a filter of the request says of the rows found.
LEMMA FoundSatisfy ==
  ASSUME IInv, stage = "done", AllAnd, NEW cat \in Catalogs, NEW p \in Matching(cat, clauses), NEW k \in Kept
  PROVE  Satisfies(RowAt(cat, p), req.filters[k])
<1>1. Selected(RowAt(cat, p), clauses)
  BY DEF Matching
<1>2. Parts \in SUBSET Condition
  BY DEF Parts
<1>3. \A c \in Parts : True(RowAt(cat, p), c)
  BY <1>1, <1>2, SelectedByAll DEF IInv, TypeInv, PartsInv, AndInv
<1>4. <<"filter", k>> \in Parts
  <2>1. k \in 1..Len(req.filters) /\ Len(req.filters) \in Nat /\ next = Len(req.filters) + 1
    BY FilterNumbers DEF IInv, TypeInv
  <2> QED BY <2>1 DEF Parts, Condition
<1> QED BY <1>3, <1>4 DEF True

\* The panels of one request agree (PanelsAgree), for any files and any request:
\* the bars of GetHistogram over any sort field and the rows without an instant there
\* add up to the total of Query and ExportFiltered, and what GetFieldValues lists of
\* a field without an "or" to what GetProfile counts.
THEOREM PanelsTellOneStory == Spec => []PanelsAgree
<1>1. ASSUME IInv
      PROVE  PanelsAgree
  <2> SUFFICES ASSUME NEW cat \in Catalogs, Answered(cat), HasTime(cat)
               PROVE  /\ \A s \in SortFields :
                           Total(cat) = SumOfCounts(Bars(cat, s)) +
                             Cardinality({p \in Matching(cat, clauses) : RowAt(cat, p).at[s] = Null})
                      /\ ExportFiltered(cat) = Total(cat)
                      /\ Conjunctive => \A entry \in ToSet(GetProfile(cat, Offered(cat)).fields) :
                           LET f == entry.name
                               groups == GroupsOf(cat, f)
                           IN  /\ \A list \in FieldValues(cat, f, 1) \cup FieldValues(cat, f, 0) :
                                    /\ SumOfCounts(list) <= entry.present
                                    /\ list = groups => SumOfCounts(list) = entry.present
                               /\ clauses = << >> /\ FieldSamples(cat, f) # {} =>
                                    FieldSamples(cat, f) = {g.value : g \in groups}
                               /\ entry.files > 0
                               /\ \A k \in Kept : req.filters[k].field = f =>
                                    /\ req.filters[k].operator = "exists" => entry.present = Total(cat)
                                    /\ req.filters[k].operator = "does_not_exist" => entry.present = 0
    BY DEF PanelsAgree
  <2>1. stage = "done"
    BY DEF Answered
  <2>2. \A s \in SortFields :
          Total(cat) = SumOfCounts(Bars(cat, s)) +
            Cardinality({p \in Matching(cat, clauses) : RowAt(cat, p).at[s] = Null})
    BY BarsAddUp
  <2>3. ExportFiltered(cat) = Total(cat)
    BY DEF ExportFiltered, Total
  <2>4. ASSUME Conjunctive, NEW entry \in ToSet(GetProfile(cat, Offered(cat)).fields)
        PROVE  LET f == entry.name
                   groups == GroupsOf(cat, f)
               IN  /\ \A list \in FieldValues(cat, f, 1) \cup FieldValues(cat, f, 0) :
                        /\ SumOfCounts(list) <= entry.present
                        /\ list = groups => SumOfCounts(list) = entry.present
                   /\ clauses = << >> /\ FieldSamples(cat, f) # {} =>
                        FieldSamples(cat, f) = {g.value : g \in groups}
                   /\ entry.files > 0
                   /\ \A k \in Kept : req.filters[k].field = f =>
                        /\ req.filters[k].operator = "exists" => entry.present = Total(cat)
                        /\ req.filters[k].operator = "does_not_exist" => entry.present = 0
    <3>1. PICK f \in Had(cat) \cap Fields : entry = ProfileOf(cat, f)
      <4> DEFINE fields == Offered(cat)
                 m == Min({Len(fields), MaxFields})
      <4>1. fields \in Seq(Had(cat) \cap Fields)
        BY OfferedHad
      <4> HIDE DEF fields
      <4>2. Len(fields) \in Nat /\ MaxFields \in Nat
        BY <4>1, ReportsAssumption
      <4>3. m <= Len(fields) /\ m \in Nat
        <5> DEFINE sizes == {Len(fields), MaxFields}
        <5>1. sizes \subseteq Nat /\ sizes # {} /\ Len(fields) \in sizes
          BY <4>2
        <5> HIDE DEF sizes
        <5>2. Min(sizes) \in sizes /\ Min(sizes) <= Len(fields)
          BY <5>1, FirstPlace
        <5> QED BY <5>1, <5>2 DEF sizes
      <4>4. GetProfile(cat, fields).fields = [k \in 1..m |-> ProfileOf(cat, fields[k])]
        BY DEF GetProfile
      <4>5. ToSet(GetProfile(cat, fields).fields) = {ProfileOf(cat, fields[k]) : k \in 1..m}
        <5> HIDE DEF m
        <5> QED BY <4>4 DEF ToSet
      <4> HIDE DEF m
      <4>6. PICK k \in 1..m : entry = ProfileOf(cat, fields[k])
        BY <2>4, <4>5 DEF fields
      <4>7. fields[k] \in Had(cat) \cap Fields
        BY <4>1, <4>2, <4>3, <4>6
      <4> QED BY <4>6, <4>7
    <3> DEFINE rows == {p \in Matching(cat, clauses) : Present(RowAt(cat, p), f)}
               values == ValuesIn(cat, f, rows)
               groups == GroupsOf(cat, f)
    <3>2. /\ entry.name = f /\ entry.present = Cardinality(rows)
          /\ entry.files = Cardinality({k \in DOMAIN cat : cat[k].enabled /\ TableHasField(cat[k], f)})
      BY <3>1 DEF ProfileOf, ValuesIn
    <3>3. rows = Matching(cat, ValuesClause(f))
      BY <1>1, <2>4, RowsWithField DEF Conjunctive, AllAnd
    <3>4. /\ IsFiniteSet(rows) /\ Cardinality(rows) \in Nat
          /\ {g.value : g \in groups} = values
          /\ Cardinality(groups) = Cardinality(values)
          /\ \A list \in SUBSET groups : SumOfCounts(list) <= Cardinality(rows)
          /\ SumOfCounts(groups) = Cardinality(rows)
      <4> HIDE DEF rows
      <4> QED BY <3>3, GroupsAddUp
    <3>5. \A list \in FieldValues(cat, f, 1) \cup FieldValues(cat, f, 0) : list \in SUBSET groups
      BY DEF FieldValues
    <3>6. ASSUME clauses = << >>, FieldSamples(cat, f) # {}
          PROVE  FieldSamples(cat, f) = values
      <4>1. Matching(cat, clauses) = Places(cat)
        BY <3>6 DEF Matching, Selected
      <4> QED BY <3>6, <4>1 DEF FieldSamples, ValuesIn
    <3>7. entry.files > 0
      BY <3>2, FileOfField
    <3>8. ASSUME NEW k \in Kept, req.filters[k].field = f
          PROVE  /\ req.filters[k].operator = "exists" => entry.present = Total(cat)
                 /\ req.filters[k].operator = "does_not_exist" => entry.present = 0
      <4>1. \A p \in Matching(cat, clauses) : Satisfies(RowAt(cat, p), req.filters[k])
        BY <1>1, <2>1, <2>4, FoundSatisfy DEF Conjunctive, AllAnd
      <4>2. \A p \in Matching(cat, clauses) :
              Present(RowAt(cat, p), f) <=>
                RowAt(cat, p).cols[f] # Null /\ RowAt(cat, p).cols[f] # EmptyText
        BY DEF Present, True
      <4>3. ASSUME req.filters[k].operator = "exists" PROVE rows = Matching(cat, clauses)
        BY <3>8, <4>1, <4>2, <4>3 DEF Satisfies, Containing, Excluding
      <4>4. ASSUME req.filters[k].operator = "does_not_exist" PROVE rows = {}
        BY <3>8, <4>1, <4>2, <4>4 DEF Satisfies, Containing, Excluding
      <4> HIDE DEF rows
      <4> QED BY <3>2, <4>3, <4>4, FS_EmptySet DEF Total
    <3> HIDE DEF rows, values
    <3> QED BY <3>2, <3>4, <3>5, <3>6, <3>7, <3>8
  <2> QED BY <2>2, <2>3, <2>4
<1> QED BY Invariance, <1>1, PTL

=============================================================================
