----------------------------- MODULE CatalogSpec -----------------------------
(***************************************************************************)
(* What the engine's catalog promises its callers, whatever indexes it     *)
(* keeps and however its goroutines interleave: one list of loaded files   *)
(* in load order, no path twice, changed by whole operations only, and a   *)
(* query whose total and whose rows both come from the files enabled at a  *)
(* single moment.                                                          *)
(***************************************************************************)
EXTENDS Naturals, SequencesExt

CONSTANTS Clients, Ids, Paths, Fields, DefaultField

VARIABLES
  entries,    \* the loaded files: <<[id, path, enabled], ...>>
  sortField,  \* the field rows are sorted by when a request names none
  answer      \* answer[c]: the result client c is about to receive

absVars == <<entries, sortField, answer>>

EnabledEntries ==
  {entries[k].path : k \in {j \in 1..Len(entries) : entries[j].enabled}}

NoResult == [status |-> "none", count |-> {}, data |-> {}]

AbsInit ==
  /\ entries = << >>
  /\ sortField = DefaultField
  /\ answer = [c \in Clients |-> NoResult]

\* A load either leaves no trace or appends one enabled entry.  The first file
\* of an empty catalog decides the sort field.
AbsLoad(id, p) ==
  /\ \A k \in 1..Len(entries) : entries[k].path # p /\ entries[k].id < id
  /\ entries' = Append(entries, [id |-> id, path |-> p, enabled |-> TRUE])
  /\ IF entries = << >> THEN sortField' \in Fields ELSE UNCHANGED sortField
  /\ UNCHANGED answer

AbsUnload(k) ==
  /\ entries' = RemoveAt(entries, k)
  /\ UNCHANGED <<sortField, answer>>

AbsEnable(k, on) ==
  /\ entries' = [entries EXCEPT ![k].enabled = on]
  /\ UNCHANGED <<sortField, answer>>

AbsSetField(f) ==
  /\ sortField' = f
  /\ UNCHANGED <<entries, answer>>

AbsAnswer(c) ==
  /\ answer[c] = NoResult
  /\ answer' = [answer EXCEPT ![c] =
       [status |-> "rows", count |-> EnabledEntries, data |-> EnabledEntries]]
  /\ UNCHANGED <<entries, sortField>>

\* A query may fail, but never over an empty selection.
AbsFail(c) ==
  /\ answer[c] = NoResult /\ EnabledEntries # {}
  /\ \E failure \in {"error", "rejected"} :
       answer' = [answer EXCEPT ![c] = [NoResult EXCEPT !.status = failure]]
  /\ UNCHANGED <<entries, sortField>>

AbsDeliver(c) ==
  /\ answer[c] # NoResult
  /\ answer' = [answer EXCEPT ![c] = NoResult]
  /\ UNCHANGED <<entries, sortField>>

AbsNext ==
  \/ \E id \in Ids, p \in Paths : AbsLoad(id, p)
  \/ \E k \in 1..Len(entries) :
       AbsUnload(k) \/ \E on \in BOOLEAN : AbsEnable(k, on)
  \/ \E f \in Fields : AbsSetField(f)
  \/ \E c \in Clients : AbsAnswer(c) \/ AbsFail(c) \/ AbsDeliver(c)

AbsSpec == AbsInit /\ [][AbsNext]_absVars

=============================================================================
