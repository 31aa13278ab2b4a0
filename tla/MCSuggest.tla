------------------------------- MODULE MCSuggest -------------------------------
(* Instances of Suggest: two lines of many forms before and after their     *)
(* timestamps, and three lines some of which have another shape, or none.   *)
EXTENDS Suggest

D(t) == [kind |-> "digits", text |-> t]
L(t) == [kind |-> "letters", text |-> t]
P(t) == [kind |-> "punct", text |-> t]
S == [kind |-> "space", text |-> " "]
SS == [kind |-> "space", text |-> "  "]

MCOne == {"7", "9"}
MCTwo == {"10", "12", "13"}
MCFour == {"2026", "0200"}
MCValue == ("10" :> 10) @@ ("12" :> 12) @@ ("13" :> 13)
MCLevels == {"info", "warn"}
MCSlug == (<<"pid">> :> <<"pid">>) @@ (<<"PID">> :> <<"pid">>) @@ (<<"level">> :> <<"level">>)
            @@ (<<"ts">> :> <<"ts">>) @@ (<<"id">> :> <<"id">>) @@ (<<"id", "7">> :> <<"id", "7">>)

At10 == <<D("10"), P(":"), D("12"), P(":"), D("10")>>
At10f == At10 \o <<P("."), D("7")>>
Iso(sep, zone) == <<D("2026"), P("-"), D("10"), P("-"), D("12"), sep>> \o At10 \o zone
OffsetColon == <<P("+"), D("10"), P(":"), D("10")>>
OffsetPlain == <<P("+"), D("0200")>>
Dmy(a, b) == <<D(a), P("-"), D(b), P("-"), D("2026"), S>> \o At10
Syslog == <<L("May"), S, D("10"), S>> \o At10
Syslog1 == <<L("May"), SS, D("7"), S>> \o At10

Stamps == {At10, At10f, Iso(L("T"), <<L("Z")>>), Iso(S, <<>>), Dmy("10", "12"), Syslog}

Heads == {<<>>, <<P("[")>>, <<L("info"), S>>, <<D("7"), S>>, <<L("host"), S>>,
             <<L("host"), P(":")>>, <<D("7"), P("."), D("9"), SS>>, <<L("T")>>,
             <<L("a"), P("="), D("7"), S, L("b"), S>>}

Tails == {<<>>,
  <<S, L("info"), S, L("went")>>, <<SS, L("warn"), S, L("went")>>, <<S, L("went"), S, L("info")>>,
  <<P("]"), S, L("pid"), P(":"), D("7"), S, L("x")>>,
  <<P("]"), S, L("PID"), P(":"), D("9"), S, L("y")>>,
  <<S, L("pid"), P(":"), D("7"), S, L("pid"), P("="), D("7")>>,
  <<S, L("pid"), P(":"), D("7"), P("."), D("9"), P("."), D("7"), S, L("x")>>,
  <<S, L("pid"), P(":"), D("7"), P("."), D("9"), P("."), L("x")>>,
  <<S, L("main"), P(":"), L("went")>>, <<S, L("other"), P(":"), S, L("went")>>,
  <<S, L("info"), P(":"), D("7")>>, <<S, L("id"), D("7"), P(":"), D("9")>>,
  <<S, L("level"), P("="), L("info"), P("]"), L("info"), S, L("x")>>,
  <<S, L("ts"), P("="), D("7"), S, D("7"), S, D("7")>>,
  <<S, D("7"), S, D("9"), S, L("x")>>,
  <<S, D("7"), S>> \o At10, <<S, L("info"), D("7"), S, L("x")>>}

Line(p, t, r) == p \o t \o r

Ordinary == <<S, L("info"), S, L("went")>>

\* A stamp behind more tokens than are looked at.
Far == [k \in 1 .. 13 |-> IF k % 2 = 1 THEN L("a") ELSE P(".")] \o <<S>> \o At10 \o Ordinary

Few == {Ordinary, <<P("]"), S, L("pid"), P(":"), D("7"), S, L("x")>>}

DmyStamps == {Dmy(a, b) : a, b \in MCTwo}
IsoStamps == {Iso(s, z) : s \in {S, L("T")}, z \in {<<>>, <<L("Z")>>, OffsetColon, OffsetPlain}}

\* Lines in step, lines out of step, stamps that differ, and shapes that do.
MCSamples ==
  UNION {
    {<<Line(p, t, r), Line(p, t, q)>> :
       p \in {<<>>, <<P("[")>>, <<L("host"), S>>, <<L("T")>>},
       t \in {At10, Iso(L("T"), <<L("Z")>>), Syslog}, r, q \in Tails},
    {<<Line(p, t, r), Line(q, t, r)>> :
       p, q \in Heads, t \in {At10f, Dmy("10", "12")}, r \in Few},
    {<<Line(<<>>, t, Ordinary), Line(<<P("[")>>, u, Ordinary), Line(<<>>, v, Ordinary)>> :
       t, u, v \in DmyStamps},
    {<<Line(<<>>, t, Ordinary), Line(<<>>, u, Ordinary)>> : t, u \in IsoStamps},
    {<<t, Line(<<>>, u, Ordinary), v>> :
       t, v \in Stamps \cup {Ordinary, <<S>>, Syslog1}, u \in Stamps},
    {<< >>, <<<<S>>>>, <<Far>>, <<Far, At10>>}}

=============================================================================
