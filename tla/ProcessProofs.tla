---------------------------- MODULE ProcessProofs ----------------------------
(***************************************************************************)
(* Proofs about Process, for every number of tabs, grace, sleep of the     *)
(* idle loop, poll interval and timeout.  The invariant relates the clocks *)
(* of the server to those of the pages and of the requests; each of its    *)
(* parts is what one of the ways to end needs.                             *)
(***************************************************************************)
EXTENDS Process, TLAPS

-----------------------------------------------------------------------------
(* The inductive invariant *)

\* The ranges of the clocks.  The idle loop is past its sleep only in a
\* server that has one.
TypeInv ==
  /\ idle \in 0..IdleCap /\ sleep \in 0..Period /\ restful \in 0..Period + 1
  /\ idler \in {"asleep", "looked", "exit"}
  /\ idler # "asleep" => IdleLoop
  /\ asked \in [Tabs -> {"none", "sent", "answered", "grace", "quiet"}]
  /\ touched \in [Tabs -> BOOLEAN] /\ left \in [Tabs -> 0..Grace]
  /\ open \subseteq Tabs /\ due \in [Tabs -> 0..Poll]
  /\ req \in [Tabs -> BOOLEAN] /\ age \in [Tabs -> 0..AgeCap]

\* A request is at least as old as the last activity, its own arrival being one;
\* once the loop has decided to end, it is new or older than the timeout.
RequestInv ==
  \A t \in Tabs :
    /\ ~req[t] => age[t] = 0
    /\ req[t] => age[t] >= idle \/ age[t] > Timeout
    /\ idler = "exit" /\ req[t] => age[t] = 0 \/ age[t] > Timeout

\* While a shutdown waits undisturbed, what a request lacks of the grace in age
\* is left of the grace; once it is decided, the request is new or that old.
GraceInv ==
  \A s, t \in Tabs :
    req[t] =>
      /\ asked[s] = "grace" /\ ~touched[s] => age[t] + left[s] >= Grace
      /\ asked[s] = "quiet" => age[t] = 0 \/ age[t] >= Grace

\* An open page has a poll on its way or asked for less than Poll ago, and a
\* loop that has decided to end finds pages that poll just now.
PollInv ==
  \A t \in open :
    /\ t \in poll => due[t] = Poll
    /\ t \notin poll => idle + due[t] <= Poll
    /\ idler = "exit" /\ Poll <= Timeout => due[t] = Poll

\* A server whose idle time will be more than Timeout + Period when the loop
\* wakes has a busy module, or had one less than Period before that.
LoopInv ==
  IdleLoop =>
    /\ idler = "asleep" /\ idle + sleep > Timeout + Period
         => IsBusy \/ restful + sleep <= Period
    /\ idle > Timeout + Period => restful <= Period

IInv == TypeInv /\ RequestInv /\ GraceInv /\ PollInv /\ LoopInv

-----------------------------------------------------------------------------
(* The inductive invariant is one *)

\* Every counter stays at or below its cap, and a capped counter reaches it.
LEMMA LaterBounded ==
  ASSUME NEW cap \in Nat, NEW n \in 0..cap
  PROVE  /\ Later(n, cap) \in 0..cap /\ Later(n, cap) >= n
         /\ Later(n, cap) <= n + 1
         /\ Later(n, cap) = n + 1 \/ Later(n, cap) = cap
  BY DEF Later

\* An end of the process, whatever its cause, leaves clocks that satisfy the invariant.
LEMMA ExitSafe ==
  ASSUME NEW how, Exit(how)
  PROVE  IInv'
<1> USE LifeAssumption DEF Exit, Gone, IdleCap, AgeCap
<1>1. TypeInv'
  BY DEF TypeInv, IdleLoop
<1>2. RequestInv' /\ GraceInv'
  BY DEF RequestInv, GraceInv
<1>3. PollInv' /\ LoopInv'
  BY DEF PollInv, LoopInv, IdleLoop
<1> QED BY <1>1, <1>2, <1>3 DEF IInv

\* So does the start of the program.
LEMMA InitSafe == Init => IInv
<1> SUFFICES ASSUME Init PROVE IInv
  OBVIOUS
<1> USE LifeAssumption DEF Init, IdleCap, AgeCap
<1>1. TypeInv
  BY DEF TypeInv, IdleLoop
<1>2. RequestInv /\ GraceInv
  BY DEF RequestInv, GraceInv
<1>3. PollInv /\ LoopInv
  BY DEF PollInv, LoopInv, IdleLoop
<1> QED BY <1>1, <1>2, <1>3 DEF IInv

\* The start changes no clock before it listens, and sets those of the idle loop then.
LEMMA StartSafe ==
  ASSUME IInv, Start
  PROVE  IInv'
<1> USE LifeAssumption DEF IInv
<1>1. CASE Listening
  <2> USE <1>1 DEF Listening, shutdowns, tabs, calls, module, IdleCap, AgeCap, IdleLoop
  <2>1. TypeInv'
    BY DEF TypeInv
  <2>2. RequestInv' /\ GraceInv'
    BY DEF TypeInv, RequestInv, GraceInv
  <2>3. PollInv' /\ LoopInv'
    BY DEF TypeInv, PollInv, LoopInv
  <2> QED BY <2>1, <2>2, <2>3
<1>2. CASE StartFails
  BY <1>2, ExitSafe DEF StartFails
<1>3. CASE ~Listening /\ ~StartFails
  <2>1. phase # "serving" /\ phase' # "serving" /\ UNCHANGED <<timers, shutdowns, tabs, calls, module>>
    BY <1>3 DEF Start, Launch, RulesLoaded, SettingsLoaded, PortFree,
       BackupSwept, ModuleMounted, ModulesBooted, StartStep
  <2> USE <2>1 DEF timers, shutdowns, tabs, calls, module, IdleLoop
  <2>2. TypeInv' /\ RequestInv' /\ GraceInv'
    BY DEF TypeInv, RequestInv, GraceInv
  <2>3. PollInv' /\ LoopInv'
    BY DEF PollInv, LoopInv
  <2> QED BY <2>2, <2>3
<1> QED BY <1>1, <1>2, <1>3

\* What a tab does: it sets its own poll clock and asks for a shutdown at most.
LEMMA BrowserSafe ==
  ASSUME IInv, NEW u \in Tabs, Browser(u)
  PROVE  IInv'
<1> USE LifeAssumption DEF IInv, timers, shutdowns, tabs, calls, module, life, IdleLoop
<1>1. CASE OpenTab(u)
  <2> USE <1>1 DEF OpenTab
  <2>1. TypeInv'
    BY DEF TypeInv
  <2>2. RequestInv'
    BY DEF TypeInv, RequestInv
  <2>3. GraceInv'
    BY DEF TypeInv, GraceInv
  <2>4. PollInv'
    BY DEF TypeInv, PollInv
  <2>5. LoopInv'
    BY DEF TypeInv, LoopInv, IsBusy, IdleCap
  <2> QED BY <2>1, <2>2, <2>3, <2>4, <2>5
<1>2. CASE CloseTab(u)
  <2> USE <1>2 DEF CloseTab, BeaconSent
  <2>1. TypeInv'
    BY DEF TypeInv
  <2>2. RequestInv'
    BY DEF TypeInv, RequestInv
  <2>3. GraceInv'
    BY DEF TypeInv, GraceInv
  <2>4. PollInv'
    BY DEF TypeInv, PollInv
  <2>5. LoopInv'
    BY DEF TypeInv, LoopInv, IsBusy, IdleCap
  <2> QED BY <2>1, <2>2, <2>3, <2>4, <2>5
<1>3. CASE ReloadTab(u)
  <2> USE <1>3 DEF ReloadTab, BeaconSent
  <2>1. TypeInv'
    BY DEF TypeInv
  <2>2. RequestInv'
    BY DEF TypeInv, RequestInv
  <2>3. GraceInv'
    BY DEF TypeInv, GraceInv
  <2>4. PollInv'
    BY DEF TypeInv, PollInv
  <2>5. LoopInv'
    BY DEF TypeInv, LoopInv, IsBusy, IdleCap
  <2> QED BY <2>1, <2>2, <2>3, <2>4, <2>5
<1>4. CASE StopServer(u)
  <2> USE <1>4 DEF StopServer
  <2>1. TypeInv'
    BY DEF TypeInv
  <2>2. RequestInv'
    BY DEF TypeInv, RequestInv
  <2>3. GraceInv'
    BY DEF TypeInv, GraceInv
  <2>4. PollInv'
    BY DEF TypeInv, PollInv
  <2>5. LoopInv'
    BY DEF TypeInv, LoopInv, IsBusy, IdleCap
  <2> QED BY <2>1, <2>2, <2>3, <2>4, <2>5
<1>5. CASE PollSent(u)
  <2> USE <1>5 DEF PollSent
  <2>1. TypeInv'
    BY DEF TypeInv
  <2>2. RequestInv'
    BY DEF TypeInv, RequestInv
  <2>3. GraceInv'
    BY DEF TypeInv, GraceInv
  <2>4. PollInv'
    BY DEF TypeInv, PollInv
  <2>5. LoopInv'
    BY DEF TypeInv, LoopInv, IsBusy, IdleCap
  <2> QED BY <2>1, <2>2, <2>3, <2>4, <2>5
<1> QED BY <1>1, <1>2, <1>3, <1>4, <1>5 DEF Browser

\* What the server does for a tab: an activity restarts the idle clock and marks
\* every grace that runs.
LEMMA ServeSafe ==
  ASSUME IInv, NEW u \in Tabs, Serve(u)
  PROVE  IInv'
<1> USE LifeAssumption DEF IInv, timers, shutdowns, tabs, calls, module, life, IdleLoop
<1>1. CASE PollServed(u)
  <2> USE <1>1 DEF PollServed, Touch, IdleCap
  <2>1. TypeInv'
    BY DEF TypeInv
  <2>2. RequestInv'
    BY DEF TypeInv, RequestInv
  <2>3. GraceInv'
    BY DEF TypeInv, GraceInv
  <2>4. PollInv'
    BY DEF TypeInv, PollInv
  <2>5. LoopInv'
    BY DEF TypeInv, LoopInv, IsBusy, IdleCap
  <2> QED BY <2>1, <2>2, <2>3, <2>4, <2>5
<1>2. CASE RequestArrives(u)
  <2> USE <1>2 DEF RequestArrives, Touch, AgeCap, IdleCap
  <2>1. TypeInv'
    BY DEF TypeInv
  <2>2. RequestInv'
    BY DEF TypeInv, RequestInv
  <2>3. GraceInv'
    BY DEF TypeInv, RequestInv, GraceInv
  <2>4. PollInv'
    BY DEF TypeInv, PollInv
  <2>5. LoopInv'
    BY DEF TypeInv, LoopInv, IsBusy, IdleCap
  <2> QED BY <2>1, <2>2, <2>3, <2>4, <2>5
<1>3. CASE Replied(u)
  <2> USE <1>3 DEF Replied, AgeCap
  <2>1. TypeInv'
    BY DEF TypeInv
  <2>2. RequestInv'
    BY DEF TypeInv, RequestInv
  <2>3. GraceInv'
    BY DEF TypeInv, GraceInv
  <2>4. PollInv'
    BY DEF TypeInv, PollInv
  <2>5. LoopInv'
    BY DEF TypeInv, LoopInv, IsBusy, IdleCap
  <2> QED BY <2>1, <2>2, <2>3, <2>4, <2>5
<1>4. CASE ShutdownAnswered(u)
  <2> USE <1>4 DEF ShutdownAnswered
  <2>1. TypeInv'
    BY DEF TypeInv
  <2>2. RequestInv'
    BY DEF TypeInv, RequestInv
  <2>3. GraceInv'
    BY DEF TypeInv, GraceInv
  <2>4. PollInv'
    BY DEF TypeInv, PollInv
  <2>5. LoopInv'
    BY DEF TypeInv, LoopInv, IsBusy, IdleCap
  <2> QED BY <2>1, <2>2, <2>3, <2>4, <2>5
<1>5. CASE GraceBegins(u)
  <2> USE <1>5 DEF GraceBegins
  <2>1. TypeInv'
    BY DEF TypeInv
  <2>2. RequestInv'
    BY DEF TypeInv, RequestInv
  <2>3. GraceInv'
    BY DEF TypeInv, GraceInv
  <2>4. PollInv'
    BY DEF TypeInv, PollInv
  <2>5. LoopInv'
    BY DEF TypeInv, LoopInv, IsBusy, IdleCap
  <2> QED BY <2>1, <2>2, <2>3, <2>4, <2>5
<1>6. CASE GraceOver(u)
  <2> USE <1>6 DEF GraceOver
  <2>1. TypeInv'
    BY DEF TypeInv
  <2>2. RequestInv'
    BY DEF TypeInv, RequestInv
  <2>3. GraceInv'
    BY DEF TypeInv, GraceInv
  <2>4. PollInv'
    BY DEF TypeInv, PollInv
  <2>5. LoopInv'
    BY DEF TypeInv, LoopInv, IsBusy, IdleCap
  <2> QED BY <2>1, <2>2, <2>3, <2>4, <2>5
<1>7. CASE ShutdownCancelled(u)
  <2> USE <1>7 DEF ShutdownCancelled
  <2>1. TypeInv'
    BY DEF TypeInv
  <2>2. RequestInv'
    BY DEF TypeInv, RequestInv
  <2>3. GraceInv'
    BY DEF TypeInv, GraceInv
  <2>4. PollInv'
    BY DEF TypeInv, PollInv
  <2>5. LoopInv'
    BY DEF TypeInv, LoopInv, IsBusy, IdleCap
  <2> QED BY <2>1, <2>2, <2>3, <2>4, <2>5
<1>8. CASE Shutdown(u)
  BY <1>8, ExitSafe DEF Shutdown
<1> QED BY <1>1, <1>2, <1>3, <1>4, <1>5, <1>6, <1>7, <1>8 DEF Serve

\* The work of a module: its end restarts the clock of LoopInv.
LEMMA WorkSafe ==
  ASSUME IInv, NEW m \in Watchers, WorkBegins(m) \/ WorkEnds(m)
  PROVE  IInv'
<1> USE LifeAssumption DEF IInv, timers, shutdowns, tabs, calls, module, life, IdleLoop
<1>1. CASE WorkBegins(m)
  <2> USE <1>1 DEF WorkBegins, IsBusy
  <2>1. TypeInv'
    BY DEF TypeInv
  <2>2. RequestInv'
    BY DEF TypeInv, RequestInv
  <2>3. GraceInv'
    BY DEF TypeInv, GraceInv
  <2>4. PollInv'
    BY DEF TypeInv, PollInv
  <2>5. LoopInv'
    BY DEF TypeInv, LoopInv, IsBusy, IdleCap
  <2> QED BY <2>1, <2>2, <2>3, <2>4, <2>5
<1>2. CASE WorkEnds(m)
  <2> USE <1>2 DEF WorkEnds, IsBusy
  <2>1. TypeInv'
    BY DEF TypeInv
  <2>2. RequestInv'
    BY DEF TypeInv, RequestInv
  <2>3. GraceInv'
    BY DEF TypeInv, GraceInv
  <2>4. PollInv'
    BY DEF TypeInv, PollInv
  <2>5. LoopInv'
    BY DEF TypeInv, LoopInv, IsBusy, IdleCap
  <2> QED BY <2>1, <2>2, <2>3, <2>4, <2>5
<1> QED BY <1>1, <1>2 DEF IInv

\* The idle loop: it decides to end only when every request is older than the
\* timeout and every poll is on its way.
LEMMA IdleLoopSafe ==
  ASSUME IInv, IdleWakes \/ IdleChecks \/ IdleExit
  PROVE  IInv'
<1> USE LifeAssumption DEF IInv, timers, shutdowns, tabs, calls, module, life, IdleLoop
<1>1. CASE IdleWakes
  <2> USE <1>1 DEF IdleWakes, Sleep
  <2>1. TypeInv'
    BY DEF TypeInv
  <2>2. RequestInv'
    BY DEF TypeInv, RequestInv
  <2>3. GraceInv'
    BY DEF TypeInv, GraceInv
  <2>4. PollInv'
    BY DEF TypeInv, PollInv
  <2>5. LoopInv'
    BY DEF TypeInv, LoopInv, IsBusy, IdleCap
  <2> QED BY <2>1, <2>2, <2>3, <2>4, <2>5
<1>2. CASE IdleChecks
  <2> USE <1>2 DEF IdleChecks, Sleep, TooLongAgo, IdleCap
  <2>1. TypeInv'
    BY DEF TypeInv
  <2>2. RequestInv'
    BY DEF TypeInv, RequestInv
  <2>3. GraceInv'
    BY DEF TypeInv, GraceInv
  <2>4. PollInv'
    BY DEF TypeInv, PollInv
  <2>5. LoopInv'
    BY DEF TypeInv, LoopInv, IsBusy, IdleCap
  <2> QED BY <2>1, <2>2, <2>3, <2>4, <2>5
<1>3. CASE IdleExit
  BY <1>3, ExitSafe DEF IdleExit
<1> QED BY <1>1, <1>2, <1>3 DEF IInv

\* A unit of time.  Nothing is under way then, so the idle loop sleeps, no shutdown
\* is decided and every open page has a poll ahead of it.
LEMMA TickSafe ==
  ASSUME IInv, Tick
  PROVE  IInv'
<1> USE LifeAssumption DEF IInv
<1>1. /\ poll = {} /\ \A t \in open : due[t] # 0
      /\ \A t \in Tabs : asked[t] \in {"none", "grace"} /\ (asked[t] = "grace" => left[t] # 0)
      /\ phase' = phase /\ (IdleLoop => idler = "asleep" /\ sleep # 0)
  BY DEF Tick, Urgent, TypeInv, life
<1>2. idler = "asleep" /\ idler' = "asleep"
  BY <1>1 DEF Tick, TypeInv
<1>3. /\ IdleCap \in Nat /\ AgeCap \in Nat /\ AgeCap > Timeout /\ AgeCap >= Grace
      /\ IdleCap = Timeout + Period + 1 /\ Period + 1 \in Nat
  BY DEF IdleCap, AgeCap
<1>4. idle' \in 0..IdleCap /\ idle' <= idle + 1
  BY <1>3, LaterBounded DEF Tick, TypeInv
<1>5. ASSUME NEW t \in Tabs
      PROVE  /\ age'[t] \in 0..AgeCap /\ (~req[t] => age'[t] = 0)
             /\ req[t] => age'[t] = age[t] + 1 \/ age'[t] = AgeCap
  BY <1>3, LaterBounded DEF Tick, TypeInv
<1>6. /\ restful' \in 0..Period + 1 /\ restful' <= restful + 1
      /\ busy # {} => restful' = 0
  <2>1. Period + 1 \in Nat /\ restful \in 0..Period + 1
    BY <1>3 DEF TypeInv
  <2>2. Later(restful, Period + 1) \in 0..Period + 1 /\ Later(restful, Period + 1) <= restful + 1
    BY <2>1, LaterBounded
  <2> QED BY <2>1, <2>2, LifeAssumption DEF Tick
<1>7. TypeInv'
  <2>1. sleep' \in 0..Period
    BY <1>1 DEF Tick, TypeInv
  <2>2. left' \in [Tabs -> 0..Grace] /\ due' \in [Tabs -> 0..Poll]
    BY <1>1 DEF Tick, TypeInv
  <2>3. age' \in [Tabs -> 0..AgeCap]
    BY <1>5 DEF Tick
  <2> QED BY <1>2, <1>4, <1>6, <2>1, <2>2, <2>3 DEF Tick, TypeInv, IdleCap, AgeCap
<1>8. RequestInv'
  BY <1>2, <1>3, <1>4, <1>5 DEF Tick, TypeInv, RequestInv
<1>9. GraceInv'
  <2> SUFFICES ASSUME NEW s \in Tabs, NEW t \in Tabs, req[t]
               PROVE  /\ asked[s] = "grace" /\ ~touched[s] => age'[t] + left'[s] >= Grace
                      /\ asked[s] # "quiet"
    BY DEF Tick, GraceInv
  <2>1. asked[s] # "quiet"
    BY <1>1
  <2>2. ASSUME asked[s] = "grace", ~touched[s]
        PROVE  age'[t] + left'[s] >= Grace
    <3>1. left'[s] = left[s] - 1 /\ left[s] # 0 /\ left[s] \in 0..Grace
      BY <1>1, <2>2 DEF Tick, TypeInv
    <3>2. age[t] + left[s] >= Grace /\ age[t] \in 0..AgeCap
      BY <2>2 DEF GraceInv, TypeInv
    <3> QED BY <1>3, <1>5, <3>1, <3>2
  <2> QED BY <2>1, <2>2
<1>10. PollInv'
  BY <1>1, <1>2, <1>4 DEF Tick, TypeInv, PollInv
<1>11. LoopInv'
  BY <1>1, <1>2, <1>3, <1>4, <1>6 DEF Tick, TypeInv, LoopInv, IdleLoop, IsBusy
<1> QED BY <1>7, <1>8, <1>9, <1>10, <1>11

\* Every step preserves the invariant.
LEMMA NextSafe == IInv /\ [Next]_vars => IInv'
<1> SUFFICES ASSUME IInv, [Next]_vars PROVE IInv'
  OBVIOUS
<1>1. CASE Start
  BY <1>1, StartSafe
<1>2. CASE Killed
  BY <1>2, ExitSafe DEF Killed
<1>3. ASSUME NEW t \in Tabs, Browser(t) \/ Serve(t)
      PROVE  IInv'
  BY <1>3, BrowserSafe, ServeSafe
<1>4. ASSUME NEW m \in Watchers, WorkBegins(m) \/ WorkEnds(m)
      PROVE  IInv'
  BY <1>4, WorkSafe
<1>5. CASE IdleWakes \/ IdleChecks \/ IdleExit
  BY <1>5, IdleLoopSafe
<1>6. CASE Tick
  BY <1>6, TickSafe
<1>7. CASE UNCHANGED vars
  BY <1>7 DEF vars, life, timers, shutdowns, tabs, calls, module, IInv, TypeInv,
     RequestInv, GraceInv, PollInv, LoopInv, IdleLoop, IsBusy, IdleCap, AgeCap
<1> QED BY <1>1, <1>2, <1>3, <1>4, <1>5, <1>6, <1>7 DEF Next

\* The clocks of the server, the pages and the requests agree in every state of
\* the process (main.go, server.go: lastActivity, handleShutdown, the idle loop).
THEOREM ClocksAgree == Spec => []IInv
<1> QED BY InitSafe, NextSafe, PTL DEF Spec

-----------------------------------------------------------------------------
(* What follows *)

\* A server nobody uses is gone after the timeout and one sleep of the loop, unless
\* a module is busy or was so less than a sleep ago (main.go: the inactivity loop).
THEOREM UnusedServerIsGone == Spec => []UnusedServerEnds
<1>1. IInv => UnusedServerEnds
  BY DEF IInv, LoopInv, IdleLoop, UnusedServerEnds
<1> QED BY <1>1, ClocksAgree, PTL

\* The steps of Next by which the process ends of its own accord, told by what they
\* record.
LEMMA WaysToEnd ==
  ASSUME IInv, [Next]_vars, EndsItself
  PROVE  \/ ended' = "idle" /\ idler = "exit"
         \/ ended' = "shutdown" /\ \E s \in Tabs : asked[s] = "quiet"
<1>1. phase = "serving" /\ phase' = "off" /\ ended' \in {"shutdown", "idle"}
  BY DEF EndsItself
<1>2. ~Start
  BY <1>1 DEF Start, Launch, RulesLoaded, SettingsLoaded, PortFree, BackupSwept,
     ModuleMounted, ModulesBooted, StartStep, StartFails, Listening
<1>3. ~Killed
  BY <1>1 DEF Killed, Exit
<1>4. ASSUME NEW t \in Tabs
      PROVE  ~Browser(t) /\ (Serve(t) => Shutdown(t))
  BY <1>1 DEF Browser, OpenTab, CloseTab, ReloadTab, StopServer, PollSent, Serve,
     PollServed, RequestArrives, Replied, ShutdownAnswered, GraceBegins, GraceOver,
     ShutdownCancelled, life
<1>5. ~Tick /\ ~UNCHANGED vars /\ \A m \in Watchers : ~WorkBegins(m) /\ ~WorkEnds(m)
  BY <1>1 DEF Tick, vars, life, WorkBegins, WorkEnds
<1>6. ~IdleWakes /\ ~IdleChecks
  BY <1>1 DEF IdleWakes, IdleChecks, Sleep, life
<1>7. (\E s \in Tabs : Shutdown(s)) \/ IdleExit
  BY <1>2, <1>3, <1>4, <1>5, <1>6 DEF Next
<1> QED BY <1>7 DEF Shutdown, IdleExit, Exit

\* No request is cut off half way through the grace or the timeout
\* (server.go: handleShutdown; main.go: the inactivity loop).
THEOREM YoungRequestsAreSpared == Spec => YoungRequestsSpared
<1>1. ASSUME IInv, [Next]_vars, EndsItself, NEW t \in Tabs
      PROVE  \/ ~req[t] \/ age[t] = 0
             \/ age[t] >= (IF ended' = "shutdown" THEN Grace ELSE Timeout + 1)
  <2>1. age[t] \in Nat /\ Timeout \in Nat
    BY <1>1, LifeAssumption DEF IInv, TypeInv, AgeCap
  <2>2. CASE ended' = "idle" /\ idler = "exit"
    BY <1>1, <2>1, <2>2 DEF IInv, RequestInv
  <2>3. CASE ended' = "shutdown" /\ \E s \in Tabs : asked[s] = "quiet"
    BY <1>1, <2>3 DEF IInv, GraceInv
  <2> QED BY <1>1, <2>2, <2>3, WaysToEnd
<1>2. IInv /\ [Next]_vars =>
        [EndsItself =>
           \A t \in Tabs : \/ ~req[t] \/ age[t] = 0
             \/ age[t] >= (IF ended' = "shutdown" THEN Grace ELSE Timeout + 1)]_vars
  BY <1>1
<1> QED BY <1>2, ClocksAgree, PTL DEF Spec, YoungRequestsSpared

\* Where pages poll at least as often as the timeout, an open page keeps the idle
\* loop from ending the server (main.go: the inactivity loop; server.go: touchActivity).
THEOREM OpenPageIsKept ==
  ASSUME Poll <= Timeout
  PROVE  Spec => OpenPageKeepsServer
<1>1. ASSUME IInv, [Next]_vars, EndsItself, ended' = "idle", NEW t \in open
      PROVE  due[t] = Poll
  BY <1>1, WaysToEnd DEF IInv, PollInv
<1>2. IInv /\ [Next]_vars =>
        [EndsItself /\ ended' = "idle" => \A t \in open : due[t] = Poll]_vars
  BY <1>1
<1> QED BY <1>2, ClocksAgree, PTL DEF Spec, OpenPageKeepsServer

=============================================================================
