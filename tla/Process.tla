------------------------------- MODULE Process -------------------------------
(***************************************************************************)
(* The life of a kopusha process (main.go, the HTTP layer of               *)
(* internal/server, internal/module): it starts through a fixed sequence   *)
(* of steps that may end it, serves browser tabs, and ends by one of       *)
(*   - a shutdown request, sent by "Stop server" or by a page that is      *)
(*     hidden, obeyed after a grace unless a request arrives meanwhile;    *)
(*   - the idle timer, which looks at the last request every Period;       *)
(*   - a fatal error, or the user killing it.                              *)
(* Whatever it was doing - a load, an export, a write - ends there.        *)
(*                                                                         *)
(* Abstractions.  Time is discrete and bounded counters hold the time      *)
(* since or until an event; messages between a tab and the server take     *)
(* less than a unit and may overtake each other; a step of the server      *)
(* takes no time except the work of a request, which may take any.  A tab  *)
(* has its health poll and at most one other request at a time, and one    *)
(* shutdown request is followed for each tab.  What a start loads is the   *)
(* matter of RuleManager, SettingsStore and SelfUpdate.                    *)
(*                                                                         *)
(* An operator whose name ends in Bug is a faulty variant of the one that  *)
(* follows it, for the property named in its comment.                      *)
(***************************************************************************)
EXTENDS Naturals, Sequences, SequencesExt

CONSTANTS
  Tabs,       \* browser tabs
  Grace,      \* grace of a shutdown request (2 s)
  Period,     \* sleep of the idle loop (30 s)
  Poll,       \* interval of a tab's health poll (30 s)
  Timeout,    \* configured inactivity timeout (180 s), 0 for none
  Modules,    \* the modules main adds, in order
  Configured, \* modules whose configuration section is present
  Watchers,   \* modules that register a busy check
  MaxOpens,   \* bound on pages opened or reloaded
  MaxRequests,\* bound on requests that take time
  MaxStarts,  \* bound on starts of the process
  MaxWork     \* bound on spells of work of a module

ASSUME LifeAssumption ==
  /\ {Grace, Period, Poll} \subseteq Nat \ {0} /\ Timeout \in Nat
  /\ Configured \subseteq ToSet(Modules) /\ Watchers \subseteq ToSet(Modules)
  /\ {MaxOpens, MaxRequests, MaxStarts, MaxWork} \subseteq Nat

VARIABLES
  phase,    \* "off", a step of the start, or "serving"
  ended,    \* how the last process ended
  mounted,  \* Registry.manifests: the modules mounted so far
  idle,     \* time since Server.lastActivity
  sleep,    \* time until the idle loop wakes
  idler,    \* the idle loop: "asleep", or past its look at the busy checks
            \* or at LastActivity
  asked,    \* asked[t]: the goroutine of t's shutdown request
  touched,  \* touched[t]: a request arrived since that goroutine read LastActivity
  left,     \* left[t]: what remains of its grace
  open,     \* tabs that show the page
  due,      \* due[t]: time until t polls
  poll,     \* tabs whose poll is on its way
  req,      \* req[t]: t has a request that the server works on
  age,      \* age[t]: time since it arrived
  busy,     \* modules at work
  restful,  \* time since a module was last at work
  opens, requests, starts, work

life == <<phase, ended, mounted>>
timers == <<idle, sleep, idler>>
shutdowns == <<asked, touched, left>>
tabs == <<open, due, poll>>
calls == <<req, age>>
module == <<busy, restful>>
bounds == <<opens, requests, starts, work>>
vars == <<life, timers, shutdowns, tabs, calls, module, bounds>>

-----------------------------------------------------------------------------
(* Time *)

\* Counters stop where no guard or property tells larger values apart.
IdleCap == Timeout + Period + 1
AgeCap == IF Grace > Timeout THEN Grace ELSE Timeout + 1
Later(n, cap) == IF n < cap THEN n + 1 ELSE cap

-----------------------------------------------------------------------------
(* Start and end *)

\* What ends with a process.  The pages it served are followed no longer: the
\* user opens them again when the program runs again.
Gone ==
  /\ mounted' = <<>>
  /\ sleep' = 0 /\ idler' = "asleep" /\ idle' = 0
  /\ asked' = [t \in Tabs |-> "none"]
  /\ touched' = [t \in Tabs |-> FALSE]
  /\ left' = [t \in Tabs |-> 0]
  /\ poll' = {}
  /\ req' = [t \in Tabs |-> FALSE] /\ age' = [t \in Tabs |-> 0]
  /\ busy' = {} /\ restful' = Period + 1
  /\ open' = {} /\ due' = [t \in Tabs |-> 0]

Exit(how) ==
  /\ phase' = "off" /\ ended' = how
  /\ Gone
  /\ UNCHANGED bounds

Launch ==
  /\ phase = "off" /\ starts < MaxStarts
  /\ starts' = starts + 1
  /\ phase' = "rules"
  /\ UNCHANGED <<ended, mounted, timers, shutdowns, tabs, calls, module,
                 opens, requests, work>>

StartStep(from, to) ==
  /\ phase = from /\ phase' = to
  /\ UNCHANGED <<ended, mounted, timers, shutdowns, tabs, calls, module, bounds>>

RulesLoaded == StartStep("rules", "settings")

\* The settings are loaded and the files of the last directory; a failure of
\* either is a warning.
SettingsLoaded == StartStep("settings", "port")

PortFree == StartStep("port", "sweep")

BackupSwept == StartStep("sweep", "modules")

\* The next module of the list that is not disabled.
NextEnabled ==
  SelectSeq(Modules, LAMBDA m : m \in Configured)[Len(mounted) + 1]

AllMounted == Len(mounted) = Cardinality(Configured)

ModuleMounted ==
  /\ phase = "modules" /\ ~AllMounted
  /\ mounted' = Append(mounted, NextEnabled)
  /\ UNCHANGED <<phase, ended, timers, shutdowns, tabs, calls, module, bounds>>

ModulesBooted ==
  /\ AllMounted
  /\ StartStep("modules", "listen")

\* What is fatal in a start: a configuration, an engine or a rule that does
\* not load ("rules"), a port in use, a module that refuses its section, the
\* port taken since it was found free ("listen").
StartFails == phase \in {"rules", "port", "modules", "listen"} /\ Exit("fatal")

\* Server.New sets lastActivity a moment before the listener is up.
Listening ==
  /\ phase = "listen"
  /\ phase' = "serving"
  /\ idle' = 0 /\ sleep' = IF Timeout > 0 THEN Period ELSE 0
  /\ UNCHANGED <<ended, mounted, idler, shutdowns, tabs, calls, module, bounds>>

Killed == phase # "off" /\ Exit("killed")

-----------------------------------------------------------------------------
(* Requests *)

\* touchActivity, at the start of every wrapped handler.
Touch ==
  /\ idle' = 0
  /\ touched' = [t \in Tabs |-> asked[t] = "grace"]

OpenTab(t) ==
  /\ phase = "serving" /\ t \notin open /\ opens < MaxOpens
  /\ opens' = opens + 1
  /\ open' = open \cup {t}
  /\ due' = [due EXCEPT ![t] = Poll]
  /\ poll' = poll \cup {t}
  /\ UNCHANGED <<life, timers, shutdowns, calls, module, requests, starts, work>>

\* sendBeacon is best effort, and one shutdown of a tab is followed at a time.
BeaconSent(t) ==
  IF asked[t] = "none"
    THEN asked' = [asked EXCEPT ![t] = "sent"] \/ UNCHANGED asked
    ELSE UNCHANGED asked

\* pagehide.
CloseTab(t) ==
  /\ phase = "serving" /\ t \in open
  /\ open' = open \ {t}
  /\ due' = [due EXCEPT ![t] = 0]
  /\ BeaconSent(t)
  /\ UNCHANGED <<life, timers, touched, left, poll, calls, module, bounds>>

\* pagehide, and at once the page again.
ReloadTab(t) ==
  /\ phase = "serving" /\ t \in open /\ opens < MaxOpens
  /\ opens' = opens + 1
  /\ BeaconSent(t)
  /\ due' = [due EXCEPT ![t] = Poll]
  /\ poll' = poll \cup {t}
  /\ UNCHANGED <<life, timers, touched, left, open, calls, module,
                 requests, starts, work>>

\* The page stays until it is closed by hand, and polls on.
StopServer(t) ==
  /\ t \in open /\ phase = "serving" /\ asked[t] = "none"
  /\ asked' = [asked EXCEPT ![t] = "sent"]
  /\ UNCHANGED <<life, timers, touched, left, tabs, calls, module, bounds>>

PollSent(t) ==
  /\ phase = "serving" /\ t \in open /\ due[t] = 0
  /\ due' = [due EXCEPT ![t] = Poll]
  /\ poll' = poll \cup {t}
  /\ UNCHANGED <<life, timers, shutdowns, open, calls, module, bounds>>

\* GET /api/version.
PollServed(t) ==
  /\ phase = "serving" /\ t \in poll
  /\ poll' = poll \ {t}
  /\ Touch
  /\ UNCHANGED <<life, sleep, idler, asked, left, open, due, calls, module, bounds>>

\* A request of the user: a load, a query, an export.
RequestArrives(t) ==
  /\ phase = "serving" /\ t \in open /\ ~req[t]
  /\ requests < MaxRequests /\ requests' = requests + 1
  /\ req' = [req EXCEPT ![t] = TRUE]
  /\ Touch
  /\ UNCHANGED <<life, sleep, idler, asked, left, tabs, age, module, opens, starts, work>>

\* Its end is not an activity.
Replied(t) ==
  /\ req[t]
  /\ req' = [req EXCEPT ![t] = FALSE]
  /\ age' = [age EXCEPT ![t] = 0]
  /\ UNCHANGED <<life, timers, shutdowns, tabs, module, bounds>>

-----------------------------------------------------------------------------
(* Ways to end *)

\* A module's work does not touch LastActivity unless it says so.
WorkBegins(m) ==
  /\ phase = "serving" /\ m \in ToSet(mounted) \cap Watchers /\ m \notin busy
  /\ work < MaxWork /\ work' = work + 1
  /\ busy' = busy \cup {m}
  /\ UNCHANGED <<life, timers, shutdowns, tabs, calls, restful, opens, requests, starts>>

WorkEnds(m) ==
  /\ m \in busy
  /\ busy' = busy \ {m} /\ restful' = 0
  /\ UNCHANGED <<life, timers, shutdowns, tabs, calls, bounds>>

\* Bug (UnusedServerEnds): having a check counts as being busy.
IsBusyBug == ToSet(mounted) \cap Watchers # {}

\* One of the registered checks says so.
IsBusy == busy # {}

\* POST /api/shutdown: the answer is flushed ...
ShutdownAnswered(t) ==
  /\ phase = "serving" /\ asked[t] = "sent"
  /\ asked' = [asked EXCEPT ![t] = "answered"]
  /\ UNCHANGED <<life, timers, touched, left, tabs, calls, module, bounds>>

\* ... then LastActivity is read, and the grace begins.
GraceBegins(t) ==
  /\ asked[t] = "answered"
  /\ asked' = [asked EXCEPT ![t] = "grace"]
  /\ touched' = [touched EXCEPT ![t] = FALSE]
  /\ left' = [left EXCEPT ![t] = Grace]
  /\ UNCHANGED <<life, timers, tabs, calls, module, bounds>>

\* Bug (YoungRequestsSpared): the activity of the grace is not looked at.
GraceOverBug(t) ==
  /\ asked[t] = "grace" /\ left[t] = 0
  /\ asked' = [asked EXCEPT ![t] = "quiet"]
  /\ touched' = [touched EXCEPT ![t] = FALSE]
  /\ UNCHANGED <<life, timers, left, tabs, calls, module, bounds>>

\* A request since then cancels the shutdown ...
GraceOver(t) ==
  /\ asked[t] = "grace" /\ left[t] = 0
  /\ asked' = [asked EXCEPT ![t] = IF touched[t] THEN "none" ELSE "quiet"]
  /\ touched' = [touched EXCEPT ![t] = FALSE]
  /\ UNCHANGED <<life, timers, left, tabs, calls, module, bounds>>

\* ... and so does a busy module.
ShutdownCancelled(t) ==
  /\ asked[t] = "quiet" /\ IsBusy
  /\ asked' = [asked EXCEPT ![t] = "none"]
  /\ UNCHANGED <<life, timers, touched, left, tabs, calls, module, bounds>>

Shutdown(t) == asked[t] = "quiet" /\ ~IsBusy /\ Exit("shutdown")

IdleLoop == phase = "serving" /\ Timeout > 0

Sleep(how) ==
  /\ idler' = how
  /\ sleep' = Period
  /\ UNCHANGED <<life, idle, shutdowns, tabs, calls, module, bounds>>

\* The loop wakes; a busy module lets it sleep again.
IdleWakes ==
  /\ IdleLoop /\ idler = "asleep" /\ sleep = 0
  /\ Sleep(IF IsBusy THEN "asleep" ELSE "looked")

\* Bug (OpenPageKeepsServer): half the timeout is enough.
TooLongAgoBug == 2 * idle > Timeout

TooLongAgo == idle > Timeout

\* LastActivity is compared with the timeout.
IdleChecks ==
  /\ IdleLoop /\ idler = "looked"
  /\ Sleep(IF TooLongAgo THEN "exit" ELSE "asleep")

IdleExit == idler = "exit" /\ Exit("idle")

-----------------------------------------------------------------------------
(* Time *)

\* What happens within a unit of time happens before it has passed.
Urgent ==
  \/ poll # {}
  \/ \E t \in Tabs : asked[t] \in {"sent", "answered", "quiet"} \/ (asked[t] = "grace" /\ left[t] = 0)
  \/ \E t \in open : due[t] = 0
  \/ IdleLoop /\ (sleep = 0 \/ idler # "asleep")

Tick ==
  /\ ~Urgent
  /\ phase = "serving"
  /\ idle' = Later(idle, IdleCap)
  /\ sleep' = IF IdleLoop THEN sleep - 1 ELSE sleep
  /\ left' = [t \in Tabs |-> IF asked[t] = "grace" THEN left[t] - 1 ELSE 0]
  /\ due' = [t \in Tabs |-> IF t \in open THEN due[t] - 1 ELSE due[t]]
  /\ age' = [t \in Tabs |-> IF req[t] THEN Later(age[t], AgeCap) ELSE 0]
  /\ restful' = IF busy # {} THEN 0 ELSE Later(restful, Period + 1)
  /\ UNCHANGED <<life, idler, asked, touched, open, poll, req, busy, bounds>>

Init ==
  /\ phase = "off" /\ ended = "never" /\ mounted = <<>>
  /\ idle = 0 /\ sleep = 0 /\ idler = "asleep"
  /\ asked = [t \in Tabs |-> "none"] /\ touched = [t \in Tabs |-> FALSE]
  /\ left = [t \in Tabs |-> 0]
  /\ open = {} /\ due = [t \in Tabs |-> 0] /\ poll = {}
  /\ req = [t \in Tabs |-> FALSE] /\ age = [t \in Tabs |-> 0]
  /\ busy = {} /\ restful = Period + 1
  /\ opens = 0 /\ requests = 0 /\ starts = 0 /\ work = 0

Start ==
  \/ Launch \/ RulesLoaded \/ SettingsLoaded \/ PortFree \/ BackupSwept
  \/ ModuleMounted \/ ModulesBooted \/ StartFails \/ Listening

Browser(t) ==
  \/ OpenTab(t) \/ CloseTab(t) \/ ReloadTab(t) \/ StopServer(t) \/ PollSent(t)

Serve(t) ==
  \/ PollServed(t)
  \/ RequestArrives(t) \/ Replied(t)
  \/ ShutdownAnswered(t) \/ GraceBegins(t) \/ GraceOver(t)
  \/ ShutdownCancelled(t) \/ Shutdown(t)

Next ==
  \/ Start \/ Killed
  \/ \E t \in Tabs : Browser(t) \/ Serve(t)
  \/ \E m \in Watchers : WorkBegins(m) \/ WorkEnds(m)
  \/ IdleWakes \/ IdleChecks \/ IdleExit
  \/ Tick

Spec == Init /\ [][Next]_vars

-----------------------------------------------------------------------------
(* Properties *)

\* The program ends itself; a fatal error and a kill are not its choice.
EndsItself == phase = "serving" /\ phase' = "off" /\ ended' \in {"shutdown", "idle"}

\* When the program ends itself, the requests it cuts off are those that came in
\* at that very moment, after the last look at LastActivity, and those that have
\* been running for the grace, or longer than the timeout.  server.go: "if any activity
\* happens during the grace, we cancel".
YoungRequestsSpared ==
  [][EndsItself =>
       \A t \in Tabs : \/ ~req[t] \/ age[t] = 0
                      \/ age[t] >= (IF ended' = "shutdown" THEN Grace ELSE Timeout + 1)]_vars

\* The idle timer does not end the server under an open page, unless the page
\* was opened, or polls, at that very moment.  ARCHITECTURE.md: "an open tab
\* keeps it alive".
OpenPageKeepsServer ==
  [][EndsItself /\ ended' = "idle" => \A t \in open : due[t] = Poll]_vars

\* A server nobody uses is gone after the timeout and one sleep of the loop,
\* counted from the end of the last module's work if that is later.  main.go:
\* "a closed browser tab cleans up the process within ~3 minutes".
UnusedServerEnds ==
  phase = "serving" /\ Timeout > 0 /\ idle > Timeout + Period => restful <= Period

\* A shutdown asked for by one page does not end the server under another.
\* server.go: "closing one tab when another is still open shouldn't kill the
\* server".
OtherTabSurvives ==
  [][EndsItself /\ ended' = "shutdown" =>
       \A t \in open : asked[t] # "none"]_vars
=============================================================================
