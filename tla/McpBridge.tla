------------------------------ MODULE McpBridge ------------------------------
(***************************************************************************)
(* The MCP module (modules/mcp): an agent talks JSON-RPC over the standard *)
(* input and output of `kopusha mcp`, the bridge, which posts each message *)
(* to the endpoint of a viewer that runs by itself.  The agent may kill    *)
(* the bridge, which keeps nothing for the next one; the viewer comes and  *)
(* goes, with or without the module, and may come back in another version. *)
(*                                                                         *)
(* Abstractions.  A message is what the two sides tell apart: its kind, if *)
(* it has an id, and the arguments of a call.  Its id is its number.  The  *)
(* checks that a request comes from this machine always hold for a bridge, *)
(* but for the token.  Of the tools, those that only read the engine are   *)
(* one, "query"; load_directory is modelled file by file.                  *)
(*                                                                         *)
(* An operator whose name ends in Bug is a faulty variant of the one that  *)
(* follows it, for the property named in its comment.                      *)
(***************************************************************************)
EXTENDS Naturals, Sequences, SequencesExt

CONSTANTS
  Messages,     \* what the agent may send
  Builds,       \* viewers: [versions: supported, newest first; module; token; load]
  Token,        \* the token the bridge has
  Folder,       \* entries of the directory: [name, kind]
  MaxMessages,  \* bound on messages
  MaxEnds       \* bound on ends of viewers and bridges

\* A message: an id is there for "request" kinds only, peek says.
Requests == {"initialize", "ping", "query", "load", "unknown", "oldrpc", "big"}

Kinds == Requests \cup {"notification", "response", "nullid", "garbled", "batch",
                        "oldnote", "blank", "toolong"}

ASSUME BridgeAssumption ==
  /\ \A m \in Messages : m \in [kind: Kinds, version: STRING, good: BOOLEAN]
  /\ \A b \in Builds : b.versions \in Seq(STRING) \ {<<>>}
                       /\ {b.module, b.load} \subseteq BOOLEAN
  /\ Folder \in Seq([name: STRING, kind: {"log", "bad", "zip", "dir"}])
  /\ {MaxMessages, MaxEnds} \subseteq Nat

VARIABLES
  sent,     \* messages the agent wrote, all of them
  stdin,    \* numbers of those the bridge has not read
  eof,      \* the agent closed the bridge's input
  bridge,   \* "read", "post", or "ended" at the end of its input, or "killed"
  msg,      \* number of the message at hand, or 0
  version,  \* protocolVersion, or ""
  stdout,   \* replies, in order
  viewer,   \* its build, or Down
  call,     \* the HTTP request: its progress, the message, the files to go
  reply,    \* the HTTP response
  ends      \* viewers and bridges ended

vars == <<sent, stdin, eof, bridge, msg, version, stdout, viewer, call, reply, ends>>

agent == <<sent, stdin, eof>>

Down == [versions |-> <<>>]

NoCall == [at |-> "none", n |-> 0, todo |-> <<>>, loaded |-> {}, errors |-> {}, gone |-> FALSE]

\* A response: what post makes of it.
NoReply == [is |-> "none", n |-> 0, what |-> "none", version |-> "", loaded |-> {}, errors |-> {}]

Init ==
  /\ sent = <<>> /\ stdin = <<>> /\ eof = FALSE
  /\ bridge = "read" /\ msg = 0 /\ version = "" /\ stdout = <<>>
  /\ viewer \in Builds \cup {Down} /\ call = NoCall /\ reply = NoReply
  /\ ends = 0

-----------------------------------------------------------------------------
\* The agent.

Send ==
  /\ bridge \in {"read", "post"} /\ ~eof /\ Len(sent) < MaxMessages
  /\ \E m \in Messages : sent' = Append(sent, m)
  /\ stdin' = Append(stdin, Len(sent) + 1)
  /\ UNCHANGED <<eof, bridge, msg, version, stdout, viewer, call, reply, ends>>

CloseInput ==
  /\ ~eof /\ bridge \in {"read", "post"} /\ eof' = TRUE
  /\ UNCHANGED <<sent, stdin, bridge, msg, version, stdout, viewer, call, reply, ends>>

\* The bridge is killed, at any moment: the viewer finds its client gone.
KillBridge ==
  /\ bridge \in {"read", "post"} /\ ends < MaxEnds /\ ends' = ends + 1
  /\ bridge' = "killed" /\ reply' = NoReply
  /\ call' = [call EXCEPT !.gone = call.at # "none"]
  /\ UNCHANGED <<agent, msg, version, stdout, viewer>>

-----------------------------------------------------------------------------
\* The viewer.

StartViewer ==
  /\ viewer = Down /\ viewer' \in Builds
  /\ UNCHANGED <<agent, bridge, msg, version, stdout, call, reply, ends>>

\* Its end takes the call with it, whatever that had done.
EndViewer ==
  /\ viewer # Down /\ ends < MaxEnds /\ ends' = ends + 1
  /\ viewer' = Down /\ call' = NoCall
  /\ reply' = IF call.at # "none" /\ ~call.gone THEN [NoReply EXCEPT !.is = "lost"] ELSE reply
  /\ UNCHANGED <<agent, bridge, msg, version, stdout>>

\* A response; if the client is gone nobody reads it.
Answer(r) == reply' = (IF call.gone THEN NoReply ELSE r) /\ call' = NoCall

Rpc(n, what) == [NoReply EXCEPT !.is = "rpc", !.n = n, !.what = what]

\* The id of a message, 0 being null.
IdOf(n) == IF sent[n].kind \in Requests THEN n ELSE 0

\* initialize: the version the client asks for, or the newest.
Negotiated(v) == IF v \in Range(viewer.versions) THEN v ELSE viewer.versions[1]

\* dispatch, but for load_directory; the version header was the bridge's.
Dispatch(n) ==
  LET m == sent[n] IN
  CASE m.kind = "initialize" ->
         [Rpc(n, "result") EXCEPT !.version = Negotiated(m.version)]
    [] m.kind = "ping" -> Rpc(n, "result")
    [] m.kind = "query" -> Rpc(n, IF m.good THEN "result" ELSE "toolError")
    [] m.kind = "load" /\ ~viewer.load -> Rpc(n, "error")
    [] m.kind = "load" /\ viewer.load /\ ~m.good -> Rpc(n, "toolError")
    [] m.kind \in {"unknown", "nullid"} -> Rpc(IdOf(n), "error")

\* A call that loads the directory.
Loading(n) == viewer.module /\ sent[n].kind = "load" /\ sent[n].good /\ viewer.load

Refusal == [NoReply EXCEPT !.is = "refused"]

\* The checks of ServeHTTP before a message is dispatched, in their order, with
\* the answer of the first that fails; "none" if all hold.
Checked(n) ==
  LET kind == sent[n].kind IN
  CASE ~viewer.module -> [NoReply EXCEPT !.is = "html"]
    [] viewer.module /\ viewer.token # "" /\ viewer.token # Token -> Refusal
    [] OTHER ->
       CASE version # "" /\ version \notin Range(viewer.versions) -> Refusal
         [] OTHER ->
            CASE kind = "big" -> Refusal
              [] kind \in {"batch", "garbled", "oldnote"} -> Rpc(0, "error")
              [] kind = "oldrpc" -> Rpc(n, "error")
              [] kind \in {"notification", "response"} -> [NoReply EXCEPT !.is = "accepted"]
              [] OTHER -> NoReply

\* ServeHTTP: a message is answered at once, or the directory is opened.
ServeHTTP ==
  /\ call.at = "sent"
  /\ \/ /\ Checked(call.n) # NoReply
        /\ Answer(Checked(call.n))
     \/ /\ Checked(call.n) = NoReply /\ ~Loading(call.n)
        /\ Answer(Dispatch(call.n))
     \/ /\ Checked(call.n) = NoReply /\ Loading(call.n)
        /\ call' = [call EXCEPT !.at = "running", !.todo = Folder]
        /\ UNCHANGED reply
  /\ UNCHANGED <<agent, bridge, msg, version, stdout, viewer, ends>>

\* loadDirectory: the next entry, if the client is still there.
\* Bug, for LoadsAccounted: an archive is passed over like a directory.
LoadNextBug ==
  /\ call.at = "running" /\ call.todo # <<>> /\ ~call.gone
  /\ LET e == call.todo[1] IN
     \/ /\ e.kind \in {"dir", "zip"}
        /\ call' = [call EXCEPT !.todo = Tail(@)]
     \/ /\ e.kind = "bad"
        /\ call' = [call EXCEPT !.todo = Tail(@), !.errors = @ \cup {e.name}]
     \/ /\ e.kind = "log"
        /\ call' = [call EXCEPT !.todo = Tail(@), !.loaded = @ \cup {e.name}]
  /\ UNCHANGED <<agent, bridge, msg, version, stdout, viewer, reply, ends>>

LoadNext ==
  /\ call.at = "running" /\ call.todo # <<>> /\ ~call.gone
  /\ LET e == call.todo[1] IN
     \/ /\ e.kind = "dir"
        /\ call' = [call EXCEPT !.todo = Tail(@)]
     \/ /\ e.kind \in {"bad", "zip"}
        /\ call' = [call EXCEPT !.todo = Tail(@), !.errors = @ \cup {e.name}]
     \/ /\ e.kind = "log"
        /\ call' = [call EXCEPT !.todo = Tail(@), !.loaded = @ \cup {e.name}]
  /\ UNCHANGED <<agent, bridge, msg, version, stdout, viewer, reply, ends>>

\* The end of the directory, or the client is gone.
LoadEnds ==
  /\ call.at = "running" /\ (call.todo = <<>> \/ call.gone)
  /\ Answer([Rpc(call.n, "result") EXCEPT !.loaded = call.loaded, !.errors = call.errors])
  /\ UNCHANGED <<agent, bridge, msg, version, stdout, viewer, ends>>

-----------------------------------------------------------------------------
\* The bridge.

Write(r) == stdout' = Append(stdout, r)

\* errorReply: its code is codeUnreachable.
Unreachable(n) == Rpc(n, "unreachable")

\* Bug, for RequestsAnswered: a line that is too long ends the bridge.
ReadLineBug ==
  /\ bridge = "read" /\ stdin # <<>>
  /\ stdin' = Tail(stdin)
  /\ LET n == stdin[1] IN
     \/ /\ sent[n].kind = "blank"
        /\ UNCHANGED <<bridge, msg, stdout, call, reply>>
     \/ /\ sent[n].kind = "toolong"
        /\ bridge' = "ended" /\ UNCHANGED <<msg, stdout, call, reply>>
     \/ /\ sent[n].kind \notin {"blank", "toolong"}
        /\ bridge' = "post" /\ msg' = n
        /\ \/ viewer = Down /\ reply' = [NoReply EXCEPT !.is = "lost"] /\ UNCHANGED call
           \/ viewer # Down /\ call' = [NoCall EXCEPT !.at = "sent", !.n = n] /\ UNCHANGED reply
        /\ UNCHANGED stdout
  /\ UNCHANGED <<sent, eof, version, viewer, ends>>

\* Run: the next line.  One over maxLine is answered for, its id being lost.
ReadLine ==
  /\ bridge = "read" /\ stdin # <<>>
  /\ stdin' = Tail(stdin)
  /\ LET n == stdin[1] IN
     \/ /\ sent[n].kind = "blank"
        /\ UNCHANGED <<bridge, msg, stdout, call, reply>>
     \/ /\ sent[n].kind = "toolong"
        /\ Write(Unreachable(0)) /\ UNCHANGED <<bridge, msg, call, reply>>
     \/ /\ sent[n].kind \notin {"blank", "toolong"}
        /\ bridge' = "post" /\ msg' = n
        /\ \/ viewer = Down /\ reply' = [NoReply EXCEPT !.is = "lost"] /\ UNCHANGED call
           \/ viewer # Down /\ call' = [NoCall EXCEPT !.at = "sent", !.n = n] /\ UNCHANGED reply
        /\ UNCHANGED stdout
  /\ UNCHANGED <<sent, eof, version, viewer, ends>>

\* peek: what cannot be parsed, a batch too, is answered for with a null id.
IsRequest(n) == sent[n].kind \in Requests \cup {"garbled", "batch"}

\* forward: the response as it came, or an error for a request without one; for
\* a notification nothing.
\* Bug, for RepliesMatch: a refused request is not answered for.
ForwardBug ==
  /\ bridge = "post" /\ reply.is # "none"
  /\ \/ reply.is = "rpc" /\ Write(reply)
     \/ reply.is # "rpc" /\ UNCHANGED stdout
  /\ version' = IF sent[msg].kind = "initialize" /\ reply.is = "rpc" /\ reply.version # ""
                THEN reply.version ELSE version
  /\ bridge' = "read" /\ msg' = 0 /\ reply' = NoReply
  /\ UNCHANGED <<agent, viewer, call, ends>>

Forward ==
  /\ bridge = "post" /\ reply.is # "none"
  /\ \/ reply.is = "rpc" /\ Write(reply)
     \/ reply.is \in {"lost", "refused", "html"} /\ IsRequest(msg) /\ Write(Unreachable(IdOf(msg)))
     \/ reply.is = "accepted" /\ UNCHANGED stdout
     \/ reply.is \in {"lost", "refused", "html"} /\ ~IsRequest(msg) /\ UNCHANGED stdout
  /\ version' = IF sent[msg].kind = "initialize" /\ reply.is = "rpc" /\ reply.version # ""
                THEN reply.version ELSE version
  /\ bridge' = "read" /\ msg' = 0 /\ reply' = NoReply
  /\ UNCHANGED <<agent, viewer, call, ends>>

\* Run returns at the end of its input.
EndOfInput ==
  /\ bridge = "read" /\ stdin = <<>> /\ eof
  /\ bridge' = "ended"
  /\ UNCHANGED <<agent, msg, version, stdout, viewer, call, reply, ends>>

Next ==
  \/ Send \/ CloseInput \/ KillBridge \/ StartViewer \/ EndViewer
  \/ ServeHTTP \/ LoadNext \/ LoadEnds \/ ReadLine \/ Forward \/ EndOfInput

Spec == Init /\ [][Next]_vars

\* The bridge goes on while it has something to do, and a viewer that runs
\* answers: nothing is asked of the agent, nor of who starts viewers.
Fairness ==
  /\ WF_vars(ReadLine) /\ WF_vars(Forward)
  /\ WF_vars(ServeHTTP) /\ WF_vars(LoadNext) /\ WF_vars(LoadEnds)

FairSpec == Spec /\ Fairness

-----------------------------------------------------------------------------
\* Properties.

\* The messages the bridge has done with.
Handled == DOMAIN sent \ (Range(stdin) \cup {msg})

Of(kinds) == {n \in Handled : sent[n].kind \in kinds}

\* On standard output there is one reply to each request handled, with its id and
\* in the order of the requests, whatever became of the viewer (bridge.go:
\* "rather than leave a request waiting forever").  A message whose id cannot be
\* read has a reply with a null id, and no other has but one that a viewer refused
\* for having none; a notification has no reply.
RepliesMatch ==
  LET nulls == Cardinality({i \in DOMAIN stdout : stdout[i].n = 0}) IN
  /\ {stdout[i].n : i \in DOMAIN stdout} \ {0} = Of(Requests)
  /\ \A i, j \in DOMAIN stdout :
       i < j /\ stdout[i].n # 0 /\ stdout[j].n # 0 => stdout[i].n < stdout[j].n
  /\ Cardinality(Of({"garbled", "batch", "toolong"})) <= nulls
  /\ nulls <= Cardinality(Of({"garbled", "batch", "toolong", "nullid", "oldnote"}))

\* A load_directory that succeeded tells of every file of the directory if it was
\* loaded or not, and no archive was (tools.go, loadDirectory).
LoadsAccounted ==
  \A i \in DOMAIN stdout :
    (stdout[i].n # 0 /\ sent[stdout[i].n].kind = "load" /\ stdout[i].what = "result") =>
      LET OfKind(kinds) == {e.name : e \in {f \in Range(Folder) : f.kind \in kinds}} IN
      /\ stdout[i].loaded = OfKind({"log"})
      /\ stdout[i].errors = OfKind({"bad", "zip"})

Answered(n) == \E i \in DOMAIN stdout : stdout[i].n = n

\* Every request is answered in the end, if the agent does not kill the bridge:
\* the bridge never exits over what the viewer does (bridge.go: "rather than the
\* bridge exiting and leaving the agent with a dead pipe").
RequestsAnswered ==
  \A n \in 1 .. MaxMessages :
    (n \in DOMAIN sent /\ sent[n].kind \in Requests) ~> (Answered(n) \/ bridge = "killed")
===============================================================================
