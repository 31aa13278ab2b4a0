---------------------------- MODULE McpBridgeProofs ----------------------------
(***************************************************************************)
(* Theorems about McpBridge, for every directory, every set of messages    *)
(* and of viewers, and any number of ends of either side.                  *)
(***************************************************************************)
EXTENDS McpBridge, FiniteSetTheorems, TLAPS

\* The names of the entries of q that are of these kinds.
NamesOf(q, kinds) == {e.name : e \in {f \in Range(q) : f.kind \in kinds}}

\* The numbers of the messages, and 0.
Numbers == 0 .. Len(sent)

-----------------------------------------------------------------------------
(* What is at hand.  A message is known by its number while the bridge reads *)
(* on and the agent writes on, no line that is not posted is in a call, and  *)
(* a call is with a viewer that runs.                                        *)

Call == [at: {"none", "sent", "running"}, n: Nat, todo: Seq(Range(Folder)),
         loaded: SUBSET STRING, errors: SUBSET STRING, gone: BOOLEAN]

Outcomes == {"none", "lost", "refused", "html", "accepted", "rpc"}

Whats == {"none", "result", "error", "toolError", "unreachable"}

Response == [is: Outcomes, n: Nat, what: Whats, version: STRING \cup {""},
             loaded: SUBSET STRING, errors: SUBSET STRING]

AtHand ==
  /\ sent \in Seq(Messages)
  /\ stdin \in Seq(Numbers \ {0})
  /\ msg \in Numbers
  /\ bridge = "post" => msg # 0
  /\ viewer \in Builds \cup {Down}
  /\ call \in Call
  /\ call.n \in Numbers
  /\ call.at # "none" =>
       viewer # Down /\ call.n # 0 /\ sent[call.n].kind \notin {"blank", "toolong"}
  /\ reply \in Response
  /\ stdout \in Seq(Response)

-----------------------------------------------------------------------------
(* The entries of the directory.  Each is told of, or still to be looked at. *)

Split ==
  /\ call.at = "sent" => call.loaded = {} /\ call.errors = {}
  /\ call.at = "running" =>
       /\ sent[call.n].kind = "load"
       /\ call.loaded \cup NamesOf(call.todo, {"log"}) = NamesOf(Folder, {"log"})
       /\ call.errors \cup NamesOf(call.todo, {"bad", "zip"}) = NamesOf(Folder, {"bad", "zip"})

\* A response, on its way or written, tells of all of them.
Complete(r) ==
  /\ r.n \in Numbers
  /\ r.n # 0 /\ sent[r.n].kind = "load" /\ r.what = "result" =>
       r.loaded = NamesOf(Folder, {"log"}) /\ r.errors = NamesOf(Folder, {"bad", "zip"})

RepliesInv ==
  /\ Complete(reply)
  /\ \A i \in DOMAIN stdout : Complete(stdout[i])

-----------------------------------------------------------------------------
(* The directory *)

LEMMA EntryTyped ==
  ASSUME NEW e \in Range(Folder)
  PROVE  e.name \in STRING /\ e.kind \in {"log", "bad", "zip", "dir"}
<1>1. PICK i \in DOMAIN Folder : e = Folder[i]
  BY DEF Range
<1>2. PICK S : S = [name: STRING, kind: {"log", "bad", "zip", "dir"}]
  OBVIOUS
<1>3. Folder \in Seq(S)
  BY <1>2, BridgeAssumption DEF BridgeAssumption
<1>4. e \in S
  BY <1>1, <1>3
<1> QED
  BY <1>2, <1>4

\* What is left of the names when the first entry is taken.
LEMMA NamesOfTail ==
  ASSUME NEW q \in Seq(Range(Folder)), q # <<>>, NEW kinds
  PROVE  /\ q[1] \in Range(Folder) /\ Tail(q) \in Seq(Range(Folder))
         /\ q[1].kind \in kinds => NamesOf(q, kinds) = {q[1].name} \cup NamesOf(Tail(q), kinds)
         /\ q[1].kind \notin kinds => NamesOf(q, kinds) = NamesOf(Tail(q), kinds)
<1>1. q[1] \in Range(Folder) /\ Tail(q) \in Seq(Range(Folder))
  OBVIOUS
<1>2. Range(q) = {q[1]} \cup Range(Tail(q))
  <2>1. Len(q) \in Nat /\ Len(q) >= 1 /\ DOMAIN q = 1..Len(q)
    OBVIOUS
  <2>2. DOMAIN Tail(q) = 1..(Len(q) - 1) /\ \A i \in 1..(Len(q) - 1) : Tail(q)[i] = q[i + 1]
    BY <2>1
  <2>3. \A i \in 2..Len(q) : i - 1 \in 1..(Len(q) - 1) /\ q[i] = Tail(q)[i - 1]
    BY <2>1, <2>2
  <2>4. ASSUME NEW x \in Range(q) PROVE x \in {q[1]} \cup Range(Tail(q))
    <3>1. PICK i \in 1..Len(q) : x = q[i]
      BY <2>1 DEF Range
    <3>2. i = 1 \/ i \in 2..Len(q)
      BY <2>1
    <3> QED
      BY <2>2, <2>3, <3>1, <3>2 DEF Range
  <2>5. ASSUME NEW x \in Range(Tail(q)) PROVE x \in Range(q)
    <3>1. PICK i \in 1..(Len(q) - 1) : x = Tail(q)[i]
      BY <2>2 DEF Range
    <3>2. i + 1 \in 1..Len(q)
      BY <2>1
    <3> QED
      BY <2>1, <2>2, <3>1, <3>2 DEF Range
  <2>6. q[1] \in Range(q)
    BY <2>1 DEF Range
  <2> QED
    BY <2>4, <2>5, <2>6
<1>3. q[1].kind \in kinds =>
        {f \in Range(q) : f.kind \in kinds} = {q[1]} \cup {f \in Range(Tail(q)) : f.kind \in kinds}
  BY <1>2
<1>4. q[1].kind \notin kinds =>
        {f \in Range(q) : f.kind \in kinds} = {f \in Range(Tail(q)) : f.kind \in kinds}
  BY <1>2
<1> QED
  BY <1>1, <1>3, <1>4 DEF NamesOf

LEMMA NamesOfNone == \A kinds : NamesOf(<<>>, kinds) = {}
BY DEF NamesOf, Range

LEMMA FolderTyped == Folder \in Seq(Range(Folder))
<1>1. PICK S : Folder \in Seq(S)
  BY BridgeAssumption DEF BridgeAssumption
<1>2. Len(Folder) \in Nat /\ DOMAIN Folder = 1..Len(Folder)
      /\ Folder = [i \in 1..Len(Folder) |-> Folder[i]]
  BY <1>1
<1>3. \A i \in 1..Len(Folder) : Folder[i] \in Range(Folder)
  BY <1>2 DEF Range
<1> QED
  BY <1>2, <1>3

-----------------------------------------------------------------------------
(* Responses *)

LEMMA NoReplyFields ==
  /\ NoReply \in Response /\ NoReply.n = 0 /\ NoReply.what = "none" /\ NoReply.is = "none"
BY DEF NoReply, Response, Outcomes, Whats

LEMMA RpcFields ==
  ASSUME NEW n \in Nat, NEW what \in Whats
  PROVE  /\ Rpc(n, what) \in Response /\ Rpc(n, what).n = n /\ Rpc(n, what).what = what
         /\ Rpc(n, what).is = "rpc"
BY DEF Rpc, NoReply, Response, Outcomes, Whats

\* The viewer that has a call is one of the builds.
LEMMA ViewerTyped ==
  ASSUME AtHand, call.at # "none"
  PROVE  /\ viewer.versions \in Seq(STRING) \ {<<>>}
         /\ viewer.module \in BOOLEAN /\ viewer.load \in BOOLEAN
BY BridgeAssumption DEF AtHand, BridgeAssumption

\* The checks answer with an error at most.
LEMMA CheckedTyped ==
  ASSUME NEW n \in Nat
  PROVE  Checked(n) \in Response /\ Checked(n).n \in {0, n} /\ Checked(n).what # "result"
<1>1. ASSUME NEW x \in Outcomes
      PROVE  LET r == [NoReply EXCEPT !.is = x]
             IN  r \in Response /\ r.n = 0 /\ r.what = "none"
  BY DEF NoReply, Response, Outcomes, Whats
<1>2. Refusal \in Response /\ Refusal.n = 0 /\ Refusal.what = "none"
  BY <1>1 DEF Refusal, Outcomes
<1>3. \A k \in {0, n} : /\ Rpc(k, "error") \in Response /\ Rpc(k, "error").n = k
                        /\ Rpc(k, "error").what = "error"
  BY RpcFields DEF Whats
<1>4. \/ Checked(n) \in {[NoReply EXCEPT !.is = "html"], [NoReply EXCEPT !.is = "accepted"]}
      \/ Checked(n) \in {Refusal, NoReply, Rpc(0, "error"), Rpc(n, "error")}
  BY DEF Checked
<1>5. {"html", "accepted"} \subseteq Outcomes
  BY DEF Outcomes
<1> QED
  BY <1>1, <1>2, <1>3, <1>4, <1>5, NoReplyFields

\* A message that passes the checks.
LEMMA PassedKind ==
  ASSUME AtHand, call.at = "sent", Checked(call.n) = NoReply
  PROVE  /\ viewer.module
         /\ sent[call.n].kind \in {"initialize", "ping", "query", "load", "unknown", "nullid"}
<1> DEFINE kind == sent[call.n].kind
<1>1. kind \in Kinds \ {"blank", "toolong"}
  BY BridgeAssumption DEF AtHand, BridgeAssumption, Numbers
<1>2. \A n \in Nat : Rpc(n, "error") # NoReply
  BY RpcFields, NoReplyFields DEF Whats
<1>3. /\ [NoReply EXCEPT !.is = "html"] # NoReply /\ [NoReply EXCEPT !.is = "accepted"] # NoReply
      /\ Refusal # NoReply
  BY DEF NoReply, Refusal
<1>4. call.n \in Nat
  BY DEF AtHand, Call
<1>5. viewer.module
  BY <1>3, ViewerTyped DEF Checked
<1>6. ~(viewer.token # "" /\ viewer.token # Token)
  BY <1>3, <1>5 DEF Checked
<1>7. ~(version # "" /\ version \notin Range(viewer.versions))
  BY <1>3, <1>5, <1>6 DEF Checked
<1>8. kind \notin {"big", "batch", "garbled", "oldnote", "oldrpc", "notification", "response"}
  BY <1>2, <1>3, <1>4, <1>5, <1>6, <1>7 DEF Checked
<1> QED
  BY <1>1, <1>5, <1>8 DEF Kinds, Requests

\* What dispatch answers at once; never with the result of a load.
LEMMA DispatchTyped ==
  ASSUME AtHand, call.at = "sent", Checked(call.n) = NoReply, ~Loading(call.n)
  PROVE  /\ Dispatch(call.n) \in Response /\ Dispatch(call.n).n \in {0, call.n}
         /\ sent[call.n].kind = "load" => Dispatch(call.n).what # "result"
<1> DEFINE n == call.n
           m == sent[n]
<1>1. n \in Nat /\ IdOf(n) \in {0, n}
  BY DEF AtHand, Call, IdOf
<1>2. m.kind \in {"initialize", "ping", "query", "load", "unknown", "nullid"} /\ viewer.module
  BY PassedKind
<1>3. m.version \in STRING /\ m.good \in BOOLEAN
  BY BridgeAssumption DEF AtHand, BridgeAssumption, Numbers
<1>4. \A k \in {0, n}, x \in {"result", "error", "toolError"} :
        Rpc(k, x) \in Response /\ Rpc(k, x).n = k /\ Rpc(k, x).what = x
  BY <1>1, RpcFields DEF Whats
<1>5. CASE m.kind = "initialize"
  <2>1. Negotiated(m.version) \in STRING
    BY <1>3, ViewerTyped DEF Negotiated
  <2>2. LET r == [Rpc(n, "result") EXCEPT !.version = Negotiated(m.version)]
        IN  r \in Response /\ r.n = n
    BY <1>1, <2>1 DEF Rpc, NoReply, Response, Outcomes, Whats
  <2>3. Dispatch(n) = [Rpc(n, "result") EXCEPT !.version = Negotiated(m.version)]
    BY <1>5 DEF Dispatch
  <2> QED
    BY <1>5, <2>2, <2>3
<1>6. CASE m.kind \in {"ping", "query"}
  <2>1. Dispatch(n) \in {Rpc(n, "result"), Rpc(n, "toolError")}
    BY <1>6 DEF Dispatch
  <2> QED
    BY <1>4, <1>6, <2>1
<1>7. CASE m.kind = "load"
  <2>1. ~viewer.load \/ ~m.good
    BY <1>2, <1>7 DEF Loading
  <2>2. Dispatch(n) \in {Rpc(n, "error"), Rpc(n, "toolError")}
    BY <1>3, <1>7, <2>1, ViewerTyped DEF Dispatch
  <2> QED
    BY <1>4, <2>2
<1>8. CASE m.kind \in {"unknown", "nullid"}
  <2>1. Dispatch(n) = Rpc(IdOf(n), "error")
    BY <1>8 DEF Dispatch
  <2> QED
    BY <1>1, <1>4, <1>8, <2>1
<1> QED
  BY <1>2, <1>5, <1>6, <1>7, <1>8

-----------------------------------------------------------------------------
(* Messages keep their numbers. *)

Kept ==
  /\ sent' \in Seq(Messages)
  /\ Numbers \subseteq Numbers'
  /\ \A n \in Numbers \ {0} : sent'[n] = sent[n]

LEMMA SentKept ==
  ASSUME AtHand, [Next]_vars
  PROVE  Kept
<1>1. ASSUME UNCHANGED sent PROVE Kept
  BY <1>1 DEF Kept, AtHand, Numbers
<1>2. CASE Send
  <2>1. PICK m \in Messages : sent' = Append(sent, m)
    BY <1>2 DEF Send
  <2>2. sent \in Seq(Messages) /\ Len(sent) \in Nat
    BY DEF AtHand
  <2>3. sent' \in Seq(Messages) /\ Len(sent') = Len(sent) + 1
    BY <2>1, <2>2
  <2>4. \A n \in 1..Len(sent) : sent'[n] = sent[n]
    BY <2>1, <2>2
  <2>5. Numbers \subseteq Numbers' /\ Numbers \ {0} \subseteq 1..Len(sent)
    BY <2>2, <2>3 DEF Numbers
  <2> QED
    BY <2>3, <2>4, <2>5 DEF Kept
<1>3. CASE UNCHANGED vars
  BY <1>1, <1>3 DEF vars
<1>4. ASSUME Next, ~Send PROVE UNCHANGED sent
  BY <1>4 DEF Next, CloseInput, KillBridge, StartViewer, EndViewer, ServeHTTP, LoadNext,
     LoadEnds, ReadLine, Forward, EndOfInput, agent
<1> QED
  BY <1>1, <1>2, <1>3, <1>4

\* What a response tells stays told.
LEMMA CompleteKept ==
  ASSUME Kept, NEW r, Complete(r)
  PROVE  Complete(r)'
BY DEF Kept, Complete

-----------------------------------------------------------------------------
(* What is at hand, step by step *)

LEMMA NoCallTyped == NoCall \in Call /\ NoCall.at = "none" /\ NoCall.n = 0
BY FolderTyped DEF NoCall, Call

\* A line of input, a message and a call, whatever the agent adds.
LEMMA HandKept ==
  ASSUME AtHand, Kept, UNCHANGED <<bridge, msg, viewer, call, reply, stdout>>,
         stdin' \in Seq(Numbers' \ {0})
  PROVE  AtHand'
BY DEF AtHand, Kept

\* An answer ends the call.
LEMMA AnswerTyped ==
  ASSUME NEW r \in Response, Answer(r)
  PROVE  call' = NoCall /\ reply' \in {NoReply, r} /\ reply' \in Response
BY NoReplyFields DEF Answer

LEMMA StdinGrows ==
  ASSUME AtHand, Kept
  PROVE  stdin \in Seq(Numbers' \ {0})
<1>1. Numbers \ {0} \subseteq Numbers' \ {0}
  BY DEF Kept
<1>2. stdin \in Seq(Numbers \ {0})
  BY DEF AtHand
<1>3. ASSUME NEW S, NEW T, S \subseteq T, NEW q \in Seq(S) PROVE q \in Seq(T)
  <2>1. q = [i \in 1..Len(q) |-> q[i]] /\ Len(q) \in Nat /\ \A i \in 1..Len(q) : q[i] \in T
    BY <1>3
  <2> QED
    BY <2>1
<1> QED
  BY <1>1, <1>2, <1>3

\* The first line, and those that follow it.
LEMMA FirstLine ==
  ASSUME AtHand, stdin # <<>>
  PROVE  stdin[1] \in Numbers \ {0} /\ Tail(stdin) \in Seq(Numbers \ {0})
BY DEF AtHand

LEMMA AtHandInit == Init => AtHand
<1> SUFFICES ASSUME Init PROVE AtHand
  OBVIOUS
<1>1. Numbers = {0}
  <2>1. sent = <<>>
    BY DEF Init
  <2>2. Len(<<>>) = 0
    OBVIOUS
  <2>3. 0..0 = {0}
    BY SMT
  <2> QED
    BY <2>1, <2>2, <2>3 DEF Numbers
<1>2. \A S : <<>> \in Seq(S)
  OBVIOUS
<1> QED
  BY <1>1, <1>2, NoCallTyped, NoReplyFields DEF Init, AtHand

LEMMA AtHandStep ==
  ASSUME AtHand, Split, [Next]_vars
  PROVE  AtHand'
<1>0. Kept /\ stdin \in Seq(Numbers' \ {0})
  BY SentKept, StdinGrows
<1>1. CASE Send
  <2>1. Len(sent) + 1 \in Numbers' \ {0}
    BY <1>1 DEF Send, AtHand, Numbers
  <2>2. stdin' \in Seq(Numbers' \ {0})
    BY <1>0, <1>1, <2>1 DEF Send
  <2> QED
    BY <1>0, <1>1, <2>2, HandKept DEF Send
<1>2. ASSUME CloseInput \/ UNCHANGED vars PROVE AtHand'
  <2>1. UNCHANGED <<bridge, msg, viewer, call, reply, stdout, stdin>>
    BY <1>2 DEF CloseInput, vars
  <2> QED
    BY <1>0, <2>1, HandKept
<1>3. CASE KillBridge
  <2>1. /\ UNCHANGED <<sent, stdin, msg, stdout, viewer>> /\ bridge' = "killed"
        /\ reply' = NoReply /\ call' = [call EXCEPT !.gone = call.at # "none"]
    BY <1>3 DEF KillBridge, agent
  <2>2. call' \in Call /\ call'.at = call.at /\ call'.n = call.n
    BY <2>1 DEF AtHand, Call
  <2> QED
    BY <2>1, <2>2, NoReplyFields DEF AtHand, Numbers
<1>4. CASE StartViewer
  <2>1. /\ UNCHANGED <<sent, stdin, msg, stdout, bridge, call, reply>>
        /\ viewer = Down /\ viewer' \in Builds
    BY <1>4 DEF StartViewer, agent
  <2> QED
    BY <2>1 DEF AtHand, Numbers
<1>5. CASE EndViewer
  <2>1. /\ UNCHANGED <<sent, stdin, msg, stdout, bridge>> /\ viewer' = Down /\ call' = NoCall
        /\ reply' \in {reply, [NoReply EXCEPT !.is = "lost"]}
    BY <1>5 DEF EndViewer, agent
  <2>2. [NoReply EXCEPT !.is = "lost"] \in Response
    BY DEF NoReply, Response, Outcomes, Whats
  <2>3. reply' \in Response
    BY <2>1, <2>2 DEF AtHand
  <2> QED
    BY <2>1, <2>3, NoCallTyped DEF AtHand, Numbers
<1>6. CASE ServeHTTP
  <2>1. call.at = "sent" /\ UNCHANGED <<sent, stdin, msg, stdout, bridge, viewer>>
    BY <1>6 DEF ServeHTTP, agent
  <2>2. ASSUME NEW r \in Response, Answer(r) PROVE AtHand'
    BY <2>1, <2>2, AnswerTyped, NoCallTyped DEF AtHand, Numbers
  <2>3. call.n \in Nat
    BY DEF AtHand, Call
  <2>4. CASE Checked(call.n) = NoReply /\ Loading(call.n)
                /\ call' = [call EXCEPT !.at = "running", !.todo = Folder] /\ UNCHANGED reply
    <3>1. call' \in Call /\ call'.n = call.n
      BY <2>4, FolderTyped DEF AtHand, Call
    <3> QED
      BY <2>1, <2>4, <3>1 DEF AtHand, Numbers
  <2> QED
    BY <1>6, <2>1, <2>2, <2>3, <2>4, CheckedTyped, DispatchTyped DEF ServeHTTP
<1>7. CASE LoadNext
  <2>1. /\ UNCHANGED <<sent, stdin, msg, stdout, bridge, viewer, reply>>
        /\ call.at = "running" /\ call.todo # <<>>
    BY <1>7 DEF LoadNext, agent
  <2>2. call \in Call /\ call.todo \in Seq(Range(Folder))
    BY DEF AtHand, Call
  <2>3. call.todo[1].name \in STRING /\ Tail(call.todo) \in Seq(Range(Folder))
    BY <2>1, <2>2, NamesOfTail, EntryTyped
  <2> DEFINE With(loaded, errors) ==
               [call EXCEPT !.todo = Tail(call.todo), !.loaded = loaded, !.errors = errors]
  <2>4. call.loaded \in SUBSET STRING /\ call.errors \in SUBSET STRING
    BY <2>2 DEF Call
  <2>5. \A loaded, errors \in SUBSET STRING :
          /\ With(loaded, errors) \in Call
          /\ With(loaded, errors).at = call.at /\ With(loaded, errors).n = call.n
    BY <2>2, <2>3 DEF Call
  <2>6. \/ call' = [call EXCEPT !.todo = Tail(@)]
        \/ call' = [call EXCEPT !.todo = Tail(@), !.errors = @ \cup {call.todo[1].name}]
        \/ call' = [call EXCEPT !.todo = Tail(@), !.loaded = @ \cup {call.todo[1].name}]
    BY <1>7 DEF LoadNext
  <2>7. \/ call' = With(call.loaded, call.errors)
        \/ call' = With(call.loaded, call.errors \cup {call.todo[1].name})
        \/ call' = With(call.loaded \cup {call.todo[1].name}, call.errors)
    BY <2>2, <2>6 DEF Call
  <2>8. /\ call.loaded \cup {call.todo[1].name} \in SUBSET STRING
        /\ call.errors \cup {call.todo[1].name} \in SUBSET STRING
    BY <2>3, <2>4
  <2> HIDE DEF With
  <2>9. call' \in Call /\ call'.at = call.at /\ call'.n = call.n
    BY <2>4, <2>5, <2>7, <2>8
  <2> QED
    BY <2>1, <2>9 DEF AtHand, Numbers
<1>8. CASE LoadEnds
  <2>1. UNCHANGED <<sent, stdin, msg, stdout, bridge, viewer>>
    BY <1>8 DEF LoadEnds, agent
  <2>2. PICK r : r = [Rpc(call.n, "result") EXCEPT !.loaded = call.loaded,
                                                   !.errors = call.errors]
    OBVIOUS
  <2>3. r \in Response /\ Answer(r)
    BY <1>8, <2>2 DEF LoadEnds, AtHand, Call, Rpc, NoReply, Response, Outcomes, Whats
  <2> QED
    BY <2>1, <2>3, AnswerTyped, NoCallTyped DEF AtHand, Numbers
<1>9. CASE ReadLine
  <2>1. stdin # <<>> /\ stdin' = Tail(stdin) /\ UNCHANGED <<sent, viewer>>
    BY <1>9 DEF ReadLine
  <2>2. PICK n \in Numbers \ {0} : n = stdin[1]
    BY <2>1, FirstLine
  <2>3. stdin' \in Seq(Numbers' \ {0})
    BY <2>1, FirstLine DEF Numbers
  <2>4. CASE UNCHANGED <<bridge, msg, stdout, call, reply>>
    BY <2>1, <2>3, <2>4 DEF AtHand, Numbers
  <2>5. CASE Write(Unreachable(0)) /\ UNCHANGED <<bridge, msg, call, reply>>
    <3>1. Unreachable(0) \in Response
      BY RpcFields DEF Unreachable, Whats
    <3>2. stdout' \in Seq(Response)
      BY <2>5, <3>1 DEF Write, AtHand
    <3> QED
      BY <2>1, <2>3, <2>5, <3>2 DEF AtHand, Numbers
  <2>6. CASE /\ sent[n].kind \notin {"blank", "toolong"}
             /\ bridge' = "post" /\ msg' = n /\ UNCHANGED stdout
             /\ \/ viewer = Down /\ reply' = [NoReply EXCEPT !.is = "lost"] /\ UNCHANGED call
                \/ /\ viewer # Down /\ call' = [NoCall EXCEPT !.at = "sent", !.n = n]
                   /\ UNCHANGED reply
    <3>1. [NoReply EXCEPT !.is = "lost"] \in Response
      BY DEF NoReply, Response, Outcomes, Whats
    <3>2. n \in Nat
      BY DEF AtHand, Numbers
    <3>3. LET c == [NoCall EXCEPT !.at = "sent", !.n = n]
          IN  c \in Call /\ c.n = n /\ c.at = "sent"
      BY <3>2, NoCallTyped DEF Call
    <3> QED
      BY <2>1, <2>3, <2>6, <3>1, <3>3 DEF AtHand, Numbers
  <2> QED
    BY <1>9, <2>2, <2>4, <2>5, <2>6 DEF ReadLine
<1>10. CASE Forward
  <2>1. /\ bridge = "post" /\ UNCHANGED <<sent, stdin, viewer, call>>
        /\ bridge' = "read" /\ msg' = 0 /\ reply' = NoReply
    BY <1>10 DEF Forward, agent
  <2>2. IdOf(msg) \in Nat
    BY DEF AtHand, IdOf, Numbers
  <2>3. Unreachable(IdOf(msg)) \in Response
    BY <2>2, RpcFields DEF Unreachable, Whats
  <2>4. stdout' \in {stdout, Append(stdout, reply), Append(stdout, Unreachable(IdOf(msg)))}
    BY <1>10 DEF Forward, Write
  <2>5. reply \in Response /\ stdout \in Seq(Response)
    BY DEF AtHand
  <2>6. stdout' \in Seq(Response)
    BY <2>3, <2>4, <2>5
  <2> QED
    BY <2>1, <2>6, NoReplyFields DEF AtHand, Numbers
<1>11. CASE EndOfInput
  BY <1>11 DEF EndOfInput, AtHand, Numbers, agent
<1> QED
  BY <1>1, <1>2, <1>3, <1>4, <1>5, <1>6, <1>7, <1>8, <1>9, <1>10, <1>11 DEF Next

-----------------------------------------------------------------------------
(* The entries of the directory, step by step *)

LEMMA SplitStep ==
  ASSUME AtHand, Split, [Next]_vars
  PROVE  Split'
<1>0. Kept
  BY SentKept
<1>1. ASSUME call'.at = call.at, call'.n = call.n, call'.todo = call.todo,
             call'.loaded = call.loaded, call'.errors = call.errors
      PROVE  Split'
  BY <1>0, <1>1 DEF AtHand, Split, Kept
<1>2. ASSUME call'.at = "none" PROVE Split'
  BY <1>2 DEF Split
<1>3. ASSUME UNCHANGED call PROVE Split'
  BY <1>1, <1>3
<1>4. CASE KillBridge
  <2>1. call' = [call EXCEPT !.gone = call.at # "none"] /\ call \in Call
    BY <1>4 DEF KillBridge, AtHand
  <2> QED
    BY <1>1, <2>1 DEF Call
<1>5. CASE EndViewer
  BY <1>2, <1>5, NoCallTyped DEF EndViewer
<1>6. CASE ServeHTTP
  <2>1. call.at = "sent" /\ call \in Call
    BY <1>6 DEF ServeHTTP, AtHand
  <2>2. CASE call' = NoCall
    BY <1>2, <2>2, NoCallTyped
  <2>3. CASE Loading(call.n) /\ call' = [call EXCEPT !.at = "running", !.todo = Folder]
    <3>1. /\ call'.n = call.n /\ call'.todo = Folder
          /\ call'.loaded = call.loaded /\ call'.errors = call.errors
      BY <2>1, <2>3 DEF Call
    <3>2. call.loaded = {} /\ call.errors = {} /\ call'.at = "running"
      BY <2>1, <2>3 DEF Split, Call
    <3>3. sent'[call.n].kind = "load"
      BY <1>0, <2>1, <2>3 DEF Kept, AtHand, Loading
    <3> QED
      BY <3>1, <3>2, <3>3 DEF Split
  <2> QED
    BY <1>6, <2>2, <2>3 DEF ServeHTTP, Answer
<1>7. CASE LoadNext
  <2>1. call.at = "running" /\ call \in Call /\ call.todo # <<>> /\ sent' = sent
    BY <1>7 DEF LoadNext, AtHand, agent
  <2>2. PICK e : e = call.todo[1]
    OBVIOUS
  <2>3. call.todo \in Seq(Range(Folder))
    BY <2>1 DEF Call
  <2>4. \A kinds :
          /\ e.kind \in kinds =>
               NamesOf(call.todo, kinds) = {e.name} \cup NamesOf(Tail(call.todo), kinds)
          /\ e.kind \notin kinds => NamesOf(call.todo, kinds) = NamesOf(Tail(call.todo), kinds)
    BY <2>1, <2>2, <2>3, NamesOfTail
  <2>5. /\ e.kind = "log" =>
             /\ NamesOf(call.todo, {"log"}) = {e.name} \cup NamesOf(Tail(call.todo), {"log"})
             /\ NamesOf(call.todo, {"bad", "zip"}) = NamesOf(Tail(call.todo), {"bad", "zip"})
        /\ e.kind \in {"bad", "zip"} =>
             /\ NamesOf(call.todo, {"log"}) = NamesOf(Tail(call.todo), {"log"})
             /\ NamesOf(call.todo, {"bad", "zip"})
                  = {e.name} \cup NamesOf(Tail(call.todo), {"bad", "zip"})
        /\ e.kind = "dir" =>
             /\ NamesOf(call.todo, {"log"}) = NamesOf(Tail(call.todo), {"log"})
             /\ NamesOf(call.todo, {"bad", "zip"}) = NamesOf(Tail(call.todo), {"bad", "zip"})
    BY <2>4
  <2>6. /\ sent[call.n].kind = "load"
        /\ call.loaded \cup NamesOf(call.todo, {"log"}) = NamesOf(Folder, {"log"})
        /\ call.errors \cup NamesOf(call.todo, {"bad", "zip"}) = NamesOf(Folder, {"bad", "zip"})
    BY <2>1 DEF Split
  <2>7. /\ call'.at = "running" /\ call'.n = call.n /\ call'.todo = Tail(call.todo)
        /\ \/ e.kind = "dir" /\ call'.loaded = call.loaded /\ call'.errors = call.errors
           \/ /\ e.kind \in {"bad", "zip"} /\ call'.loaded = call.loaded
              /\ call'.errors = call.errors \cup {e.name}
           \/ /\ e.kind = "log" /\ call'.loaded = call.loaded \cup {e.name}
              /\ call'.errors = call.errors
    BY <1>7, <2>1, <2>2 DEF LoadNext, Call
  <2>8. /\ call'.loaded \cup NamesOf(call'.todo, {"log"}) = NamesOf(Folder, {"log"})
        /\ call'.errors \cup NamesOf(call'.todo, {"bad", "zip"}) = NamesOf(Folder, {"bad", "zip"})
    <3>1. CASE e.kind = "dir" /\ call'.loaded = call.loaded /\ call'.errors = call.errors
      BY <2>5, <2>6, <2>7, <3>1
    <3>2. CASE /\ e.kind \in {"bad", "zip"} /\ call'.loaded = call.loaded
               /\ call'.errors = call.errors \cup {e.name}
      BY <2>5, <2>6, <2>7, <3>2
    <3>3. CASE /\ e.kind = "log" /\ call'.loaded = call.loaded \cup {e.name}
               /\ call'.errors = call.errors
      BY <2>5, <2>6, <2>7, <3>3
    <3> QED
      BY <2>7, <3>1, <3>2, <3>3
  <2> QED
    BY <2>1, <2>6, <2>7, <2>8 DEF Split
<1>8. CASE LoadEnds
  BY <1>2, <1>8, NoCallTyped DEF LoadEnds, Answer
<1>9. CASE ReadLine
  <2>1. UNCHANGED call \/ \E n \in Nat : call' = [NoCall EXCEPT !.at = "sent", !.n = n]
    <3>1. stdin[1] \in Nat
      BY <1>9, FirstLine DEF ReadLine, Numbers
    <3> QED
      BY <1>9, <3>1 DEF ReadLine
  <2>2. ASSUME NEW n \in Nat, call' = [NoCall EXCEPT !.at = "sent", !.n = n] PROVE Split'
    BY <2>2 DEF NoCall, Split
  <2> QED
    BY <1>3, <2>1, <2>2
<1>10. ASSUME Send \/ CloseInput \/ StartViewer \/ Forward \/ EndOfInput \/ UNCHANGED vars
       PROVE  UNCHANGED call
  BY <1>10 DEF Send, CloseInput, StartViewer, Forward, EndOfInput, vars
<1> QED
  BY <1>3, <1>4, <1>5, <1>6, <1>7, <1>8, <1>9, <1>10 DEF Next

-----------------------------------------------------------------------------
(* The responses, step by step *)

LEMMA RepliesStep ==
  ASSUME AtHand, Split, RepliesInv, [Next]_vars
  PROVE  RepliesInv'
<1>0. Kept /\ Complete(reply) /\ (\A i \in DOMAIN stdout : Complete(stdout[i]))
      /\ reply \in Response /\ stdout \in Seq(Response)
  BY SentKept DEF RepliesInv, AtHand
<1>1. \A r : Complete(r) => Complete(r)'
  BY <1>0, CompleteKept
\* What does not say "result" says nothing of the directory.
<1>2. ASSUME NEW r \in Response, r.n \in Numbers, r.what # "result" PROVE Complete(r)
  BY <1>2 DEF Complete
<1>3. ASSUME NEW r, UNCHANGED stdout, Complete(r), reply' = r PROVE RepliesInv'
  BY <1>0, <1>1, <1>3 DEF RepliesInv
<1>4. ASSUME NEW r \in Response, Complete(r), stdout' = Append(stdout, r), Complete(reply')
      PROVE  RepliesInv'
  <2>1. DOMAIN stdout' = 1..(Len(stdout) + 1) /\ Len(stdout) \in Nat /\ DOMAIN stdout = 1..Len(stdout)
    BY <1>0, <1>4
  <2>2. /\ \A i \in DOMAIN stdout : stdout'[i] = stdout[i]
        /\ stdout'[Len(stdout) + 1] = r
    BY <1>0, <1>4
  <2>3. \A i \in DOMAIN stdout' : i \in DOMAIN stdout \/ i = Len(stdout) + 1
    BY <2>1
  <2>4. \A i \in DOMAIN stdout' : Complete(stdout'[i])
    BY <1>0, <1>4, <2>2, <2>3
  <2> QED
    BY <1>1, <1>4, <2>4 DEF RepliesInv
<1>5. Complete(NoReply) /\ NoReply \in Response
  BY <1>2, NoReplyFields DEF Numbers, AtHand
<1>6. [NoReply EXCEPT !.is = "lost"] \in Response /\ Complete([NoReply EXCEPT !.is = "lost"])
  <2>1. LET r == [NoReply EXCEPT !.is = "lost"]
        IN  r \in Response /\ r.n = 0 /\ r.what = "none"
    BY DEF NoReply, Response, Outcomes, Whats
  <2>2. 0 \in Numbers
    BY DEF AtHand, Numbers
  <2>3. PICK r : r = [NoReply EXCEPT !.is = "lost"]
    OBVIOUS
  <2>4. r \in Response /\ Complete(r)
    BY <1>2, <2>1, <2>2, <2>3
  <2> QED
    BY <2>3, <2>4
<1>7. ASSUME NEW n \in Numbers
      PROVE  Unreachable(n) \in Response /\ Complete(Unreachable(n))
  <2>1. n \in Nat
    BY DEF Numbers
  <2>2. /\ Unreachable(n) \in Response /\ Unreachable(n).n = n
        /\ Unreachable(n).what = "unreachable"
    BY <2>1, RpcFields DEF Unreachable, Whats
  <2> QED
    BY <1>2, <2>2
<1>8. ASSUME NEW r, Answer(r), Complete(r), UNCHANGED stdout PROVE RepliesInv'
  BY <1>3, <1>5, <1>8 DEF Answer
<1>9. ASSUME UNCHANGED <<stdout, reply>> PROVE RepliesInv'
  BY <1>0, <1>3, <1>9
<1>10. ASSUME \/ Send \/ CloseInput \/ StartViewer \/ EndOfInput \/ LoadNext \/ UNCHANGED vars
       PROVE  RepliesInv'
  BY <1>9, <1>10 DEF Send, CloseInput, StartViewer, EndOfInput, LoadNext, vars
<1>11. CASE KillBridge
  BY <1>3, <1>5, <1>11 DEF KillBridge
<1>12. CASE EndViewer
  BY <1>0, <1>3, <1>6, <1>12 DEF EndViewer
<1>13. CASE ServeHTTP
  <2>1. call.at = "sent" /\ call.n \in Nat /\ call.n \in Numbers /\ UNCHANGED stdout
    BY <1>13 DEF ServeHTTP, AtHand, Call
  <2>2. Complete(Checked(call.n))
    BY <1>2, <2>1, CheckedTyped DEF Numbers
  <2>3. ASSUME Checked(call.n) = NoReply, ~Loading(call.n) PROVE Complete(Dispatch(call.n))
    <3>1. /\ Dispatch(call.n).n \in {0, call.n}
          /\ sent[call.n].kind = "load" => Dispatch(call.n).what # "result"
      BY <2>1, <2>3, DispatchTyped
    <3>2. 0 \in Numbers
      BY DEF AtHand, Numbers
    <3> QED
      BY <2>1, <3>1, <3>2 DEF Complete
  <2> QED
    BY <1>8, <1>9, <1>13, <2>1, <2>2, <2>3 DEF ServeHTTP
<1>14. CASE LoadEnds
  <2>1. call.at = "running" /\ call \in Call /\ call.n \in Numbers /\ UNCHANGED stdout
    BY <1>14 DEF LoadEnds, AtHand
  <2>2. CASE call.gone
    BY <1>3, <1>5, <1>14, <2>1, <2>2 DEF LoadEnds, Answer
  <2>3. CASE ~call.gone
    <3>1. PICK r : r = [Rpc(call.n, "result") EXCEPT !.loaded = call.loaded,
                                                     !.errors = call.errors]
      OBVIOUS
    <3>2. Answer(r) /\ call.todo = <<>>
      BY <1>14, <2>3, <3>1 DEF LoadEnds
    <3>3. /\ call.loaded = NamesOf(Folder, {"log"})
          /\ call.errors = NamesOf(Folder, {"bad", "zip"})
      BY <2>1, <3>2, NamesOfNone DEF Split
    <3>4. r.n = call.n /\ r.loaded = call.loaded /\ r.errors = call.errors
      BY <3>1 DEF Rpc, NoReply
    <3>5. Complete(r)
      BY <2>1, <3>3, <3>4 DEF Complete
    <3> QED
      BY <1>8, <2>1, <3>2, <3>5
  <2> QED
    BY <2>2, <2>3
<1>15. CASE ReadLine
  <2>1. \/ UNCHANGED <<stdout, reply>>
        \/ stdout' = Append(stdout, Unreachable(0)) /\ UNCHANGED reply
        \/ UNCHANGED stdout /\ reply' = [NoReply EXCEPT !.is = "lost"]
    BY <1>15 DEF ReadLine, Write
  <2>2. 0 \in Numbers
    BY DEF AtHand, Numbers
  <2> QED
    BY <1>0, <1>3, <1>4, <1>6, <1>7, <1>9, <2>1, <2>2
<1>16. CASE Forward
  <2>1. reply' = NoReply
    BY <1>16 DEF Forward
  <2>2. IdOf(msg) \in Numbers
    BY DEF AtHand, IdOf, Numbers
  <2>3. stdout' \in {stdout, Append(stdout, reply), Append(stdout, Unreachable(IdOf(msg)))}
    BY <1>16 DEF Forward, Write
  <2> QED
    BY <1>0, <1>3, <1>4, <1>5, <1>7, <2>1, <2>2, <2>3
<1> QED
  BY <1>10, <1>11, <1>12, <1>13, <1>14, <1>15, <1>16 DEF Next

\* An agent that is told a directory was loaded is told of each of its files, once the
\* viewer has gone through all of them: no end of the viewer or of the bridge, and no
\* request before or after, leaves it with the result of a part (loadDirectory).
THEOREM EveryFileToldOf == Spec => []LoadsAccounted
<1> DEFINE IInv == AtHand /\ Split /\ RepliesInv
<1>1. Init => IInv
  <2>1. Init => AtHand
    BY AtHandInit
  <2>2. Init => Split
    BY NoCallTyped DEF Init, Split
  <2>3. Init => RepliesInv
    <3> SUFFICES ASSUME Init PROVE RepliesInv
      OBVIOUS
    <3>1. reply = NoReply /\ stdout = <<>>
      BY DEF Init
    <3>2. DOMAIN <<>> = {}
      OBVIOUS
    <3>3. 0 \in Numbers
      BY <2>1 DEF Numbers, AtHand
    <3>4. Complete(reply)
      BY <3>1, <3>3, NoReplyFields DEF Complete
    <3> QED
      BY <3>1, <3>2, <3>4 DEF RepliesInv
  <2> QED
    BY <2>1, <2>2, <2>3
<1>2. IInv /\ [Next]_vars => IInv'
  BY AtHandStep, SplitStep, RepliesStep
<1>3. IInv => LoadsAccounted
  BY DEF RepliesInv, Complete, LoadsAccounted, NamesOf
<1> QED
  BY <1>1, <1>2, <1>3, PTL DEF Spec

-----------------------------------------------------------------------------
(* Whose turn it is.  The bridge has read the first messages, one after the  *)
(* other; it has one at hand while it posts it, and then there is its call,  *)
(* or its response, and no other.                                            *)

ReadSoFar == Len(sent) - Len(stdin)

\* The response to message n says its number or, where that cannot be known, null.
Answers(r, n) ==
  /\ r.is = "rpc" =>
       \/ sent[n].kind \in Requests /\ r.n = n
       \/ sent[n].kind \in {"garbled", "batch", "nullid", "oldnote"} /\ r.n = 0
  /\ r.is = "accepted" => sent[n].kind \in {"notification", "response"}

Turn ==
  /\ Len(stdin) <= Len(sent)
  /\ \A i \in DOMAIN stdin : stdin[i] = ReadSoFar + i
  /\ bridge \in {"read", "post", "ended", "killed"}
  /\ bridge \in {"read", "ended"} =>
       msg = 0 /\ call.at = "none" /\ ~call.gone /\ reply.is = "none"
  /\ bridge = "post" =>
       /\ msg = ReadSoFar /\ sent[msg].kind \notin {"blank", "toolong"}
       /\ ~call.gone /\ Answers(reply, msg)
       /\ call.at # "none" => call.n = msg /\ reply.is = "none"
  /\ bridge = "killed" =>
       /\ msg \in {0, ReadSoFar} /\ reply.is = "none"
       /\ call.at # "none" => call.gone

\* What the bridge has not read are the last messages.
LEMMA Unread ==
  ASSUME NEW len \in Nat, NEW q \in Seq(Nat), Len(q) <= len,
         \A i \in DOMAIN q : q[i] = len - Len(q) + i
  PROVE  \A m : (1..len) \ (Range(q) \cup {m}) = (1..(len - Len(q))) \ {m}
<1>1. Len(q) \in Nat /\ DOMAIN q = 1..Len(q)
  OBVIOUS
<1>2. ASSUME NEW n \in 1..len
      PROVE  n \in Range(q) <=> n > len - Len(q)
  <2>1. ASSUME n > len - Len(q) PROVE n \in Range(q)
    <3>1. n - (len - Len(q)) \in 1..Len(q)
      BY <1>1, <2>1
    <3>2. q[n - (len - Len(q))] = n
      BY <1>1, <3>1
    <3> QED
      BY <1>1, <3>1, <3>2 DEF Range
  <2>2. ASSUME n \in Range(q) PROVE n > len - Len(q)
    <3>1. PICK i \in 1..Len(q) : n = q[i]
      BY <1>1, <2>2 DEF Range
    <3>2. n = len - Len(q) + i
      BY <1>1, <3>1
    <3> QED
      BY <1>1, <3>1, <3>2
  <2> QED
    BY <2>1, <2>2
<1>3. 1..(len - Len(q)) = {n \in 1..len : ~(n > len - Len(q))}
  BY <1>1
<1>4. (1..len) \ Range(q) = 1..(len - Len(q))
  BY <1>2, <1>3
<1> QED
  BY <1>4

LEMMA HandledNow ==
  ASSUME AtHand, Turn
  PROVE  Handled = (1..ReadSoFar) \ {msg}
<1>1. Len(sent) \in Nat /\ DOMAIN sent = 1..Len(sent)
  BY DEF AtHand
<1>2. stdin \in Seq(Nat)
  BY <1>1 DEF AtHand, Numbers
<1>3. \A m : (1..Len(sent)) \ (Range(stdin) \cup {m}) = (1..(Len(sent) - Len(stdin))) \ {m}
  BY <1>1, <1>2, Unread DEF Turn, ReadSoFar
<1> QED
  BY <1>1, <1>3 DEF Handled, ReadSoFar

LEMMA HandledThen ==
  ASSUME AtHand', Turn'
  PROVE  Handled' = (1..ReadSoFar') \ {msg'}
<1>1. Len(sent') \in Nat /\ DOMAIN sent' = 1..Len(sent')
  BY DEF AtHand
<1>2. stdin' \in Seq(Nat)
  BY <1>1 DEF AtHand, Numbers
<1>3. \A m : (1..Len(sent')) \ (Range(stdin') \cup {m}) = (1..(Len(sent') - Len(stdin'))) \ {m}
  BY <1>1, <1>2, Unread DEF Turn, ReadSoFar
<1> QED
  BY <1>1, <1>3 DEF Handled, ReadSoFar

-----------------------------------------------------------------------------
(* Answers are to the message they are for. *)

LEMMA CheckedAnswers ==
  ASSUME AtHand, call.at = "sent", Checked(call.n) # NoReply
  PROVE  Answers(Checked(call.n), call.n)
<1> DEFINE n == call.n
           kind == sent[n].kind
<1>1. n \in Nat
  BY DEF AtHand, Call
<1>2. \A k \in {0, n} : Rpc(k, "error").n = k /\ Rpc(k, "error").is = "rpc"
  BY <1>1, RpcFields DEF Whats
<1>3. /\ [NoReply EXCEPT !.is = "html"].is = "html"
      /\ [NoReply EXCEPT !.is = "accepted"].is = "accepted"
      /\ Refusal.is = "refused"
  BY DEF NoReply, Refusal
<1>4. \/ Checked(n) \in {[NoReply EXCEPT !.is = "html"], Refusal}
      \/ kind \in {"batch", "garbled", "oldnote"} /\ Checked(n) = Rpc(0, "error")
      \/ kind = "oldrpc" /\ Checked(n) = Rpc(n, "error")
      \/ /\ kind \in {"notification", "response"}
         /\ Checked(n) = [NoReply EXCEPT !.is = "accepted"]
  BY DEF Checked
<1> QED
  BY <1>2, <1>3, <1>4 DEF Answers, Requests

LEMMA DispatchAnswers ==
  ASSUME AtHand, call.at = "sent", Checked(call.n) = NoReply, ~Loading(call.n)
  PROVE  Answers(Dispatch(call.n), call.n)
<1> DEFINE n == call.n
           m == sent[n]
<1>1. n \in Nat
  BY DEF AtHand, Call
<1>2. m.kind \in {"initialize", "ping", "query", "load", "unknown", "nullid"} /\ viewer.module
  BY PassedKind
<1>3. \A k \in {0, n}, x \in {"result", "error", "toolError"} :
        Rpc(k, x).n = k /\ Rpc(k, x).is = "rpc"
  BY <1>1, RpcFields DEF Whats
<1>4. CASE m.kind = "initialize"
  <2>1. \A v : LET r == [Rpc(n, "result") EXCEPT !.version = v] IN r.n = n /\ r.is = "rpc"
    BY DEF Rpc, NoReply
  <2>2. Dispatch(n) = [Rpc(n, "result") EXCEPT !.version = Negotiated(m.version)]
    BY <1>4 DEF Dispatch
  <2> QED
    BY <1>4, <2>1, <2>2 DEF Answers, Requests
<1>5. CASE m.kind \in {"ping", "query"}
  <2>1. Dispatch(n) \in {Rpc(n, "result"), Rpc(n, "toolError")}
    BY <1>5 DEF Dispatch
  <2> QED
    BY <1>3, <1>5, <2>1 DEF Answers, Requests
<1>6. CASE m.kind = "load"
  <2>1. m.good \in BOOLEAN
    BY BridgeAssumption DEF AtHand, BridgeAssumption, Numbers
  <2>2. ~viewer.load \/ ~m.good
    BY <1>2, <1>6 DEF Loading
  <2>3. Dispatch(n) \in {Rpc(n, "error"), Rpc(n, "toolError")}
    BY <1>6, <2>1, <2>2, ViewerTyped DEF Dispatch
  <2> QED
    BY <1>3, <1>6, <2>3 DEF Answers, Requests
<1>7. CASE m.kind \in {"unknown", "nullid"}
  <2>1. Dispatch(n) = Rpc(IdOf(n), "error")
    BY <1>7 DEF Dispatch
  <2>2. IdOf(n) = IF m.kind = "unknown" THEN n ELSE 0
    BY <1>7 DEF IdOf, Requests
  <2> QED
    BY <1>3, <1>7, <2>1, <2>2 DEF Answers, Requests
<1> QED
  BY <1>2, <1>4, <1>5, <1>6, <1>7

-----------------------------------------------------------------------------
(* Turns, step by step *)

LEMMA TurnInit == Init => Turn
<1> SUFFICES ASSUME Init PROVE Turn
  OBVIOUS
<1>1. Len(<<>>) = 0 /\ DOMAIN <<>> = {}
  OBVIOUS
<1>2. sent = <<>> /\ stdin = <<>>
  BY DEF Init
<1>3. Len(stdin) <= Len(sent) /\ \A i \in DOMAIN stdin : stdin[i] = ReadSoFar + i
  BY <1>1, <1>2
<1> QED
  BY <1>3, NoCallTyped, NoReplyFields DEF Init, Turn, NoCall

\* The messages and what is read of them stay.
LEMMA InputKept ==
  ASSUME AtHand, Turn, UNCHANGED <<sent, stdin>>
  PROVE  /\ (Len(stdin) <= Len(sent))' /\ ReadSoFar' = ReadSoFar
         /\ \A i \in DOMAIN stdin' : stdin'[i] = ReadSoFar' + i
BY DEF Turn, ReadSoFar

LEMMA InputSent ==
  ASSUME AtHand, Turn, Send
  PROVE  /\ (Len(stdin) <= Len(sent))' /\ ReadSoFar' = ReadSoFar
         /\ \A i \in DOMAIN stdin' : stdin'[i] = ReadSoFar' + i
<1>1. PICK m \in Messages : sent' = Append(sent, m)
  BY DEF Send
<1>2. stdin' = Append(stdin, Len(sent) + 1)
  BY DEF Send
<1>3. /\ sent \in Seq(Messages) /\ stdin \in Seq(Numbers \ {0})
      /\ Len(sent) \in Nat /\ Len(stdin) \in Nat
  BY DEF AtHand
<1>4. Len(sent') = Len(sent) + 1
  BY <1>1, <1>3
<1>5. Len(stdin') = Len(stdin) + 1 /\ DOMAIN stdin' = 1..(Len(stdin) + 1)
  BY <1>2, <1>3
<1>6. ReadSoFar' = ReadSoFar
  BY <1>3, <1>4, <1>5 DEF ReadSoFar
<1>7. ASSUME NEW i \in 1..(Len(stdin) + 1) PROVE stdin'[i] = ReadSoFar + i
  <2>1. CASE i \in 1..Len(stdin)
    BY <1>2, <1>3, <2>1 DEF Turn
  <2>2. CASE i = Len(stdin) + 1
    BY <1>2, <1>3, <2>2 DEF ReadSoFar
  <2> QED
    BY <1>3, <2>1, <2>2
<1> QED
  BY <1>3, <1>4, <1>5, <1>6, <1>7 DEF Turn

LEMMA InputRead ==
  ASSUME AtHand, Turn, stdin # <<>>, stdin' = Tail(stdin), UNCHANGED sent
  PROVE  /\ (Len(stdin) <= Len(sent))' /\ ReadSoFar' = ReadSoFar + 1
         /\ \A i \in DOMAIN stdin' : stdin'[i] = ReadSoFar' + i
         /\ stdin[1] = ReadSoFar + 1 /\ ReadSoFar \in Nat
<1>1. stdin \in Seq(Numbers \ {0}) /\ Len(sent) \in Nat /\ Len(stdin) \in Nat /\ Len(stdin) >= 1
  BY DEF AtHand
<1>2. Len(stdin') = Len(stdin) - 1 /\ DOMAIN stdin' = 1..(Len(stdin) - 1)
  BY <1>1
<1>3. \A i \in 1..(Len(stdin) - 1) : stdin'[i] = stdin[i + 1] /\ i + 1 \in DOMAIN stdin
  BY <1>1
<1>4. ReadSoFar \in Nat /\ ReadSoFar' = ReadSoFar + 1
  BY <1>1, <1>2 DEF ReadSoFar, Turn
<1>5. 1 \in DOMAIN stdin
  BY <1>1
<1> QED
  BY <1>1, <1>2, <1>3, <1>4, <1>5 DEF Turn

\* What becomes of the turn when the input is as it was.
LEMMA TurnStep ==
  ASSUME AtHand, AtHand', Split, Turn, [Next]_vars
  PROVE  Turn'
<1>0. Kept
  BY SentKept
<1>1. CASE Send
  <2>1. UNCHANGED <<bridge, msg, call, reply>>
    BY <1>1 DEF Send
  <2>2. bridge = "post" => msg \in Numbers \ {0} /\ sent'[msg] = sent[msg]
    BY <1>0 DEF AtHand, Kept
  <2>3. bridge = "post" => Answers(reply, msg)'
    BY <2>1, <2>2 DEF Turn, Answers
  <2> QED
    BY <1>1, <2>1, <2>2, <2>3, InputSent DEF Turn
<1>2. ASSUME CloseInput \/ StartViewer \/ LoadNext \/ UNCHANGED vars PROVE Turn'
  <2>1. UNCHANGED <<sent, stdin, bridge, msg, reply>>
    BY <1>2 DEF CloseInput, StartViewer, LoadNext, vars, agent
  <2>2. call'.at = call.at /\ call'.n = call.n /\ call'.gone = call.gone
    BY <1>2 DEF CloseInput, StartViewer, LoadNext, vars, AtHand, Call
  <2> QED
    BY <2>1, <2>2, InputKept DEF Turn, Answers
<1>3. CASE KillBridge
  <2>1. /\ UNCHANGED <<sent, stdin, msg>> /\ bridge' = "killed" /\ reply' = NoReply
        /\ call' = [call EXCEPT !.gone = call.at # "none"] /\ bridge \in {"read", "post"}
    BY <1>3 DEF KillBridge, agent
  <2>2. call'.at = call.at /\ call'.gone = (call.at # "none")
    BY <2>1 DEF AtHand, Call
  <2> QED
    BY <2>1, <2>2, InputKept, NoReplyFields DEF Turn
<1>4. ASSUME NEW r, UNCHANGED <<sent, stdin, bridge, msg>>, call.at # "none", call' = NoCall,
             reply' = IF call.gone THEN NoReply ELSE r, Answers(r, call.n)
      PROVE  Turn'
  <2>1. bridge \in {"post", "killed"}
    BY <1>4 DEF Turn
  <2>2. CASE bridge = "post"
    <3>1. ~call.gone /\ call.n = msg /\ reply' = r
      BY <1>4, <2>2 DEF Turn
    <3>2. Answers(reply, msg)'
      BY <1>4, <3>1 DEF Answers
    <3> QED
      BY <1>4, <2>2, <3>1, <3>2, InputKept, NoCallTyped DEF Turn, NoCall
  <2>3. CASE bridge = "killed"
    <3>1. call.gone /\ reply' = NoReply
      BY <1>4, <2>3 DEF Turn
    <3> QED
      BY <1>4, <2>3, <3>1, InputKept, NoCallTyped, NoReplyFields DEF Turn
  <2> QED
    BY <2>1, <2>2, <2>3
<1>5. CASE EndViewer
  <2>1. /\ UNCHANGED <<sent, stdin, bridge, msg>> /\ call' = NoCall
        /\ reply' = IF call.at # "none" /\ ~call.gone THEN [NoReply EXCEPT !.is = "lost"] ELSE reply
    BY <1>5 DEF EndViewer, agent
  <2>2. [NoReply EXCEPT !.is = "lost"].is = "lost"
    BY DEF NoReply
  <2>3. CASE call.at # "none" /\ ~call.gone
    <3>1. PICK r : r = [NoReply EXCEPT !.is = "lost"]
      OBVIOUS
    <3>2. Answers(r, call.n)
      BY <2>2, <3>1 DEF Answers
    <3> QED
      BY <1>4, <2>1, <2>3, <3>1, <3>2
  <2>4. CASE ~(call.at # "none" /\ ~call.gone)
    <3>1. UNCHANGED <<sent, stdin, bridge, msg, reply>> /\ call'.at = "none" /\ call'.gone = FALSE
      BY <2>1, <2>4, NoCallTyped DEF NoCall
    <3> QED
      BY <3>1, InputKept DEF Turn, Answers
  <2> QED
    BY <2>3, <2>4
<1>6. CASE ServeHTTP
  <2>1. call.at = "sent" /\ UNCHANGED <<sent, stdin, bridge, msg>>
    BY <1>6 DEF ServeHTTP, agent
  <2>2. ASSUME NEW r, Answer(r), Answers(r, call.n) PROVE Turn'
    BY <1>4, <2>1, <2>2 DEF Answer
  <2>3. ASSUME call' = [call EXCEPT !.at = "running", !.todo = Folder], UNCHANGED reply
        PROVE  Turn'
    <3>1. call'.at = "running" /\ call'.n = call.n /\ call'.gone = call.gone
      BY <2>3 DEF AtHand, Call
    <3> QED
      BY <2>1, <2>3, <3>1, InputKept DEF Turn, Answers
  <2> QED
    BY <1>6, <2>1, <2>2, <2>3, CheckedAnswers, DispatchAnswers DEF ServeHTTP
<1>7. CASE LoadEnds
  <2>1. call.at = "running" /\ UNCHANGED <<sent, stdin, bridge, msg>> /\ call \in Call
    BY <1>7 DEF LoadEnds, agent, AtHand
  <2>2. PICK r : r = [Rpc(call.n, "result") EXCEPT !.loaded = call.loaded,
                                                   !.errors = call.errors]
    OBVIOUS
  <2>3. r.n = call.n
    BY <2>2 DEF Rpc, NoReply
  <2>4. r.is = "rpc"
    BY <2>2 DEF Rpc, NoReply
  <2>5. sent[call.n].kind \in Requests
    BY <2>1 DEF Split, Requests
  <2>6. Answers(r, call.n)
    BY <2>3, <2>4, <2>5 DEF Answers
  <2> QED
    BY <1>4, <1>7, <2>1, <2>2, <2>6 DEF LoadEnds, Answer
<1>8. CASE ReadLine
  <2>1. bridge = "read" /\ stdin # <<>> /\ stdin' = Tail(stdin) /\ UNCHANGED sent
    BY <1>8 DEF ReadLine
  <2>2. msg = 0 /\ call.at = "none" /\ ~call.gone /\ reply.is = "none"
    BY <2>1 DEF Turn
  <2>3. CASE UNCHANGED <<bridge, msg, call, reply>>
    BY <2>1, <2>2, <2>3, InputRead DEF Turn
  <2>4. CASE /\ sent[stdin[1]].kind \notin {"blank", "toolong"}
             /\ bridge' = "post" /\ msg' = stdin[1]
             /\ \/ reply' = [NoReply EXCEPT !.is = "lost"] /\ UNCHANGED call
                \/ call' = [NoCall EXCEPT !.at = "sent", !.n = stdin[1]] /\ UNCHANGED reply
    <3>1. msg' = ReadSoFar'
      BY <2>1, <2>4, InputRead
    <3>2. CASE reply' = [NoReply EXCEPT !.is = "lost"] /\ UNCHANGED call
      <4>1. reply'.is = "lost"
        BY <3>2 DEF NoReply
      <4> QED
        BY <2>1, <2>2, <2>4, <3>1, <3>2, <4>1, InputRead DEF Turn, Answers
    <3>3. CASE call' = [NoCall EXCEPT !.at = "sent", !.n = stdin[1]] /\ UNCHANGED reply
      <4>1. call'.n = msg' /\ ~call'.gone
        BY <2>4, <3>3 DEF NoCall
      <4> QED
        BY <2>1, <2>2, <2>4, <3>1, <3>3, <4>1, InputRead DEF Turn, Answers
    <3> QED
      BY <2>4, <3>2, <3>3
  <2> QED
    BY <1>8, <2>3, <2>4 DEF ReadLine
<1>9. CASE Forward
  <2>1. /\ bridge = "post" /\ reply.is # "none" /\ bridge' = "read" /\ msg' = 0
        /\ reply' = NoReply /\ UNCHANGED <<sent, stdin, call>>
    BY <1>9 DEF Forward, agent
  <2>2. call.at = "none"
    BY <2>1 DEF Turn
  <2> QED
    BY <2>1, <2>2, InputKept, NoReplyFields DEF Turn
<1>10. CASE EndOfInput
  <2>1. bridge = "read" /\ bridge' = "ended" /\ UNCHANGED <<sent, stdin, msg, call, reply>>
    BY <1>10 DEF EndOfInput, agent
  <2> QED
    BY <2>1, InputKept DEF Turn
<1> QED
  BY <1>1, <1>2, <1>3, <1>5, <1>6, <1>7, <1>8, <1>9, <1>10 DEF Next

-----------------------------------------------------------------------------
(* Messages are handled one after the other. *)

\* A line is written, or not, for message n.
Told(n) == \E r \in Response : stdout' = Append(stdout, r) /\ r.n = n

Handles(n) ==
  /\ n \in 1..Len(sent) /\ \A k \in Handled : k < n
  /\ Handled' = Handled \cup {n}
  /\ \/ sent[n].kind \in Requests /\ Told(n)
     \/ sent[n].kind \in {"garbled", "batch", "toolong"} /\ Told(0)
     \/ sent[n].kind \in {"nullid", "oldnote"} /\ (Told(0) \/ UNCHANGED stdout)
     \/ sent[n].kind \in {"notification", "response", "blank"} /\ UNCHANGED stdout

LEMMA HandlesOne ==
  ASSUME AtHand, AtHand', Turn, Turn', [Next]_vars
  PROVE  \/ UNCHANGED stdout /\ Handled' = Handled
         \/ \E n \in 1..Len(sent) : Handles(n)
<1>0. /\ Handled = (1..ReadSoFar) \ {msg} /\ Handled' = (1..ReadSoFar') \ {msg'}
      /\ ReadSoFar \in Nat /\ Len(sent) \in Nat /\ Len(stdin) \in Nat
  BY HandledNow, HandledThen DEF Turn, ReadSoFar, AtHand
<1>1. CASE Send
  BY <1>0, <1>1, InputSent DEF Send
<1>2. ASSUME UNCHANGED <<sent, stdin, msg, stdout>>
      PROVE  UNCHANGED stdout /\ Handled' = Handled
  BY <1>0, <1>2, InputKept
<1>3. ASSUME \/ CloseInput \/ KillBridge \/ StartViewer \/ EndViewer \/ ServeHTTP \/ LoadNext
             \/ LoadEnds \/ EndOfInput \/ UNCHANGED vars
      PROVE  UNCHANGED stdout /\ Handled' = Handled
  BY <1>2, <1>3 DEF CloseInput, KillBridge, StartViewer, EndViewer, ServeHTTP, LoadNext,
     LoadEnds, EndOfInput, vars, agent
<1>4. CASE ReadLine
  <2>1. bridge = "read" /\ stdin # <<>> /\ stdin' = Tail(stdin) /\ UNCHANGED sent /\ msg = 0
    BY <1>4 DEF ReadLine, Turn
  <2>2. PICK n : n = stdin[1]
    OBVIOUS
  <2>3. n = ReadSoFar + 1 /\ ReadSoFar' = ReadSoFar + 1
    BY <2>1, <2>2, InputRead
  <2>4. n \in 1..Len(sent)
    BY <1>0, <2>1, <2>2, FirstLine DEF Numbers
  <2>5. Handled = 1..ReadSoFar /\ \A k \in Handled : k < n
    BY <1>0, <2>1, <2>3
  <2>6. CASE msg' = n /\ UNCHANGED stdout
    BY <1>0, <2>3, <2>5, <2>6
  <2>7. CASE sent[n].kind \in {"blank", "toolong"} /\ UNCHANGED msg
    <3>1. Handled' = Handled \cup {n}
      BY <1>0, <2>1, <2>3, <2>5, <2>7
    <3>2. Unreachable(0) \in Response /\ Unreachable(0).n = 0
      BY RpcFields DEF Unreachable, Whats
    <3>3. \/ sent[n].kind = "toolong" /\ stdout' = Append(stdout, Unreachable(0))
          \/ sent[n].kind = "blank" /\ UNCHANGED stdout
      BY <1>4, <2>2, <2>7 DEF ReadLine, Write
    <3> QED
      BY <2>4, <2>5, <3>1, <3>2, <3>3 DEF Handles, Told
  <2> QED
    BY <1>4, <2>2, <2>6, <2>7 DEF ReadLine
<1>5. CASE Forward
  <2>1. /\ bridge = "post" /\ reply.is # "none" /\ msg' = 0 /\ UNCHANGED <<sent, stdin>>
    BY <1>5 DEF Forward, agent
  <2>2. PICK n : n = msg
    OBVIOUS
  <2>3. n = ReadSoFar /\ n # 0 /\ n \in 1..Len(sent) /\ Answers(reply, n)
        /\ sent[n].kind \notin {"blank", "toolong"}
    BY <1>0, <2>1, <2>2 DEF Turn, AtHand, Numbers
  <2>4. Handled = 1..(n - 1) /\ \A k \in Handled : k < n
    BY <1>0, <2>2, <2>3
  <2>5. Handled' = Handled \cup {n}
    BY <1>0, <2>1, <2>3, <2>4, InputKept
  <2>6. sent[n].kind \in Kinds
    BY <2>3, BridgeAssumption DEF BridgeAssumption, AtHand
  <2>7. CASE reply.is = "rpc" /\ stdout' = Append(stdout, reply)
    <3>1. reply \in Response
      BY DEF AtHand
    <3>2. \/ sent[n].kind \in Requests /\ Told(n)
          \/ sent[n].kind \in {"garbled", "batch"} /\ Told(0)
          \/ sent[n].kind \in {"nullid", "oldnote"} /\ Told(0)
      BY <2>3, <2>7, <3>1 DEF Answers, Told
    <3> QED
      BY <2>3, <2>4, <2>5, <3>2 DEF Handles
  <2>8. CASE IsRequest(n) /\ stdout' = Append(stdout, Unreachable(IdOf(n)))
    <3>1. IdOf(n) \in Nat /\ (sent[n].kind \in Requests => IdOf(n) = n)
          /\ (sent[n].kind \notin Requests => IdOf(n) = 0)
      BY <2>3 DEF IdOf
    <3>2. Unreachable(IdOf(n)) \in Response /\ Unreachable(IdOf(n)).n = IdOf(n)
      BY <3>1, RpcFields DEF Unreachable, Whats
    <3>3. Told(IdOf(n))
      BY <2>8, <3>2 DEF Told
    <3>4. sent[n].kind \in Requests \/ sent[n].kind \in {"garbled", "batch"}
      BY <2>8 DEF IsRequest
    <3>5. \/ sent[n].kind \in Requests /\ Told(n)
          \/ sent[n].kind \in {"garbled", "batch"} /\ Told(0)
      BY <3>1, <3>3, <3>4 DEF Requests
    <3> QED
      BY <2>3, <2>4, <2>5, <3>5 DEF Handles
  <2>9. CASE reply.is = "accepted" /\ UNCHANGED stdout
    BY <2>3, <2>4, <2>5, <2>9 DEF Handles, Answers
  <2>10. CASE ~IsRequest(n) /\ UNCHANGED stdout
    <3>1. sent[n].kind \in {"notification", "response", "nullid", "oldnote"}
      BY <2>3, <2>6, <2>10 DEF IsRequest, Kinds
    <3> QED
      BY <2>3, <2>4, <2>5, <2>10, <3>1 DEF Handles
  <2> QED
    BY <1>5, <2>2, <2>3, <2>7, <2>8, <2>9, <2>10 DEF Forward, Write
<1> QED
  BY <1>1, <1>3, <1>4, <1>5 DEF Next

-----------------------------------------------------------------------------
(* What the replies written say *)

Ids(q) == {q[i].n : i \in DOMAIN q} \ {0}

InOrder(q) ==
  \A i, j \in DOMAIN q : i < j /\ q[i].n # 0 /\ q[j].n # 0 => q[i].n < q[j].n

Nulls(q) == {i \in DOMAIN q : q[i].n = 0}

LEMMA OneMore ==
  ASSUME NEW q \in Seq(Response), NEW r \in Response, NEW p, p = Append(q, r)
  PROVE  /\ Len(q) \in Nat /\ DOMAIN q = 1..Len(q)
         /\ DOMAIN p = DOMAIN q \cup {Len(q) + 1}
         /\ \A i \in DOMAIN q : p[i] = q[i] /\ i < Len(q) + 1
         /\ p[Len(q) + 1] = r
<1>1. Len(q) \in Nat /\ DOMAIN q = 1..Len(q)
  OBVIOUS
<1>2. Len(p) = Len(q) + 1 /\ DOMAIN p = 1..(Len(q) + 1)
  BY <1>1
<1>3. 1..(Len(q) + 1) = (1..Len(q)) \cup {Len(q) + 1}
  BY <1>1
<1>4. \A i \in 1..Len(q) : p[i] = q[i] /\ i < Len(q) + 1
  BY <1>1
<1>5. p[Len(q) + 1] = r
  BY <1>1
<1> QED
  BY <1>1, <1>2, <1>3, <1>4, <1>5

\* A reply to a request comes last.
LEMMA ReplyAdded ==
  ASSUME NEW q \in Seq(Response), NEW r \in Response, InOrder(q), r.n # 0,
         \A k \in Ids(q) : k < r.n
  PROVE  /\ Ids(Append(q, r)) = Ids(q) \cup {r.n} /\ InOrder(Append(q, r))
         /\ Nulls(Append(q, r)) = Nulls(q)
<1>1. PICK p : p = Append(q, r)
  OBVIOUS
<1>2. PICK last : last = Len(q) + 1
  OBVIOUS
<1>3. /\ DOMAIN p = DOMAIN q \cup {last} /\ p[last] = r /\ DOMAIN q \subseteq Nat /\ last \in Nat
      /\ \A i \in DOMAIN q : p[i] = q[i] /\ i < last
  BY <1>1, <1>2, OneMore
<1>4. Ids(p) = Ids(q) \cup {r.n}
  BY <1>3 DEF Ids
<1>5. \A i \in DOMAIN q : q[i].n # 0 => q[i].n < r.n
  BY DEF Ids
<1>6. ASSUME NEW i \in DOMAIN p, NEW j \in DOMAIN p, i < j, p[i].n # 0, p[j].n # 0
      PROVE  p[i].n < p[j].n
  <2>1. i \in DOMAIN q
    BY <1>3, <1>6
  <2> QED
    BY <1>3, <1>5, <1>6, <2>1 DEF InOrder
<1>7. Nulls(p) = Nulls(q)
  BY <1>3 DEF Nulls
<1> QED
  BY <1>1, <1>4, <1>6, <1>7 DEF InOrder

\* A reply with a null id may come at any time.
LEMMA NullAdded ==
  ASSUME NEW q \in Seq(Response), NEW r \in Response, r.n = 0
  PROVE  /\ Ids(Append(q, r)) = Ids(q) /\ (InOrder(q) => InOrder(Append(q, r)))
         /\ Cardinality(Nulls(q)) \in Nat
         /\ Cardinality(Nulls(Append(q, r))) = Cardinality(Nulls(q)) + 1
<1>1. PICK p : p = Append(q, r)
  OBVIOUS
<1>2. PICK last : last = Len(q) + 1
  OBVIOUS
<1>3. /\ DOMAIN p = DOMAIN q \cup {last} /\ p[last] = r /\ DOMAIN q \subseteq Nat /\ last \in Nat
      /\ \A i \in DOMAIN q : p[i] = q[i] /\ i < last
  BY <1>1, <1>2, OneMore
<1>4. Ids(p) = Ids(q)
  BY <1>3 DEF Ids
<1>5. InOrder(q) => InOrder(p)
  BY <1>3 DEF InOrder
<1>6. Nulls(p) = Nulls(q) \cup {last} /\ last \notin Nulls(q)
  BY <1>3 DEF Nulls
<1>7. IsFiniteSet(Nulls(q))
  <2>1. Len(q) \in Nat /\ Nulls(q) \subseteq 1..Len(q)
    BY OneMore DEF Nulls
  <2>2. IsFiniteSet(1..Len(q))
    BY <2>1, FS_Interval
  <2> QED
    BY <2>1, <2>2, FS_Subset
<1> QED
  BY <1>1, <1>4, <1>5, <1>6, <1>7, FS_AddElement, FS_CardinalityType

-----------------------------------------------------------------------------
(* What the messages handled ask for *)

\* A message handled counts among those of its kind.
LEMMA OfAdded ==
  ASSUME AtHand, Kept, NEW n, Handles(n), NEW kinds
  PROVE  /\ n \notin Of(kinds)
         /\ Of(kinds)' = IF sent[n].kind \in kinds THEN Of(kinds) \cup {n} ELSE Of(kinds)
<1>1. Len(sent) \in Nat /\ DOMAIN sent = 1..Len(sent) /\ Numbers \ {0} = 1..Len(sent)
  BY DEF AtHand, Numbers
<1>2. Handled \subseteq 1..Len(sent) /\ n \in 1..Len(sent)
  BY <1>1 DEF Handled, Handles
<1>3. Handled' = Handled \cup {n} /\ n \notin Handled
  BY <1>1, <1>2 DEF Handles
<1>4. \A k \in Handled \cup {n} : sent'[k] = sent[k]
  BY <1>1, <1>2 DEF Kept
<1> QED
  BY <1>3, <1>4 DEF Of

LEMMA OfKept ==
  ASSUME AtHand, Kept, Handled' = Handled, NEW kinds
  PROVE  Of(kinds)' = Of(kinds)
<1>1. Handled \subseteq Numbers \ {0}
  BY DEF Handled, AtHand, Numbers
<1> QED
  BY <1>1 DEF Of, Kept

LEMMA OfFinite ==
  ASSUME AtHand, NEW kinds
  PROVE  IsFiniteSet(Of(kinds)) /\ Cardinality(Of(kinds)) \in Nat /\ Of(kinds) \subseteq Nat \ {0}
<1>1. Len(sent) \in Nat /\ DOMAIN sent = 1..Len(sent)
  BY DEF AtHand
<1>2. Of(kinds) \subseteq 1..Len(sent) /\ IsFiniteSet(1..Len(sent))
  BY <1>1, FS_Interval DEF Of, Handled
<1> QED
  BY <1>1, <1>2, FS_Subset, FS_CardinalityType

LEMMA OfCounted ==
  ASSUME AtHand, Kept, NEW n, Handles(n), NEW kinds
  PROVE  Cardinality(Of(kinds)') =
           IF sent[n].kind \in kinds THEN Cardinality(Of(kinds)) + 1 ELSE Cardinality(Of(kinds))
BY OfAdded, OfFinite, FS_AddElement

-----------------------------------------------------------------------------
(* The replies are the requests' *)

OrderedInv == AtHand /\ Split /\ Turn

LEMMA OrderedInit == Init => OrderedInv
<1>1. Init => Split
  BY NoCallTyped DEF Init, Split
<1> QED
  BY <1>1, AtHandInit, TurnInit DEF OrderedInv

LEMMA OrderedStep ==
  ASSUME OrderedInv, [Next]_vars
  PROVE  OrderedInv'
BY AtHandStep, SplitStep, TurnStep DEF OrderedInv

\* Messages that have a reply with a null id, and those that may have one.
Must == {"garbled", "batch", "toolong"}

May == {"garbled", "batch", "toolong", "nullid", "oldnote"}

LEMMA NothingWritten ==
  /\ Init => stdout = <<>> /\ Of(Requests) = {} /\ Of(Must) = {} /\ Of(May) = {}
  /\ Ids(<<>>) = {} /\ Nulls(<<>>) = {} /\ InOrder(<<>>)
<1>1. DOMAIN <<>> = {}
  OBVIOUS
<1>2. Init => sent = <<>> /\ stdout = <<>>
  BY DEF Init
<1>3. Init => Handled = {}
  BY <1>1, <1>2 DEF Handled
<1> QED
  BY <1>1, <1>2, <1>3 DEF Of, Ids, Nulls, InOrder

LEMMA RepliesMatchStep ==
  ASSUME OrderedInv, OrderedInv', [Next]_vars, Ids(stdout) = Of(Requests), InOrder(stdout)
  PROVE  Ids(stdout') = Of(Requests)' /\ InOrder(stdout')
<1>0. AtHand /\ Kept /\ stdout \in Seq(Response)
  BY SentKept DEF OrderedInv, AtHand
<1>1. CASE UNCHANGED stdout /\ Handled' = Handled
  BY <1>0, <1>1, OfKept
<1>2. ASSUME NEW n \in 1..Len(sent), Handles(n)
      PROVE  Ids(stdout') = Of(Requests)' /\ InOrder(stdout')
  <2>1. Of(Requests)' = IF sent[n].kind \in Requests THEN Of(Requests) \cup {n} ELSE Of(Requests)
    BY <1>0, <1>2, OfAdded
  <2>2. CASE sent[n].kind \in Requests /\ Told(n)
    <3>1. PICK r \in Response : stdout' = Append(stdout, r) /\ r.n = n
      BY <2>2 DEF Told
    <3>2. n # 0 /\ \A k \in Ids(stdout) : k < n
      BY <1>2 DEF Handles, Of
    <3> QED
      BY <1>0, <2>1, <2>2, <3>1, <3>2, ReplyAdded
  <2>3. CASE sent[n].kind \notin Requests /\ Told(0)
    <3>1. PICK r \in Response : stdout' = Append(stdout, r) /\ r.n = 0
      BY <2>3 DEF Told
    <3> QED
      BY <1>0, <2>1, <2>3, <3>1, NullAdded
  <2>4. CASE sent[n].kind \notin Requests /\ UNCHANGED stdout
    BY <2>1, <2>4
  <2> QED
    BY <1>2, <2>2, <2>3, <2>4 DEF Handles, Requests
<1> QED
  BY <1>1, <1>2, HandlesOne DEF OrderedInv

-----------------------------------------------------------------------------
(* The replies with a null id *)

NullsCounted(must, may, written) ==
  Cardinality(must) <= Cardinality(Nulls(written)) /\ Cardinality(Nulls(written)) <= Cardinality(may)

LEMMA NullsCountedStep ==
  ASSUME OrderedInv, OrderedInv', [Next]_vars, NullsCounted(Of(Must), Of(May), stdout),
         InOrder(stdout), Ids(stdout) = Of(Requests)
  PROVE  NullsCounted(Of(Must)', Of(May)', stdout')
<1>0. AtHand /\ Kept /\ stdout \in Seq(Response)
  BY SentKept DEF OrderedInv, AtHand
<1>1. CASE UNCHANGED stdout /\ Handled' = Handled
  BY <1>0, <1>1, OfKept
<1>2. ASSUME NEW n \in 1..Len(sent), Handles(n)
      PROVE  NullsCounted(Of(Must)', Of(May)', stdout')
  <2>1. /\ Cardinality(Of(Must)') = IF sent[n].kind \in Must THEN Cardinality(Of(Must)) + 1
                                                             ELSE Cardinality(Of(Must))
        /\ Cardinality(Of(May)') = IF sent[n].kind \in May THEN Cardinality(Of(May)) + 1
                                                           ELSE Cardinality(Of(May))
        /\ Cardinality(Of(Must)) \in Nat /\ Cardinality(Of(May)) \in Nat
    BY <1>0, <1>2, OfCounted, OfFinite
  <2>2. Cardinality(Nulls(stdout)) \in Nat
    <3>1. Len(stdout) \in Nat /\ Nulls(stdout) \subseteq 1..Len(stdout)
      BY <1>0 DEF Nulls
    <3>2. IsFiniteSet(1..Len(stdout))
      BY <3>1, FS_Interval
    <3> QED
      BY <3>1, <3>2, FS_Subset, FS_CardinalityType
  <2>3. CASE sent[n].kind \in Requests /\ Told(n)
    <3>1. PICK r \in Response : stdout' = Append(stdout, r) /\ r.n = n
      BY <2>3 DEF Told
    <3>2. n # 0 /\ \A k \in Ids(stdout) : k < n
      BY <1>2 DEF Handles, Of
    <3>3. Nulls(stdout') = Nulls(stdout)
      BY <1>0, <3>1, <3>2, ReplyAdded
    <3>4. sent[n].kind \notin Must /\ sent[n].kind \notin May
      BY <2>3 DEF Requests, Must, May
    <3> QED
      BY <2>1, <3>3, <3>4 DEF NullsCounted
  <2>4. CASE sent[n].kind \in May /\ Told(0)
    <3>1. PICK r \in Response : stdout' = Append(stdout, r) /\ r.n = 0
      BY <2>4 DEF Told
    <3>2. Cardinality(Nulls(stdout')) = Cardinality(Nulls(stdout)) + 1
      BY <1>0, <3>1, NullAdded
    <3> QED
      BY <2>1, <2>2, <2>4, <3>2 DEF NullsCounted
  <2>5. CASE sent[n].kind \notin Must /\ UNCHANGED stdout
    BY <2>1, <2>2, <2>5 DEF NullsCounted
  <2>6. \/ sent[n].kind \in Requests /\ Told(n)
        \/ sent[n].kind \in May /\ Told(0)
        \/ sent[n].kind \notin Must /\ UNCHANGED stdout
    BY <1>2 DEF Handles, Must, May
  <2> QED
    BY <2>3, <2>4, <2>5, <2>6
<1> QED
  BY <1>1, <1>2, HandlesOne DEF OrderedInv

\* A request has its reply before the next message is read, in the order of the
\* requests and with its own id, whatever viewers there are, of what versions, and
\* whenever they end; a message whose id was lost has one with a null id, and none is
\* made up (bridge.go, Run and errorReply).
THEOREM RequestsAnsweredInOrder == Spec => []RepliesMatch
<1> DEFINE IInv == /\ OrderedInv /\ Ids(stdout) = Of(Requests) /\ InOrder(stdout)
                   /\ NullsCounted(Of(Must), Of(May), stdout)
<1>1. Init => IInv
  <2>1. NullsCounted({}, {}, <<>>)
    BY NothingWritten, FS_EmptySet DEF NullsCounted
  <2> QED
    BY <2>1, OrderedInit, NothingWritten
<1>2. IInv /\ [Next]_vars => IInv'
  BY OrderedStep, RepliesMatchStep, NullsCountedStep
<1>3. IInv => RepliesMatch
  BY DEF RepliesMatch, Ids, InOrder, NullsCounted, Nulls, Must, May
<1> QED
  BY <1>1, <1>2, <1>3, PTL DEF Spec
=============================================================================
