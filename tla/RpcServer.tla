----------------------------- MODULE RpcServer -----------------------------
(***************************************************************************)
(* rpc.Server (rpc/server.go): the connections of one server, the maps     *)
(* sessions and serviceMap, and one Message goroutine per request.         *)
(*                                                                         *)
(* Neither map is locked.  A write of a map, and a read of one that other  *)
(* goroutines write, takes from its begin to its end; a write that         *)
(* overlaps another access has no defined outcome - the runtime ends the   *)
(* process when it notices - and the model stops there.                    *)
(*                                                                         *)
(* Of the session below only what the replies depend on is here: whether   *)
(* outData is closed and the state says CLOSED (Release in TcpServer).     *)
(***************************************************************************)
EXTENDS Naturals, Sequences

CONSTANTS Conns,     \* connections that clients make
          Requests,  \* requests they send
          From,      \* the connection each request comes on
          Services,  \* receivers that are registered
          FdSpace    \* values of Session.fd: 2^16

ASSUME ServerAssumption ==
    /\ From \in [Requests -> Conns]
    /\ FdSpace \in Nat \ {0}

\* What becomes of a request: Message cannot read it, its first argument is no
\* string, it names no service or method, the method returns values, none, one
\* that JSON cannot encode, or the reflection or the method panics.
Kinds == {"bad", "nameless", "unknown", "value", "void", "unencodable", "panics"}

VARIABLES
    num,          \* sessionCounter.Num
    stage,        \* how far each connection is
    fd,           \* Session.fd of its session
    sessions,     \* Server.sessions: a partial function from fd to connections
    serviceMap,   \* Server.serviceMap: the services registered
    registering,  \* the services whose entry is being written
    at,           \* control point of the Message goroutine of each request
    kind,         \* its kind
    target,       \* the connections it found in sessions: at most one
    replies,      \* the connections its reply was queued on, in order (history)
    panic         \* what ended the process, "none" while it runs

connVars    == <<num, stage, fd, sessions>>
serviceVars == <<serviceMap, registering>>
requestVars == <<at, kind, target, replies>>
vars == <<connVars, serviceVars, requestVars, panic>>

Stages == {"none", "made", "storing", "serving", "closing", "closed out", "closed"}
Pcs    == {"none", "lookup", "sessions", "decode", "services", "run", "check", "send",
           "done"}
Fds    == 0 .. FdSpace - 1

TypeOK ==
    /\ num \in Fds
    /\ stage \in [Conns -> Stages]
    /\ fd \in [Conns -> Fds]
    /\ DOMAIN sessions \subseteq Fds
    /\ \A f \in DOMAIN sessions : sessions[f] \in Conns
    /\ serviceMap \subseteq Services
    /\ registering \subseteq Services
    /\ at \in [Requests -> Pcs]
    /\ kind \in [Requests -> Kinds]
    /\ target \in [Requests -> SUBSET Conns]
    /\ replies \in [Requests -> Seq(Conns)]
    /\ panic \in {"none", "sessions", "serviceMap", "args[0]", "method", "send outData"}

Init ==
    /\ num = 0
    /\ stage = [c \in Conns |-> "none"]
    /\ fd = [c \in Conns |-> 0]
    /\ sessions = [f \in {} |-> 0]
    /\ serviceMap = {}
    /\ registering = {}
    /\ at = [r \in Requests |-> "none"]
    /\ kind \in [Requests -> Kinds]
    /\ target = [r \in Requests |-> {}]
    /\ replies = [r \in Requests |-> <<>>]
    /\ panic = "none"

Running == panic = "none"

\* The goroutines inside a map.
Storing         == {c \in Conns : stage[c] = "storing"}
Reading(map)    == {r \in Requests : at[r] = map}
GotoStage(c, s) == stage' = [stage EXCEPT ![c] = s]
Goto(r, pc)     == at' = [at EXCEPT ![r] = pc]
-----------------------------------------------------------------------------
(* Connections: handleNewConn, Connect and the end of the session.         *)

\* CreateSession and Start; frames are read from here on.
Accept(c) ==
    /\ Running
    /\ stage[c] = "none"
    /\ num' = (num + 1) % FdSpace
    /\ fd' = [fd EXCEPT ![c] = num']
    /\ GotoStage(c, "made")
    /\ UNCHANGED <<sessions, serviceVars, requestVars, panic>>

\* Connect begins to write sessions[fd].
ConnectBegin(c) ==
    /\ Running
    /\ stage[c] = "made"
    /\ IF Storing # {} \/ Reading("sessions") # {}
       THEN panic' = "sessions" /\ UNCHANGED stage
       ELSE GotoStage(c, "storing") /\ UNCHANGED panic
    /\ UNCHANGED <<num, fd, sessions, serviceVars, requestVars>>

\* Mutant: the entry is made for the number of the session after this one.
ConnectEndLate(c) ==
    /\ Running
    /\ stage[c] = "storing"
    /\ sessions' = [f \in DOMAIN sessions \cup {num} |->
                        IF f = num THEN c ELSE sessions[f]]
    /\ GotoStage(c, "serving")
    /\ UNCHANGED <<num, fd, serviceVars, requestVars, panic>>

\* The entry is there, Connect returns and processInData starts.
ConnectEnd(c) ==
    /\ Running
    /\ stage[c] = "storing"
    /\ sessions' = [f \in DOMAIN sessions \cup {fd[c]} |->
                        IF f = fd[c] THEN c ELSE sessions[f]]
    /\ GotoStage(c, "serving")
    /\ UNCHANGED <<num, fd, serviceVars, requestVars, panic>>

\* The connection is lost, processInData is notified and calls TcpConn.Close:
\* Server.Close only logs, so the entry in sessions stays.
Disconnect(c) ==
    /\ Running
    /\ stage[c] = "serving"
    /\ GotoStage(c, "closing")
    /\ UNCHANGED <<num, fd, sessions, serviceVars, requestVars, panic>>

\* Release closes outData and then sets the state CLOSED.
Release(c) ==
    /\ Running
    /\ \/ stage[c] = "closing" /\ GotoStage(c, "closed out")
       \/ stage[c] = "closed out" /\ GotoStage(c, "closed")
    /\ UNCHANGED <<num, fd, sessions, serviceVars, requestVars, panic>>
-----------------------------------------------------------------------------
(* Register.                                                               *)

RegisterBegin(s) ==
    /\ Running
    /\ s \notin serviceMap \cup registering
    /\ IF registering # {} \/ Reading("services") # {}
       THEN panic' = "serviceMap" /\ UNCHANGED registering
       ELSE registering' = {s} /\ UNCHANGED panic
    /\ UNCHANGED <<connVars, serviceMap, requestVars>>

RegisterEnd(s) ==
    /\ Running
    /\ s \in registering
    /\ serviceMap' = serviceMap \cup {s}
    /\ registering' = {}
    /\ UNCHANGED <<connVars, requestVars, panic>>
-----------------------------------------------------------------------------
(* Message, for request r.                                                 *)

\* Mutant: frames are dispatched while Connect is still running.
ArriveEarly(r) ==
    /\ Running
    /\ stage[From[r]] \in {"made", "storing", "serving"}
    /\ at[r] = "none"
    /\ Goto(r, "lookup")
    /\ UNCHANGED <<connVars, serviceVars, kind, target, replies, panic>>

\* processInData starts a goroutine for a DATA frame.
Arrive(r) ==
    /\ Running
    /\ stage[From[r]] = "serving"
    /\ at[r] = "none"
    /\ Goto(r, "lookup")
    /\ UNCHANGED <<connVars, serviceVars, kind, target, replies, panic>>

LookupBegin(r) ==
    /\ Running
    /\ at[r] = "lookup"
    /\ IF Storing # {}
       THEN panic' = "sessions" /\ UNCHANGED at
       ELSE Goto(r, "sessions") /\ UNCHANGED panic
    /\ UNCHANGED <<connVars, serviceVars, kind, target, replies>>

\* s, ok := sessions[fd]; without an entry the goroutine ends.
LookupEnd(r) ==
    /\ Running
    /\ at[r] = "sessions"
    /\ LET f == fd[From[r]]
       IN  IF f \in DOMAIN sessions
           THEN target' = [target EXCEPT ![r] = {sessions[f]}] /\ Goto(r, "decode")
           ELSE Goto(r, "done") /\ UNCHANGED target
    /\ UNCHANGED <<connVars, serviceVars, kind, replies, panic>>

\* The body is decoded and the name taken apart.  Bad JSON, no arguments and
\* a name without a dot end the goroutine with no reply; a name that is no
\* string ends the process.
Decode(r) ==
    /\ Running
    /\ at[r] = "decode"
    /\ CASE kind[r] = "bad"      -> Goto(r, "done") /\ UNCHANGED panic
         [] kind[r] = "nameless" -> panic' = "args[0]" /\ UNCHANGED at
         [] OTHER -> IF registering # {}
                     THEN panic' = "serviceMap" /\ UNCHANGED at
                     ELSE Goto(r, "services") /\ UNCHANGED panic
    /\ UNCHANGED <<connVars, serviceVars, kind, target, replies>>

\* The service and the method are looked up; the model asks each request of
\* some service, and its kind says whether that has the method.
FindMethod(r) ==
    /\ Running
    /\ at[r] = "services"
    /\ \E s \in Services :
          IF s \in serviceMap /\ kind[r] # "unknown" THEN Goto(r, "run")
                                                      ELSE Goto(r, "done")
    /\ UNCHANGED <<connVars, serviceVars, kind, target, replies, panic>>

\* Mutant: a method without values is not answered.
RunFuncSilent(r) ==
    /\ Running
    /\ at[r] = "run"
    /\ CASE kind[r] = "panics" -> panic' = "method" /\ UNCHANGED at
         [] kind[r] = "value"  -> Goto(r, "check") /\ UNCHANGED panic
         [] OTHER              -> Goto(r, "done") /\ UNCHANGED panic
    /\ UNCHANGED <<connVars, serviceVars, kind, target, replies>>

\* Convert, RunFunc and Marshal.  A panic here ends the process.
RunFunc(r) ==
    /\ Running
    /\ at[r] = "run"
    /\ CASE kind[r] = "panics"      -> panic' = "method" /\ UNCHANGED at
         [] kind[r] = "unencodable" -> Goto(r, "done") /\ UNCHANGED panic
         [] OTHER                   -> Goto(r, "check") /\ UNCHANGED panic
    /\ UNCHANGED <<connVars, serviceVars, kind, target, replies>>

\* TcpConn.Write on the session found: doWrite reads its state ...
ReplyCheck(r) ==
    /\ Running
    /\ at[r] = "check"
    /\ \E c \in target[r] :
          Goto(r, IF stage[c] = "closed" THEN "done" ELSE "send")
    /\ UNCHANGED <<connVars, serviceVars, kind, target, replies, panic>>

\* ... and sends, when outData has room ...
ReplySend(r) ==
    /\ Running
    /\ at[r] = "send"
    /\ \E c \in target[r] :
          /\ stage[c] \notin {"closed out", "closed"}
          /\ replies' = [replies EXCEPT ![r] = Append(@, c)]
    /\ Goto(r, "done")
    /\ UNCHANGED <<connVars, serviceVars, kind, target, panic>>

\* ... or panics, when it is closed.
ReplyPanics(r) ==
    /\ Running
    /\ at[r] = "send"
    /\ \E c \in target[r] : stage[c] \in {"closed out", "closed"}
    /\ panic' = "send outData"
    /\ UNCHANGED <<connVars, serviceVars, requestVars>>

Serve(r) ==
    \/ LookupBegin(r) \/ LookupEnd(r) \/ Decode(r) \/ FindMethod(r) \/ RunFunc(r)
    \/ ReplyCheck(r) \/ ReplySend(r) \/ ReplyPanics(r)

Connection(c) == ConnectBegin(c) \/ ConnectEnd(c) \/ Release(c)

Next ==
    \/ \E c \in Conns : Accept(c) \/ Connection(c) \/ Disconnect(c)
    \/ \E s \in Services : RegisterBegin(s) \/ RegisterEnd(s)
    \/ \E r \in Requests : Arrive(r) \/ Serve(r)

Spec == Init /\ [][Next]_vars

\* Goroutines are scheduled, methods return and clients read their replies
\* (a reply can wait for ever on a client that does not).
FairMessage(r) == WF_vars(Serve(r))

FairOthers ==
    /\ \A c \in Conns : WF_vars(Connection(c))
    /\ \A s \in Services : WF_vars(RegisterEnd(s))

FairSpec == Spec /\ (\A r \in Requests : FairMessage(r)) /\ FairOthers
-----------------------------------------------------------------------------
(* Properties.                                                             *)

\* The session numbers have not wrapped: no two connections share one.
NoWrap == \A c, d \in Conns :
    stage[c] # "none" /\ stage[d] # "none" /\ fd[c] = fd[d] => c = d

\* Until the numbers wrap, a reply goes to the connection that asked, however
\* connections come and go meanwhile.
ReplyToAsker ==
    NoWrap => \A r \in Requests : \A i \in DOMAIN replies[r] : replies[r][i] = From[r]

\* Until the numbers wrap, a request finds a session: "fd not found" is never
\* the reason for a missing reply.
SessionFound ==
    NoWrap => \A r \in Requests :
        at[r] \notin {"none", "lookup", "sessions"} => target[r] = {From[r]}

\* One request is answered at most once: the client deletes and closes the
\* call's channel after the first answer.
AnsweredOnce == \A r \in Requests : Len(replies[r]) <= 1

\* A connection never races with itself on sessions: its requests are read
\* after its own Connect has returned.  So a fault takes two connections.
SessionsFault ==
    panic = "sessions" =>
        \E c \in Conns :
            /\ stage[c] \in {"made", "storing"}
            /\ \/ \E d \in Conns \ {c} : stage[d] = "storing"
               \/ \E r \in Requests : From[r] # c /\ at[r] \in {"lookup", "sessions"}

\* Reads alone never fault: a fault on serviceMap takes a Register whose entry
\* is not there yet, so a server that is opened after its last Register is safe.
ServicesFault == panic = "serviceMap" => serviceMap # Services

\* The unlocked maps: a fault takes two connections, or a Register and another
\* goroutine.
MapFaultTakesTwo == SessionsFault /\ ServicesFault

\* The inductive invariant behind them: sessions has, at the number of every
\* connection whose Connect has returned, that connection; a request is under
\* way only on such a connection; at most one goroutine is inside a write.
Stored(c) == stage[c] \in {"serving", "closing", "closed out", "closed"}

SessionsInv ==
    NoWrap =>
        /\ \A f \in DOMAIN sessions : Stored(sessions[f]) /\ fd[sessions[f]] = f
        /\ \A c \in Conns : Stored(c) => fd[c] \in DOMAIN sessions
        /\ SessionFound
        /\ ReplyToAsker

ServerInv ==
    /\ TypeOK
    /\ SessionsInv
    /\ \A r \in Requests : at[r] # "none" => Stored(From[r])
    /\ \A c, d \in Storing : c = d
    /\ \A r \in Requests : at[r] # "done" => replies[r] = <<>>
    /\ AnsweredOnce
    /\ SessionsFault

\* The Message goroutine of request r need not wait: it never does, but for
\* the room in outData that the fairness below counts as given.
Ready(r) ==
    \/ at[r] \in {"lookup", "sessions", "decode", "run"}
    \/ at[r] = "services" /\ Services # {}
    \/ at[r] \in {"check", "send"} /\ target[r] # {}

\* A goroutine that need not wait can take a step that changes something.
ReadyIsEnabled(r) == [](Running /\ Ready(r) => ENABLED <<Serve(r)>>_vars)

\* A request whose method exists and returns ...
Callable(r) == at[r] = "run" /\ kind[r] \in {"value", "void"}

\* ... is done with once it is answered or cannot be.
Settled(r) ==
    \/ replies[r] # <<>>
    \/ panic # "none"
    \/ \E c \in target[r] : stage[c] \in {"closed out", "closed"}

\* Every request whose method exists and returns is answered, unless its
\* connection is lost or the process ends; nothing else loses a reply.
AnswerComes(r) == Callable(r) ~> Settled(r)

Answered == \A r \in Requests : ReadyIsEnabled(r) /\ AnswerComes(r)
=============================================================================
