----------------------------- MODULE RpcClient -----------------------------
(***************************************************************************)
(* rpc.Client (rpc/client.go): goroutines in Call, the map callRet from    *)
(* session IDs to the channels they wait on, one Message goroutine per     *)
(* reply, and Close, which TcpClient calls when the session ends.          *)
(*                                                                         *)
(* A channel waitRet is named by the call that made it.  mapLocker guards  *)
(* the map only: a step that takes it is one action, except Close, which   *)
(* keeps it while it closes the channels one by one.                       *)
(*                                                                         *)
(* The connection is what TcpClient makes of it: requests are handed over  *)
(* while it works, replies come back in any order, each in a goroutine of  *)
(* its own, and after the end of the session doWrite refuses or panics.    *)
(***************************************************************************)
EXTENDS Naturals

CONSTANTS Callers,   \* goroutines that each make one Call or Send
          Sends,     \* those of them that Send and wait for nothing
          Empty,     \* those whose reply has an empty body
          IdSpace,   \* values of a session ID: 2^16
          MaxBeats   \* bound: IDs drawn by heartbeats

ASSUME CallAssumption ==
    /\ Sends \subseteq Callers
    /\ Empty \subseteq Callers
    /\ IdSpace \in Nat \ {0}
    /\ MaxBeats \in Nat
    /\ "nil" \notin Callers /\ "open" \notin Callers

VARIABLES
    session,   \* the session: "none", "working", "ended", "released"
    num,       \* msgCounter.Num
    beats,     \* heartbeats so far (bounded)
    at,        \* control point of each caller
    id,        \* its sessionID
    outcome,   \* what it returned, "open" before: "nil" or the request answered
    gaveUp,    \* calls that returned by their timeout (history)
    callRet,   \* Client.callRet: a partial function from IDs to channels
    closed,    \* the waitRet channels that have been closed
    requests,  \* requests that reached the server
    msg,       \* control point of the Message goroutine of each reply
    waitRet,   \* the channel that goroutine found, a set of at most one
    sweep,     \* control point of Close
    panic      \* what ended the process, "none" while it runs

callerVars  == <<at, id, outcome, gaveUp>>
messageVars == <<msg, waitRet>>
mapVars     == <<callRet, closed>>
vars == <<session, num, beats, callerVars, mapVars, requests, messageVars, sweep, panic>>

Ids == 0 .. IdSpace - 1

CallerPcs  == {"idle", "put", "write", "wait", "returned"}
MessagePcs == {"none", "lookup", "send", "delete", "close", "done"}

TypeOK ==
    /\ session \in {"none", "working", "ended", "released"}
    /\ num \in Ids
    /\ beats \in 0 .. MaxBeats
    /\ at \in [Callers -> CallerPcs]
    /\ id \in [Callers -> Ids]
    /\ outcome \in [Callers -> Callers \cup {"open", "nil"}]
    /\ gaveUp \subseteq Callers
    /\ DOMAIN callRet \subseteq Ids
    /\ \A i \in DOMAIN callRet : callRet[i] \in Callers
    /\ closed \subseteq Callers
    /\ requests \subseteq Callers
    /\ msg \in [Callers -> MessagePcs]
    /\ waitRet \in [Callers -> SUBSET Callers]
    /\ sweep \in {"idle", "sweeping", "done"}
    /\ panic \in {"none", "nil session", "send outData", "send waitRet",
                  "close waitRet"}

Init ==
    /\ session = "none"
    /\ num = 0
    /\ beats = 0
    /\ at = [c \in Callers |-> "idle"]
    /\ id = [c \in Callers |-> 0]
    /\ outcome = [c \in Callers |-> "open"]
    /\ gaveUp = {}
    /\ callRet = [i \in {} |-> 0]
    /\ closed = {}
    /\ requests = {}
    /\ msg = [c \in Callers |-> "none"]
    /\ waitRet = [c \in Callers |-> {}]
    /\ sweep = "idle"
    /\ panic = "none"

Running  == panic = "none"
Unlocked == sweep # "sweeping"  \* mapLocker is free

\* Client.callRet as a map: assignment and delete.
Put(f, i, x)  == [j \in DOMAIN f \cup {i} |-> IF j = i THEN x ELSE f[j]]
Delete(f, i)  == [j \in DOMAIN f \ {i} |-> f[j]]

\* Counter.GetNum: the ID is the value after the increment, in 16 bits.
GetNum == (num + 1) % IdSpace
-----------------------------------------------------------------------------
(* The connection.                                                         *)

\* Client.Connect, called by TcpClient.Dial.
Connect ==
    /\ Running
    /\ session = "none"
    /\ session' = "working"
    /\ UNCHANGED <<num, beats, callerVars, mapVars, requests, messageVars, sweep, panic>>

\* heartbeat draws its IDs from the same counter.
Heartbeat ==
    /\ Running
    /\ session = "working"
    /\ beats < MaxBeats
    /\ beats' = beats + 1
    /\ num' = GetNum
    /\ UNCHANGED <<session, callerVars, mapVars, requests, messageVars, sweep, panic>>

\* A reply arrives and processInData starts Message in a goroutine.
Reply(r) ==
    /\ Running
    /\ session = "working"
    /\ r \in requests
    /\ msg[r] = "none"
    /\ msg' = [msg EXCEPT ![r] = "lookup"]
    /\ UNCHANGED <<session, num, beats, callerVars, mapVars, requests, waitRet, sweep,
                   panic>>

\* TcpConn.Close: the session has ended and Client.Close is called next.
SessionEnds ==
    /\ Running
    /\ session = "working"
    /\ session' = "ended"
    /\ UNCHANGED <<num, beats, callerVars, mapVars, requests, messageVars, sweep, panic>>

Release ==
    /\ Running
    /\ session = "ended"
    /\ sweep = "done"
    /\ session' = "released"
    /\ UNCHANGED <<num, beats, callerVars, mapVars, requests, messageVars, sweep, panic>>
-----------------------------------------------------------------------------
(* Call and Send.                                                          *)

\* Call draws the ID and then encodes its arguments; Send encodes first.  The
\* encoding may fail, and a Send that fails draws no ID.
Begin(c) ==
    /\ Running
    /\ at[c] = "idle"
    /\ \/ /\ num' = GetNum
          /\ id' = [id EXCEPT ![c] = GetNum]
          /\ at' = [at EXCEPT ![c] = IF c \in Sends THEN "write" ELSE "put"]
          /\ UNCHANGED outcome
       \/ /\ IF c \in Sends THEN UNCHANGED <<num, id>>
                            ELSE num' = GetNum /\ id' = [id EXCEPT ![c] = GetNum]
          /\ at' = [at EXCEPT ![c] = "returned"]
          /\ outcome' = [outcome EXCEPT ![c] = "nil"]
    /\ UNCHANGED <<session, beats, gaveUp, mapVars, requests, messageVars, sweep, panic>>

Register(c) ==
    /\ Running
    /\ at[c] = "put"
    /\ Unlocked
    /\ callRet' = Put(callRet, id[c], c)
    /\ at' = [at EXCEPT ![c] = "write"]
    /\ UNCHANGED <<session, num, beats, id, outcome, gaveUp, closed, requests,
                   messageVars, sweep, panic>>

AfterWrite(c) ==
    /\ at' = [at EXCEPT ![c] = IF c \in Sends THEN "returned" ELSE "wait"]
    /\ outcome' = [outcome EXCEPT ![c] = IF c \in Sends THEN "nil" ELSE @]

\* doWrite.  What it queues before the end may or may not reach the server;
\* after Release it refuses, or panics if it had read the state before.
Write(c) ==
    /\ Running
    /\ at[c] = "write"
    /\ \/ /\ session = "working"
          /\ requests' = requests \cup {c}
          /\ AfterWrite(c)
          /\ UNCHANGED panic
       \/ /\ session # "none"
          /\ AfterWrite(c)
          /\ UNCHANGED <<requests, panic>>
       \/ /\ session = "released"
          /\ panic' = "send outData"
          /\ UNCHANGED <<at, outcome, requests>>
       \/ /\ session = "none"
          /\ panic' = "nil session"
          /\ UNCHANGED <<at, outcome, requests>>
    /\ UNCHANGED <<session, num, beats, id, gaveUp, mapVars, messageVars, sweep>>

\* The select: a closed waitRet gives ok = FALSE and nil is returned.
WaitClosed(c) ==
    /\ Running
    /\ at[c] = "wait"
    /\ c \in closed
    /\ at' = [at EXCEPT ![c] = "returned"]
    /\ outcome' = [outcome EXCEPT ![c] = "nil"]
    /\ UNCHANGED <<session, num, beats, id, gaveUp, mapVars, requests, messageVars,
                   sweep, panic>>

\* Mutant: a call that gives up closes its channel.
WaitTimeoutClosing(c) ==
    /\ Running
    /\ at[c] = "wait"
    /\ c \notin closed
    /\ closed' = closed \cup {c}
    /\ at' = [at EXCEPT ![c] = "returned"]
    /\ outcome' = [outcome EXCEPT ![c] = "nil"]
    /\ gaveUp' = gaveUp \cup {c}
    /\ UNCHANGED <<session, num, beats, id, callRet, requests, messageVars, sweep,
                   panic>>

\* After 3 s.  The entry in callRet stays.
WaitTimeout(c) ==
    /\ Running
    /\ at[c] = "wait"
    /\ at' = [at EXCEPT ![c] = "returned"]
    /\ outcome' = [outcome EXCEPT ![c] = "nil"]
    /\ gaveUp' = gaveUp \cup {c}
    /\ UNCHANGED <<session, num, beats, id, mapVars, requests, messageVars, sweep, panic>>
-----------------------------------------------------------------------------
(* Message, for the reply to request r.                                    *)

\* The channel is looked up under the read lock and the body decoded; an
\* unknown ID or an empty body ends the goroutine.
Lookup(r) ==
    /\ Running
    /\ msg[r] = "lookup"
    /\ Unlocked
    /\ IF id[r] \in DOMAIN callRet /\ r \notin Empty
       THEN /\ waitRet' = [waitRet EXCEPT ![r] = {callRet[id[r]]}]
            /\ msg' = [msg EXCEPT ![r] = "send"]
       ELSE /\ msg' = [msg EXCEPT ![r] = "done"]
            /\ UNCHANGED waitRet
    /\ UNCHANGED <<session, num, beats, callerVars, mapVars, requests, sweep, panic>>

\* Mutant: the reply goes to whichever call waits.
DeliverToAny(r) ==
    /\ Running
    /\ msg[r] = "send"
    /\ \E c \in Callers \ closed :
          /\ at[c] = "wait"
          /\ at' = [at EXCEPT ![c] = "returned"]
          /\ outcome' = [outcome EXCEPT ![c] = r]
    /\ msg' = [msg EXCEPT ![r] = "delete"]
    /\ UNCHANGED <<session, num, beats, id, gaveUp, mapVars, requests, waitRet, sweep,
                   panic>>

\* Mutant: the reply is sent a second time.
DeliverAgain(r) ==
    /\ Running
    /\ msg[r] = "send"
    /\ \E c \in waitRet[r] \ closed :
          /\ at[c] = "wait"
          /\ at' = [at EXCEPT ![c] = "returned"]
          /\ outcome' = [outcome EXCEPT ![c] = r]
    /\ UNCHANGED <<session, num, beats, id, gaveUp, mapVars, requests, messageVars, sweep,
                   panic>>

\* waitRet <- args meets its call, which returns.
Deliver(r) ==
    /\ Running
    /\ msg[r] = "send"
    /\ \E c \in waitRet[r] \ closed :
          /\ at[c] = "wait"
          /\ at' = [at EXCEPT ![c] = "returned"]
          /\ outcome' = [outcome EXCEPT ![c] = r]
    /\ msg' = [msg EXCEPT ![r] = "delete"]
    /\ UNCHANGED <<session, num, beats, id, gaveUp, mapVars, requests, waitRet, sweep,
                   panic>>

\* On a closed waitRet, waiting there or just arriving, it panics.
DeliverPanics(r) ==
    /\ Running
    /\ msg[r] = "send"
    /\ waitRet[r] \subseteq closed
    /\ panic' = "send waitRet"
    /\ UNCHANGED <<session, num, beats, callerVars, mapVars, requests, messageVars, sweep>>

\* Mutant: the entry is left to Close.
RemoveForgotten(r) ==
    /\ Running
    /\ msg[r] = "delete"
    /\ Unlocked
    /\ msg' = [msg EXCEPT ![r] = "close"]
    /\ UNCHANGED <<session, num, beats, callerVars, mapVars, requests, waitRet,
                   sweep, panic>>

Remove(r) ==
    /\ Running
    /\ msg[r] = "delete"
    /\ Unlocked
    /\ callRet' = Delete(callRet, id[r])
    /\ msg' = [msg EXCEPT ![r] = "close"]
    /\ UNCHANGED <<session, num, beats, callerVars, closed, requests, waitRet, sweep,
                   panic>>

CloseWaitRet(r) ==
    /\ Running
    /\ msg[r] = "close"
    /\ IF waitRet[r] \subseteq closed
       THEN /\ panic' = "close waitRet"
            /\ UNCHANGED <<closed, msg>>
       ELSE /\ closed' = closed \cup waitRet[r]
            /\ msg' = [msg EXCEPT ![r] = "done"]
            /\ UNCHANGED panic
    /\ UNCHANGED <<session, num, beats, callerVars, callRet, requests, waitRet, sweep>>
-----------------------------------------------------------------------------
(* Client.Close.                                                           *)

SweepBegin ==
    /\ Running
    /\ session = "ended"
    /\ sweep = "idle"
    /\ sweep' = "sweeping"
    /\ UNCHANGED <<session, num, beats, callerVars, mapVars, requests, messageVars, panic>>

\* Mutant: the entry goes but its channel is not closed.
SweepEntryOpen ==
    /\ Running
    /\ sweep = "sweeping"
    /\ \E i \in DOMAIN callRet : callRet' = Delete(callRet, i)
    /\ UNCHANGED <<session, num, beats, callerVars, closed, requests, messageVars,
                   sweep, panic>>

\* One turn of the loop, in any order of the entries.
SweepEntry ==
    /\ Running
    /\ sweep = "sweeping"
    /\ \E i \in DOMAIN callRet :
          /\ callRet' = Delete(callRet, i)
          /\ IF callRet[i] \in closed
             THEN panic' = "close waitRet" /\ UNCHANGED closed
             ELSE closed' = closed \cup {callRet[i]} /\ UNCHANGED panic
    /\ UNCHANGED <<session, num, beats, callerVars, requests, messageVars, sweep>>

SweepEnd ==
    /\ Running
    /\ sweep = "sweeping"
    /\ DOMAIN callRet = {}
    /\ sweep' = "done"
    /\ UNCHANGED <<session, num, beats, callerVars, mapVars, requests, messageVars, panic>>

Call(c)    == Begin(c) \/ Register(c) \/ Write(c) \/ WaitClosed(c) \/ WaitTimeout(c)
Message(r) == Lookup(r) \/ Deliver(r) \/ DeliverPanics(r) \/ Remove(r) \/ CloseWaitRet(r)
Close      == SweepBegin \/ SweepEntry \/ SweepEnd

Next ==
    \/ Connect
    \/ Heartbeat
    \/ SessionEnds
    \/ Close
    \/ Release
    \/ \E c \in Callers : Call(c) \/ Reply(c) \/ Message(c)

Spec == Init /\ [][Next]_vars

\* Goroutines that can run are scheduled.  Not fair: the server, the end of
\* the session, an application that starts no call, and the timeout, so that
\* nothing below owes its progress to it.
Fairness ==
    /\ WF_vars(Close)
    /\ WF_vars(Release)
    /\ \A c \in Callers : WF_vars(Message(c)) /\ WF_vars(WaitClosed(c))

FairSpec == Spec /\ Fairness
-----------------------------------------------------------------------------
(* Properties.                                                             *)

\* The IDs have not wrapped: no two calls have drawn the same one.  The code
\* takes this for granted.
NoWrap == \A c, d \in Callers :
    c # d /\ at[c] # "idle" /\ at[d] # "idle" => id[c] # id[d]

Answered(c) == outcome[c] \notin {"open", "nil"}

\* Until the IDs wrap a call returns the reply to its own request, never
\* another's: the ID, the map and the channel lead each reply back to the
\* goroutine that asked.
OwnAnswer == NoWrap => \A c \in Callers : Answered(c) => outcome[c] = c

\* Until the IDs wrap a waiting call can always be woken by its reply or by
\* Close: its channel is registered under its ID, or closed.
WaiterReachable ==
    NoWrap => \A c \in Callers \ Sends :
        at[c] = "wait" =>
            \/ c \in closed
            \/ id[c] \in DOMAIN callRet /\ callRet[id[c]] = c

\* A Message goroutine that finds its call gone is stuck only because the call
\* gave up by its timeout, or Close woke it, until the IDs wrap.
StuckOnlyAfterTimeout ==
    NoWrap => \A r \in Callers : \A c \in waitRet[r] :
        msg[r] = "send" /\ at[c] = "returned" => c \in gaveUp \cup closed

\* Until the IDs wrap a panic on a waitRet channel needs the end of the session:
\* two parties close a channel only when Close is one of them.
WaitRetPanicsNeedClose ==
    NoWrap /\ panic \in {"send waitRet", "close waitRet"} => sweep # "idle"

\* A call that got its answer leaves nothing behind: its entry is removed and
\* its channel closed, unless the process panics first.
AnsweredIsReleased ==
    \A c \in Callers :
        Answered(c) ~> (panic # "none" \/ (c \in closed /\ \A i \in DOMAIN callRet : callRet[i] # c))

\* When the session has ended every call that waits returns without waiting
\* for its timeout, if it was registered before Close took the lock and the
\* IDs have not wrapped.
CloseEndsCalls ==
    \A c \in Callers :
        (session = "ended" /\ sweep = "idle" /\ at[c] = "wait") ~>
            (panic # "none" \/ ~NoWrap \/ at[c] = "returned")

\* Until the IDs wrap the client implements Calls: each call ends once, with its
\* own answer or nil.
C == INSTANCE Calls WITH
    Callers <- Callers \ Sends,
    opened <- requests \ Sends,
    run <- {c \in Callers \ Sends : msg[c] # "none"},
    outcome <- [c \in Callers \ Sends |-> outcome[c]]

ImplementsCalls == C!CallInit /\ [][NoWrap' => C!CallNext \/ UNCHANGED C!callVars]_vars
=============================================================================
