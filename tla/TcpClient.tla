----------------------------- MODULE TcpClient -----------------------------
(***************************************************************************)
(* The client side of one connection (network/tcp.go): the goroutine of    *)
(* processInData, which owns the session, the heartbeat goroutine, the     *)
(* timer they share, the short-lived goroutines processInData starts for   *)
(* every frame, and Close, which the owner calls when the session ends and *)
(* an application may call at any moment.                                  *)
(*                                                                         *)
(* One TcpClient dials one session.  A Dial that fails leaves everything   *)
(* as it was, with no session: it is a stuttering step.                    *)
(***************************************************************************)
EXTENDS Session, FiniteSets

CONSTANTS MaxBeats,  \* bound: how many heartbeats the client sends
          MaxSends,  \* bound: how many frames, heartbeats and requests, it sends
          Callers,   \* goroutines of the application that send one request
          Apps       \* goroutines of the application that call Close

Beats == 1 .. MaxBeats
Owner == "owner"
Closers == {Owner} \cup Apps

\* A reply carries the head of the frame it answers.
ASSUME ClientAssumption ==
    /\ MaxBeats \in Nat /\ MaxSends \in Nat
    /\ Writers = Beats \cup Callers
    /\ Heads = Writers
    /\ Beats \cap Callers = {}
    /\ Owner \notin Apps

VARIABLES
    isOpen,      \* TcpConn.isOpen
    pc,          \* control point of processInData and of each caller of Close
    hb,          \* control point of heartbeat
    timerArmed,  \* the timer runs
    tickReady,   \* the one-place channel ticker.C holds a tick
    hbClosed,    \* cHeartbeat has been closed
    resets,      \* goroutines about to call ticker.Reset
    rets,        \* handleHeartbeatRet goroutines that wait to send on cHeartbeat
    beats,       \* heartbeats started (history)
    timeouts,    \* of those, how many were given up after 3 s (history)
    answered,    \* writers whose frame the server has answered
    closeEvents  \* number of calls of Handler.Close (history)

timerVars  == <<timerArmed, tickReady, resets>>
beatVars   == <<hb, rets, beats, timeouts>>
closeVars  == <<isOpen, pc, hbClosed, closeEvents>>
clientVars == <<timerVars, beatVars, closeVars, answered>>
vars == <<sessionVars, clientVars>>

OwnerPcs == {"none", "loop", "select"}
ClosePcs == {"isOpen", "ticker", "cHeartbeat", "handler", "inData", "outData",
             "cClose", "state", "done"}

\* What can end this process beyond the panics of the session itself.
ClientPanics == {"send cHeartbeat", "close cHeartbeat", "nil session"}
\* All control points and all panics, evaluated once.
AllPcs == OwnerPcs \cup ClosePcs \cup {"idle"}
AllPanics == Panics \cup ClientPanics

TypeOK ==
    /\ state \in States
    /\ ChanTypeOK
    /\ FlagTypeOK
    /\ WireTypeOK
    /\ LoopTypeOK
    /\ SenderTypeOK
    /\ panic \in AllPanics
    /\ isOpen \in BOOLEAN
    /\ pc \in [Closers -> AllPcs]
    /\ hb \in {"none", "loop", "tick", "await", "done"}
    /\ timerArmed \in BOOLEAN
    /\ tickReady \in BOOLEAN
    /\ hbClosed \in BOOLEAN
    /\ resets \in Nat
    /\ rets \in Nat
    /\ beats \in 0 .. MaxBeats
    /\ timeouts \in 0 .. beats
    /\ answered \subseteq Writers
    /\ closeEvents \in Nat

\* NewTcpClient: the timer runs from the start, before there is a session.
Init ==
    /\ SessionInit
    /\ isOpen = TRUE
    /\ pc = [c \in Closers |-> IF c = Owner THEN "none" ELSE "idle"]
    /\ hb = "none"
    /\ timerArmed = TRUE
    /\ tickReady = FALSE
    /\ hbClosed = FALSE
    /\ resets = 0
    /\ rets = 0
    /\ beats = 0
    /\ timeouts = 0
    /\ answered = {}
    /\ closeEvents = 0

Dialed == pc[Owner] # "none"

\* The bound on frames leaves room for another one.
MaySend == Cardinality({w \in Writers : sender[w] # "idle"}) < MaxSends
-----------------------------------------------------------------------------
(* Dial and processInData.                                                 *)

Dial ==
    /\ Running
    /\ ~Dialed
    /\ Start
    /\ pc' = [pc EXCEPT ![Owner] = "loop"]
    /\ hb' = "loop"
    /\ UNCHANGED <<timerVars, isOpen, hbClosed, closeEvents, rets, beats, timeouts,
                   answered>>

OwnerLoop ==
    /\ Running
    /\ pc[Owner] = "loop"
    /\ pc' = [pc EXCEPT ![Owner] = IF isOpen THEN "select" ELSE "done"]
    /\ UNCHANGED <<sessionVars, timerVars, beatVars, isOpen, hbClosed, closeEvents,
                   answered>>

\* Mutant: a heartbeat answer does not set the timer again, any other frame does.
DispatchResetsOnAnswer ==
    /\ Running
    /\ pc[Owner] = "select"
    /\ inData.buf # <<>>
    /\ LET beat == Head(inData.buf).dType = "HEARTBEAT_RET"
       IN  /\ rets' = IF beat THEN rets + 1 ELSE rets
           /\ resets' = IF beat THEN resets ELSE resets + 1
    /\ inData' = [inData EXCEPT !.buf = Tail(@)]
    /\ pc' = [pc EXCEPT ![Owner] = "loop"]
    /\ UNCHANGED <<state, outData, cClosed, connVars, readerVars, writerVars,
                   senderVars, panic, timerArmed, tickReady, hb, beats, timeouts,
                   isOpen, hbClosed, closeEvents, answered>>

\* Every frame starts a goroutine that resets the timer, a heartbeat answer
\* also one that passes it to heartbeat, DATA also the message handler.
Dispatch ==
    /\ Running
    /\ pc[Owner] = "select"
    /\ inData.buf # <<>>
    /\ rets' = IF Head(inData.buf).dType = "HEARTBEAT_RET" THEN rets + 1 ELSE rets
    /\ resets' = resets + 1
    /\ inData' = [inData EXCEPT !.buf = Tail(@)]
    /\ pc' = [pc EXCEPT ![Owner] = "loop"]
    /\ UNCHANGED <<state, outData, cClosed, connVars, readerVars, writerVars,
                   senderVars, panic, timerArmed, tickReady, hb, beats, timeouts,
                   isOpen, hbClosed, closeEvents, answered>>

\* inData is closed and empty: ok = FALSE, round the loop again.
InDataEnded ==
    /\ Running
    /\ pc[Owner] = "select"
    /\ inData.buf = <<>>
    /\ inData.closed
    /\ pc' = [pc EXCEPT ![Owner] = "loop"]
    /\ UNCHANGED <<sessionVars, timerVars, beatVars, isOpen, hbClosed, closeEvents,
                   answered>>

\* cClose yields a value: handleRead reports, or the channel is closed.
Notified ==
    /\ Running
    /\ pc[Owner] = "select"
    /\ \/ NotifyTaken
       \/ cClosed /\ UNCHANGED sessionVars
    /\ pc' = [pc EXCEPT ![Owner] = "isOpen"]
    /\ UNCHANGED <<timerVars, beatVars, isOpen, hbClosed, closeEvents, answered>>
-----------------------------------------------------------------------------
(* The timer and heartbeat.                                                *)

ResetRuns ==
    /\ Running
    /\ resets > 0
    /\ resets' = resets - 1
    /\ timerArmed' = TRUE
    /\ UNCHANGED <<sessionVars, tickReady, beatVars, closeVars, answered>>

\* The runtime sends a tick, or drops it when ticker.C already holds one.
Fire ==
    /\ Running
    /\ timerArmed
    /\ timerArmed' = FALSE
    /\ tickReady' = TRUE
    /\ UNCHANGED <<sessionVars, resets, beatVars, closeVars, answered>>

HeartbeatLoop ==
    /\ Running
    /\ hb = "loop"
    /\ hb' = IF isOpen THEN "tick" ELSE "done"
    /\ UNCHANGED <<sessionVars, timerVars, rets, beats, timeouts, closeVars, answered>>

\* Mutant: heartbeat does not wait for the answer.
HeartbeatTickNoWait ==
    /\ Running
    /\ hb = "tick"
    /\ tickReady
    /\ beats < MaxBeats /\ MaySend
    /\ tickReady' = FALSE
    /\ beats' = beats + 1
    /\ sender' = [sender EXCEPT ![beats + 1] = "check"]
    /\ hb' = "loop"
    /\ UNCHANGED <<state, chanVars, connVars, readerVars, writerVars, queued, panic,
                   timerArmed, resets, rets, timeouts, closeVars, answered>>

\* A tick: a number is drawn and doWrite starts in a goroutine of its own.
HeartbeatTick ==
    /\ Running
    /\ hb = "tick"
    /\ tickReady
    /\ beats < MaxBeats /\ MaySend
    /\ tickReady' = FALSE
    /\ beats' = beats + 1
    /\ sender' = [sender EXCEPT ![beats + 1] = "check"]
    /\ hb' = "await"
    /\ UNCHANGED <<state, chanVars, connVars, readerVars, writerVars, queued, panic,
                   timerArmed, resets, rets, timeouts, closeVars, answered>>

\* A value from cHeartbeat: from a goroutine that waits to send one, whichever
\* heartbeat it answers, or the zero value of the closed channel.
HeartbeatAnswered ==
    /\ Running
    /\ hb = "await"
    /\ \/ ~hbClosed /\ rets > 0 /\ rets' = rets - 1
       \/ hbClosed /\ UNCHANGED rets
    /\ hb' = "loop"
    /\ UNCHANGED <<sessionVars, timerVars, beats, timeouts, closeVars, answered>>

HeartbeatTimeout ==
    /\ Running
    /\ hb = "await"
    /\ timeouts' = timeouts + 1
    /\ timerArmed' = TRUE
    /\ hb' = "loop"
    /\ UNCHANGED <<sessionVars, tickReady, resets, rets, beats, closeVars, answered>>

\* handleHeartbeatRet on a closed cHeartbeat, waiting there or just arriving.
AnswerPanics ==
    /\ Running
    /\ rets > 0
    /\ hbClosed
    /\ panic' = "send cHeartbeat"
    /\ UNCHANGED <<state, chanVars, connVars, readerVars, writerVars, senderVars,
                   clientVars>>
-----------------------------------------------------------------------------
(* TcpClient.Close, one statement at a time: its own three, the Handler,   *)
(* then the four of Release.                                               *)

\* Mutant: Release forgets outData.
NextCloseSkipping == [p \in ClosePcs \ {"done"} |->
    CASE p = "isOpen" -> "ticker"      [] p = "ticker" -> "cHeartbeat"
      [] p = "cHeartbeat" -> "handler" [] p = "handler" -> "inData"
      [] p = "inData" -> "cClose"      [] p = "outData" -> "cClose"
      [] p = "cClose" -> "state"       [] p = "state" -> "done"]

NextClose == [p \in ClosePcs \ {"done"} |->
    CASE p = "isOpen" -> "ticker"      [] p = "ticker" -> "cHeartbeat"
      [] p = "cHeartbeat" -> "handler" [] p = "handler" -> "inData"
      [] p = "inData" -> "outData"     [] p = "outData" -> "cClose"
      [] p = "cClose" -> "state"       [] p = "state" -> "done"]

CloseAt(c, p) ==
    /\ Running
    /\ pc[c] = p
    /\ pc' = [pc EXCEPT ![c] = NextClose[p]]
    /\ UNCHANGED <<tickReady, resets, beatVars, answered>>

\* Mutant: isOpen stays TRUE.
CloseFlagForgotten(c) ==
    /\ CloseAt(c, "isOpen")
    /\ UNCHANGED <<sessionVars, timerArmed, isOpen, hbClosed, closeEvents>>

CloseFlag(c) ==
    /\ CloseAt(c, "isOpen")
    /\ isOpen' = FALSE
    /\ UNCHANGED <<sessionVars, timerArmed, hbClosed, closeEvents>>

CloseTicker(c) ==
    /\ CloseAt(c, "ticker")
    /\ timerArmed' = FALSE
    /\ UNCHANGED <<sessionVars, isOpen, hbClosed, closeEvents>>

\* Mutant: a second close of cHeartbeat is harmless.
CloseHeartbeatTwice(c) ==
    /\ CloseAt(c, "cHeartbeat")
    /\ hbClosed' = TRUE
    /\ UNCHANGED <<sessionVars, timerArmed, isOpen, closeEvents>>

CloseHeartbeat(c) ==
    /\ CloseAt(c, "cHeartbeat")
    /\ IF hbClosed
       THEN panic' = "close cHeartbeat" /\ UNCHANGED hbClosed
       ELSE hbClosed' = TRUE /\ UNCHANGED panic
    /\ UNCHANGED <<state, chanVars, connVars, readerVars, writerVars, senderVars,
                   timerArmed, isOpen, closeEvents>>

\* TcpConn.Close(this.session): without a session s.fd is a nil dereference.
CloseHandler(c) ==
    /\ CloseAt(c, "handler")
    /\ IF Dialed
       THEN closeEvents' = closeEvents + 1 /\ UNCHANGED panic
       ELSE panic' = "nil session" /\ UNCHANGED closeEvents
    /\ UNCHANGED <<state, chanVars, connVars, readerVars, writerVars, senderVars,
                   timerArmed, isOpen, hbClosed>>

CloseSession(c) ==
    /\ \/ CloseAt(c, "inData") /\ CloseInData
       \/ CloseAt(c, "outData") /\ CloseOutData
       \/ CloseAt(c, "cClose") /\ CloseNotify
       \/ CloseAt(c, "state") /\ SetClosed
    /\ UNCHANGED <<timerArmed, isOpen, hbClosed, closeEvents>>

Close(c) == CloseFlag(c) \/ CloseTicker(c) \/ CloseHeartbeat(c) \/ CloseHandler(c)
              \/ CloseSession(c)
-----------------------------------------------------------------------------
(* The application and the server at the other end.                        *)

AppClose(a) ==
    /\ Running
    /\ pc[a] = "idle"
    /\ pc' = [pc EXCEPT ![a] = "isOpen"]
    /\ UNCHANGED <<sessionVars, timerVars, beatVars, isOpen, hbClosed, closeEvents,
                   answered>>

\* WriteData and TcpConn.Write run doWrite in the caller's goroutine.
Write(w) ==
    /\ Running
    /\ Dialed
    /\ sender[w] = "idle" /\ MaySend
    /\ sender' = [sender EXCEPT ![w] = "check"]
    /\ UNCHANGED <<state, chanVars, connVars, readerVars, writerVars, queued, panic,
                   clientVars>>

\* The server answers each frame it received at most once, in any order.
Answer ==
    \E i \in DOMAIN wired :
        LET w == wired[i]
        IN  /\ w \notin answered
            /\ PeerSend([dType |-> IF w \in Beats THEN "HEARTBEAT_RET" ELSE "DATA",
                         head |-> w])
            /\ answered' = answered \cup {w}
            /\ UNCHANGED <<timerVars, beatVars, closeVars>>

Peer == Answer \/ (Dialed /\ PeerClose /\ UNCHANGED clientVars)

ReadLoop   == ReaderStep /\ UNCHANGED clientVars
WriteLoop  == WriterStep /\ UNCHANGED clientVars
WriterEnds == (WriterCheck \/ WriterRecv \/ WriterFail \/ WriterClose)
                 /\ UNCHANGED clientVars
Sending(w) == SenderStep(w) /\ UNCHANGED clientVars
OwnerStep  == OwnerLoop \/ Dispatch \/ InDataEnded \/ Notified \/ Close(Owner)
Heartbeat  == HeartbeatLoop \/ HeartbeatTick \/ HeartbeatAnswered \/ HeartbeatTimeout

Next ==
    \/ Dial
    \/ OwnerStep
    \/ ResetRuns \/ Fire \/ AnswerPanics
    \/ Heartbeat
    \/ \E a \in Apps : AppClose(a) \/ Close(a)
    \/ ReadLoop
    \/ WriteLoop
    \/ \E w \in Writers : Sending(w)
    \/ \E w \in Callers : Write(w)
    \/ Peer

Spec == Init /\ [][Next]_vars

\* Every goroutine that can run is scheduled and time passes.  Not fair: the
\* application, the server, and a conn.Write held up by the server.
Fairness ==
    /\ WF_vars(OwnerStep)
    /\ WF_vars(ResetRuns) /\ WF_vars(Fire) /\ WF_vars(AnswerPanics)
    /\ WF_vars(Heartbeat)
    /\ \A a \in Apps : WF_vars(Close(a))
    /\ WF_vars(ReadLoop)
    /\ WF_vars(WriterEnds)
    /\ \A w \in Writers : WF_vars(Sending(w))

FairSpec == Spec /\ Fairness
-----------------------------------------------------------------------------
(* Properties.                                                             *)

AnsweredBeats == answered \cap Beats
InFlight == arriving # <<>> \/ rHeld # <<>> \/ inData.buf # <<>>

\* An open client waits for a tick that will not come only while a heartbeat
\* has no answer: the timer is set again by the timeout or by the answer.
StallsOnlyUnanswered ==
    Running /\ isOpen /\ hb = "tick" =>
        \/ timerArmed \/ tickReady \/ resets > 0
        \/ InFlight
        \/ Cardinality(AnsweredBeats) < beats

\* handleHeartbeatRet goroutines pile up only by heartbeats that timed out:
\* each of those may leave one behind that nobody receives from.
BacklogFromTimeouts ==
    hbClosed \/ rets <= timeouts + (IF hb = "await" THEN 1 ELSE 0)

\* However many goroutines call Close and whatever the reader reports at the
\* same time, the Handler hears of the end of the session once.
HandlerClosedOnce == closeEvents <= 1

\* Nothing panics before somebody calls Close, and each panic has its cause:
\* the sends need the channel closed and a sender behind, and a second Close
\* or one without a session needs the application.
PanicsOnlyAfterClose ==
    Running \/
        /\ ~isOpen
        /\ panic = "send outData" => outData.closed /\ \E w \in Writers : sender[w] = "enqueue"
        /\ panic = "send cHeartbeat" => hbClosed /\ rets > 0
        /\ panic \notin {"send outData", "send cHeartbeat"} =>
              \E a \in Apps : pc[a] # "idle"

\* Release marks a session CLOSED only after every channel is closed, and
\* a session the owner alone closes has its connection closed before that.
ReleasedInOrder ==
    state = "CLOSED" =>
        /\ inData.closed /\ outData.closed /\ cClosed /\ hbClosed
        /\ (\A a \in Apps : pc[a] = "idle") => ~connOpen /\ reader = "done"

\* What the program does by itself: neither the application nor the server has
\* a part in it, and no conn.Write that waits for the server.
Program ==
    \/ OwnerStep \/ ResetRuns \/ Fire \/ AnswerPanics \/ Heartbeat
    \/ \E a \in Apps : Close(a)
    \/ ReadLoop
    \/ WriterEnds
    \/ \E w \in Writers : Sending(w)

\* Who of the program need not wait, besides reader, writer and doWrite.
OwnerCan ==
    \/ pc[Owner] = "loop" \/ pc[Owner] \in ClosePcs \ {"done"}
    \/ pc[Owner] = "select" /\ (inData.buf # <<>> \/ inData.closed \/ cClosed \/ reader = "notify")
HeartbeatCan ==
    \/ hb \in {"loop", "await"}
    \/ hb = "tick" /\ tickReady /\ beats < MaxBeats /\ MaySend

ProgramCan ==
    \/ OwnerCan \/ HeartbeatCan \/ ReaderCan \/ WriterCan
    \/ \E w \in Writers : SenderCan(w)
    \/ \E a \in Apps : pc[a] \in ClosePcs \ {"done"}
    \/ resets > 0 \/ timerArmed \/ (rets > 0 /\ hbClosed)

\* A program that does not wait takes a step, and one that takes none waits.
CanIsEnabled == Running => (ENABLED Program <=> ProgramCan)

\* Reader, writer and owner have ended, the Handler has heard of it and no
\* doWrite is left waiting for room.  The heartbeat may wait for a tick of the
\* stopped timer for ever, and never for an answer.
Ended ==
    /\ reader = "done" /\ writer = "done" /\ pc[Owner] = "done"
    /\ state = "CLOSED" /\ closeEvents = 1
    /\ \A w \in Writers : sender[w] \notin {"check", "enqueue"}
    /\ hb \in {"tick", "done"}

\* No two goroutines wait for one another: while one is left, one can go on.
NobodyStuck == ~peerOpen /\ Dialed /\ Running /\ ~ProgramCan => Ended

\* Once the server has closed the connection the client winds up by itself: it
\* comes to rest only when it has ended.  (The first part is CanIsEnabled; TLC
\* evaluates ENABLED once.)
ClientEnds ==
    LET on == ENABLED Program
    IN  /\ Running => (on <=> ProgramCan)
        /\ NobodyStuck
        /\ ~peerOpen /\ Dialed /\ Running /\ ~on => Ended

\* A tick the model's bounds keep heartbeat from taking.
OutOfBeats == (beats = MaxBeats \/ ~MaySend) /\ tickReady

\* The comment at tcp.go:202: heartbeat sends a heartbeat periodically.  A late
\* answer taken for the next heartbeat's leaves the timer unset if the server
\* falls silent then.
HeartbeatRepeats ==
    (isOpen /\ hb = "tick") ~> (hb = "await" \/ ~isOpen \/ OutOfBeats)
=============================================================================
