----------------------------- MODULE TcpServer -----------------------------
(***************************************************************************)
(* The server side of one connection (network/tcp.go): the goroutine that  *)
(* handleNewConn starts, which creates the session, hands it to the        *)
(* Handler and becomes processInData, the only receiver of inData and of   *)
(* cClose.  One handler goroutine answers each frame that asks for it.     *)
(*                                                                         *)
(* isOpen is not a variable: nothing sets it to FALSE on a TcpServer.      *)
(***************************************************************************)
EXTENDS Session

CONSTANTS MaxFrames,  \* bound: how many frames the peer sends
          Pushers     \* goroutines of the application that write unasked

\* The peer numbers its messages 1, 2, ... as TcpClient.msgCounter does, and
\* the goroutine that answers frame i is writer i.
ASSUME ServerAssumption ==
    /\ MaxFrames \in Nat
    /\ Heads = 1 .. MaxFrames
    /\ Writers = Heads \cup Pushers
    /\ Heads \cap Pushers = {}

VARIABLES
    owner,      \* control point of handleNewConn and then processInData
    dispatched, \* frames processInData has received, in order (history)
    closeEvents \* number of calls of Handler.Close (history)

serverVars == <<owner, dispatched, closeEvents>>
vars == <<sessionVars, serverVars>>

Before    == {"create", "connect", "recovered", "select"}
Releasing == {"close inData", "close outData", "close cClose", "set CLOSED", "done"}

TypeOK ==
    /\ SessionTypeOK
    /\ owner \in Before \cup {"handler close"} \cup Releasing
    /\ dispatched \in Seq(Frame)
    /\ closeEvents \in Nat

Init ==
    /\ SessionInit
    /\ owner = "create"
    /\ dispatched = <<>>
    /\ closeEvents = 0
-----------------------------------------------------------------------------
(* handleNewConn.                                                          *)

NewSession ==
    /\ Running
    /\ owner = "create"
    /\ Start
    /\ owner' = "connect"
    /\ UNCHANGED <<dispatched, closeEvents>>

\* Handler.Connect returns and processInData starts.
ConnectReturns ==
    /\ Running
    /\ owner = "connect"
    /\ owner' = "select"
    /\ UNCHANGED <<sessionVars, dispatched, closeEvents>>

\* Handler.Connect panics; the deferred function recovers and marks the
\* session, and processInData is never started.
ConnectPanics ==
    /\ Running
    /\ owner = "connect"
    /\ MarkClosing
    /\ owner' = "recovered"
    /\ UNCHANGED <<dispatched, closeEvents>>
-----------------------------------------------------------------------------
(* processInData.                                                          *)

\* The goroutine a frame starts: "check" is doWrite itself, "handle" the
\* message handler, which may come to call doWrite.
Spawned(f) ==
    CASE f.dType = "HEARTBEAT" /\ state = "WORKING" -> "check"
      [] f.dType = "DATA" -> "handle"
      [] OTHER -> "idle"

Dispatch ==
    /\ Running
    /\ owner = "select"
    /\ inData.buf # <<>>
    /\ LET f == Head(inData.buf)
       IN  /\ dispatched' = Append(dispatched, f)
           /\ sender' = [sender EXCEPT ![f.head] = Spawned(f)]
    /\ inData' = [inData EXCEPT !.buf = Tail(@)]
    /\ UNCHANGED <<state, outData, cClosed, connVars, readerVars, writerVars,
                   queued, panic, owner, closeEvents>>

\* The other case of the select: handleRead reports the end of the session.
\* When both cases are ready select takes either.
Notified ==
    /\ Running
    /\ owner = "select"
    /\ NotifyTaken
    /\ owner' = "handler close"
    /\ UNCHANGED <<dispatched, closeEvents>>

\* TcpConn.Close: the Handler first, then Release.
HandlerClose ==
    /\ Running
    /\ owner = "handler close"
    /\ closeEvents' = closeEvents + 1
    /\ owner' = "close inData"
    /\ UNCHANGED <<sessionVars, dispatched>>

\* Mutant: a statement of Release is there twice.
AfterRepeated == [p \in {"close inData", "close outData", "close cClose"} |->
                    CASE p = "close inData" -> "close inData"
                      [] p = "close outData" -> "close cClose"
                      [] p = "close cClose" -> "set CLOSED"]

\* The order of the statements of Release before the last.
After == [p \in {"close inData", "close outData", "close cClose"} |->
            CASE p = "close inData" -> "close outData"
              [] p = "close outData" -> "close cClose"
              [] p = "close cClose" -> "set CLOSED"]

ReleaseChannel(p, Close) ==
    /\ Running
    /\ owner = p
    /\ Close
    /\ owner' = After[p]
    /\ UNCHANGED <<dispatched, closeEvents>>

Release ==
    \/ ReleaseChannel("close inData", CloseInData)
    \/ ReleaseChannel("close outData", CloseOutData)
    \/ ReleaseChannel("close cClose", CloseNotify)
    \/ /\ Running
       /\ owner = "set CLOSED"
       /\ SetClosed
       /\ owner' = "done"
       /\ UNCHANGED <<dispatched, closeEvents>>
-----------------------------------------------------------------------------
(* The handler goroutines and the application.                             *)

\* A message handler ends without a reply or calls TcpConn.Write.
Handle(w) ==
    /\ Running
    /\ sender[w] = "handle"
    /\ \E pc \in {"check", "done"} : sender' = [sender EXCEPT ![w] = pc]
    /\ UNCHANGED <<state, chanVars, connVars, readerVars, writerVars, queued,
                   panic, serverVars>>

\* The application has the session from Handler.Connect on.
Push(w) ==
    /\ Running
    /\ owner # "create"
    /\ sender[w] = "idle"
    /\ sender' = [sender EXCEPT ![w] = "check"]
    /\ UNCHANGED <<state, chanVars, connVars, readerVars, writerVars, queued,
                   panic, serverVars>>

Peer ==
    /\ \/ /\ nread + Len(arriving) < MaxFrames
          /\ \E t \in DTypes :
                PeerSend([dType |-> t, head |-> nread + Len(arriving) + 1])
       \/ PeerClose
    /\ UNCHANGED serverVars

Owner    == NewSession \/ ConnectReturns \/ Dispatch \/ Notified
              \/ HandlerClose \/ Release
ReadLoop == ReaderStep /\ UNCHANGED serverVars
WriteLoop == WriterStep /\ UNCHANGED serverVars
Sending(w) == SenderStep(w) /\ UNCHANGED serverVars

Next ==
    \/ Owner
    \/ ConnectPanics
    \/ ReadLoop
    \/ WriteLoop
    \/ \E w \in Writers : Sending(w)
    \/ \E w \in Heads : Handle(w)
    \/ \E w \in Pushers : Push(w)
    \/ Peer

Spec == Init /\ [][Next]_vars

\* Every goroutine that can run is scheduled.  Not fair: the peer, a handler
\* that does not return, a Connect that panics, and a conn.Write held up by a
\* peer that does not read.
Fairness ==
    /\ WF_vars(Owner)
    /\ WF_vars(ReadLoop)
    /\ WF_vars((WriterCheck \/ WriterRecv \/ WriterFail \/ WriterClose)
                  /\ UNCHANGED serverVars)
    /\ \A w \in Writers : WF_vars(Sending(w))

FairSpec == Spec /\ Fairness
-----------------------------------------------------------------------------
(* Properties.                                                             *)

\* Frames are dispatched in the order the peer sent them, none twice and none
\* skipped: the reader, the channel and the dispatcher together are a FIFO.
InOrderDelivery ==
    \A i \in DOMAIN dispatched : dispatched[i].head = i

\* When processInData takes the close case of its select, every frame the
\* reader parsed has been dispatched except what inData still buffers.
BoundedLoss ==
    owner \notin Before => nread - Len(dispatched) \in 0 .. InCap

\* Release starts only after the reader has closed the connection and handed
\* over its notification: handleRead never meets a closed inData or cClose,
\* and a session never says CLOSED with its connection open.
ReleaseAfterReader ==
    inData.closed \/ outData.closed \/ cClosed \/ state = "CLOSED"
        => reader = "done" /\ ~connOpen

\* The one way a served session can take the process down is a doWrite that
\* passed the state check and sends after Release closed outData.
OnlyLateSendPanics ==
    panic # "none" =>
        /\ panic = "send outData"
        /\ outData.closed
        /\ \E w \in Writers : sender[w] = "enqueue"

\* While both ends are open no queued frame is lost, duplicated or reordered
\* on its way through outData and handleWrite.
WireOrder ==
    connOpen /\ peerOpen => wired \o wHeld \o outData.buf = queued

\* What the program does by itself: neither the peer, the application nor a
\* handler has a part in it, and no conn.Write that the peer holds up.
Program ==
    \/ Owner
    \/ ReadLoop
    \/ (WriterCheck \/ WriterRecv \/ WriterFail \/ WriterClose) /\ UNCHANGED serverVars
    \/ \E w \in Writers : Sending(w)

OwnerCan ==
    \/ owner \notin {"recovered", "select", "done"}
    \/ owner = "select" /\ (inData.buf # <<>> \/ (reader = "notify" /\ ~cClosed))

ProgramCan == OwnerCan \/ ReaderCan \/ WriterCan \/ \E w \in Writers : SenderCan(w)

\* A program that does not wait takes a step, and one that takes none waits.
CanIsEnabled == Running => (ENABLED Program <=> ProgramCan)

SessionEnded ==
    /\ reader = "done" /\ writer = "done" /\ owner = "done"
    /\ state = "CLOSED" /\ closeEvents = 1

\* Once the peer is gone no two goroutines wait for one another: where nobody
\* can go on the session has ended and no doWrite is left.
NobodyStuck ==
    ~peerOpen /\ Running /\ owner # "recovered" /\ ~ProgramCan =>
        SessionEnded /\ \A w \in Writers : sender[w] \notin {"check", "enqueue"}

\* Once the peer is gone the session ends by itself: its three goroutines
\* finish, the Handler hears of it once and the state is CLOSED.  Excepted
\* are a process that has panicked and a session whose Connect panicked.
SessionEnds ==
    /\ []CanIsEnabled
    /\ []NobodyStuck
    /\ ~peerOpen ~> panic # "none" \/ owner = "recovered" \/ SessionEnded

\* Nobody stays blocked on a full outData once the peer is gone.
NoSenderStuck ==
    \A w \in Writers :
        (sender[w] = "enqueue" /\ ~peerOpen) ~>
            sender[w] # "enqueue" \/ panic # "none" \/ owner = "recovered"

\* The inductive invariant, in three parts.  First: where the owner is decides
\* which channels are closed, the state and whether the reader has finished.
ControlInv ==
    /\ inData.closed <=> owner \in Releasing \ {"close inData"}
    /\ outData.closed <=> owner \in {"close cClose", "set CLOSED", "done"}
    /\ cClosed <=> owner \in {"set CLOSED", "done"}
    /\ owner = "create" =>
          state = "NEW_CONNECTION" /\ reader = "none" /\ writer = "none"
    /\ owner = "recovered" => state = "CLOSING"
    /\ owner = "done" <=> state = "CLOSED"
    /\ owner \notin Before => reader = "done"
    /\ reader \in {"notify", "done"} => ~connOpen

\* Second: the place of a frame is its number.  Read frames are dispatched,
\* buffered or in the reader's hands, and each part continues the one before.
NumberInv ==
    /\ nread = Len(dispatched) + Len(inData.buf) + Len(rHeld)
    /\ \A i \in DOMAIN inData.buf : inData.buf[i].head = Len(dispatched) + i
    /\ \A i \in DOMAIN rHeld : rHeld[i].head = nread
    /\ \A i \in DOMAIN arriving : arriving[i].head = nread + i

\* Third: what the properties say of the frames dispatched and of panics.
IInv ==
    /\ TypeOK
    /\ ControlInv
    /\ NumberInv
    /\ InOrderDelivery
    /\ OnlyLateSendPanics

\* The session implements the promise of FramePipe: frames in flight are the
\* ones in inData and the one in the reader's hands.
Pipe == INSTANCE FramePipe WITH
    Msg <- Frame, Cap <- InCap,
    inflight <- inData.buf \o rHeld, delivered <- dispatched,
    ended <- owner \notin Before

ImplementsPipe == Pipe!PipeSpec

\* A doWrite that finds the session closed logs and returns: the comment at
\* session.go:209.  The code checks before it sends, so this does not hold.
LateSendRefused == panic # "send outData"
=============================================================================
