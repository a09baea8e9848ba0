------------------------------ MODULE Session ------------------------------
(***************************************************************************)
(* One network session (network/session.go): the reader goroutine          *)
(* (handleRead), the writer goroutine (handleWrite), the goroutines that   *)
(* call doWrite, the three channels they share and the connection.         *)
(*                                                                         *)
(* The module has no specification of its own: a session is driven by the  *)
(* goroutine that created it, which differs on the two sides.  TcpServer   *)
(* and TcpClient extend this module with that goroutine.                   *)
(*                                                                         *)
(* The code shares the session's fields without a lock.  The model reads   *)
(* and writes the word-sized field "state" atomically and interleaves at   *)
(* every such access, every channel operation and every system call.  An   *)
(* unrecovered panic in any goroutine ends the process: every action of    *)
(* the program is guarded by Running.                                      *)
(*                                                                         *)
(* A definition with "Mutant:" in its comment is a faulty version of the   *)
(* one that follows it and is used nowhere: it shows which fault a         *)
(* property would report.                                                  *)
(***************************************************************************)
EXTENDS Naturals, Sequences

CONSTANTS Writers,  \* goroutines that call doWrite, each to send one frame
          Heads,    \* values of the head field of a frame (the message id)
          InCap,    \* capacity of inData: make(chan *Data, 1)
          OutCap    \* capacity of outData: make(chan []byte, 1)

ASSUME CapAssumption == InCap \in Nat \ {0} /\ OutCap \in Nat \ {0}

VARIABLES
    state,      \* Session.state
    inData,     \* Session.inData: [buf, closed]
    outData,    \* Session.outData: [buf, closed]; a frame is named by its writer
    cClosed,    \* the unbuffered channel Session.cClose has been closed
    connOpen,   \* this end of the connection has not been closed
    peerOpen,   \* the other end has not been closed
    arriving,   \* frames on the wire towards this end
    wired,      \* frames written to the connection, in order (history)
    reader,     \* control point of handleRead
    rHeld,      \* the frame handleRead has parsed and not yet passed on
    writer,     \* control point of handleWrite
    wHeld,      \* the frame handleWrite has taken and not yet written
    sender,     \* control point of each doWrite goroutine
    queued,     \* writers whose frame entered outData, in order (history)
    nread,      \* number of frames handleRead has parsed (history)
    panic       \* what ended the process, "none" while it runs

chanVars    == <<inData, outData, cClosed>>
connVars    == <<connOpen, peerOpen, arriving, wired>>
readerVars  == <<reader, rHeld, nread>>
writerVars  == <<writer, wHeld>>
senderVars  == <<sender, queued>>
sessionVars == <<state, chanVars, connVars, readerVars, writerVars, senderVars,
                 panic>>
-----------------------------------------------------------------------------
States  == {"NEW_CONNECTION", "WORKING", "CLOSING", "CLOSED"}
DTypes  == {"HEARTBEAT", "HEARTBEAT_RET", "DATA"}
Frame   == [dType : DTypes, head : Heads]

ReaderPcs == {"none", "check", "read", "send", "close", "notify", "done"}
WriterPcs == {"none", "check", "recv", "write", "close", "done"}
SenderPcs == {"idle", "handle", "check", "enqueue", "queued", "refused", "done"}
Panics    == {"none", "send outData", "send cClose", "close inData",
              "close outData", "close cClose"}

ChanTypeOK ==
    /\ inData \in [buf : Seq(Frame), closed : BOOLEAN]
    /\ Len(inData.buf) <= InCap
    /\ outData \in [buf : Seq(Writers), closed : BOOLEAN]
    /\ Len(outData.buf) <= OutCap

FlagTypeOK ==
    /\ cClosed \in BOOLEAN
    /\ connOpen \in BOOLEAN
    /\ peerOpen \in BOOLEAN

WireTypeOK ==
    /\ arriving \in Seq(Frame)
    /\ wired \in Seq(Writers)

\* A loop holds one frame when it is about to pass one on, and none elsewhere.
LoopTypeOK ==
    /\ reader \in ReaderPcs
    /\ rHeld \in Seq(Frame)
    /\ Len(rHeld) = (IF reader = "send" THEN 1 ELSE 0)
    /\ nread \in Nat
    /\ writer \in WriterPcs
    /\ wHeld \in Seq(Writers)
    /\ Len(wHeld) = (IF writer = "write" THEN 1 ELSE 0)

SenderTypeOK ==
    /\ sender \in [Writers -> SenderPcs]
    /\ queued \in Seq(Writers)

SessionTypeOK ==
    /\ state \in States
    /\ ChanTypeOK
    /\ FlagTypeOK
    /\ WireTypeOK
    /\ LoopTypeOK
    /\ SenderTypeOK
    /\ panic \in Panics

Running == panic = "none"

\* CreateSession: the channels are made, the state is NEW_CONNECTION.
SessionInit ==
    /\ state = "NEW_CONNECTION"
    /\ inData = [buf |-> <<>>, closed |-> FALSE]
    /\ outData = [buf |-> <<>>, closed |-> FALSE]
    /\ cClosed = FALSE
    /\ connOpen = TRUE
    /\ peerOpen = TRUE
    /\ arriving = <<>>
    /\ wired = <<>>
    /\ reader = "none"
    /\ rHeld = <<>>
    /\ writer = "none"
    /\ wHeld = <<>>
    /\ sender = [w \in Writers |-> "idle"]
    /\ queued = <<>>
    /\ nread = 0
    /\ panic = "none"

\* Start: WORKING first, then the two goroutines.
Start ==
    /\ state' = "WORKING"
    /\ reader' = "check"
    /\ writer' = "check"
    /\ UNCHANGED <<chanVars, connVars, rHeld, nread, wHeld, senderVars, panic>>

\* Session.Close only marks the state; no channel or connection is touched.
MarkClosing ==
    /\ state' = "CLOSING"
    /\ UNCHANGED <<chanVars, connVars, readerVars, writerVars, senderVars, panic>>
-----------------------------------------------------------------------------
(* The peer and the network.                                               *)

PeerSend(f) ==
    /\ peerOpen
    /\ arriving' = Append(arriving, f)
    /\ UNCHANGED <<state, chanVars, connOpen, peerOpen, wired, readerVars,
                   writerVars, senderVars, panic>>

PeerClose ==
    /\ peerOpen
    /\ peerOpen' = FALSE
    /\ UNCHANGED <<state, chanVars, connOpen, arriving, wired, readerVars,
                   writerVars, senderVars, panic>>
-----------------------------------------------------------------------------
(* handleRead and Reader.                                                  *)

ReaderCheck ==
    /\ Running
    /\ reader = "check"
    /\ reader' = IF state = "WORKING" THEN "read" ELSE "close"
    /\ UNCHANGED <<state, chanVars, connVars, rHeld, nread, writerVars,
                   senderVars, panic>>

\* Reader: both ReadFull calls succeed and the frame is parsed.
ReaderRead ==
    /\ Running
    /\ reader = "read"
    /\ connOpen
    /\ arriving # <<>>
    /\ rHeld' = <<Head(arriving)>>
    /\ arriving' = Tail(arriving)
    /\ nread' = nread + 1
    /\ reader' = "send"
    /\ UNCHANGED <<state, chanVars, connOpen, peerOpen, wired, writerVars,
                   senderVars, panic>>

\* A ReadFull fails: end of file, a frame cut short, a reset, or a
\* connection closed at this end.
ReaderFail ==
    /\ Running
    /\ reader = "read"
    /\ ~connOpen \/ ~peerOpen
    /\ reader' = "close"
    /\ UNCHANGED <<state, chanVars, connVars, rHeld, nread, writerVars,
                   senderVars, panic>>

\* Mutant: a full inData makes handleRead replace the frame in it.
ReaderSendReplacing ==
    /\ Running
    /\ reader = "send"
    /\ ~inData.closed
    /\ inData' = [inData EXCEPT !.buf =
                       IF Len(@) < InCap THEN Append(@, Head(rHeld)) ELSE rHeld]
    /\ rHeld' = <<>>
    /\ reader' = "check"
    /\ UNCHANGED <<state, outData, cClosed, connVars, nread, writerVars,
                   senderVars, panic>>

\* Mutant: handleRead gives its frame up when the connection is lost.
ReaderSendOrQuit ==
    /\ Running
    /\ reader = "send"
    /\ \/ /\ Len(inData.buf) < InCap
          /\ inData' = [inData EXCEPT !.buf = Append(@, Head(rHeld))]
          /\ reader' = "check"
       \/ /\ ~peerOpen
          /\ reader' = "close"
          /\ UNCHANGED inData
    /\ rHeld' = <<>>
    /\ UNCHANGED <<state, outData, cClosed, connVars, nread, writerVars,
                   senderVars, panic>>

\* A send on the closed inData panics, which runs the deferred function.
ReaderSend ==
    /\ Running
    /\ reader = "send"
    /\ \/ /\ ~inData.closed
          /\ Len(inData.buf) < InCap
          /\ inData' = [inData EXCEPT !.buf = Append(@, Head(rHeld))]
          /\ reader' = "check"
       \/ /\ inData.closed
          /\ reader' = "close"
          /\ UNCHANGED inData
    /\ rHeld' = <<>>
    /\ UNCHANGED <<state, outData, cClosed, connVars, nread, writerVars,
                   senderVars, panic>>

\* Mutant: the deferred function forgets conn.Close().
ReaderCloseForgotten ==
    /\ Running
    /\ reader = "close"
    /\ reader' = "notify"
    /\ UNCHANGED <<state, chanVars, connVars, rHeld, nread, writerVars,
                   senderVars, panic>>

\* The deferred function, first statement: conn.Close().
ReaderClose ==
    /\ Running
    /\ reader = "close"
    /\ connOpen' = FALSE
    /\ reader' = "notify"
    /\ UNCHANGED <<state, chanVars, peerOpen, arriving, wired, rHeld, nread,
                   writerVars, senderVars, panic>>

\* Second statement: cClose <- true meets the receiver that waits in select.
\* recover() comes after it.
NotifyTaken ==
    /\ reader = "notify"
    /\ ~cClosed
    /\ reader' = "done"
    /\ UNCHANGED <<state, chanVars, connVars, rHeld, nread, writerVars,
                   senderVars, panic>>

\* On a closed cClose the same statement panics before recover() is reached.
ReaderNotifyPanic ==
    /\ Running
    /\ reader = "notify"
    /\ cClosed
    /\ panic' = "send cClose"
    /\ UNCHANGED <<state, chanVars, connVars, readerVars, writerVars, senderVars>>
-----------------------------------------------------------------------------
(* handleWrite.                                                            *)

WriterCheck ==
    /\ Running
    /\ writer = "check"
    /\ writer' = IF state = "WORKING" THEN "recv" ELSE "close"
    /\ UNCHANGED <<state, chanVars, connVars, readerVars, wHeld, senderVars, panic>>

\* The single-case select: a frame, or ok = FALSE once outData is closed and
\* drained, which goes round the loop again.
WriterRecv ==
    /\ Running
    /\ writer = "recv"
    /\ \/ /\ outData.buf # <<>>
          /\ wHeld' = <<Head(outData.buf)>>
          /\ outData' = [outData EXCEPT !.buf = Tail(@)]
          /\ writer' = "write"
       \/ /\ outData.buf = <<>>
          /\ outData.closed
          /\ writer' = "check"
          /\ UNCHANGED <<wHeld, outData>>
    /\ UNCHANGED <<state, inData, cClosed, connVars, readerVars, senderVars, panic>>

\* conn.Write succeeds.  It may block for as long as the peer does not read.
WriterWrite ==
    /\ Running
    /\ writer = "write"
    /\ connOpen
    /\ wired' = Append(wired, Head(wHeld))
    /\ wHeld' = <<>>
    /\ writer' = "check"
    /\ UNCHANGED <<state, chanVars, connOpen, peerOpen, arriving, readerVars,
                   senderVars, panic>>

\* conn.Write fails; its error is ignored and the frame is lost.
WriterFail ==
    /\ Running
    /\ writer = "write"
    /\ ~connOpen \/ ~peerOpen
    /\ wHeld' = <<>>
    /\ writer' = "check"
    /\ UNCHANGED <<state, chanVars, connVars, readerVars, senderVars, panic>>

WriterClose ==
    /\ Running
    /\ writer = "close"
    /\ connOpen' = FALSE
    /\ writer' = "done"
    /\ UNCHANGED <<state, chanVars, peerOpen, arriving, wired, readerVars, wHeld,
                   senderVars, panic>>
-----------------------------------------------------------------------------
(* doWrite: the state is read, and only then is the frame sent.            *)

SendCheck(w) ==
    /\ Running
    /\ sender[w] = "check"
    /\ sender' = [sender EXCEPT ![w] =
                    IF state = "WORKING" THEN "enqueue" ELSE "refused"]
    /\ UNCHANGED <<state, chanVars, connVars, readerVars, writerVars, queued, panic>>

\* Mutant: a full outData makes doWrite drop the frame instead of waiting.
SendEnqueueDropping(w) ==
    /\ Running
    /\ sender[w] = "enqueue"
    /\ ~outData.closed
    /\ outData' = IF Len(outData.buf) < OutCap
                  THEN [outData EXCEPT !.buf = Append(@, w)] ELSE outData
    /\ queued' = Append(queued, w)
    /\ sender' = [sender EXCEPT ![w] = "queued"]
    /\ UNCHANGED <<state, inData, cClosed, connVars, readerVars, writerVars, panic>>

\* Mutant: outData has no capacity.
SendEnqueueUnbounded(w) ==
    /\ Running
    /\ sender[w] = "enqueue"
    /\ ~outData.closed
    /\ outData' = [outData EXCEPT !.buf = Append(@, w)]
    /\ queued' = Append(queued, w)
    /\ sender' = [sender EXCEPT ![w] = "queued"]
    /\ UNCHANGED <<state, inData, cClosed, connVars, readerVars, writerVars, panic>>

SendEnqueue(w) ==
    /\ Running
    /\ sender[w] = "enqueue"
    /\ ~outData.closed
    /\ Len(outData.buf) < OutCap
    /\ outData' = [outData EXCEPT !.buf = Append(@, w)]
    /\ queued' = Append(queued, w)
    /\ sender' = [sender EXCEPT ![w] = "queued"]
    /\ UNCHANGED <<state, inData, cClosed, connVars, readerVars, writerVars, panic>>

\* A send on the closed outData, whether it waited there or has just arrived.
SendPanic(w) ==
    /\ Running
    /\ sender[w] = "enqueue"
    /\ outData.closed
    /\ panic' = "send outData"
    /\ UNCHANGED <<state, chanVars, connVars, readerVars, writerVars, senderVars>>
-----------------------------------------------------------------------------
(* Release, one statement at a time.  Closing a closed channel panics.     *)

CloseInData ==
    /\ IF inData.closed
       THEN panic' = "close inData" /\ UNCHANGED inData
       ELSE inData' = [inData EXCEPT !.closed = TRUE] /\ UNCHANGED panic
    /\ UNCHANGED <<state, outData, cClosed, connVars, readerVars, writerVars,
                   senderVars>>

\* Mutant: outData is left open, for the garbage collector to take.
OutDataLeftOpen == UNCHANGED sessionVars

CloseOutData ==
    /\ IF outData.closed
       THEN panic' = "close outData" /\ UNCHANGED outData
       ELSE outData' = [outData EXCEPT !.closed = TRUE] /\ UNCHANGED panic
    /\ UNCHANGED <<state, inData, cClosed, connVars, readerVars, writerVars,
                   senderVars>>

CloseNotify ==
    /\ IF cClosed
       THEN panic' = "close cClose" /\ UNCHANGED cClosed
       ELSE cClosed' = TRUE /\ UNCHANGED panic
    /\ UNCHANGED <<state, inData, outData, connVars, readerVars, writerVars,
                   senderVars>>

\* Mutant: Release ends without the state CLOSED.
SetClosedForgotten == UNCHANGED sessionVars

SetClosed ==
    /\ state' = "CLOSED"
    /\ UNCHANGED <<chanVars, connVars, readerVars, writerVars, senderVars, panic>>
-----------------------------------------------------------------------------
(* The steps of the goroutines Start creates and of doWrite.               *)

ReaderStep == ReaderCheck \/ ReaderRead \/ ReaderFail \/ ReaderSend
                \/ ReaderClose \/ ReaderNotifyPanic
WriterStep == WriterCheck \/ WriterRecv \/ WriterWrite \/ WriterFail \/ WriterClose
SenderStep(w) == SendCheck(w) \/ SendEnqueue(w) \/ SendPanic(w)
-----------------------------------------------------------------------------
(* Who need not wait: for a frame, for room in a channel, for the receiver *)
(* of cClose.  A conn.Write that the peer holds up is taken to wait, until *)
(* either end of the connection is closed.                                 *)

ReaderCan ==
    \/ reader \in {"check", "close"}
    \/ reader = "read" /\ (arriving # <<>> \/ ~connOpen \/ ~peerOpen)
    \/ reader = "send" /\ (inData.closed \/ Len(inData.buf) < InCap)
    \/ reader = "notify" /\ cClosed
WriterCan ==
    \/ writer \in {"check", "close"}
    \/ writer = "recv" /\ (outData.buf # <<>> \/ outData.closed)
    \/ writer = "write" /\ (~connOpen \/ ~peerOpen)
SenderCan(w) ==
    \/ sender[w] = "check"
    \/ sender[w] = "enqueue" /\ (outData.closed \/ Len(outData.buf) < OutCap)
=============================================================================
