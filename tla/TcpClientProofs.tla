-------------------------- MODULE TcpClientProofs --------------------------
(***************************************************************************)
(* IInv is an inductive invariant of TcpClient, for any number of          *)
(* heartbeats, requests and callers of Close and any capacity of the two   *)
(* channels; the safety properties the runs check follow from it.          *)
(***************************************************************************)
EXTENDS TcpClient, SequenceTheorems, FiniteSetTheorems, TLAPS

USE DEF AllPcs, AllPanics

\* Some goroutine is at one of the statements P.
At(P) == \E c \in Closers : pc[c] \in P

\* The statements of Close that run only with cHeartbeat closed.
Releasing == {"handler", "inData", "outData", "cClose", "state"}
NotClosing == OwnerPcs \cup {"idle", "isOpen"}

\* Where the goroutines are decides isOpen and, the other way round, what a
\* closed cHeartbeat or a running Close says of them.  Holds after a panic too.
ControlInv ==
    /\ pc[Owner] \in OwnerPcs \cup ClosePcs
    /\ \A a \in Apps : pc[a] \in ClosePcs \cup {"idle"}
    /\ ~Dialed => reader = "none" /\ writer = "none" /\ hb = "none"
    /\ reader \in {"notify", "done"} => ~connOpen
    /\ isOpen <=> \A c \in Closers : pc[c] \in NotClosing
    /\ At(Releasing) => hbClosed
    /\ hbClosed => At(Releasing \cup {"done"})
    /\ (\A a \in Apps : pc[a] = "idle") /\ pc[Owner] \in ClosePcs => reader = "done"
    /\ ~Running => hbClosed
    /\ timeouts + (IF hb = "await" THEN 1 ELSE 0) <= beats

\* Closing cHeartbeat lets one goroutine through to Release, and how far it is
\* says which channels are closed and whether the Handler has been called.
ReleaseInv ==
    /\ \A c, d \in Closers : pc[c] \in Releasing /\ pc[d] \in Releasing => c = d
    /\ closeEvents = IF hbClosed /\ ~At({"handler"}) THEN 1 ELSE 0
    /\ inData.closed <=> hbClosed /\ ~At({"handler", "inData"})
    /\ outData.closed <=> hbClosed /\ ~At({"handler", "inData", "outData"})
    /\ cClosed <=> hbClosed /\ ~At({"handler", "inData", "outData", "cClose"})
    /\ state = "CLOSED" <=> hbClosed /\ ~At(Releasing)
    /\ ~Dialed /\ hbClosed => At({"handler"})

\* A frame is queued once its doWrite is through, and heartbeats are numbered.
SentInv ==
    /\ \A w \in Range(outData.buf) \cup Range(wHeld) \cup Range(wired) \cup answered :
          sender[w] = "queued"
    /\ \A b \in Beats : b > beats => sender[b] = "idle"

\* The answers on their way to processInData, oldest first.
Coming == inData.buf \o rHeld \o arriving
HeadsOf(s) == {f.head : f \in Range(s)}
Delivered == AnsweredBeats \ HeadsOf(Coming)

\* No answer comes twice, and each answers a frame of its own kind.
Distinct(s) == \A i, j \in DOMAIN s : s[i].head = s[j].head => i = j

ComingInv ==
    /\ \A f \in Range(Coming) :
          f.head \in answered /\ (f.dType = "HEARTBEAT_RET" => f.head \in Beats)
    /\ Distinct(Coming)

\* Every heartbeat that is over was answered or timed out, and an answer is
\* the end of a heartbeat or waits in a handleHeartbeatRet goroutine.
AnswersInv ==
    rets + beats <= timeouts + (IF hb = "await" THEN 1 ELSE 0) + Cardinality(Delivered)

\* While the timer is at rest the answer to the last heartbeat is not in yet.
TimerInv ==
    \/ timerArmed \/ tickReady \/ resets > 0
    \/ beats > 0 /\ beats \notin Delivered

IInv ==
    /\ TypeOK
    /\ ControlInv
    /\ Running => ReleaseInv
    /\ SentInv
    /\ hbClosed \/ (ComingInv /\ AnswersInv)
    /\ isOpen => TimerInv
    /\ HandlerClosedOnce
    /\ PanicsOnlyAfterClose
    /\ ReleasedInOrder

Queue(S) == [buf : Seq(S), closed : BOOLEAN]

\* What a receive leaves of a channel's buffer.
LEMMA QueueRemove ==
    ASSUME NEW S, NEW q \in Queue(S), q.buf # <<>>
    PROVE  LET r == [q EXCEPT !.buf = Tail(@)]
           IN  /\ Head(q.buf) \in S
               /\ Head(q.buf) = q.buf[1]
               /\ Len(q.buf) \in Nat \ {0}
               /\ r \in Queue(S)
               /\ r.closed = q.closed
               /\ Len(r.buf) = Len(q.buf) - 1
               /\ \A i \in 1 .. Len(r.buf) : r.buf[i] = q.buf[i + 1]
<1>1. q.buf \in Seq(S)
  BY DEF Queue
<1>2. /\ Head(q.buf) \in S
      /\ Tail(q.buf) \in Seq(S)
      /\ Len(Tail(q.buf)) = Len(q.buf) - 1
      /\ \A i \in 1 .. Len(Tail(q.buf)) : Tail(q.buf)[i] = q.buf[i + 1]
  BY <1>1, HeadTailProperties
<1>3. Head(q.buf) = q.buf[1] /\ Len(q.buf) \in Nat \ {0}
  BY <1>1, EmptySeq
<1>. QED
  BY <1>1, <1>2, <1>3 DEF Queue

\* What a send adds to it.
LEMMA QueueAdd ==
    ASSUME NEW S, NEW q \in Queue(S), NEW e \in S
    PROVE  LET r == [q EXCEPT !.buf = Append(@, e)]
           IN  /\ r \in Queue(S)
               /\ r.closed = q.closed
               /\ Len(q.buf) \in Nat
               /\ Len(r.buf) = Len(q.buf) + 1
               /\ \A i \in 1 .. Len(q.buf) : r.buf[i] = q.buf[i]
               /\ r.buf[Len(q.buf) + 1] = e
<1>1. q.buf \in Seq(S) /\ Len(q.buf) \in Nat
  BY LenProperties DEF Queue
<1>2. /\ Append(q.buf, e) \in Seq(S)
      /\ Len(Append(q.buf, e)) = Len(q.buf) + 1
      /\ \A i \in 1 .. Len(q.buf) : Append(q.buf, e)[i] = q.buf[i]
      /\ Append(q.buf, e)[Len(q.buf) + 1] = e
  BY <1>1, AppendProperties
<1>. QED
  BY <1>1, <1>2 DEF Queue

\* A buffer of one element is not empty, and its head is an element.
LEMMA Single ==
    ASSUME NEW S, NEW s \in Seq(S), Len(s) = 1
    PROVE  s # <<>> /\ Head(s) \in S /\ Head(s) = s[1]
<1>1. s # <<>>
  BY EmptySeq
<1>. QED
  BY <1>1, HeadTailProperties

\* A sequence of one element.
LEMMA Singleton ==
    ASSUME NEW S, NEW e \in S
    PROVE  <<e>> \in Seq(S) /\ Len(<<e>>) = 1 /\ <<e>>[1] = e
  OBVIOUS

\* The elements of a sequence.
LEMMA RangeAppend ==
    ASSUME NEW S, NEW s \in Seq(S), NEW e \in S
    PROVE  Range(Append(s, e)) = Range(s) \cup {e}
<1>1. /\ Append(s, e) \in Seq(S) /\ Len(Append(s, e)) = Len(s) + 1
      /\ \A i \in 1 .. Len(s) : Append(s, e)[i] = s[i]
      /\ Append(s, e)[Len(s) + 1] = e
  BY AppendProperties
<1>2. /\ DOMAIN s = 1 .. Len(s) /\ Len(s) \in Nat
      /\ DOMAIN Append(s, e) = 1 .. Len(Append(s, e))
  BY <1>1, LenProperties
<1>3. 1 .. Len(Append(s, e)) = (1 .. Len(s)) \cup {Len(s) + 1}
  BY <1>1, <1>2
<1> DEFINE t == Append(s, e)
<1>4. DOMAIN t = DOMAIN s \cup {Len(s) + 1} /\ t[Len(s) + 1] = e
      /\ \A i \in DOMAIN s : t[i] = s[i]
  BY <1>1, <1>2, <1>3
<1> HIDE DEF t
<1>5. Range(t) = Range(s) \cup {e}
  BY <1>4 DEF Range
<1>. QED
  BY <1>5 DEF t

\* What is left when the first element of a sequence is taken.
LEMMA RangeTail ==
    ASSUME NEW S, NEW s \in Seq(S), s # <<>>
    PROVE  Range(s) = {Head(s)} \cup Range(Tail(s))
<1> DEFINE t == Tail(s)
<1>1. /\ t \in Seq(S) /\ Len(t) = Len(s) - 1 /\ Head(s) = s[1]
      /\ \A i \in 1 .. Len(t) : t[i] = s[i + 1]
      /\ Len(s) \in Nat \ {0}
  BY HeadTailProperties, EmptySeq
<1>2. DOMAIN s = 1 .. Len(s) /\ DOMAIN t = 1 .. Len(t)
  BY <1>1, LenProperties
<1> HIDE DEF t
<1>3. ASSUME NEW x \in Range(s) PROVE x = Head(s) \/ x \in Range(t)
  <2>1. PICK i \in 1 .. Len(s) : x = s[i]
    BY <1>2 DEF Range
  <2>2. CASE i = 1
    BY <1>1, <2>1, <2>2
  <2>3. CASE i # 1
    <3>1. i - 1 \in 1 .. Len(t) /\ t[i - 1] = s[i]
      BY <1>1, <2>3
    <3>. QED
      BY <1>2, <2>1, <3>1 DEF Range
  <2>. QED
    BY <2>2, <2>3
<1>4. Head(s) \in Range(s)
  BY <1>1, <1>2 DEF Range
<1>5. ASSUME NEW x \in Range(t) PROVE x \in Range(s)
  <2>1. PICK i \in 1 .. Len(t) : x = t[i]
    BY <1>2 DEF Range
  <2>2. i + 1 \in 1 .. Len(s) /\ t[i] = s[i + 1]
    BY <1>1
  <2>. QED
    BY <1>2, <2>1, <2>2 DEF Range
<1>6. Range(s) = {Head(s)} \cup Range(t)
  BY <1>3, <1>4, <1>5
<1>. QED
  BY <1>6 DEF t

\* The elements of the two shortest sequences.
LEMMA RangeShort ==
    ASSUME NEW e
    PROVE  Range(<<>>) = {} /\ Range(<<e>>) = {e}
  BY DEF Range

\* A sequence that is not empty is its head and then its tail.
LEMMA Uncons ==
    ASSUME NEW S, NEW s \in Seq(S), s # <<>>
    PROVE  /\ Head(s) \in S /\ Head(s) = s[1]
           /\ <<Head(s)>> \in Seq(S) /\ Tail(s) \in Seq(S)
           /\ s = <<Head(s)>> \o Tail(s)
<1>1. /\ Head(s) \in S /\ Tail(s) \in Seq(S) /\ Len(Tail(s)) = Len(s) - 1
      /\ \A i \in 1 .. Len(Tail(s)) : Tail(s)[i] = s[i + 1]
      /\ Len(s) \in Nat \ {0} /\ Head(s) = s[1]
  BY HeadTailProperties, EmptySeq
<1> DEFINE h == <<Head(s)>>
<1>2. h \in Seq(S) /\ Len(h) = 1 /\ h[1] = Head(s)
  BY <1>1, Singleton
<1> HIDE DEF h
<1>3. /\ h \o Tail(s) \in Seq(S)
      /\ Len(h \o Tail(s)) = Len(s)
      /\ \A i \in 1 .. Len(s) : (h \o Tail(s))[i] = IF i <= 1 THEN h[i] ELSE Tail(s)[i - 1]
  <2> DEFINE t == Tail(s)
  <2>1. Len(h) + Len(t) = Len(s) /\ t \in Seq(S)
    BY <1>1, <1>2
  <2> HIDE DEF t
  <2>2. /\ h \o t \in Seq(S)
        /\ Len(h \o t) = Len(h) + Len(t)
        /\ \A i \in 1 .. Len(h) + Len(t) : (h \o t)[i] = IF i <= Len(h) THEN h[i] ELSE t[i - Len(h)]
    BY <1>2, <2>1, ConcatProperties
  <2>. QED
    BY <1>2, <2>1, <2>2 DEF t
<1>4. \A i \in 1 .. Len(s) : (h \o Tail(s))[i] = s[i]
  <2> TAKE i \in 1 .. Len(s)
  <2>1. CASE i = 1
    BY <1>1, <1>2, <1>3, <2>1
  <2>2. CASE i # 1
    <3>1. i - 1 \in 1 .. Len(Tail(s)) /\ (i - 1) + 1 = i /\ ~(i <= 1)
      BY <1>1, <2>2
    <3>. QED
      BY <1>1, <1>3, <3>1
  <2>. QED
    BY <2>1, <2>2
<1>5. h \o Tail(s) = s
  BY <1>3, <1>4, SeqEqual
<1>. QED
  BY <1>1, <1>2, <1>5 DEF h

\* Two sequences in a row: what enters behind, what leaves in front, and what
\* moves up from the second to the first.
LEMMA EnterBehind ==
    ASSUME NEW S, NEW s \in Seq(S), NEW t \in Seq(S), NEW e \in S
    PROVE  s \o Append(t, e) = Append(s \o t, e)
<1>1. Append(t, e) = t \o <<e>> /\ <<e>> \in Seq(S)
  BY AppendIsConcat
<1>2. s \o t \in Seq(S)
  BY ConcatProperties
<1>3. Append(s \o t, e) = (s \o t) \o <<e>>
  BY <1>2, AppendIsConcat
<1>4. (s \o t) \o <<e>> = s \o (t \o <<e>>)
  <2> DEFINE u == <<e>>
  <2>1. u \in Seq(S)
    BY <1>1
  <2> HIDE DEF u
  <2>2. (s \o t) \o u = s \o (t \o u)
    BY <2>1, ConcatAssociative, SMTT(30)
  <2>. QED
    BY <2>2 DEF u
<1>. QED
  BY <1>1, <1>3, <1>4

\* Two sequences in a row, the first not empty: head and tail come from it.
LEMMA LeaveInFront ==
    ASSUME NEW S, NEW s \in Seq(S), NEW t \in Seq(S), s # <<>>
    PROVE  /\ s \o t \in Seq(S)
           /\ s \o t # <<>>
           /\ Head(s \o t) = Head(s)
           /\ Tail(s \o t) = Tail(s) \o t
<1> DEFINE v == s \o t
           h == <<Head(s)>>
<1>1. v \in Seq(S) /\ v # <<>> /\ v[1] = s[1]
  <2>1. /\ v \in Seq(S) /\ Len(v) = Len(s) + Len(t)
        /\ \A i \in 1 .. Len(s) + Len(t) : v[i] = IF i <= Len(s) THEN s[i] ELSE t[i - Len(s)]
        /\ Len(s) \in Nat \ {0} /\ Len(t) \in Nat
    BY ConcatProperties, EmptySeq, LenProperties
  <2> HIDE DEF v
  <2>2. v # <<>>
    BY <2>1, EmptySeq
  <2>3. v[1] = s[1]
    BY <2>1
  <2>. QED
    BY <2>1, <2>2, <2>3
<1>2. /\ Head(s) = s[1] /\ h \in Seq(S) /\ Tail(s) \in Seq(S) /\ s = h \o Tail(s)
  BY Uncons
<1> HIDE DEF v
<1>3. /\ Head(v) = v[1] /\ Tail(v) \in Seq(S) /\ v = <<Head(v)>> \o Tail(v)
  BY <1>1, Uncons
<1>4. Head(v) = Head(s)
  BY <1>1, <1>2, <1>3
<1>5. Tail(s) \o t \in Seq(S)
  BY <1>2, ConcatProperties
<1>6. v = h \o (Tail(s) \o t)
  <2>1. h \in Seq(S) /\ Tail(s) \in Seq(S)
    BY <1>2
  <2> HIDE DEF h
  <2>2. (h \o Tail(s)) \o t = h \o (Tail(s) \o t)
    BY <2>1, ConcatAssociative, SMTT(30)
  <2>. QED
    BY <1>2, <2>2 DEF v
<1>7. h \o Tail(v) = h \o (Tail(s) \o t)
  BY <1>3, <1>4, <1>6
<1>8. Tail(v) = Tail(s) \o t
  <2> HIDE DEF h
  <2>. QED
    BY <1>2, <1>3, <1>5, <1>7, ConcatSimplifications
<1>. QED
  BY <1>1, <1>4, <1>8 DEF v

\* An element goes from the front of one sequence to the end of the one before.
LEMMA MoveUp ==
    ASSUME NEW S, NEW s \in Seq(S), NEW t \in Seq(S), t # <<>>
    PROVE  s \o t = Append(s, Head(t)) \o Tail(t)
<1>1. /\ Head(t) \in S /\ <<Head(t)>> \in Seq(S) /\ Tail(t) \in Seq(S)
      /\ t = <<Head(t)>> \o Tail(t)
  BY Uncons
<1>2. Append(s, Head(t)) = s \o <<Head(t)>>
  BY <1>1, AppendIsConcat
<1>3. (s \o <<Head(t)>>) \o Tail(t) = s \o (<<Head(t)>> \o Tail(t))
  <2> DEFINE h == <<Head(t)>>
             u == Tail(t)
  <2>1. h \in Seq(S) /\ u \in Seq(S)
    BY <1>1
  <2> HIDE DEF h, u
  <2>2. (s \o h) \o u = s \o (h \o u)
    BY <2>1, ConcatAssociative, SMTT(30)
  <2>. QED
    BY <2>2 DEF h, u
<1>. QED
  BY <1>1, <1>2, <1>3
-----------------------------------------------------------------------------
(* Type correctness, one step per action.                                  *)

\* The initial values have their types.
LEMMA TypeInit == Init => TypeOK
<1> SUFFICES ASSUME Init PROVE TypeOK
  OBVIOUS
<1> USE DEF Init, SessionInit
<1>1. /\ <<>> \in Seq(Frame) /\ <<>> \in Seq(Writers)
      /\ Len(<<>>) = 0
  BY EmptySeq
<1>2. ChanTypeOK
  BY <1>1, CapAssumption DEF CapAssumption, ChanTypeOK
<1>3. FlagTypeOK
  BY DEF FlagTypeOK
<1>4. WireTypeOK /\ LoopTypeOK /\ SenderTypeOK
  BY <1>1 DEF WireTypeOK, LoopTypeOK, SenderTypeOK, ReaderPcs, WriterPcs, SenderPcs
<1>5. beats \in 0 .. MaxBeats /\ timeouts \in 0 .. beats
  BY ClientAssumption DEF ClientAssumption
<1>. QED
  BY <1>1, <1>2, <1>3, <1>4, <1>5 DEF TypeOK, States, Panics, OwnerPcs

\* A part of the type invariant whose variables do not change is kept.
LEMMA TypeKept ==
    /\ ChanTypeOK /\ UNCHANGED <<inData, outData>> => ChanTypeOK'
    /\ FlagTypeOK /\ UNCHANGED <<cClosed, connOpen, peerOpen>> => FlagTypeOK'
    /\ WireTypeOK /\ UNCHANGED <<arriving, wired>> => WireTypeOK'
    /\ LoopTypeOK /\ UNCHANGED <<readerVars, writerVars>> => LoopTypeOK'
    /\ SenderTypeOK /\ UNCHANGED senderVars => SenderTypeOK'
<1>1. ChanTypeOK /\ UNCHANGED <<inData, outData>> => ChanTypeOK'
  BY DEF ChanTypeOK
<1>2. FlagTypeOK /\ UNCHANGED <<cClosed, connOpen, peerOpen>> => FlagTypeOK'
  BY DEF FlagTypeOK
<1>3. WireTypeOK /\ UNCHANGED <<arriving, wired>> => WireTypeOK'
  BY DEF WireTypeOK
<1>4. LoopTypeOK /\ UNCHANGED <<readerVars, writerVars>> => LoopTypeOK'
  BY DEF LoopTypeOK, readerVars, writerVars
<1>5. SenderTypeOK /\ UNCHANGED senderVars => SenderTypeOK'
  BY DEF SenderTypeOK, senderVars
<1>. QED
  BY <1>1, <1>2, <1>3, <1>4, <1>5

\* The part of the type invariant that is about the client itself.
ClientTypeOK ==
    /\ isOpen \in BOOLEAN
    /\ pc \in [Closers -> OwnerPcs \cup ClosePcs \cup {"idle"}]
    /\ hb \in {"none", "loop", "tick", "await", "done"}
    /\ timerArmed \in BOOLEAN
    /\ tickReady \in BOOLEAN
    /\ hbClosed \in BOOLEAN
    /\ resets \in Nat
    /\ rets \in Nat
    /\ beats \in 0 .. MaxBeats
    /\ timeouts \in 0 .. beats
    /\ answered \subseteq Writers
    /\ closeEvents \in Nat

\* The client's part of the type invariant, in a step of the session alone.
LEMMA ClientKept == ClientTypeOK /\ UNCHANGED clientVars => ClientTypeOK'
  BY DEF ClientTypeOK, clientVars, timerVars, beatVars, closeVars

\* A statement of Close moves its goroutine to the next one.
LEMMA CloseMoves ==
    ASSUME pc \in [Closers -> OwnerPcs \cup ClosePcs \cup {"idle"}],
           NEW c \in Closers, NEW p \in ClosePcs \ {"done"}, CloseAt(c, p)
    PROVE  /\ pc' = [pc EXCEPT ![c] = NextClose[p]]
           /\ pc' \in [Closers -> OwnerPcs \cup ClosePcs \cup {"idle"}]
<1>1. NextClose[p] \in ClosePcs
  BY DEF NextClose, ClosePcs
<1>. QED
  BY <1>1 DEF CloseAt

\* Every step keeps the types, one case per action.
LEMMA TypeStep == TypeOK /\ ControlInv /\ [Next]_vars => TypeOK'
<1> SUFFICES ASSUME TypeOK, ControlInv, [Next]_vars PROVE TypeOK'
  OBVIOUS
<1> USE DEF sessionVars, clientVars, timerVars, beatVars, closeVars, chanVars, connVars,
            readerVars, writerVars, senderVars
<1> DEFINE Rest == state \in States /\ panic \in Panics \cup ClientPanics
<1>t. ChanTypeOK /\ FlagTypeOK /\ WireTypeOK /\ LoopTypeOK /\ SenderTypeOK
        /\ ClientTypeOK /\ Rest
  BY DEF TypeOK, ClientTypeOK
<1>p. SUFFICES ChanTypeOK' /\ FlagTypeOK' /\ WireTypeOK' /\ LoopTypeOK'
                 /\ SenderTypeOK' /\ ClientTypeOK' /\ Rest'
  BY DEF TypeOK, ClientTypeOK
<1>h. TypeOK' = (ChanTypeOK' /\ FlagTypeOK' /\ WireTypeOK' /\ LoopTypeOK'
                 /\ SenderTypeOK' /\ ClientTypeOK' /\ Rest')
  BY DEF TypeOK, ClientTypeOK
<1>w. pc \in [Closers -> OwnerPcs \cup ClosePcs \cup {"idle"}] /\ Owner \in Closers
  BY <1>t DEF ClientTypeOK, Closers
<1> HIDE DEF TypeOK
<1>1. CASE Dial
  <2>1. LoopTypeOK'
    <3>1. /\ reader = "none" /\ reader' = "check" /\ UNCHANGED rHeld
          /\ writer = "none" /\ writer' = "check" /\ UNCHANGED wHeld
          /\ UNCHANGED nread
      BY <1>1 DEF Dial, Start, ControlInv
    <3>. QED
      BY <1>t, <3>1 DEF LoopTypeOK, ReaderPcs, WriterPcs
  <2>2. Rest' /\ UNCHANGED <<chanVars, connVars, senderVars>>
    BY <1>1, <1>t DEF Dial, Start, States
  <2>3. ClientTypeOK'
    BY <1>1, <1>t, <1>w DEF Dial, ClientTypeOK, OwnerPcs
  <2>. QED
    BY <1>t, <2>1, <2>2, <2>3, TypeKept
<1>2. CASE OwnerLoop \/ InDataEnded
  <2>1. ClientTypeOK'
    BY <1>2, <1>t, <1>w DEF OwnerLoop, InDataEnded, ClientTypeOK, OwnerPcs, ClosePcs
  <2>2. Rest' /\ UNCHANGED sessionVars
    BY <1>2, <1>t DEF OwnerLoop, InDataEnded
  <2>. QED
    BY <1>t, <2>1, <2>2, TypeKept
<1>3. CASE Dispatch
  <2>1. inData \in Queue(Frame) /\ inData.buf # <<>>
    BY <1>3, <1>t DEF Dispatch, ChanTypeOK, Queue
  <2>2. /\ inData' \in Queue(Frame)
        /\ Len(inData.buf) \in Nat
        /\ Len(inData'.buf) = Len(inData.buf) - 1
    BY <1>3, <2>1, QueueRemove DEF Dispatch
  <2>3. ChanTypeOK'
    BY <1>3, <1>t, <2>2, CapAssumption DEF CapAssumption, Dispatch, ChanTypeOK, Queue
  <2>4. ClientTypeOK'
    <3>1. resets' \in Nat /\ rets' \in Nat
      <4>1. resets \in Nat /\ rets \in Nat
        BY <1>t DEF ClientTypeOK
      <4>. QED
        BY <1>3, <4>1 DEF Dispatch
    <3>. QED
      BY <1>3, <1>t, <1>w, <3>1 DEF Dispatch, ClientTypeOK, OwnerPcs
  <2>5. Rest' /\ UNCHANGED <<outData, cClosed, connVars, readerVars, writerVars, senderVars>>
    BY <1>3, <1>t DEF Dispatch
  <2>. QED
    BY <1>t, <2>3, <2>4, <2>5, TypeKept
<1>4. CASE Notified
  <2>1. LoopTypeOK'
    BY <1>4, <1>t DEF Notified, NotifyTaken, LoopTypeOK, ReaderPcs
  <2>2. ClientTypeOK'
    BY <1>4, <1>t, <1>w DEF Notified, ClientTypeOK, ClosePcs
  <2>3. Rest' /\ UNCHANGED <<chanVars, connVars, senderVars>>
    BY <1>4, <1>t DEF Notified, NotifyTaken
  <2>. QED
    BY <1>t, <2>1, <2>2, <2>3, TypeKept
<1>5. ASSUME NEW c \in Closers, Close(c) PROVE TypeOK'
  <2>1. CASE CloseFlag(c) \/ CloseTicker(c) \/ CloseHeartbeat(c) \/ CloseHandler(c)
    <3>1. pc' \in [Closers -> OwnerPcs \cup ClosePcs \cup {"idle"}]
      <4>1. PICK p \in {"isOpen", "ticker", "cHeartbeat", "handler"} : CloseAt(c, p)
        BY <2>1 DEF CloseFlag, CloseTicker, CloseHeartbeat, CloseHandler
      <4>2. p \in ClosePcs \ {"done"}
        BY DEF ClosePcs
      <4>. QED
        BY <1>w, <4>1, <4>2, CloseMoves
    <3>2. closeEvents' \in Nat
      <4>1. closeEvents \in Nat
        BY <1>t DEF ClientTypeOK
      <4>2. closeEvents' = closeEvents \/ closeEvents' = closeEvents + 1
        BY <2>1 DEF CloseFlag, CloseTicker, CloseHeartbeat, CloseHandler
      <4>. QED
        BY <4>1, <4>2
    <3>3. Rest' /\ UNCHANGED <<chanVars, connVars, readerVars, writerVars, senderVars>>
      BY <2>1, <1>t DEF CloseFlag, CloseTicker, CloseHeartbeat, CloseHandler, ClientPanics
    <3>4. isOpen' \in BOOLEAN /\ timerArmed' \in BOOLEAN /\ hbClosed' \in BOOLEAN
      BY <2>1, <1>t DEF CloseFlag, CloseTicker, CloseHeartbeat, CloseHandler, ClientTypeOK
    <3>5. UNCHANGED <<tickReady, resets, beatVars, answered>>
      BY <2>1 DEF CloseFlag, CloseTicker, CloseHeartbeat, CloseHandler, CloseAt
    <3>6. ClientTypeOK'
      BY <1>t, <3>1, <3>2, <3>4, <3>5 DEF ClientTypeOK
    <3>. QED
      BY <1>t, <1>h, <3>3, <3>6, TypeKept
  <2>2. CASE CloseSession(c)
    <3>1. PICK p \in {"inData", "outData", "cClose", "state"} : CloseAt(c, p)
      BY <2>2 DEF CloseSession
    <3>2. pc' \in [Closers -> OwnerPcs \cup ClosePcs \cup {"idle"}]
      <4>1. p \in ClosePcs \ {"done"}
        BY DEF ClosePcs
      <4>. QED
        BY <1>w, <3>1, <4>1, CloseMoves
    <3>3. ClientTypeOK'
      <4>1. UNCHANGED <<tickReady, resets, beatVars, answered, timerArmed, isOpen, hbClosed,
                        closeEvents>>
        BY <2>2, <3>1 DEF CloseAt, CloseSession
      <4>. QED
        BY <1>t, <3>2, <4>1 DEF ClientTypeOK
    <3>4. ChanTypeOK' /\ FlagTypeOK' /\ Rest'
      <4>1. CASE CloseInData
        BY <4>1, <1>t DEF CloseInData, ChanTypeOK, FlagTypeOK, Panics
      <4>2. CASE CloseOutData
        BY <4>2, <1>t DEF CloseOutData, ChanTypeOK, FlagTypeOK, Panics
      <4>3. CASE CloseNotify
        BY <4>3, <1>t DEF CloseNotify, ChanTypeOK, FlagTypeOK, Panics
      <4>4. CASE SetClosed
        BY <4>4, <1>t DEF SetClosed, ChanTypeOK, FlagTypeOK, States
      <4>. QED
        BY <2>2, <4>1, <4>2, <4>3, <4>4 DEF CloseSession
    <3>5. UNCHANGED <<connVars, readerVars, writerVars, senderVars>>
      BY <2>2 DEF CloseSession, CloseInData, CloseOutData, CloseNotify, SetClosed
    <3>. QED
      BY <1>t, <1>h, <3>3, <3>4, <3>5, TypeKept
  <2>. QED
    BY <1>5, <2>1, <2>2 DEF Close
<1>6. CASE ResetRuns \/ Fire \/ AnswerPanics
  <2>1. ClientTypeOK'
    <3>1. resets' \in Nat
      <4>1. resets \in Nat
        BY <1>t DEF ClientTypeOK
      <4>2. resets' = resets \/ (resets > 0 /\ resets' = resets - 1)
        BY <1>6 DEF ResetRuns, Fire, AnswerPanics
      <4>. QED
        BY <4>1, <4>2
    <3>. QED
      BY <1>6, <1>t, <3>1 DEF ResetRuns, Fire, AnswerPanics, ClientTypeOK
  <2>2. Rest' /\ UNCHANGED <<chanVars, connVars, readerVars, writerVars, senderVars>>
    BY <1>6, <1>t DEF ResetRuns, Fire, AnswerPanics, ClientPanics
  <2>. QED
    BY <1>t, <2>1, <2>2, TypeKept
<1>7. CASE HeartbeatLoop \/ HeartbeatAnswered \/ HeartbeatTimeout
  <2>1. ClientTypeOK'
    <3>1. rets \in Nat /\ beats \in 0 .. MaxBeats /\ timeouts \in 0 .. beats
          /\ MaxBeats \in Nat /\ beats' = beats
      BY <1>7, <1>t, ClientAssumption
         DEF ClientTypeOK, ClientAssumption, HeartbeatLoop, HeartbeatAnswered, HeartbeatTimeout
    <3>2. rets' \in Nat
      BY <1>7, <3>1 DEF HeartbeatLoop, HeartbeatAnswered, HeartbeatTimeout
    <3>3. timeouts' \in 0 .. beats'
      BY <1>7, <3>1 DEF HeartbeatLoop, HeartbeatAnswered, HeartbeatTimeout, ControlInv
    <3>4. hb' \in {"loop", "tick", "done"}
      BY <1>7 DEF HeartbeatLoop, HeartbeatAnswered, HeartbeatTimeout
    <3>5. timerArmed' \in BOOLEAN
      BY <1>7, <1>t DEF HeartbeatLoop, HeartbeatAnswered, HeartbeatTimeout, ClientTypeOK
    <3>6. UNCHANGED <<tickReady, resets, closeVars, answered>>
      BY <1>7 DEF HeartbeatLoop, HeartbeatAnswered, HeartbeatTimeout
    <3>. QED
      BY <1>t, <3>1, <3>2, <3>3, <3>4, <3>5, <3>6 DEF ClientTypeOK
  <2>2. Rest' /\ UNCHANGED sessionVars
    BY <1>7, <1>t DEF HeartbeatLoop, HeartbeatAnswered, HeartbeatTimeout
  <2>. QED
    BY <1>t, <2>1, <2>2, TypeKept
<1>8. CASE HeartbeatTick
  <2>1. /\ beats \in 0 .. MaxBeats /\ timeouts \in 0 .. beats /\ MaxBeats \in Nat
        /\ beats < MaxBeats /\ beats' = beats + 1 /\ timeouts' = timeouts
    BY <1>8, <1>t, ClientAssumption DEF ClientTypeOK, ClientAssumption, HeartbeatTick
  <2>2. beats' \in 0 .. MaxBeats /\ timeouts' \in 0 .. beats'
    BY <2>1
  <2>3. ClientTypeOK'
    BY <1>8, <1>t, <2>2 DEF HeartbeatTick, ClientTypeOK
  <2>4. SenderTypeOK'
    BY <1>8, <1>t DEF HeartbeatTick, SenderTypeOK, SenderPcs
  <2>5. Rest' /\ UNCHANGED <<chanVars, connVars, readerVars, writerVars>>
    BY <1>8, <1>t DEF HeartbeatTick
  <2>. QED
    BY <1>t, <2>3, <2>4, <2>5, TypeKept
<1>9. ASSUME NEW a \in Apps, AppClose(a) PROVE TypeOK'
  <2>1. ClientTypeOK'
    BY <1>9, <1>t, <1>w DEF AppClose, ClientTypeOK, ClosePcs, Closers
  <2>2. Rest' /\ UNCHANGED sessionVars
    BY <1>9, <1>t DEF AppClose
  <2>. QED
    BY <1>t, <1>h, <2>1, <2>2, TypeKept
<1>10. CASE ReadLoop
  <2>c. ClientTypeOK'
    BY <1>10, <1>t, ClientKept DEF ReadLoop
  <2>1. CASE ReaderCheck \/ ReaderFail \/ ReaderClose \/ ReaderNotifyPanic
    <3>1. LoopTypeOK'
      BY <2>1, <1>t DEF ReaderCheck, ReaderFail, ReaderClose, ReaderNotifyPanic,
                        LoopTypeOK, ReaderPcs
    <3>2. FlagTypeOK'
      BY <2>1, <1>t DEF ReaderCheck, ReaderFail, ReaderClose, ReaderNotifyPanic,
                        FlagTypeOK
    <3>3. Rest' /\ UNCHANGED <<inData, outData, arriving, wired, senderVars>>
      BY <1>10, <2>1, <1>t DEF ReadLoop, ReaderCheck, ReaderFail, ReaderClose,
                        ReaderNotifyPanic, Panics
    <3>. QED
      BY <1>t, <3>1, <3>2, <3>3, <2>c, TypeKept
  <2>2. CASE ReaderRead
    <3>1. arriving \in Seq(Frame) /\ arriving # <<>>
      BY <2>2, <1>t DEF ReaderRead, WireTypeOK
    <3>2. Head(arriving) \in Frame /\ Tail(arriving) \in Seq(Frame)
      BY <3>1, HeadTailProperties
    <3>3. rHeld' \in Seq(Frame) /\ Len(rHeld') = 1
      <4>1. rHeld' = <<Head(arriving)>>
        BY <2>2 DEF ReaderRead
      <4>. QED
        BY <3>2, <4>1, Singleton
    <3>4. LoopTypeOK'
      <4>1. reader' = "send" /\ nread' = nread + 1 /\ UNCHANGED <<writer, wHeld>>
        BY <2>2 DEF ReaderRead
      <4>. QED
        <5>1. nread' \in Nat
          <6>1. nread \in Nat
            BY <1>t DEF LoopTypeOK
          <6>. QED
            BY <4>1, <6>1
        <5>. QED
          BY <1>t, <3>3, <4>1, <5>1 DEF LoopTypeOK, ReaderPcs
    <3>5. WireTypeOK'
      BY <2>2, <1>t, <3>2 DEF ReaderRead, WireTypeOK
    <3>6. Rest' /\ UNCHANGED <<inData, outData, cClosed, connOpen, peerOpen, senderVars>>
      BY <1>10, <2>2, <1>t DEF ReadLoop, ReaderRead
    <3>. QED
      BY <1>t, <3>4, <3>5, <3>6, <2>c, TypeKept
  <2>3. CASE ReaderSend
    <3>1. LoopTypeOK'
      <4>1. reader' \in {"check", "close"} /\ rHeld' = <<>>
            /\ UNCHANGED <<nread, writer, wHeld>>
        BY <2>3 DEF ReaderSend
      <4>2. rHeld' \in Seq(Frame) /\ Len(rHeld') = 0
        BY <4>1, EmptySeq
      <4>. QED
        <5>1. reader' \in ReaderPcs /\ reader' # "send"
          BY <4>1 DEF ReaderPcs
        <5>2. nread' \in Nat /\ writer' \in WriterPcs /\ wHeld' \in Seq(Writers)
              /\ Len(wHeld') = (IF writer' = "write" THEN 1 ELSE 0)
          BY <1>t, <4>1 DEF LoopTypeOK
        <5>. QED
          BY <4>2, <5>1, <5>2 DEF LoopTypeOK
    <3>2. ChanTypeOK'
      <4>1. CASE inData.closed
        <5>1. UNCHANGED <<inData, outData>>
          BY <2>3, <4>1 DEF ReaderSend
        <5>. QED
          BY <1>t, <5>1, TypeKept
      <4>2. CASE ~inData.closed
        <5>1. Len(rHeld) = 1 /\ rHeld \in Seq(Frame)
          BY <2>3, <1>t DEF ReaderSend, LoopTypeOK
        <5>2. Head(rHeld) \in Frame
          BY <5>1, Single
        <5>3. inData \in Queue(Frame)
          BY <1>t DEF ChanTypeOK, Queue
        <5>4. /\ inData' = [inData EXCEPT !.buf = Append(@, Head(rHeld))]
              /\ Len(inData.buf) < InCap
              /\ UNCHANGED outData
          BY <2>3, <4>2 DEF ReaderSend
        <5>5. /\ inData' \in Queue(Frame)
              /\ Len(inData.buf) \in Nat
              /\ Len(inData'.buf) = Len(inData.buf) + 1
          BY <5>2, <5>3, <5>4, QueueAdd
        <5>. QED
          <6>1. Len(inData'.buf) <= InCap
            BY <5>4, <5>5, CapAssumption DEF CapAssumption
          <6>. QED
            BY <1>t, <5>4, <5>5, <6>1 DEF ChanTypeOK, Queue
      <4>. QED
        BY <4>1, <4>2
    <3>3. Rest' /\ UNCHANGED <<cClosed, connOpen, peerOpen, arriving, wired, senderVars>>
      BY <1>10, <2>3, <1>t DEF ReadLoop, ReaderSend
    <3>. QED
      BY <1>t, <3>1, <3>2, <3>3, <2>c, TypeKept
  <2>. QED
    BY <1>10, <2>1, <2>2, <2>3 DEF ReadLoop, ReaderStep
<1>11. CASE WriteLoop
  <2>c. ClientTypeOK'
    BY <1>11, <1>t, ClientKept DEF WriteLoop
  <2>1. CASE WriterCheck \/ WriterFail \/ WriterClose
    <3>1. LoopTypeOK'
      BY <2>1, <1>t, EmptySeq DEF WriterCheck, WriterFail, WriterClose, LoopTypeOK,
                        WriterPcs
    <3>2. FlagTypeOK'
      BY <2>1, <1>t DEF WriterCheck, WriterFail, WriterClose, FlagTypeOK
    <3>3. Rest' /\ UNCHANGED <<inData, outData, arriving, wired, senderVars>>
      BY <1>11, <2>1, <1>t DEF WriteLoop, WriterCheck, WriterFail, WriterClose
    <3>. QED
      BY <1>t, <3>1, <3>2, <3>3, <2>c, TypeKept
  <2>2. CASE WriterRecv
    <3>0. Rest' /\ UNCHANGED <<inData, cClosed, connOpen, peerOpen, arriving, wired,
                               readerVars, senderVars>>
      BY <1>11, <2>2, <1>t DEF WriteLoop, WriterRecv
    <3>1. CASE outData.buf = <<>>
      <4>1. LoopTypeOK'
        BY <2>2, <1>t, <3>1 DEF WriterRecv, LoopTypeOK, WriterPcs
      <4>2. UNCHANGED outData
        BY <2>2, <3>1 DEF WriterRecv
      <4>. QED
        BY <1>t, <3>0, <4>1, <4>2, <2>c, TypeKept
    <3>2. CASE outData.buf # <<>>
      <4>1. outData \in Queue(Writers)
        BY <1>t DEF ChanTypeOK, Queue
      <4>2. /\ writer' = "write"
            /\ outData' = [outData EXCEPT !.buf = Tail(@)]
            /\ wHeld' = <<Head(outData.buf)>>
        BY <2>2, <3>2 DEF WriterRecv
      <4>3. /\ Head(outData.buf) \in Writers
            /\ outData' \in Queue(Writers)
            /\ Len(outData.buf) \in Nat
            /\ Len(outData'.buf) = Len(outData.buf) - 1
        BY <3>2, <4>1, <4>2, QueueRemove
      <4>4. ChanTypeOK'
        <5>1. Len(outData'.buf) <= OutCap
          <6>1. Len(outData.buf) <= OutCap
            BY <1>t DEF ChanTypeOK
          <6>. QED
            BY <4>3, <6>1, CapAssumption DEF CapAssumption
        <5>. QED
          BY <1>t, <3>0, <4>3, <5>1 DEF ChanTypeOK, Queue
      <4>5. wHeld' \in Seq(Writers) /\ Len(wHeld') = 1
        BY <4>2, <4>3, Singleton
      <4>6. LoopTypeOK'
        BY <1>t, <3>0, <4>2, <4>5 DEF LoopTypeOK, WriterPcs
      <4>. QED
        BY <1>t, <3>0, <4>4, <4>6, <2>c, TypeKept
    <3>. QED
      BY <3>1, <3>2
  <2>3. CASE WriterWrite
    <3>1. Len(wHeld) = 1 /\ wHeld \in Seq(Writers)
      BY <2>3, <1>t DEF WriterWrite, LoopTypeOK
    <3>2. Head(wHeld) \in Writers
      BY <3>1, Single
    <3>3. WireTypeOK'
      BY <2>3, <1>t, <3>2, AppendProperties DEF WriterWrite, WireTypeOK
    <3>4. LoopTypeOK'
      BY <2>3, <1>t, EmptySeq DEF WriterWrite, LoopTypeOK, WriterPcs
    <3>5. Rest' /\ UNCHANGED <<inData, outData, cClosed, connOpen, peerOpen, senderVars>>
      BY <1>11, <2>3, <1>t DEF WriteLoop, WriterWrite
    <3>. QED
      BY <1>t, <3>3, <3>4, <3>5, <2>c, TypeKept
  <2>. QED
    BY <1>11, <2>1, <2>2, <2>3 DEF WriteLoop, WriterStep
<1>12. ASSUME NEW w \in Writers, Sending(w) PROVE TypeOK'
  <2>c. ClientTypeOK'
    BY <1>12, <1>t, <1>h, ClientKept DEF Sending
  <2>0. Rest' /\ UNCHANGED <<inData, cClosed, connOpen, peerOpen, arriving, wired,
                             readerVars, writerVars>>
    BY <1>12, <1>t DEF Sending, SenderStep, SendCheck, SendEnqueue, SendPanic, Panics
  <2>1. CASE SendCheck(w)
    <3>1. SenderTypeOK'
      BY <2>1, <1>t DEF SendCheck, SenderTypeOK, SenderPcs
    <3>2. UNCHANGED outData
      BY <2>1 DEF SendCheck
    <3>. QED
      BY <1>t, <1>h, <2>0, <3>1, <3>2, <2>c, TypeKept
  <2>2. CASE SendEnqueue(w)
    <3>1. outData \in Queue(Writers)
      BY <1>t DEF ChanTypeOK, Queue
    <3>2. outData' = [outData EXCEPT !.buf = Append(@, w)] /\ Len(outData.buf) < OutCap
      BY <2>2 DEF SendEnqueue
    <3>3. /\ outData' \in Queue(Writers)
          /\ Len(outData.buf) \in Nat
          /\ Len(outData'.buf) = Len(outData.buf) + 1
      BY <3>1, <3>2, QueueAdd
    <3>4. ChanTypeOK'
      <4>1. Len(outData'.buf) <= OutCap
        BY <3>2, <3>3, CapAssumption DEF CapAssumption
      <4>. QED
        BY <1>t, <1>h, <2>0, <3>3, <4>1 DEF ChanTypeOK, Queue
    <3>5. SenderTypeOK'
      BY <2>2, <1>t, <1>h, AppendProperties DEF SendEnqueue, SenderTypeOK, SenderPcs
    <3>. QED
      BY <1>t, <1>h, <2>0, <3>4, <3>5, <2>c, TypeKept
  <2>3. CASE SendPanic(w)
    <3>1. UNCHANGED <<outData, senderVars>>
      BY <2>3 DEF SendPanic
    <3>. QED
      BY <1>t, <1>h, <2>0, <3>1, <2>c, TypeKept
  <2>. QED
    BY <1>12, <2>1, <2>2, <2>3 DEF Sending, SenderStep
<1>13. ASSUME NEW w \in Callers, Write(w) PROVE TypeOK'
  <2>1. SenderTypeOK'
    BY <1>13, <1>t DEF Write, SenderTypeOK, SenderPcs
  <2>2. Rest' /\ UNCHANGED <<chanVars, connVars, readerVars, writerVars, clientVars>>
    BY <1>13, <1>t DEF Write
  <2>. QED
    BY <1>t, <1>h, <2>1, <2>2, TypeKept, ClientKept
<1>14. CASE Peer
  <2>1. CASE PeerClose /\ UNCHANGED clientVars
    <3>1. FlagTypeOK' /\ Rest'
      BY <2>1, <1>t DEF PeerClose, FlagTypeOK
    <3>. QED
      BY <2>1, <1>t, <3>1, TypeKept, ClientKept DEF PeerClose
  <2>2. ASSUME NEW i \in DOMAIN wired,
               PeerSend([dType |-> IF wired[i] \in Beats THEN "HEARTBEAT_RET" ELSE "DATA",
                         head |-> wired[i]]),
               answered' = answered \cup {wired[i]},
               UNCHANGED <<timerVars, beatVars, closeVars>>
        PROVE  TypeOK'
    <3> DEFINE f == [dType |-> IF wired[i] \in Beats THEN "HEARTBEAT_RET" ELSE "DATA",
                     head |-> wired[i]]
    <3>1. wired[i] \in Writers
      BY <1>t, ElementOfSeq, LenProperties DEF WireTypeOK
    <3>2. f \in Frame
      BY <3>1, ClientAssumption DEF ClientAssumption, Frame, DTypes
    <3>3. WireTypeOK'
      <4>1. arriving' = Append(arriving, f) /\ wired' = wired
        BY <2>2 DEF PeerSend
      <4> HIDE DEF f
      <4>. QED
        BY <1>t, <3>2, <4>1, AppendProperties DEF WireTypeOK
    <3>4. ClientTypeOK'
      BY <2>2, <1>t, <3>1 DEF ClientTypeOK
    <3>5. Rest' /\ UNCHANGED <<chanVars, connOpen, peerOpen, readerVars, writerVars, senderVars>>
      BY <2>2, <1>t DEF PeerSend
    <3>. QED
      BY <1>t, <1>h, <3>3, <3>4, <3>5, TypeKept
  <2>. QED
    BY <1>14, <1>h, <2>1, <2>2 DEF Peer, Answer
<1>15. CASE UNCHANGED vars
  <2>1. Rest' /\ UNCHANGED <<sessionVars, clientVars>>
    BY <1>15, <1>t DEF vars
  <2>. QED
    BY <1>t, <2>1, TypeKept, ClientKept
<1>. QED
  BY <1>1, <1>2, <1>3, <1>4, <1>5, <1>6, <1>7, <1>8, <1>9, <1>10, <1>11, <1>12, <1>13, <1>14,
     <1>15, <1>h DEF Next, OwnerStep, Heartbeat, Closers
-----------------------------------------------------------------------------
(* Where the goroutines are.                                               *)

\* Before Dial every goroutine is at its start.
LEMMA ControlInit == Init => ControlInv
<1> SUFFICES ASSUME Init PROVE ControlInv
  OBVIOUS
<1>1. /\ pc[Owner] = "none" /\ \A a \in Apps : pc[a] = "idle"
      /\ reader = "none" /\ writer = "none" /\ isOpen /\ ~hbClosed /\ hb = "none"
      /\ beats = 0 /\ timeouts = 0 /\ Running
  BY ClientAssumption DEF ClientAssumption, Init, SessionInit, Closers, Running
<1>. QED
  BY <1>1 DEF ControlInv, OwnerPcs, ClosePcs, Dialed, NotClosing, Closers, At, Releasing

\* Steps of a goroutine that is not closing anything and of no heartbeat.
LEMMA ControlKept ==
    ASSUME ControlInv, UNCHANGED <<pc, isOpen, hbClosed, panic, hb, beats, timeouts>>,
           UNCHANGED <<reader, writer>> \/ Dialed,
           reader' \in {"notify", "done"} => ~connOpen',
           reader = "done" => reader' = "done"
    PROVE  ControlInv'
  BY DEF ControlInv, Dialed, At, Running

\* The statement a goroutine of Close goes to.
LEMMA CloseGoes ==
    ASSUME NEW c \in Closers, NEW p, NEW q, CloseAt(c, p),
           <<p, q>> \in {<<"isOpen", "ticker">>, <<"ticker", "cHeartbeat">>,
                         <<"cHeartbeat", "handler">>, <<"handler", "inData">>,
                         <<"inData", "outData">>, <<"outData", "cClose">>,
                         <<"cClose", "state">>, <<"state", "done">>}
    PROVE  pc[c] = p /\ pc' = [pc EXCEPT ![c] = q]
<1>1. NextClose[p] = q
  BY DEF NextClose, ClosePcs
<1>. QED
  BY <1>1 DEF CloseAt

\* Every step keeps ControlInv, one case per action.
LEMMA ControlStep ==
    TypeOK /\ ControlInv /\ (Running => ReleaseInv) /\ [Next]_vars => ControlInv'
<1> SUFFICES ASSUME TypeOK, ControlInv, Running => ReleaseInv, [Next]_vars
             PROVE  ControlInv'
  OBVIOUS
<1> USE DEF sessionVars, clientVars, timerVars, beatVars, closeVars, chanVars, connVars,
            readerVars, writerVars, senderVars
<1>w. /\ pc \in [Closers -> OwnerPcs \cup ClosePcs \cup {"idle"}]
      /\ Owner \in Closers /\ Apps \subseteq Closers /\ Owner \notin Apps
      /\ \A c \in Closers : c = Owner \/ c \in Apps
      /\ isOpen \in BOOLEAN /\ hbClosed \in BOOLEAN
      /\ beats \in Nat /\ timeouts \in Nat
  BY ClientAssumption DEF ClientAssumption, Closers, TypeOK
<1>c. /\ pc[Owner] \in OwnerPcs \cup ClosePcs
      /\ \A a \in Apps : pc[a] \in ClosePcs \cup {"idle"}
      /\ ~Dialed => reader = "none" /\ writer = "none" /\ hb = "none"
      /\ reader \in {"notify", "done"} => ~connOpen
      /\ isOpen <=> \A c \in Closers : pc[c] \in NotClosing
      /\ At(Releasing) => hbClosed
      /\ hbClosed => At(Releasing \cup {"done"})
      /\ (\A a \in Apps : pc[a] = "idle") /\ pc[Owner] \in ClosePcs => reader = "done"
      /\ ~Running => hbClosed
      /\ timeouts + (IF hb = "await" THEN 1 ELSE 0) <= beats
  BY DEF ControlInv
<1>r. Running => /\ inData.closed => hbClosed
                 /\ outData.closed => hbClosed
                 /\ cClosed => hbClosed
  BY DEF ReleaseInv
\* Alone with the Owner, a closed cHeartbeat means that the Owner has closed it.
<1>a. (\A a \in Apps : pc[a] = "idle") /\ (hbClosed \/ ~isOpen) => pc[Owner] \in ClosePcs
  BY <1>c, <1>w DEF At, Releasing, ClosePcs, NotClosing, OwnerPcs
<1> HIDE DEF TypeOK, ControlInv
<1>1. CASE Dial
  <2>1. /\ Running /\ pc[Owner] = "none" /\ pc' = [pc EXCEPT ![Owner] = "loop"] /\ reader' = "check"
        /\ hb' = "loop" /\ UNCHANGED <<isOpen, hbClosed, panic, beats, timeouts>>
    BY <1>1 DEF Dial, Start, Dialed
  <2>. QED
    BY <1>w, <1>c, <2>1 DEF ControlInv, OwnerPcs, ClosePcs, Dialed, NotClosing, At, Releasing, Running
<1>2. CASE OwnerLoop \/ Dispatch \/ InDataEnded
  <2>1. PICK q \in {"select", "done", "loop"} :
          /\ pc[Owner] \in {"loop", "select"} /\ pc' = [pc EXCEPT ![Owner] = q]
          /\ q = "done" => ~isOpen
          /\ UNCHANGED <<isOpen, hbClosed, panic, hb, beats, timeouts, reader, writer, connOpen>>
    BY <1>2 DEF OwnerLoop, Dispatch, InDataEnded
  <2>. QED
    BY <1>w, <1>c, <1>a, <2>1
       DEF ControlInv, OwnerPcs, ClosePcs, Dialed, NotClosing, At, Releasing, Running
<1>3. CASE Notified
  <2>1. /\ Running /\ pc[Owner] = "select" /\ pc' = [pc EXCEPT ![Owner] = "isOpen"]
        /\ UNCHANGED <<isOpen, hbClosed, panic, hb, beats, timeouts, writer, connOpen>>
    BY <1>3 DEF Notified, NotifyTaken
  <2>2. \/ reader = "notify" /\ reader' = "done"
        \/ cClosed /\ reader' = reader
    BY <1>3 DEF Notified, NotifyTaken
  <2>3. (\A a \in Apps : pc[a] = "idle") => reader' = "done"
    BY <1>a, <1>r, <2>1, <2>2 DEF OwnerPcs, ClosePcs
  <2>4. \A a \in Apps : pc'[a] = pc[a]
    BY <1>w, <2>1
  <2>. QED
    BY <1>w, <1>c, <2>1, <2>2, <2>3, <2>4
       DEF ControlInv, OwnerPcs, ClosePcs, Dialed, NotClosing, At, Releasing, Running
<1>4. ASSUME NEW c \in Closers, Close(c) PROVE ControlInv'
  <2>1. UNCHANGED <<hb, beats, timeouts, reader, writer, connOpen>> /\ Running
    BY <1>4 DEF Close, CloseFlag, CloseTicker, CloseHeartbeat, CloseHandler, CloseSession,
                CloseAt, CloseInData, CloseOutData, CloseNotify, SetClosed
  <2>2. PICK p \in ClosePcs \ {"done"} :
          /\ CloseAt(c, p)
          /\ isOpen' = (IF p = "isOpen" THEN FALSE ELSE isOpen)
          /\ hbClosed' = (IF p = "cHeartbeat" THEN TRUE ELSE hbClosed)
          /\ p \in {"isOpen", "ticker"} => panic' = panic
    <3>1. CASE CloseFlag(c)
      <4>1. /\ CloseAt(c, "isOpen") /\ "isOpen" \in ClosePcs \ {"done"}
            /\ isOpen' = FALSE /\ hbClosed' = hbClosed /\ panic' = panic
        BY <1>w, <3>1 DEF CloseFlag, ClosePcs
      <4>. QED
        BY <4>1
    <3>2. CASE CloseTicker(c)
      <4>1. /\ CloseAt(c, "ticker") /\ "ticker" \in ClosePcs \ {"done"}
            /\ isOpen' = isOpen /\ hbClosed' = hbClosed /\ panic' = panic
        BY <1>w, <3>2 DEF CloseTicker, ClosePcs
      <4>. QED
        BY <4>1
    <3>3. CASE CloseHeartbeat(c)
      <4>1. /\ CloseAt(c, "cHeartbeat") /\ "cHeartbeat" \in ClosePcs \ {"done"}
            /\ isOpen' = isOpen /\ hbClosed' = TRUE
        BY <1>w, <3>3 DEF CloseHeartbeat, ClosePcs
      <4>. QED
        BY <4>1
    <3>4. CASE CloseHandler(c)
      <4>1. /\ CloseAt(c, "handler") /\ "handler" \in ClosePcs \ {"done"}
            /\ isOpen' = isOpen /\ hbClosed' = hbClosed
        BY <1>w, <3>4 DEF CloseHandler, ClosePcs
      <4>. QED
        BY <4>1
    <3>5. CASE CloseSession(c)
      <4>1. isOpen' = isOpen /\ hbClosed' = hbClosed
        BY <3>5 DEF CloseSession
      <4>2. \E p \in {"inData", "outData", "cClose", "state"} : CloseAt(c, p)
        BY <3>5 DEF CloseSession
      <4>. QED
        BY <4>1, <4>2 DEF ClosePcs
    <3>. QED
      BY <1>4, <3>1, <3>2, <3>3, <3>4, <3>5 DEF Close
  <2> DEFINE q == NextClose[p]
  <2>3. pc[c] = p /\ pc' = [pc EXCEPT ![c] = q]
    BY <2>2 DEF CloseAt
  <2>4. /\ p \in ClosePcs \ {"done"}
        /\ q \in ClosePcs \ NotClosing
        /\ q # "idle"
        /\ p # "isOpen" => p \notin NotClosing
        /\ p \notin {"isOpen", "ticker", "cHeartbeat"} => p \in Releasing
        /\ q \in Releasing \cup {"done"} <=> p \in Releasing \cup {"cHeartbeat"}
    BY <2>2 DEF ClosePcs, NotClosing, Releasing, OwnerPcs, NextClose
  <2> HIDE DEF q
  <2>5. (pc[Owner] \in OwnerPcs \cup ClosePcs)' /\ (\A a \in Apps : pc[a] \in ClosePcs \cup {"idle"})'
    BY <1>w, <1>c, <2>3, <2>4
  <2>6. (~Dialed)' => ~Dialed
    BY <1>w, <2>3, <2>4 DEF Dialed, NotClosing, OwnerPcs
  <2>7. (isOpen <=> \A d \in Closers : pc[d] \in NotClosing)'
    <3>1. ~isOpen'
      <4>1. CASE p = "isOpen"
        BY <2>2, <4>1
      <4>2. CASE p # "isOpen"
        BY <1>c, <2>2, <2>3, <2>4, <4>2
      <4>. QED
        BY <4>1, <4>2
    <3>. QED
      BY <1>w, <2>3, <2>4, <3>1
  <2>8. At(Releasing)' => hbClosed'
    BY <1>w, <1>c, <2>2, <2>3, <2>4 DEF At, Releasing
  <2>9. hbClosed' => At(Releasing \cup {"done"})'
    BY <1>w, <1>c, <2>2, <2>3, <2>4 DEF At, Releasing
  <2>10. ((\A a \in Apps : pc[a] = "idle") /\ pc[Owner] \in ClosePcs => reader = "done")'
    <3>1. CASE c = Owner
      BY <1>c, <2>1, <2>3, <2>4, <3>1
    <3>2. CASE c # Owner
      BY <1>w, <2>3, <2>4, <3>2 DEF ClosePcs
    <3>. QED
      BY <3>1, <3>2
  <2>11. (~Running)' => hbClosed'
    BY <1>w, <1>c, <2>1, <2>2, <2>3, <2>4 DEF At, Releasing, Running
  <2>. QED
    BY <1>c, <2>1, <2>5, <2>6, <2>7, <2>8, <2>9, <2>10, <2>11 DEF ControlInv
<1>5. CASE ResetRuns \/ Fire
  BY <1>5, <1>c, ControlKept DEF ResetRuns, Fire
<1>6. CASE AnswerPanics
  BY <1>6, <1>c DEF AnswerPanics, ControlInv, Dialed, At, Running
<1>7. CASE Heartbeat
  <2>1. hb # "none" /\ UNCHANGED <<pc, isOpen, hbClosed, panic, reader, writer, connOpen>>
    BY <1>7 DEF Heartbeat, HeartbeatLoop, HeartbeatTick, HeartbeatAnswered, HeartbeatTimeout
  <2>2. (timeouts + (IF hb = "await" THEN 1 ELSE 0) <= beats)'
    <3>1. \/ hb' # "await" /\ beats' = beats /\ timeouts' = timeouts
          \/ hb' # "await" /\ beats' = beats /\ hb = "await" /\ timeouts' = timeouts + 1
          \/ hb # "await" /\ beats' = beats + 1 /\ timeouts' = timeouts
      BY <1>7 DEF Heartbeat, HeartbeatLoop, HeartbeatTick, HeartbeatAnswered, HeartbeatTimeout
    <3>. QED
      BY <1>w, <1>c, <3>1
  <2>. QED
    BY <1>c, <2>1, <2>2 DEF ControlInv, Dialed, At, Running
<1>8. ASSUME NEW a \in Apps, AppClose(a) PROVE ControlInv'
  <2>1. /\ pc[a] = "idle" /\ pc' = [pc EXCEPT ![a] = "isOpen"]
        /\ UNCHANGED <<isOpen, hbClosed, panic, hb, beats, timeouts, reader, writer, connOpen>>
    BY <1>8 DEF AppClose
  <2>. QED
    BY <1>w, <1>c, <2>1
       DEF ControlInv, OwnerPcs, ClosePcs, Dialed, NotClosing, At, Releasing, Running
<1>9. CASE ReadLoop
  <2>1. /\ reader # "none" /\ reader # "done" /\ reader' # "done"
        /\ UNCHANGED <<pc, isOpen, hbClosed, hb, beats, timeouts>>
    BY <1>9 DEF ReadLoop, ReaderStep, ReaderCheck, ReaderRead, ReaderFail, ReaderSend,
                ReaderClose, ReaderNotifyPanic
  <2>2. reader' = "notify" => ~connOpen'
    <3>1. CASE ReaderClose \/ ReaderNotifyPanic
      BY <3>1, <1>c DEF ReaderClose, ReaderNotifyPanic
    <3>2. CASE ReaderCheck \/ ReaderRead \/ ReaderFail \/ ReaderSend
      BY <3>2 DEF ReaderCheck, ReaderRead, ReaderFail, ReaderSend
    <3>. QED
      BY <1>9, <3>1, <3>2 DEF ReadLoop, ReaderStep
  <2>3. (~Running)' => hbClosed'
    <3>1. CASE ReaderNotifyPanic
      BY <2>1, <3>1, <1>r DEF ReaderNotifyPanic
    <3>2. CASE ~ReaderNotifyPanic
      BY <1>9, <1>c, <2>1, <3>2 DEF ReadLoop, ReaderStep, ReaderCheck, ReaderRead, ReaderFail,
                ReaderSend, ReaderClose, Running
    <3>. QED
      BY <3>1, <3>2
  <2>. QED
    BY <1>c, <2>1, <2>2, <2>3 DEF ControlInv, Dialed, At
<1>10. CASE WriteLoop
  <2>1. /\ writer # "none" /\ UNCHANGED reader
        /\ UNCHANGED <<pc, isOpen, hbClosed, hb, beats, timeouts, panic>>
    BY <1>10 DEF WriteLoop, WriterStep, WriterCheck, WriterRecv, WriterWrite, WriterFail, WriterClose
  <2>2. connOpen' => connOpen
    <3>1. CASE WriterClose
      BY <3>1 DEF WriterClose
    <3>2. CASE ~WriterClose
      BY <1>10, <3>2 DEF WriteLoop, WriterStep, WriterCheck, WriterRecv, WriterWrite, WriterFail
    <3>. QED
      BY <3>1, <3>2
  <2>. QED
    BY <1>c, <2>1, <2>2, ControlKept
<1>11. ASSUME NEW w \in Writers, Sending(w) PROVE ControlInv'
  <2>1. UNCHANGED <<pc, isOpen, hbClosed, hb, beats, timeouts, reader, writer, connOpen>>
    BY <1>11 DEF Sending, SenderStep, SendCheck, SendEnqueue, SendPanic
  <2>2. (~Running)' => hbClosed'
    <3>1. CASE SendPanic(w)
      BY <2>1, <3>1, <1>r DEF SendPanic
    <3>2. CASE ~SendPanic(w)
      BY <1>11, <1>c, <2>1, <3>2 DEF Sending, SenderStep, SendCheck, SendEnqueue, Running
    <3>. QED
      BY <3>1, <3>2
  <2>. QED
    BY <1>c, <2>1, <2>2 DEF ControlInv, Dialed, At
<1>12. ASSUME NEW w \in Callers, Write(w) PROVE ControlInv'
  BY <1>12, <1>c, ControlKept DEF Write
<1>13. CASE Peer
  <2>1. UNCHANGED <<pc, isOpen, hbClosed, hb, beats, timeouts, panic, reader, writer, connOpen>>
    BY <1>13 DEF Peer, Answer, PeerSend, PeerClose
  <2>. QED
    BY <1>c, <2>1, ControlKept
<1>14. CASE UNCHANGED vars
  BY <1>14, <1>c, ControlKept DEF vars
<1>. QED
  BY <1>1, <1>2, <1>3, <1>4, <1>5, <1>6, <1>7, <1>8, <1>9, <1>10, <1>11, <1>12, <1>13, <1>14
     DEF Next, OwnerStep, Closers
-----------------------------------------------------------------------------
(* Release.                                                                *)

\* A process that has panicked does not come back.
LEMMA PanicStays == [Next]_vars /\ Running' => Running
<1> SUFFICES ASSUME [Next]_vars, ~Running PROVE panic' = panic
  BY DEF Running
<1>1. CASE Peer \/ UNCHANGED vars
  BY <1>1 DEF Peer, Answer, PeerSend, PeerClose, vars, sessionVars
<1>2. CASE ~Peer /\ Next
  <2>1. CASE \E c \in Closers : Close(c)
    BY <2>1 DEF Close, CloseFlag, CloseTicker, CloseHeartbeat, CloseHandler, CloseSession, CloseAt
  <2>2. CASE ~\E c \in Closers : Close(c)
    BY <1>2, <2>2 DEF Next, Dial, OwnerStep, OwnerLoop, Dispatch, InDataEnded, Notified, ResetRuns,
       Fire, AnswerPanics, Heartbeat, HeartbeatLoop, HeartbeatTick, HeartbeatAnswered,
       HeartbeatTimeout, AppClose, ReadLoop, ReaderStep, ReaderCheck, ReaderRead, ReaderFail,
       ReaderSend, ReaderClose, ReaderNotifyPanic, WriteLoop, WriterStep, WriterCheck, WriterRecv,
       WriterWrite, WriterFail, WriterClose, Sending, SenderStep, SendCheck, SendEnqueue,
       SendPanic, Write, Closers
  <2>. QED
    BY <2>1, <2>2
<1>. QED
  BY <1>1, <1>2

\* Before Dial nothing is closed.
LEMMA ReleaseInit == Init => ReleaseInv
  BY ClientAssumption
     DEF ClientAssumption, Init, SessionInit, ReleaseInv, At, Releasing, Closers

\* A goroutine that moves outside P changes nothing about who is in P.
LEMMA AtKept ==
    ASSUME pc \in [Closers -> OwnerPcs \cup ClosePcs \cup {"idle"}],
           NEW c \in Closers, NEW q, pc' = [pc EXCEPT ![c] = q],
           NEW P, pc[c] \notin P, q \notin P
    PROVE  At(P)' <=> At(P)
  BY DEF At

\* Steps that close no channel and enter or leave no statement of Release.
LEMMA ReleaseKept ==
    ASSUME pc \in [Closers -> OwnerPcs \cup ClosePcs \cup {"idle"}], ReleaseInv,
           UNCHANGED <<hbClosed, closeEvents, cClosed>>,
           inData'.closed = inData.closed, outData'.closed = outData.closed,
           (state = "CLOSED")' <=> state = "CLOSED",
           \/ UNCHANGED pc
           \/ \E c \in Closers, q \in {"loop", "select", "done", "isOpen", "ticker", "cHeartbeat"} :
                 pc[c] \notin Releasing /\ pc' = [pc EXCEPT ![c] = q],
           (~Dialed)' => ~Dialed
    PROVE  ReleaseInv'
<1>1. CASE UNCHANGED pc
  BY <1>1 DEF ReleaseInv, At, Dialed
<1>2. ASSUME NEW c \in Closers, pc[c] \notin Releasing, 
             NEW q \in {"loop", "select", "done", "isOpen", "ticker", "cHeartbeat"},
             pc' = [pc EXCEPT ![c] = q]
      PROVE  ReleaseInv'
  <2>1. ASSUME NEW P \in SUBSET Releasing PROVE At(P)' <=> At(P)
    <3>1. pc[c] \notin P /\ q \notin P
      BY <1>2 DEF Releasing
    <3>. QED
      BY <1>2, <3>1, AtKept
  <2>2. /\ {"handler"} \in SUBSET Releasing
        /\ {"handler", "inData"} \in SUBSET Releasing
        /\ {"handler", "inData", "outData"} \in SUBSET Releasing
        /\ {"handler", "inData", "outData", "cClose"} \in SUBSET Releasing
        /\ Releasing \in SUBSET Releasing
    BY DEF Releasing
  <2>3. /\ At({"handler"})' <=> At({"handler"})
        /\ At({"handler", "inData"})' <=> At({"handler", "inData"})
        /\ At({"handler", "inData", "outData"})' <=> At({"handler", "inData", "outData"})
        /\ At({"handler", "inData", "outData", "cClose"})'
              <=> At({"handler", "inData", "outData", "cClose"})
        /\ At(Releasing)' <=> At(Releasing)
    BY <2>1, <2>2
  <2>4. \A d, e \in Closers : pc'[d] \in Releasing /\ pc'[e] \in Releasing => d = e
    BY <1>2 DEF ReleaseInv, Releasing
  <2>. QED
    BY <2>3, <2>4 DEF ReleaseInv
<1>. QED
  BY <1>1, <1>2

\* The one goroutine that is past closing cHeartbeat.
LEMMA Alone ==
    ASSUME pc \in [Closers -> OwnerPcs \cup ClosePcs \cup {"idle"}], ReleaseInv,
           NEW c \in Closers, NEW p \in Releasing, NEW q, pc[c] = p, pc' = [pc EXCEPT ![c] = q],
           NEW P \in SUBSET Releasing
    PROVE  (At(P) <=> p \in P) /\ (At(P)' <=> q \in P)
  BY DEF At, ReleaseInv

\* Every step after which the process still runs keeps ReleaseInv.
LEMMA ReleaseStep ==
    TypeOK /\ ControlInv /\ (Running => ReleaseInv) /\ [Next]_vars => (Running' => ReleaseInv')
<1> SUFFICES ASSUME TypeOK, ControlInv, Running => ReleaseInv, [Next]_vars, Running'
             PROVE  ReleaseInv'
  OBVIOUS
<1> USE DEF sessionVars, clientVars, timerVars, beatVars, closeVars, chanVars, connVars,
            readerVars, writerVars, senderVars
<1>r. ReleaseInv /\ Running
  BY PanicStays
<1>w. /\ pc \in [Closers -> OwnerPcs \cup ClosePcs \cup {"idle"}]
      /\ Owner \in Closers /\ Apps \subseteq Closers
      /\ hbClosed \in BOOLEAN /\ closeEvents \in Nat /\ inData \in Queue(Frame)
      /\ outData \in Queue(Writers)
  BY DEF Closers, TypeOK, ChanTypeOK, Queue
<1>c. At(Releasing) => hbClosed
  BY DEF ControlInv
<1> HIDE DEF TypeOK, ControlInv
<1>1. CASE Dial
  <2>1. /\ pc[Owner] = "none" /\ pc' = [pc EXCEPT ![Owner] = "loop"]
        /\ UNCHANGED <<hbClosed, closeEvents, cClosed, inData, outData>>
        /\ state' = "WORKING"
    BY <1>1 DEF Dial, Start, Dialed
  <2>2. state # "CLOSED"
    <3>1. hbClosed => At({"handler"})
      BY <1>r, <2>1 DEF ReleaseInv, Dialed
    <3>2. At({"handler"}) => At(Releasing)
      BY DEF At, Releasing
    <3>. QED
      BY <1>r, <3>1, <3>2 DEF ReleaseInv
  <2>3. (~Dialed)' => ~Dialed
    BY <2>1 DEF Dialed
  <2>4. pc[Owner] \notin Releasing
    BY <2>1 DEF Releasing
  <2>. QED
    BY <1>r, <1>w, <2>1, <2>2, <2>3, <2>4, ReleaseKept
<1>2. CASE OwnerLoop \/ Dispatch \/ InDataEnded \/ Notified
  <2>1. PICK q \in {"loop", "select", "done", "isOpen"} :
           /\ pc[Owner] \in {"loop", "select"} /\ pc' = [pc EXCEPT ![Owner] = q]
           /\ UNCHANGED <<hbClosed, closeEvents, cClosed, outData, state>>
    BY <1>2 DEF OwnerLoop, Dispatch, InDataEnded, Notified, NotifyTaken
  <2>2. inData'.closed = inData.closed
    <3>1. CASE Dispatch
      BY <1>w, <3>1, QueueRemove DEF Dispatch
    <3>2. CASE ~Dispatch
      BY <1>2, <3>2 DEF OwnerLoop, InDataEnded, Notified, NotifyTaken
    <3>. QED
      BY <3>1, <3>2
  <2>3. pc[Owner] \notin Releasing /\ Dialed
    BY <2>1 DEF Releasing, Dialed
  <2>. QED
    BY <1>r, <1>w, <2>1, <2>2, <2>3, ReleaseKept DEF Dialed
<1>3. ASSUME NEW c \in Closers, CloseFlag(c) \/ CloseTicker(c) PROVE ReleaseInv'
  <2>1. PICK q \in {"ticker", "cHeartbeat"} :
           pc[c] \in {"isOpen", "ticker"} /\ pc' = [pc EXCEPT ![c] = q]
    BY <1>3, CloseGoes DEF CloseFlag, CloseTicker
  <2>2. UNCHANGED <<hbClosed, closeEvents, cClosed, inData, outData, state>>
    BY <1>3 DEF CloseFlag, CloseTicker
  <2>3. pc[c] \notin Releasing /\ ((~Dialed)' => ~Dialed)
    BY <1>w, <2>1 DEF Releasing, Dialed
  <2>. QED
    BY <1>r, <1>w, <2>1, <2>2, <2>3, ReleaseKept
<1>4. ASSUME NEW c \in Closers, CloseHeartbeat(c) PROVE ReleaseInv'
  <2>1. pc[c] = "cHeartbeat" /\ pc' = [pc EXCEPT ![c] = "handler"]
    BY <1>4, CloseGoes DEF CloseHeartbeat
  <2>2. ~hbClosed /\ hbClosed' /\ UNCHANGED <<closeEvents, cClosed, inData, outData, state>>
    BY <1>4, <1>w DEF CloseHeartbeat, Running
  <2>3. ~At(Releasing)
    BY <1>c, <2>2
  <2>4. \A d \in Closers : pc'[d] \in Releasing <=> d = c
    BY <1>w, <2>1, <2>3 DEF At, Releasing
  <2>5. pc'[c] = "handler"
    BY <1>w, <2>1
  <2>. QED
    BY <1>r, <2>2, <2>4, <2>5 DEF ReleaseInv, At, Releasing
<1>5. ASSUME NEW c \in Closers, CloseHandler(c) \/ CloseSession(c) PROVE ReleaseInv'
  <2>1. PICK p \in Releasing, q \in {"inData", "outData", "cClose", "state", "done"} :
          /\ pc[c] = p /\ pc' = [pc EXCEPT ![c] = q]
          /\ \/ p = "handler" /\ q = "inData" /\ CloseHandler(c)
             \/ p = "inData" /\ q = "outData" /\ CloseInData /\ CloseSession(c)
             \/ p = "outData" /\ q = "cClose" /\ CloseOutData /\ CloseSession(c)
             \/ p = "cClose" /\ q = "state" /\ CloseNotify /\ CloseSession(c)
             \/ p = "state" /\ q = "done" /\ SetClosed /\ CloseSession(c)
    <3>1. CASE CloseHandler(c)
      BY <3>1, CloseGoes DEF CloseHandler, Releasing
    <3>2. CASE CloseSession(c)
      <4>1. CASE CloseAt(c, "inData") /\ CloseInData
        BY <3>2, <4>1, CloseGoes DEF Releasing
      <4>2. CASE CloseAt(c, "outData") /\ CloseOutData
        BY <3>2, <4>2, CloseGoes DEF Releasing
      <4>3. CASE CloseAt(c, "cClose") /\ CloseNotify
        BY <3>2, <4>3, CloseGoes DEF Releasing
      <4>4. CASE CloseAt(c, "state") /\ SetClosed
        BY <3>2, <4>4, CloseGoes DEF Releasing
      <4>. QED
        BY <3>2, <4>1, <4>2, <4>3, <4>4 DEF CloseSession
    <3>. QED
      BY <1>5, <3>1, <3>2
  <2>2. ASSUME NEW P \in SUBSET Releasing
        PROVE  (At(P) <=> p \in P) /\ (At(P)' <=> q \in P)
    BY <1>r, <1>w, <2>1, Alone
  <2>3. /\ {"handler"} \in SUBSET Releasing
        /\ {"handler", "inData"} \in SUBSET Releasing
        /\ {"handler", "inData", "outData"} \in SUBSET Releasing
        /\ {"handler", "inData", "outData", "cClose"} \in SUBSET Releasing
        /\ Releasing \in SUBSET Releasing
    BY DEF Releasing
  <2>4. hbClosed /\ hbClosed'
    <3>1. hbClosed
      BY <1>c, <2>1 DEF At
    <3>. QED
      BY <1>5, <3>1 DEF CloseHandler, CloseSession
  <2>5. \A d, e \in Closers : pc'[d] \in Releasing /\ pc'[e] \in Releasing => d = e
    <3>1. \A d \in Closers : d # c => pc[d] \notin Releasing /\ pc'[d] = pc[d]
      BY <1>r, <1>w, <2>1 DEF ReleaseInv
    <3>. QED
      BY <3>1
  <2>6. (~Dialed)' /\ hbClosed' => At({"handler"})'
    <3>1. Dialed
      <4>1. CASE p = "handler"
        BY <1>5, <2>1, <4>1 DEF CloseHandler, Running, Releasing
      <4>2. CASE p # "handler"
        BY <1>r, <2>2, <2>3, <2>4, <4>2 DEF ReleaseInv
      <4>. QED
        BY <4>1, <4>2
    <3>. QED
      BY <1>w, <2>1, <3>1 DEF Dialed
  <2>7. (closeEvents = IF hbClosed /\ ~At({"handler"}) THEN 1 ELSE 0)'
    <3>1. closeEvents = IF p = "handler" THEN 0 ELSE 1
      BY <1>r, <2>2, <2>3, <2>4 DEF ReleaseInv
    <3>2. closeEvents' = 1
      <4>1. CASE p = "handler"
        <5>1. closeEvents' = closeEvents + 1
          BY <2>1, <4>1 DEF CloseHandler, Running
        <5>. QED
          BY <3>1, <4>1, <5>1
      <4>2. CASE p # "handler"
        BY <2>1, <3>1, <4>2 DEF CloseSession
      <4>. QED
        BY <4>1, <4>2
    <3>. QED
      BY <2>1, <2>2, <2>3, <2>4, <3>2
  <2>8. (inData.closed <=> hbClosed /\ ~At({"handler", "inData"}))'
    <3>1. inData.closed <=> p \notin {"handler", "inData"}
      BY <1>r, <2>2, <2>3, <2>4 DEF ReleaseInv
    <3>2. inData'.closed <=> q \notin {"handler", "inData"}
      BY <1>w, <2>1, <3>1 DEF CloseHandler, CloseInData, CloseOutData, CloseNotify, SetClosed,
         Running, Queue
    <3>. QED
      BY <2>2, <2>3, <2>4, <3>2
  <2>9. (outData.closed <=> hbClosed /\ ~At({"handler", "inData", "outData"}))'
    <3>1. outData.closed <=> p \notin {"handler", "inData", "outData"}
      BY <1>r, <2>2, <2>3, <2>4 DEF ReleaseInv
    <3>2. outData'.closed <=> q \notin {"handler", "inData", "outData"}
      BY <1>w, <2>1, <3>1 DEF CloseHandler, CloseInData, CloseOutData, CloseNotify, SetClosed,
         Running, Queue
    <3>. QED
      BY <2>2, <2>3, <2>4, <3>2
  <2>10. (cClosed <=> hbClosed /\ ~At({"handler", "inData", "outData", "cClose"}))'
    <3>1. cClosed <=> p \notin {"handler", "inData", "outData", "cClose"}
      BY <1>r, <2>2, <2>3, <2>4 DEF ReleaseInv
    <3>2. cClosed' <=> q \notin {"handler", "inData", "outData", "cClose"}
      BY <2>1, <3>1 DEF CloseHandler, CloseInData, CloseOutData, CloseNotify, SetClosed, Running
    <3>. QED
      BY <2>2, <2>3, <2>4, <3>2
  <2>11. (state = "CLOSED" <=> hbClosed /\ ~At(Releasing))'
    <3>1. state # "CLOSED"
      BY <1>r, <2>2, <2>3, <2>4 DEF ReleaseInv
    <3>2. state' = "CLOSED" <=> q = "done"
      BY <2>1, <3>1 DEF CloseHandler, CloseInData, CloseOutData, CloseNotify, SetClosed
    <3>. QED
      BY <2>2, <2>3, <2>4, <3>2 DEF Releasing
  <2>. QED
    BY <2>5, <2>6, <2>7, <2>8, <2>9, <2>10, <2>11 DEF ReleaseInv
<1>6. CASE ResetRuns \/ Fire \/ AnswerPanics \/ Heartbeat
  <2>1. UNCHANGED <<pc, hbClosed, closeEvents, cClosed, inData, outData, state>>
    BY <1>6 DEF ResetRuns, Fire, AnswerPanics, Heartbeat, HeartbeatLoop, HeartbeatTick,
                HeartbeatAnswered, HeartbeatTimeout
  <2>. QED
    BY <1>r, <1>w, <2>1, ReleaseKept DEF Dialed
<1>7. ASSUME NEW a \in Apps, AppClose(a) PROVE ReleaseInv'
  <2>1. /\ pc[a] = "idle" /\ pc' = [pc EXCEPT ![a] = "isOpen"] /\ a \in Closers
        /\ UNCHANGED <<hbClosed, closeEvents, cClosed, inData, outData, state>>
    BY <1>7, <1>w DEF AppClose
  <2>2. pc[a] \notin Releasing /\ ((~Dialed)' => ~Dialed)
    BY <1>w, <2>1 DEF Releasing, Dialed
  <2>. QED
    BY <1>r, <1>w, <2>1, <2>2, ReleaseKept
<1>8. CASE ReadLoop
  <2>1. UNCHANGED <<pc, hbClosed, closeEvents, cClosed, outData, state>>
    BY <1>8 DEF ReadLoop, ReaderStep, ReaderCheck, ReaderRead, ReaderFail, ReaderSend,
                ReaderClose, ReaderNotifyPanic
  <2>2. inData'.closed = inData.closed
    BY <1>8, <1>w DEF ReadLoop, ReaderStep, ReaderCheck, ReaderRead, ReaderFail, ReaderSend,
                ReaderClose, ReaderNotifyPanic, Queue
  <2>. QED
    BY <1>r, <1>w, <2>1, <2>2, ReleaseKept DEF Dialed
<1>9. CASE WriteLoop
  <2>1. UNCHANGED <<pc, hbClosed, closeEvents, cClosed, inData, state>>
    BY <1>9 DEF WriteLoop, WriterStep, WriterCheck, WriterRecv, WriterWrite, WriterFail, WriterClose
  <2>2. outData'.closed = outData.closed
    BY <1>9, <1>w DEF WriteLoop, WriterStep, WriterCheck, WriterRecv, WriterWrite, WriterFail,
                WriterClose, Queue
  <2>. QED
    BY <1>r, <1>w, <2>1, <2>2, ReleaseKept DEF Dialed
<1>10. ASSUME NEW w \in Writers, Sending(w) PROVE ReleaseInv'
  <2>1. UNCHANGED <<pc, hbClosed, closeEvents, cClosed, inData, state>>
    BY <1>10 DEF Sending, SenderStep, SendCheck, SendEnqueue, SendPanic
  <2>2. outData'.closed = outData.closed
    BY <1>10, <1>w DEF Sending, SenderStep, SendCheck, SendEnqueue, SendPanic, Queue
  <2>. QED
    BY <1>r, <1>w, <2>1, <2>2, ReleaseKept DEF Dialed
<1>11. ASSUME NEW w \in Callers, Write(w) PROVE ReleaseInv'
  <2>1. UNCHANGED <<pc, hbClosed, closeEvents, cClosed, inData, outData, state>>
    BY <1>11 DEF Write
  <2>. QED
    BY <1>r, <1>w, <2>1, ReleaseKept DEF Dialed
<1>12. CASE Peer \/ UNCHANGED vars
  <2>1. UNCHANGED <<pc, hbClosed, closeEvents, cClosed, inData, outData, state>>
    BY <1>12 DEF Peer, Answer, PeerSend, PeerClose, vars
  <2>. QED
    BY <1>r, <1>w, <2>1, ReleaseKept DEF Dialed
<1>. QED
  BY <1>1, <1>2, <1>3, <1>4, <1>5, <1>6, <1>7, <1>8, <1>9, <1>10, <1>11, <1>12
     DEF Next, OwnerStep, Close, Closers
-----------------------------------------------------------------------------
(* What has been sent.                                                     *)

\* Before Dial nothing is sent.
LEMMA SentInit == Init => SentInv
<1> SUFFICES ASSUME Init PROVE SentInv
  OBVIOUS
<1>1. outData.buf = <<>> /\ wHeld = <<>> /\ wired = <<>> /\ answered = {}
      /\ sender = [w \in Writers |-> "idle"]
  BY DEF Init, SessionInit
<1>2. Range(<<>>) = {}
  BY RangeShort
<1>. QED
  BY <1>1, <1>2, ClientAssumption DEF ClientAssumption, SentInv

\* The queues gain nothing and every frame stays queued.
LEMMA SentKept ==
    ASSUME SentInv,
           Range(outData'.buf) \cup Range(wHeld') \cup Range(wired') \cup answered'
              \subseteq Range(outData.buf) \cup Range(wHeld) \cup Range(wired) \cup answered,
           \A w \in Writers : sender[w] \in {"queued", "idle"} => sender'[w] = sender[w],
           Range(outData.buf) \cup Range(wHeld) \cup Range(wired) \cup answered \subseteq Writers,
           Beats \subseteq Writers,
           UNCHANGED beats
    PROVE  SentInv'
  BY DEF SentInv

\* Every step keeps SentInv: frames only move on, and a doWrite is never undone.
LEMMA SentStep == TypeOK /\ SentInv /\ [Next]_vars => SentInv'
<1> SUFFICES ASSUME TypeOK, SentInv, [Next]_vars PROVE SentInv'
  OBVIOUS
<1> USE DEF sessionVars, clientVars, timerVars, beatVars, closeVars, chanVars, connVars,
            readerVars, writerVars, senderVars
<1> DEFINE All == Range(outData.buf) \cup Range(wHeld) \cup Range(wired) \cup answered
<1>w. /\ outData \in Queue(Writers) /\ outData.buf \in Seq(Writers)
      /\ wHeld \in Seq(Writers) /\ wired \in Seq(Writers) /\ answered \subseteq Writers
      /\ sender \in [Writers -> SenderPcs]
      /\ beats \in Nat /\ Beats \subseteq Writers
      /\ Callers \subseteq Writers /\ Callers \cap Beats = {}
  BY ClientAssumption
     DEF ClientAssumption, TypeOK, ChanTypeOK, LoopTypeOK, WireTypeOK, SenderTypeOK, Queue
<1>h. writer = "write" => Len(wHeld) = 1
  BY DEF TypeOK, LoopTypeOK
<1>a. All \subseteq Writers
  BY <1>w, RangeOfSeq
<1>s. /\ \A w \in All : sender[w] = "queued"
      /\ \A b \in Beats : b > beats => sender[b] = "idle"
  BY DEF SentInv
<1>k. ASSUME All' \subseteq All, UNCHANGED beats,
             \A w \in Writers : sender[w] \in {"queued", "idle"} => sender'[w] = sender[w]
      PROVE  SentInv'
  BY <1>a, <1>k, <1>w, SentKept
<1> HIDE DEF TypeOK, SentInv
<1>1. CASE WriteLoop
  <2>1. UNCHANGED <<sender, beats, answered>>
    BY <1>1 DEF WriteLoop, WriterStep, WriterCheck, WriterRecv, WriterWrite, WriterFail, WriterClose
  <2>2. All' \subseteq All
    <3>1. CASE WriterRecv /\ outData.buf # <<>>
      <4>1. wHeld' = <<Head(outData.buf)>> /\ outData'.buf = Tail(outData.buf) /\ wired' = wired
        BY <1>w, <3>1 DEF WriterRecv, Queue
      <4>2. Range(outData.buf) = {Head(outData.buf)} \cup Range(Tail(outData.buf))
        BY <1>w, <3>1, RangeTail
      <4>3. Range(wHeld') = {Head(outData.buf)}
        BY <4>1, RangeShort
      <4>. QED
        BY <2>1, <4>1, <4>2, <4>3
    <3>2. CASE WriterWrite
      <4>1. wHeld' = <<>> /\ wired' = Append(wired, Head(wHeld)) /\ outData' = outData
            /\ Len(wHeld) = 1
        BY <1>h, <3>2 DEF WriterWrite
      <4>2. Head(wHeld) \in Writers /\ Head(wHeld) = wHeld[1]
        BY <1>w, <4>1, Single
      <4>3. Range(wired') = Range(wired) \cup {Head(wHeld)} /\ Range(wHeld') = {}
        BY <1>w, <4>1, <4>2, RangeAppend, RangeShort
      <4>4. Head(wHeld) \in Range(wHeld)
        BY <1>w, <4>1, <4>2, LenProperties DEF Range
      <4>. QED
        BY <2>1, <4>1, <4>3, <4>4
    <3>3. CASE WriterFail
      <4>1. wHeld' = <<>> /\ wired' = wired /\ outData' = outData
        BY <3>3 DEF WriterFail
      <4>. QED
        BY <2>1, <4>1, RangeShort
    <3>4. CASE \/ WriterCheck \/ WriterClose
               \/ WriterRecv /\ outData.buf = <<>>
      <4>1. wHeld' = wHeld /\ wired' = wired /\ outData' = outData
        BY <3>4 DEF WriterCheck, WriterClose, WriterRecv
      <4>. QED
        BY <2>1, <4>1
    <3>. QED
      BY <1>1, <3>1, <3>2, <3>3, <3>4 DEF WriteLoop, WriterStep
  <2>. QED
    BY <1>k, <2>1, <2>2
<1>2. ASSUME NEW w \in Writers, Sending(w) PROVE SentInv'
  <2>1. UNCHANGED <<beats, answered, wHeld, wired>>
    BY <1>2 DEF Sending, SenderStep, SendCheck, SendEnqueue, SendPanic
  <2>2. CASE SendEnqueue(w)
    <3>1. sender[w] = "enqueue" /\ sender' = [sender EXCEPT ![w] = "queued"]
          /\ outData'.buf = Append(outData.buf, w)
      BY <1>w, <2>2 DEF SendEnqueue, Queue
    <3>2. Range(outData'.buf) = Range(outData.buf) \cup {w}
      BY <1>w, <3>1, RangeAppend
    <3>3. All' = All \cup {w}
      BY <2>1, <3>2
    <3>4. \A v \in All' : sender'[v] = "queued"
      BY <1>a, <1>s, <1>w, <3>1, <3>3
    <3>5. \A b \in Beats : b > beats' => sender'[b] = "idle"
      BY <1>s, <1>w, <2>1, <3>1
    <3>. QED
      BY <3>4, <3>5 DEF SentInv
  <2>3. CASE SendCheck(w) \/ SendPanic(w)
    <3>1. /\ outData' = outData
          /\ \A v \in Writers : sender[v] \in {"queued", "idle"} => sender'[v] = sender[v]
      BY <1>w, <2>3 DEF SendCheck, SendPanic
    <3>. QED
      BY <1>k, <2>1, <3>1
  <2>. QED
    BY <1>2, <2>2, <2>3 DEF Sending, SenderStep
<1>3. CASE HeartbeatTick
  <2>1. /\ UNCHANGED <<outData, wHeld, wired, answered>>
        /\ beats' = beats + 1 /\ beats < MaxBeats
        /\ sender' = [sender EXCEPT ![beats + 1] = "check"]
    BY <1>3 DEF HeartbeatTick
  <2>2. beats + 1 \in Beats
    BY <1>w, <2>1, ClientAssumption DEF ClientAssumption, Beats
  <2>3. sender[beats + 1] = "idle"
    BY <1>s, <1>w, <2>2
  <2>4. \A v \in All' : sender'[v] = "queued"
    BY <1>a, <1>s, <1>w, <2>1, <2>3
  <2>5. \A b \in Beats : b > beats' => sender'[b] = "idle"
    <3> SUFFICES ASSUME NEW b \in Beats, b > beats' PROVE sender'[b] = "idle"
      OBVIOUS
    <3>1. b > beats /\ b # beats + 1
      BY <1>w, <2>1 DEF Beats
    <3>. QED
      BY <1>s, <1>w, <2>1, <3>1
  <2>. QED
    BY <2>4, <2>5 DEF SentInv
<1>4. ASSUME NEW w \in Callers, Write(w) PROVE SentInv'
  <2>1. /\ UNCHANGED <<outData, wHeld, wired, answered, beats>>
        /\ sender[w] = "idle"
        /\ sender' = [sender EXCEPT ![w] = "check"]
    BY <1>4 DEF Write
  <2>2. \A v \in All' : sender'[v] = "queued"
    BY <1>a, <1>s, <1>w, <2>1
  <2>3. \A b \in Beats : b > beats' => sender'[b] = "idle"
    BY <1>s, <1>w, <2>1
  <2>. QED
    BY <2>2, <2>3 DEF SentInv
<1>5. CASE Peer
  <2>1. UNCHANGED <<outData, wHeld, wired, beats, sender>>
    BY <1>5 DEF Peer, Answer, PeerSend, PeerClose
  <2>2. answered' = answered \/ \E i \in DOMAIN wired : answered' = answered \cup {wired[i]}
    BY <1>5 DEF Peer, Answer, PeerClose
  <2>3. \A i \in DOMAIN wired : wired[i] \in Range(wired)
    BY DEF Range
  <2>4. All' \subseteq All
    BY <2>1, <2>2, <2>3
  <2>. QED
    BY <1>k, <2>1, <2>4
<1>6. ASSUME NEW c \in Closers, Close(c) PROVE SentInv'
  <2>1. UNCHANGED <<wHeld, wired, answered, beats, sender>>
    BY <1>6 DEF Close, CloseFlag, CloseTicker, CloseHeartbeat, CloseHandler, CloseSession,
                CloseAt, CloseInData, CloseOutData, CloseNotify, SetClosed
  <2>2. outData'.buf = outData.buf
    BY <1>6, <1>w DEF Close, CloseFlag, CloseTicker, CloseHeartbeat, CloseHandler, CloseSession,
                CloseAt, CloseInData, CloseOutData, CloseNotify, SetClosed, Queue
  <2>. QED
    BY <1>k, <2>1, <2>2
<1>7. CASE \/ Dial \/ OwnerLoop \/ Dispatch \/ InDataEnded \/ Notified \/ ResetRuns \/ Fire
           \/ AnswerPanics \/ HeartbeatLoop \/ HeartbeatAnswered \/ HeartbeatTimeout
           \/ ReadLoop \/ UNCHANGED vars \/ \E a \in Apps : AppClose(a)
  <2>1. UNCHANGED <<outData, wHeld, wired, answered, beats, sender>>
    BY <1>7 DEF Dial, Start, OwnerLoop, Dispatch, InDataEnded, Notified, NotifyTaken, ResetRuns,
       Fire, AnswerPanics, HeartbeatLoop, HeartbeatAnswered, HeartbeatTimeout, ReadLoop,
       ReaderStep, ReaderCheck, ReaderRead, ReaderFail, ReaderSend, ReaderClose,
       ReaderNotifyPanic, AppClose, vars
  <2>. QED
    BY <1>k, <2>1
<1>. QED
  BY <1>1, <1>2, <1>3, <1>4, <1>5, <1>6, <1>7 DEF Next, OwnerStep, Heartbeat, Closers
-----------------------------------------------------------------------------
(* The answers.                                                            *)

\* The oldest answer leaves, and a new one comes.
LEMMA OldestLeaves ==
    ASSUME NEW s \in Seq(Frame), s # <<>>, Distinct(s)
    PROVE  /\ Distinct(Tail(s))
           /\ Head(s).head \notin HeadsOf(Tail(s))
           /\ HeadsOf(s) = {Head(s).head} \cup HeadsOf(Tail(s))
<1> DEFINE t == Tail(s)
<1>1. /\ t \in Seq(Frame) /\ Len(t) = Len(s) - 1 /\ Head(s) = s[1]
      /\ \A i \in 1 .. Len(t) : t[i] = s[i + 1]
      /\ Len(s) \in Nat \ {0} /\ DOMAIN s = 1 .. Len(s)
  BY HeadTailProperties, EmptySeq, LenProperties
<1>2. DOMAIN t = 1 .. Len(t)
  BY <1>1, LenProperties
<1>3. Range(s) = {Head(s)} \cup Range(t)
  BY RangeTail
<1> HIDE DEF t
<1>4. Distinct(t)
  <2> SUFFICES ASSUME NEW i \in 1 .. Len(t), NEW j \in 1 .. Len(t), t[i].head = t[j].head
               PROVE  i = j
    BY <1>2 DEF Distinct
  <2>1. i + 1 \in DOMAIN s /\ j + 1 \in DOMAIN s /\ s[i + 1].head = s[j + 1].head
    BY <1>1
  <2>2. i + 1 = j + 1
    BY <2>1 DEF Distinct
  <2>. QED
    BY <2>2
<1>5. ASSUME NEW i \in 1 .. Len(t) PROVE t[i].head # s[1].head
  <2>1. i + 1 \in DOMAIN s /\ 1 \in DOMAIN s /\ i + 1 # 1
    BY <1>1
  <2>2. s[i + 1].head # s[1].head
    BY <2>1 DEF Distinct
  <2>. QED
    BY <1>1, <2>2
<1>6. Head(s).head \notin HeadsOf(t)
  BY <1>1, <1>2, <1>5 DEF HeadsOf, Range
<1>7. HeadsOf(s) = {Head(s).head} \cup HeadsOf(t)
  BY <1>3 DEF HeadsOf
<1>. QED
  BY <1>4, <1>6, <1>7 DEF t

\* A new frame with a head of its own comes last.
LEMMA NewComes ==
    ASSUME NEW s \in Seq(Frame), NEW f \in Frame, Distinct(s), f.head \notin HeadsOf(s)
    PROVE  /\ Distinct(Append(s, f))
           /\ HeadsOf(Append(s, f)) = HeadsOf(s) \cup {f.head}
<1> DEFINE t == Append(s, f)
<1>1. /\ t \in Seq(Frame) /\ Len(t) = Len(s) + 1 /\ t[Len(s) + 1] = f
      /\ \A i \in 1 .. Len(s) : t[i] = s[i]
      /\ Len(s) \in Nat /\ DOMAIN s = 1 .. Len(s)
  BY AppendProperties, LenProperties
<1>2. DOMAIN t = 1 .. Len(s) + 1
  BY <1>1, LenProperties
<1>3. Range(t) = Range(s) \cup {f}
  BY RangeAppend
<1> HIDE DEF t
<1>4. Distinct(t)
  <2> SUFFICES ASSUME NEW i \in 1 .. Len(s) + 1, NEW j \in 1 .. Len(s) + 1, t[i].head = t[j].head
               PROVE  i = j
    BY <1>2 DEF Distinct
  <2>1. \A k \in 1 .. Len(s) : t[k].head # f.head
    BY <1>1 DEF HeadsOf, Range
  <2>2. CASE i \in 1 .. Len(s) /\ j \in 1 .. Len(s)
    BY <1>1, <2>2 DEF Distinct
  <2>3. CASE i = Len(s) + 1 \/ j = Len(s) + 1
    <3>1. (i = Len(s) + 1 \/ i \in 1 .. Len(s)) /\ (j = Len(s) + 1 \/ j \in 1 .. Len(s))
      BY <1>1
    <3>. QED
      BY <1>1, <2>1, <2>3, <3>1
  <2>. QED
    BY <1>1, <2>2, <2>3
<1>. QED
  BY <1>3, <1>4 DEF t, HeadsOf

\* While cHeartbeat is open the program runs and no channel is closed.
LEMMA OpenRuns ==
    ASSUME TypeOK, ControlInv, Running => ReleaseInv, [Next]_vars, ~hbClosed'
    PROVE  ~hbClosed /\ Running /\ ~inData.closed /\ ~outData.closed /\ ~cClosed
<1>1. ~hbClosed
  <2>1. CASE \E c \in Closers : CloseHeartbeat(c)
    BY <2>1 DEF CloseHeartbeat
  <2>2. CASE ~\E c \in Closers : CloseHeartbeat(c)
    <3>1. ASSUME NEW c \in Closers, Close(c) PROVE hbClosed' = hbClosed
      BY <2>2, <3>1 DEF Close, CloseFlag, CloseTicker, CloseHandler, CloseSession
    <3>2. ASSUME ~\E c \in Closers : Close(c) PROVE hbClosed' = hbClosed
      BY <3>2 DEF Next, Dial, OwnerStep, OwnerLoop, Dispatch, InDataEnded, Notified, ResetRuns,
         Fire, AnswerPanics, Heartbeat, HeartbeatLoop, HeartbeatTick, HeartbeatAnswered,
         HeartbeatTimeout, AppClose, ReadLoop, WriteLoop, Sending, Write, Peer, Answer, vars,
         clientVars, closeVars, Closers
    <3>. QED
      BY <3>1, <3>2
  <2>. QED
    BY <2>1, <2>2
<1>2. Running
  BY <1>1 DEF ControlInv
<1>. QED
  BY <1>1, <1>2 DEF ReleaseInv

\* How the answers on their way move while cHeartbeat is open.
LEMMA ComingMoves ==
    ASSUME TypeOK, ControlInv, Running => ReleaseInv, [Next]_vars, ~hbClosed'
    PROVE  /\ Coming \in Seq(Frame)
           /\ \/ /\ Dispatch /\ UNCHANGED answered
                 /\ Coming # <<>>
                 /\ Head(Coming) = Head(inData.buf)
                 /\ Coming' = Tail(Coming)
              \/ \E w \in Range(wired) \ answered, f \in Frame :
                    /\ f.head = w /\ (f.dType = "HEARTBEAT_RET" => w \in Beats)
                    /\ Coming' = Append(Coming, f)
                    /\ answered' = answered \cup {w}
                    /\ UNCHANGED <<timerVars, beatVars, closeVars>>
              \/ Coming' = Coming /\ UNCHANGED answered /\ ~Dispatch
<1> USE DEF sessionVars, clientVars, timerVars, beatVars, closeVars, chanVars, connVars,
            readerVars, writerVars, senderVars
<1>o. ~inData.closed /\ Running
  BY OpenRuns
<1> DEFINE b == inData.buf
           r == rHeld
           a == arriving
<1>w. /\ inData \in Queue(Frame) /\ b \in Seq(Frame) /\ r \in Seq(Frame) /\ a \in Seq(Frame)
      /\ Len(r) = (IF reader = "send" THEN 1 ELSE 0)
      /\ wired \in Seq(Writers) /\ Writers = Heads
  BY ClientAssumption DEF ClientAssumption, TypeOK, ChanTypeOK, LoopTypeOK, WireTypeOK, Queue
<1>d. Coming = (b \o r) \o a
  BY DEF Coming
<1>s. b \o r \in Seq(Frame) /\ r \o a \in Seq(Frame) /\ Coming = b \o (r \o a)
      /\ (b \o r) \o a \in Seq(Frame)
  <2> HIDE DEF b, r, a
  <2>1. b \o r \in Seq(Frame) /\ r \o a \in Seq(Frame)
    BY <1>w, ConcatProperties
  <2>b. b \in Seq(Frame) /\ r \in Seq(Frame) /\ a \in Seq(Frame)
    BY <1>w
  <2>2. (b \o r) \o a = b \o (r \o a)
    BY <2>b, ConcatAssociative, SMTT(30)
  <2>. QED
    BY <1>w, <1>d, <2>1, <2>2, ConcatProperties
<1>t. Coming \in Seq(Frame)
  BY <1>s DEF Coming
<1> HIDE DEF TypeOK, ControlInv
<1>1. CASE Dispatch
  <2>1. b # <<>> /\ inData'.buf = Tail(b) /\ UNCHANGED <<rHeld, arriving, answered>>
    BY <1>1, <1>w DEF Dispatch, Queue
  <2>2. Tail(b) \in Seq(Frame)
    BY <1>w, <2>1, HeadTailProperties
  <2>3. Coming' = Tail(b) \o (r \o a)
    <3>1. Coming' = (Tail(b) \o r) \o a
      BY <2>1 DEF Coming
    <3> HIDE DEF b, r, a
    <3> DEFINE q == Tail(b)
    <3>b. q \in Seq(Frame) /\ r \in Seq(Frame) /\ a \in Seq(Frame)
      BY <1>w, <2>2
    <3> HIDE DEF q
    <3>2. (q \o r) \o a = q \o (r \o a)
      BY <3>b, ConcatAssociative, SMTT(30)
    <3>. QED
      BY <3>1, <3>2 DEF q
  <2>4. Coming # <<>> /\ Head(Coming) = Head(b) /\ Tail(Coming) = Tail(b) \o (r \o a)
    <3>1. b # <<>>
      BY <2>1
    <3> DEFINE ra == r \o a
    <3>2. ra \in Seq(Frame) /\ Coming = b \o ra
      BY <1>s
    <3> HIDE DEF b, ra
    <3>3. Coming # <<>> /\ Head(Coming) = Head(b) /\ Tail(Coming) = Tail(b) \o ra
      BY <1>w, <3>1, <3>2, LeaveInFront
    <3>. QED
      BY <3>3 DEF ra
  <2>. QED
    BY <1>1, <1>t, <2>1, <2>3, <2>4
<1>2. CASE ReaderRead /\ UNCHANGED clientVars
  <2>1. /\ a # <<>> /\ reader = "read" /\ rHeld' = <<Head(a)>> /\ arriving' = Tail(a)
        /\ UNCHANGED <<inData, answered>>
    BY <1>2 DEF ReaderRead
  <2>2. r = <<>>
    BY <1>w, <2>1, EmptySeq
  <2>3. Head(a) \in Frame /\ Tail(a) \in Seq(Frame)
    BY <1>w, <2>1, HeadTailProperties
  <2>4. Coming = b \o a
    BY <1>w, <2>2, ConcatEmptySeq DEF Coming
  <2>5. Coming' = (b \o <<Head(a)>>) \o Tail(a)
    BY <2>1 DEF Coming
  <2>6. b \o <<Head(a)>> = Append(b, Head(a))
    BY <1>w, <2>3, AppendIsConcat
  <2>7. Coming' = Coming
    BY <1>w, <2>1, <2>4, <2>5, <2>6, MoveUp
  <2>8. ~Dispatch
    BY <2>1 DEF Dispatch
  <2>. QED
    BY <1>t, <2>1, <2>7, <2>8
<1>3. CASE ReaderSend /\ UNCHANGED clientVars
  <2>1. /\ Len(r) = 1 /\ inData'.buf = Append(b, Head(r)) /\ rHeld' = <<>>
        /\ reader' # reader /\ UNCHANGED <<arriving, answered>>
    BY <1>3, <1>o, <1>w DEF ReaderSend, Queue
  <2>2. Head(r) \in Frame /\ r # <<>> /\ Head(r) = r[1]
    BY <1>w, <2>1, Single
  <2>3. r = <<Head(r)>>
    BY <1>w, <2>1, <2>2
  <2>4. Append(b, Head(r)) = b \o r /\ Append(b, Head(r)) \in Seq(Frame)
    <3> DEFINE e == Head(r)
    <3>1. e \in Frame /\ r = <<e>>
      BY <2>2, <2>3
    <3> HIDE DEF b, e
    <3>2. Append(b, e) = b \o <<e>> /\ Append(b, e) \in Seq(Frame)
      BY <1>w, <3>1, AppendIsConcat, AppendProperties
    <3>. QED
      BY <3>1, <3>2 DEF e
  <2>5. Append(b, Head(r)) \o <<>> = Append(b, Head(r))
    BY <2>4, ConcatEmptySeq
  <2>6. Coming' = Coming
    BY <2>1, <2>4, <2>5 DEF Coming
  <2>7. ~Dispatch
    BY <2>1 DEF Dispatch
  <2>. QED
    BY <1>t, <2>1, <2>6, <2>7
<1>4. CASE Answer
  <2>1. PICK i \in DOMAIN wired :
          /\ wired[i] \notin answered
          /\ PeerSend([dType |-> IF wired[i] \in Beats THEN "HEARTBEAT_RET" ELSE "DATA",
                       head |-> wired[i]])
          /\ answered' = answered \cup {wired[i]}
          /\ UNCHANGED <<timerVars, beatVars, closeVars>>
    BY <1>4 DEF Answer
  <2> DEFINE w == wired[i]
             f == [dType |-> IF w \in Beats THEN "HEARTBEAT_RET" ELSE "DATA", head |-> w]
  <2>2. w \in Range(wired) /\ w \in Writers
    BY <1>w, LenProperties, ElementOfSeq DEF Range
  <2>3. f \in Frame /\ f.head = w /\ (f.dType = "HEARTBEAT_RET" => w \in Beats)
    BY <1>w, <2>2 DEF Frame, DTypes
  <2>4. arriving' = Append(a, f) /\ UNCHANGED <<inData, rHeld>>
    BY <2>1 DEF PeerSend
  <2>5. Coming' = (b \o r) \o Append(a, f)
    BY <2>4 DEF Coming
  <2>6. w \notin answered /\ answered' = answered \cup {w}
        /\ UNCHANGED <<timerVars, beatVars, closeVars>>
    BY <2>1
  <2> HIDE DEF f, w
  <2>7. Coming' = Append(Coming, f)
    <3> DEFINE br == b \o r
    <3>1. br \in Seq(Frame) /\ Coming = br \o a /\ Coming' = br \o Append(a, f)
      BY <1>d, <1>s, <2>5
    <3> HIDE DEF br, a
    <3>. QED
      BY <1>w, <2>3, <3>1, EnterBehind
  <2>. QED
    BY <1>t, <2>2, <2>3, <2>6, <2>7
<1>5. CASE ~Dispatch /\ ~Answer /\ ~(ReaderRead /\ UNCHANGED clientVars)
             /\ ~(ReaderSend /\ UNCHANGED clientVars)
  <2>1. UNCHANGED <<rHeld, arriving, answered>> /\ inData'.buf = inData.buf
    <3>1. ASSUME NEW c \in Closers, Close(c)
          PROVE  UNCHANGED <<rHeld, arriving, answered>> /\ inData'.buf = inData.buf
      BY <1>w, <3>1 DEF Close, CloseFlag, CloseTicker, CloseHeartbeat, CloseHandler, CloseSession,
                CloseAt, CloseInData, CloseOutData, CloseNotify, SetClosed, Queue
    <3>2. ASSUME ~\E c \in Closers : Close(c)
          PROVE  UNCHANGED <<rHeld, arriving, answered, inData>>
      BY <1>5, <3>2 DEF Next, Dial, Start, OwnerStep, OwnerLoop, InDataEnded, Notified,
         NotifyTaken, ResetRuns, Fire, AnswerPanics, Heartbeat, HeartbeatLoop, HeartbeatTick,
         HeartbeatAnswered, HeartbeatTimeout, AppClose, ReadLoop, ReaderStep, ReaderCheck,
         ReaderFail, ReaderClose, ReaderNotifyPanic, WriteLoop, WriterStep, WriterCheck,
         WriterRecv, WriterWrite, WriterFail, WriterClose, Sending, SenderStep, SendCheck,
         SendEnqueue, SendPanic, Write, Peer, PeerClose, vars, Closers
    <3>. QED
      BY <3>1, <3>2
  <2>. QED
    BY <1>5, <1>t, <2>1 DEF Coming
<1>. QED
  BY <1>1, <1>2, <1>3, <1>4, <1>5

\* What is delivered was sent: there is no more of it than there are heartbeats.
LEMMA DeliveredBound ==
    ASSUME TypeOK, SentInv
    PROVE  /\ AnsweredBeats \subseteq 1 .. beats
           /\ IsFiniteSet(Delivered) /\ Cardinality(Delivered) \in Nat
           /\ Cardinality(Delivered) <= beats
<1>w. beats \in Nat /\ answered \subseteq Writers
  BY ClientAssumption DEF ClientAssumption, TypeOK
<1>1. ASSUME NEW b \in AnsweredBeats PROVE b \in 1 .. beats
  <2>1. b \in Beats /\ sender[b] = "queued"
    BY <1>1 DEF AnsweredBeats, SentInv
  <2>2. ~(b > beats)
    BY <2>1 DEF SentInv
  <2>3. b \in Nat /\ b >= 1
    BY <2>1, ClientAssumption DEF Beats, ClientAssumption
  <2>. QED
    BY <1>w, <2>2, <2>3
<1>2. AnsweredBeats \subseteq 1 .. beats
  BY <1>1
<1>3. Delivered \in SUBSET (1 .. beats)
  BY <1>2 DEF Delivered
<1>4. IsFiniteSet(1 .. beats) /\ Cardinality(1 .. beats) = beats
  <2>1. Cardinality(1 .. beats) = IF 1 > beats THEN 0 ELSE beats - 1 + 1
    BY <1>w, FS_Interval
  <2>2. (IF 1 > beats THEN 0 ELSE beats - 1 + 1) = beats
    BY <1>w
  <2>. QED
    BY <1>w, <2>1, <2>2, FS_Interval
<1>5. IsFiniteSet(Delivered) /\ Cardinality(Delivered) <= beats
  BY <1>3, <1>4, FS_Subset
<1>. QED
  BY <1>2, <1>5, FS_CardinalityType

\* How the delivered answers grow while cHeartbeat is open: by the one that
\* processInData takes.
LEMMA DeliveredMoves ==
    ASSUME TypeOK, ControlInv, Running => ReleaseInv, ComingInv, [Next]_vars, ~hbClosed'
    PROVE  /\ ComingInv'
           /\ Dispatch =>
                 \/ Delivered' = Delivered /\ Head(inData.buf).dType # "HEARTBEAT_RET"
                 \/ \E h \in Beats \ Delivered : Delivered' = Delivered \cup {h}
           /\ ~Dispatch => Delivered' = Delivered
<1>c. /\ \A f \in Range(Coming) :
            f.head \in answered /\ (f.dType = "HEARTBEAT_RET" => f.head \in Beats)
      /\ Distinct(Coming)
  BY DEF ComingInv
<1>m. /\ Coming \in Seq(Frame)
      /\ \/ /\ Dispatch /\ UNCHANGED answered
            /\ Coming # <<>>
            /\ Head(Coming) = Head(inData.buf)
            /\ Coming' = Tail(Coming)
         \/ \E w \in Range(wired) \ answered, f \in Frame :
               /\ f.head = w /\ (f.dType = "HEARTBEAT_RET" => w \in Beats)
               /\ Coming' = Append(Coming, f)
               /\ answered' = answered \cup {w}
               /\ UNCHANGED <<timerVars, beatVars, closeVars>>
         \/ Coming' = Coming /\ UNCHANGED answered /\ ~Dispatch
  BY ComingMoves
<1> DEFINE C == Coming
<1> HIDE DEF C
<1>a. \A x \in HeadsOf(Coming) : x \in answered
  BY <1>c DEF HeadsOf
<1>1. CASE Dispatch /\ UNCHANGED answered /\ Coming # <<>> /\ Head(Coming) = Head(inData.buf)
             /\ Coming' = Tail(Coming)
  <2> DEFINE h == Head(Coming)
  <2>1. /\ Distinct(Tail(Coming))
        /\ h.head \notin HeadsOf(Tail(Coming))
        /\ HeadsOf(Coming) = {h.head} \cup HeadsOf(Tail(Coming))
    BY <1>1, <1>c, <1>m, OldestLeaves
  <2>2. Range(Coming) = {h} \cup Range(Tail(Coming))
    BY <1>1, <1>m, RangeTail
  <2>3. ComingInv'
    <3>1. \A f \in Range(Coming') : f \in Range(Coming)
      BY <1>1, <2>2
    <3>2. Distinct(Coming)'
      BY <1>1, <2>1 DEF Distinct
    <3>. QED
      BY <1>1, <1>c, <3>1, <3>2 DEF ComingInv
  <2>4. h.head \in answered /\ (h.dType = "HEARTBEAT_RET" => h.head \in Beats)
    BY <1>c, <2>2
  <2>5. HeadsOf(Coming)' = HeadsOf(Tail(Coming))
    BY <1>1 DEF HeadsOf
  <2>6. Delivered' = Delivered \cup (Beats \cap {h.head})
    BY <1>1, <2>1, <2>4, <2>5 DEF Delivered, AnsweredBeats
  <2>7. h.head \notin Delivered
    BY <2>1 DEF Delivered
  <2>8. \/ Delivered' = Delivered /\ h.dType # "HEARTBEAT_RET"
        \/ \E x \in Beats \ Delivered : Delivered' = Delivered \cup {x}
    <3>1. CASE h.head \in Beats
      BY <2>6, <2>7, <3>1
    <3>2. CASE h.head \notin Beats
      BY <2>4, <2>6, <3>2
    <3>. QED
      BY <3>1, <3>2
  <2>. QED
    BY <1>1, <2>3, <2>8
<1>2. ASSUME NEW w \in Range(wired) \ answered, NEW f \in Frame,
             f.head = w, f.dType = "HEARTBEAT_RET" => w \in Beats,
             Coming' = Append(Coming, f), answered' = answered \cup {w},
             UNCHANGED <<timerVars, beatVars, closeVars>>
      PROVE  ComingInv' /\ ~Dispatch /\ Delivered' = Delivered
  <2>1. f.head \notin HeadsOf(Coming)
    BY <1>2, <1>a
  <2>2. Distinct(Append(Coming, f)) /\ HeadsOf(Append(Coming, f)) = HeadsOf(Coming) \cup {w}
    BY <1>2, <1>c, <1>m, <2>1, NewComes
  <2>3. Range(Coming') = Range(Coming) \cup {f}
    BY <1>2, <1>m, RangeAppend
  <2>4. ComingInv'
    <3>1. Distinct(Coming)'
      BY <1>2, <2>2 DEF Distinct
    <3>2. \A g \in Range(Coming') :
            g.head \in answered' /\ (g.dType = "HEARTBEAT_RET" => g.head \in Beats)
      BY <1>2, <1>c, <2>3
    <3>3. Range(Coming)' = Range(Coming')
      BY DEF Range
    <3>. QED
      BY <3>1, <3>2, <3>3 DEF ComingInv
  <2>5. HeadsOf(Coming)' = HeadsOf(Coming) \cup {w}
    BY <1>2, <2>2 DEF HeadsOf
  <2>6. Delivered' = Delivered
    BY <1>2, <2>5 DEF Delivered, AnsweredBeats
  <2>7. ~Dispatch
    BY <1>2 DEF Dispatch
  <2>. QED
    BY <2>4, <2>6, <2>7
<1>3. CASE Coming' = Coming /\ UNCHANGED answered /\ ~Dispatch
  <2>1. ComingInv'
    BY <1>3, <1>c DEF ComingInv, Distinct
  <2>2. Delivered' = Delivered
    BY <1>3 DEF Delivered, AnsweredBeats, HeadsOf
  <2>. QED
    BY <1>3, <2>1, <2>2
<1>. QED
  BY <1>m, <1>1, <1>2, <1>3
-----------------------------------------------------------------------------
(* The heartbeats and their answers.                                       *)

\* Before Dial no heartbeat is out and no answer in.
LEMMA AnswersInit == Init => ComingInv /\ AnswersInv
<1> SUFFICES ASSUME Init PROVE ComingInv /\ AnswersInv
  OBVIOUS
<1>1. /\ inData.buf = <<>> /\ rHeld = <<>> /\ arriving = <<>> /\ answered = {}
      /\ rets = 0 /\ beats = 0 /\ timeouts = 0 /\ hb = "none"
  BY DEF Init, SessionInit
<1>2. <<>> \o <<>> = <<>>
  BY ConcatSimplifications
<1>3. Coming = <<>>
  BY <1>1, <1>2 DEF Coming
<1>4. Range(<<>>) = {}
  BY DEF Range
<1>5. ComingInv
  BY <1>3, <1>4 DEF ComingInv, Distinct
<1>6. Delivered = {}
  BY <1>1 DEF Delivered, AnsweredBeats
<1>7. Cardinality(Delivered) = 0
  BY <1>6, FS_EmptySet
<1>8. AnswersInv
  BY <1>1, <1>7 DEF AnswersInv
<1>. QED
  BY <1>5, <1>8

\* Until cHeartbeat is closed: a heartbeat ends with a timeout or with the
\* answer that one handleHeartbeatRet hands over.
LEMMA AnswersStep ==
    TypeOK /\ ControlInv /\ (Running => ReleaseInv) /\ SentInv
      /\ (hbClosed \/ (ComingInv /\ AnswersInv)) /\ [Next]_vars
        => (hbClosed' \/ (ComingInv' /\ AnswersInv'))
<1> SUFFICES ASSUME TypeOK, ControlInv, Running => ReleaseInv, SentInv,
                    hbClosed \/ (ComingInv /\ AnswersInv), [Next]_vars, ~hbClosed'
             PROVE  ComingInv' /\ AnswersInv'
  OBVIOUS
<1> USE DEF sessionVars, clientVars, timerVars, beatVars, closeVars
<1>o. ~hbClosed /\ Running
  BY OpenRuns
<1>m. /\ ComingInv'
      /\ Dispatch =>
            \/ Delivered' = Delivered /\ Head(inData.buf).dType # "HEARTBEAT_RET"
            \/ \E h \in Beats \ Delivered : Delivered' = Delivered \cup {h}
      /\ ~Dispatch => Delivered' = Delivered
  BY <1>o, DeliveredMoves
<1>b. IsFiniteSet(Delivered) /\ Cardinality(Delivered) \in Nat
  BY DeliveredBound
<1> DEFINE n == Cardinality(Delivered)
           m == Cardinality(Delivered')
<1>w. rets \in Nat /\ beats \in Nat /\ timeouts \in Nat
  BY DEF TypeOK
<1>a. rets + beats <= timeouts + (IF hb = "await" THEN 1 ELSE 0) + n
  BY <1>o DEF AnswersInv
<1> HIDE DEF TypeOK, ControlInv
<1> SUFFICES rets' + beats' <= timeouts' + (IF hb' = "await" THEN 1 ELSE 0) + m
  BY <1>m DEF AnswersInv
<1>1. CASE Dispatch
  <2>1. UNCHANGED <<beats, timeouts, hb>>
        /\ rets' = IF Head(inData.buf).dType = "HEARTBEAT_RET" THEN rets + 1 ELSE rets
    BY <1>1 DEF Dispatch
  <2>2. CASE Delivered' = Delivered /\ Head(inData.buf).dType # "HEARTBEAT_RET"
    BY <1>a, <2>1, <2>2
  <2>3. CASE \E h \in Beats \ Delivered : Delivered' = Delivered \cup {h}
    <3>1. m = n + 1
      BY <1>b, <2>3, FS_AddElement
    <3>2. rets' <= rets + 1 /\ rets' \in Nat
      BY <1>w, <2>1
    <3> HIDE DEF n, m
    <3>. QED
      BY <1>a, <1>b, <1>w, <2>1, <3>1, <3>2 DEF n
  <2>. QED
    BY <1>1, <1>m, <2>2, <2>3
<1>2. CASE ~Dispatch
  <2>1. m = n
    BY <1>2, <1>m
  <2> HIDE DEF n, m
  <2>n. n \in Nat
    BY <1>b DEF n
  <2>2. CASE HeartbeatTick
    BY <1>a, <1>w, <2>n, <2>1, <2>2 DEF HeartbeatTick
  <2>3. CASE HeartbeatAnswered
    BY <1>a, <1>o, <1>w, <2>n, <2>1, <2>3 DEF HeartbeatAnswered
  <2>4. CASE HeartbeatTimeout
    BY <1>a, <1>w, <2>n, <2>1, <2>4 DEF HeartbeatTimeout
  <2>5. CASE Dial \/ HeartbeatLoop
    BY <1>a, <1>w, <2>n, <2>1, <2>5 DEF Dial, HeartbeatLoop, Dialed, ControlInv
  <2>6. CASE ~HeartbeatTick /\ ~HeartbeatAnswered /\ ~HeartbeatTimeout /\ ~Dial /\ ~HeartbeatLoop
    <3>1. UNCHANGED <<rets, beats, timeouts, hb>>
      <4>1. ASSUME NEW c \in Closers, Close(c) PROVE UNCHANGED <<rets, beats, timeouts, hb>>
        BY <4>1 DEF Close, CloseFlag, CloseTicker, CloseHeartbeat, CloseHandler, CloseSession,
           CloseAt
      <4>2. ASSUME ~\E c \in Closers : Close(c) PROVE UNCHANGED <<rets, beats, timeouts, hb>>
        BY <1>2, <2>6, <4>2 DEF Next, OwnerStep, OwnerLoop, InDataEnded, Notified, ResetRuns,
           Fire, AnswerPanics, Heartbeat, AppClose, ReadLoop, WriteLoop, Sending, Write, Peer,
           Answer, vars, Closers
      <4>. QED
        BY <4>1, <4>2
    <3>. QED
      BY <1>a, <2>1, <3>1
  <2>. QED
    BY <2>2, <2>3, <2>4, <2>5, <2>6
<1>. QED
  BY <1>1, <1>2

\* While isOpen is set the timer is at rest only with the last answer missing:
\* whatever arrives sets it again, and so does the timeout.
LEMMA TimerStep ==
    TypeOK /\ ControlInv /\ (Running => ReleaseInv) /\ SentInv
      /\ (hbClosed \/ (ComingInv /\ AnswersInv)) /\ (isOpen => TimerInv) /\ [Next]_vars
        => (isOpen' => TimerInv')
<1> SUFFICES ASSUME TypeOK, ControlInv, Running => ReleaseInv, SentInv,
                    hbClosed \/ (ComingInv /\ AnswersInv), isOpen => TimerInv, [Next]_vars, isOpen'
             PROVE  TimerInv'
  OBVIOUS
<1> USE DEF sessionVars, clientVars, timerVars, beatVars, closeVars
<1>n. ControlInv'
  BY ControlStep
<1>h. ~hbClosed'
  BY <1>n DEF ControlInv, At, NotClosing, OwnerPcs, Releasing
<1>o. ~hbClosed /\ Running
  BY <1>h, OpenRuns
<1>m. ~Dispatch => Delivered' = Delivered
  BY <1>h, <1>o, DeliveredMoves
<1>b. AnsweredBeats \subseteq 1 .. beats
  BY DeliveredBound
<1>w. resets \in Nat /\ beats \in Nat
  BY DEF TypeOK
<1>p. isOpen
  <2>1. CASE \E c \in Closers : CloseFlag(c)
    BY <2>1 DEF CloseFlag
  <2>2. CASE ~\E c \in Closers : CloseFlag(c)
    <3>1. ASSUME NEW c \in Closers, Close(c) PROVE isOpen' = isOpen
      BY <2>2, <3>1 DEF Close, CloseTicker, CloseHeartbeat, CloseHandler, CloseSession
    <3>2. ASSUME ~\E c \in Closers : Close(c) PROVE isOpen' = isOpen
      BY <3>2 DEF Next, Dial, OwnerStep, OwnerLoop, Dispatch, InDataEnded, Notified, ResetRuns,
         Fire, AnswerPanics, Heartbeat, HeartbeatLoop, HeartbeatTick, HeartbeatAnswered,
         HeartbeatTimeout, AppClose, ReadLoop, WriteLoop, Sending, Write, Peer, Answer, vars,
         Closers
    <3>. QED
      BY <3>1, <3>2
  <2>. QED
    BY <2>1, <2>2
<1>c. \A c \in Closers : ~CloseTicker(c)
  BY <1>p DEF CloseTicker, CloseAt, ControlInv, NotClosing, OwnerPcs
<1>t. TimerInv
  BY <1>p
<1> HIDE DEF TypeOK, ControlInv
<1>1. CASE Dispatch
  BY <1>1, <1>w DEF Dispatch, TimerInv
<1>2. CASE ResetRuns \/ Fire \/ HeartbeatTimeout
  BY <1>2 DEF ResetRuns, Fire, HeartbeatTimeout, TimerInv
<1>3. CASE HeartbeatTick
  <2>1. beats' = beats + 1 /\ Delivered' = Delivered
    BY <1>3, <1>m DEF HeartbeatTick, Dispatch
  <2>2. beats' > 0 /\ beats' \notin Delivered'
    BY <1>b, <1>w, <2>1 DEF Delivered
  <2>. QED
    BY <2>2 DEF TimerInv
<1>4. CASE ~Dispatch /\ ~ResetRuns /\ ~Fire /\ ~HeartbeatTimeout /\ ~HeartbeatTick
  <2>1. UNCHANGED <<timerArmed, tickReady, resets, beats>>
    <3>1. ASSUME NEW c \in Closers, Close(c)
          PROVE  UNCHANGED <<timerArmed, tickReady, resets, beats>>
      BY <1>c, <3>1 DEF Close, CloseFlag, CloseHeartbeat, CloseHandler, CloseSession, CloseAt
    <3>2. ASSUME ~\E c \in Closers : Close(c)
          PROVE  UNCHANGED <<timerArmed, tickReady, resets, beats>>
      BY <1>4, <3>2 DEF Next, Dial, OwnerStep, OwnerLoop, InDataEnded, Notified, AnswerPanics,
         Heartbeat, HeartbeatLoop, HeartbeatAnswered, AppClose, ReadLoop, WriteLoop, Sending,
         Write, Peer, Answer, vars, Closers
    <3>. QED
      BY <3>1, <3>2
  <2>. QED
    BY <1>4, <1>m, <1>t, <2>1 DEF TimerInv
<1>. QED
  BY <1>1, <1>2, <1>3, <1>4
-----------------------------------------------------------------------------
(* Panics and the end of the session.                                      *)

\* A step that leaves the process ended: the peer's, or one of the statements
\* that panic, and none of those gets anything done.
LEMMA PanicCauses ==
    ASSUME [Next]_vars, ~Running'
    PROVE  /\ UNCHANGED <<state, inData, outData, cClosed, closeEvents, hbClosed, rets, sender>>
           /\ \/ ~Running /\ UNCHANGED <<pc, panic>>
              \/ /\ Running
                 /\ \/ AnswerPanics
                    \/ ReaderNotifyPanic /\ UNCHANGED pc
                    \/ \E w \in Writers : SendPanic(w)
                    \/ \E c \in Closers : CloseHeartbeat(c) /\ hbClosed
                    \/ \E c \in Closers : CloseHandler(c) /\ ~Dialed
                    \/ \E c \in Closers : CloseAt(c, "inData") /\ inData.closed
                    \/ \E c \in Closers : CloseAt(c, "outData") /\ outData.closed
                    \/ \E c \in Closers : CloseAt(c, "cClose") /\ cClosed
<1> USE DEF sessionVars, clientVars, timerVars, beatVars, closeVars, chanVars, connVars,
            readerVars, writerVars, senderVars, Running
<1>1. CASE Peer \/ UNCHANGED vars
  BY <1>1 DEF Peer, Answer, PeerSend, PeerClose, vars
<1>2. ASSUME NEW c \in Closers, Close(c)
      PROVE  /\ UNCHANGED <<state, inData, outData, cClosed, closeEvents, hbClosed, rets, sender>>
             /\ Running
             /\ \/ CloseHeartbeat(c) /\ hbClosed
                \/ CloseHandler(c) /\ ~Dialed
                \/ CloseAt(c, "inData") /\ inData.closed
                \/ CloseAt(c, "outData") /\ outData.closed
                \/ CloseAt(c, "cClose") /\ cClosed
  <2>1. CASE CloseFlag(c) \/ CloseTicker(c)
    BY <2>1 DEF CloseFlag, CloseTicker, CloseAt
  <2>2. CASE CloseHeartbeat(c)
    BY <2>2 DEF CloseHeartbeat, CloseAt
  <2>3. CASE CloseHandler(c)
    BY <2>3 DEF CloseHandler, CloseAt
  <2>4. CASE CloseSession(c)
    BY <2>4 DEF CloseSession, CloseAt, CloseInData, CloseOutData, CloseNotify, SetClosed
  <2>. QED
    BY <1>2, <2>1, <2>2, <2>3, <2>4 DEF Close
<1>3. CASE AnswerPanics
  BY <1>3 DEF AnswerPanics
<1>4. CASE ReadLoop
  <2>1. CASE ReaderNotifyPanic
    BY <1>4, <2>1 DEF ReadLoop, ReaderNotifyPanic
  <2>2. CASE ~ReaderNotifyPanic
    <3>1. panic = "none" /\ panic' = panic
      BY <1>4, <2>2 DEF ReadLoop, ReaderStep, ReaderCheck, ReaderRead, ReaderFail, ReaderSend,
         ReaderClose
    <3>. QED
      BY <3>1
  <2>. QED
    BY <2>1, <2>2
<1>5. ASSUME NEW w \in Writers, Sending(w)
      PROVE  /\ UNCHANGED <<state, inData, outData, cClosed, closeEvents, hbClosed, rets, sender>>
             /\ Running /\ SendPanic(w)
  <2>1. CASE SendPanic(w)
    BY <1>5, <2>1 DEF Sending, SendPanic
  <2>2. CASE ~SendPanic(w)
    BY <1>5, <2>2 DEF Sending, SenderStep, SendCheck, SendEnqueue
  <2>. QED
    BY <2>1, <2>2
<1>6. CASE ~(Peer \/ UNCHANGED vars) /\ ~AnswerPanics /\ ~ReadLoop /\ (~\E c \in Closers : Close(c))
             /\ ~\E w \in Writers : Sending(w)
  <2>1. Running /\ panic' = panic
    BY <1>6 DEF Next, Dial, Start, OwnerStep, OwnerLoop, Dispatch, InDataEnded, Notified,
       NotifyTaken, ResetRuns, Fire, Heartbeat, HeartbeatLoop, HeartbeatTick, HeartbeatAnswered,
       HeartbeatTimeout, AppClose, WriteLoop, WriterStep, WriterCheck, WriterRecv, WriterWrite,
       WriterFail, WriterClose, Write, Closers
  <2>. QED
    BY <2>1
<1>. QED
  BY <1>1, <1>2, <1>3, <1>4, <1>5, <1>6

\* The Handler is called by the one goroutine that gets past cHeartbeat, and a
\* step that ends the process calls nothing.
LEMMA HandlerStep ==
    HandlerClosedOnce /\ (Running' => ReleaseInv') /\ [Next]_vars => HandlerClosedOnce'
<1> SUFFICES ASSUME HandlerClosedOnce, Running' => ReleaseInv', [Next]_vars
             PROVE  HandlerClosedOnce'
  OBVIOUS
<1>1. CASE Running'
  BY <1>1 DEF ReleaseInv, HandlerClosedOnce
<1>2. CASE ~Running'
  BY <1>2, PanicCauses DEF HandlerClosedOnce
<1>. QED
  BY <1>1, <1>2

\* Each statement that panics has what the property says it needs.
LEMMA PanicStep ==
    /\ TypeOK /\ ControlInv /\ (Running => ReleaseInv) /\ PanicsOnlyAfterClose
    /\ ControlInv' /\ [Next]_vars
    => PanicsOnlyAfterClose'
<1> SUFFICES ASSUME TypeOK, ControlInv, Running => ReleaseInv, PanicsOnlyAfterClose, ControlInv',
                    [Next]_vars, ~Running'
             PROVE  PanicsOnlyAfterClose'
  BY DEF PanicsOnlyAfterClose
<1>w. /\ pc \in [Closers -> OwnerPcs \cup ClosePcs \cup {"idle"}]
      /\ Owner \in Closers /\ Apps \subseteq Closers /\ Owner \notin Apps
      /\ \A c \in Closers : c = Owner \/ c \in Apps
  BY ClientAssumption DEF ClientAssumption, Closers, TypeOK
<1>i. ~isOpen'
  BY DEF ControlInv, At, NotClosing, OwnerPcs, Releasing
<1>u. /\ UNCHANGED <<outData, hbClosed, rets, sender>>
      /\ \/ ~Running /\ UNCHANGED <<pc, panic>>
         \/ /\ Running
            /\ \/ AnswerPanics
               \/ ReaderNotifyPanic /\ UNCHANGED pc
               \/ \E w \in Writers : SendPanic(w)
               \/ \E c \in Closers : CloseHeartbeat(c) /\ hbClosed
               \/ \E c \in Closers : CloseHandler(c) /\ ~Dialed
               \/ \E c \in Closers : CloseAt(c, "inData") /\ inData.closed
               \/ \E c \in Closers : CloseAt(c, "outData") /\ outData.closed
               \/ \E c \in Closers : CloseAt(c, "cClose") /\ cClosed
  BY PanicCauses
\* With cHeartbeat closed and no application at work the Owner is in Close, or
\* past it, and the reader has ended.
<1>a. hbClosed /\ (\A a \in Apps : pc[a] = "idle") =>
          pc[Owner] \in Releasing \cup {"done"} /\ reader = "done"
  BY <1>w DEF ControlInv, At, Releasing, ClosePcs
<1> HIDE DEF TypeOK, ControlInv
<1>1. CASE ~Running
  BY <1>1, <1>i, <1>u DEF PanicsOnlyAfterClose
<1>2. CASE AnswerPanics
  BY <1>2, <1>i DEF AnswerPanics, PanicsOnlyAfterClose, senderVars, chanVars, clientVars, closeVars,
     beatVars
<1>3. CASE Running /\ ReaderNotifyPanic /\ UNCHANGED pc
  <2>1. reader = "notify" /\ cClosed /\ panic' = "send cClose"
    BY <1>3 DEF ReaderNotifyPanic
  <2>2. hbClosed
    BY <1>3, <2>1 DEF ReleaseInv
  <2>3. \E a \in Apps : pc'[a] # "idle"
    BY <1>3, <1>a, <2>1, <2>2
  <2>. QED
    BY <1>i, <2>1, <2>3 DEF PanicsOnlyAfterClose
<1>4. ASSUME NEW w \in Writers, SendPanic(w) PROVE PanicsOnlyAfterClose'
  BY <1>4, <1>i, <1>u DEF SendPanic, PanicsOnlyAfterClose
<1>5. ASSUME NEW c \in Closers, CloseHeartbeat(c), hbClosed PROVE PanicsOnlyAfterClose'
  <2>1. /\ pc[c] = "cHeartbeat" /\ pc' = [pc EXCEPT ![c] = "handler"]
        /\ panic' = "close cHeartbeat"
    BY <1>5, CloseGoes DEF CloseHeartbeat
  <2>2. \E a \in Apps : pc'[a] # "idle"
    <3>1. CASE c \in Apps
      BY <1>w, <2>1, <3>1
    <3>2. CASE c = Owner
      <4>1. PICK a \in Apps : pc[a] # "idle"
        BY <1>5, <1>a, <2>1, <3>2 DEF Releasing
      <4>2. pc'[a] = pc[a]
        BY <1>w, <2>1, <3>2, <4>1
      <4>. QED
        BY <4>1, <4>2
    <3>. QED
      BY <1>w, <3>1, <3>2
  <2>. QED
    BY <1>i, <2>1, <2>2 DEF PanicsOnlyAfterClose
<1>6. ASSUME NEW c \in Closers, CloseHandler(c), ~Dialed, Running PROVE PanicsOnlyAfterClose'
  <2>1. /\ pc[c] = "handler" /\ pc' = [pc EXCEPT ![c] = "inData"]
        /\ panic' = "nil session"
    BY <1>6, CloseGoes DEF CloseHandler
  <2>2. c \in Apps /\ pc'[c] # "idle"
    BY <1>6, <1>w, <2>1 DEF Dialed
  <2>. QED
    BY <1>i, <2>1, <2>2 DEF PanicsOnlyAfterClose
\* Whoever is about to close a channel in Release finds it open.
<1>7. ASSUME NEW c \in Closers, Running,
             \/ CloseAt(c, "inData") /\ inData.closed
             \/ CloseAt(c, "outData") /\ outData.closed
             \/ CloseAt(c, "cClose") /\ cClosed
      PROVE  FALSE
  BY <1>7 DEF CloseAt, ReleaseInv, At
<1>. QED
  BY <1>u, <1>1, <1>2, <1>3, <1>4, <1>5, <1>6, <1>7

\* Release in full while the process runs; afterwards nothing moves any more.
LEMMA OrderStep ==
    /\ ReleasedInOrder /\ ControlInv' /\ (Running' => ReleaseInv') /\ [Next]_vars
    => ReleasedInOrder'
<1> SUFFICES ASSUME ReleasedInOrder, ControlInv', Running' => ReleaseInv', [Next]_vars,
                    (state = "CLOSED")'
             PROVE  ReleasedInOrder'
  BY DEF ReleasedInOrder
<1>1. hbClosed' /\ inData'.closed /\ outData'.closed /\ cClosed'
  <2>1. CASE Running'
    BY <2>1 DEF ReleaseInv, At, Releasing
  <2>2. CASE ~Running'
    BY <2>2, PanicCauses DEF ReleasedInOrder
  <2>. QED
    BY <2>1, <2>2
<1>2. (\A a \in Apps : pc'[a] = "idle") => ~connOpen' /\ reader' = "done"
  BY <1>1 DEF ControlInv, At, Releasing, ClosePcs, Closers
<1>. QED
  BY <1>1, <1>2 DEF ReleasedInOrder
-----------------------------------------------------------------------------
(* Coming to rest.                                                         *)

\* Dial starts all three goroutines; only the Owner lets the reader end, and
\* closes then; and a client that is not open has cHeartbeat closed, or somebody
\* on the way there.
EndInv ==
    /\ Dialed => reader # "none" /\ writer # "none" /\ hb # "none"
    /\ reader = "done" => pc[Owner] \in ClosePcs
    /\ isOpen \/ hbClosed \/ At({"ticker", "cHeartbeat"})

LEMMA EndInit == Init => EndInv
  BY DEF Init, SessionInit, EndInv, Dialed, Closers

\* Every step keeps EndInv.
LEMMA EndStep == TypeOK /\ ControlInv /\ EndInv /\ [Next]_vars => EndInv'
<1> SUFFICES ASSUME TypeOK, ControlInv, EndInv, [Next]_vars PROVE EndInv'
  OBVIOUS
<1>w. /\ pc \in [Closers -> OwnerPcs \cup ClosePcs \cup {"idle"}]
      /\ Owner \in Closers /\ Apps \subseteq Closers /\ Owner \notin Apps
      /\ \A c \in Closers : c = Owner \/ c \in Apps
  BY ClientAssumption DEF ClientAssumption, Closers, TypeOK
<1>e. /\ Dialed => reader # "none" /\ writer # "none" /\ hb # "none"
      /\ reader = "done" => pc[Owner] \in ClosePcs
      /\ isOpen \/ hbClosed \/ At({"ticker", "cHeartbeat"})
      /\ ~Dialed => reader = "none"
  BY DEF EndInv, ControlInv
<1> HIDE DEF TypeOK, ControlInv, EndInv
<1> USE DEF sessionVars, clientVars, timerVars, beatVars, closeVars, chanVars, connVars,
            readerVars, writerVars, senderVars
\* Of a goroutine that moves on to a statement other than the two.
<1>m. ASSUME NEW c \in Closers, NEW q, pc' = [pc EXCEPT ![c] = q],
             pc[c] \notin {"ticker", "cHeartbeat"} \/ hbClosed'
                \/ q \in {"ticker", "cHeartbeat"},
             isOpen' => isOpen, hbClosed => hbClosed', isOpen => isOpen' \/ q = "ticker"
      PROVE  isOpen' \/ hbClosed' \/ At({"ticker", "cHeartbeat"})'
  BY <1>w, <1>e, <1>m DEF At
<1>1. CASE Dial
  <2>1. /\ pc' = [pc EXCEPT ![Owner] = "loop"] /\ reader' = "check" /\ writer' = "check"
        /\ hb' = "loop" /\ pc[Owner] = "none" /\ UNCHANGED <<isOpen, hbClosed>>
    BY <1>1 DEF Dial, Start, Dialed
  <2>2. isOpen' \/ hbClosed' \/ At({"ticker", "cHeartbeat"})'
    BY <1>m, <1>w, <2>1
  <2>. QED
    BY <2>1, <2>2 DEF EndInv
<1>2. CASE OwnerLoop \/ Dispatch \/ InDataEnded \/ Notified
  <2>1. PICK q \in {"loop", "select", "done", "isOpen"} :
          /\ pc[Owner] \in {"loop", "select"} /\ pc' = [pc EXCEPT ![Owner] = q]
          /\ reader' = reader \/ (q = "isOpen" /\ reader' = "done")
          /\ UNCHANGED <<writer, hb, isOpen, hbClosed>>
    BY <1>2 DEF OwnerLoop, Dispatch, InDataEnded, Notified, NotifyTaken
  <2>2. isOpen' \/ hbClosed' \/ At({"ticker", "cHeartbeat"})'
    BY <1>m, <1>w, <2>1
  <2>3. Dialed /\ reader # "done" /\ pc'[Owner] = q
    BY <1>w, <1>e, <2>1 DEF Dialed, ClosePcs
  <2>. QED
    BY <1>e, <2>1, <2>2, <2>3 DEF EndInv, ClosePcs
<1>3. ASSUME NEW c \in Closers, Close(c) PROVE EndInv'
  <2>0. reader' = reader /\ writer' = writer /\ hb' = hb
    BY <1>3 DEF Close, CloseFlag, CloseTicker, CloseHeartbeat, CloseHandler, CloseSession,
                CloseAt, CloseInData, CloseOutData, CloseNotify, SetClosed
  <2>1. /\ pc[c] \in ClosePcs \ {"done"}
        /\ \E q \in ClosePcs : pc' = [pc EXCEPT ![c] = q]
    <3>1. PICK p \in ClosePcs \ {"done"} : CloseAt(c, p)
      BY <1>3 DEF Close, CloseFlag, CloseTicker, CloseHeartbeat, CloseHandler, CloseSession,
                  ClosePcs
    <3>2. NextClose[p] \in ClosePcs
      BY <3>1 DEF NextClose, ClosePcs
    <3>. QED
      BY <3>1, <3>2 DEF CloseAt
  <2>2. isOpen' \/ hbClosed' \/ At({"ticker", "cHeartbeat"})'
    <3>1. CASE CloseFlag(c)
      <4>1. pc' = [pc EXCEPT ![c] = "ticker"] /\ ~isOpen' /\ hbClosed' = hbClosed
        BY <3>1, CloseGoes DEF CloseFlag
      <4>. QED
        BY <1>w, <4>1 DEF At
    <3>2. CASE CloseTicker(c)
      <4>1. pc' = [pc EXCEPT ![c] = "cHeartbeat"]
        BY <3>2, CloseGoes DEF CloseTicker
      <4>. QED
        BY <1>w, <4>1 DEF At
    <3>3. CASE CloseHeartbeat(c)
      BY <3>3 DEF CloseHeartbeat
    <3>4. CASE CloseHandler(c)
      <4>1. /\ pc' = [pc EXCEPT ![c] = "inData"] /\ pc[c] = "handler"
            /\ UNCHANGED <<isOpen, hbClosed>>
        BY <3>4, CloseGoes DEF CloseHandler
      <4>. QED
        BY <1>m, <4>1
    <3>5. CASE CloseSession(c)
      <4>1. UNCHANGED <<isOpen, hbClosed>>
        BY <3>5 DEF CloseSession
      <4>2. \E q \in ClosePcs : /\ pc[c] \in {"inData", "outData", "cClose", "state"}
                                /\ pc' = [pc EXCEPT ![c] = q]
        BY <3>5, CloseGoes DEF CloseSession, ClosePcs
      <4>. QED
        BY <1>m, <4>1, <4>2
    <3>. QED
      BY <1>3, <3>1, <3>2, <3>3, <3>4, <3>5 DEF Close
  <2>3. (Dialed' => Dialed) /\ (pc[Owner] \in ClosePcs => pc'[Owner] \in ClosePcs)
    BY <1>w, <2>1 DEF Dialed, ClosePcs
  <2>. QED
    BY <1>e, <2>0, <2>2, <2>3 DEF EndInv
<1>4. ASSUME NEW a \in Apps, AppClose(a) PROVE EndInv'
  <2>1. /\ pc[a] = "idle" /\ pc' = [pc EXCEPT ![a] = "isOpen"] /\ a \in Closers
        /\ UNCHANGED <<isOpen, hbClosed, reader, writer, hb>>
    BY <1>4, <1>w DEF AppClose
  <2>2. isOpen' \/ hbClosed' \/ At({"ticker", "cHeartbeat"})'
    BY <1>m, <2>1
  <2>3. pc'[Owner] = pc[Owner]
    BY <1>w, <2>1
  <2>. QED
    BY <1>e, <2>1, <2>2, <2>3 DEF EndInv, Dialed
<1>5. CASE ResetRuns \/ Fire \/ AnswerPanics \/ Heartbeat \/ ReadLoop \/ WriteLoop
  <2>1. /\ UNCHANGED <<pc, isOpen, hbClosed>>
        /\ reader' # "done" \/ reader' = reader
        /\ reader' # "none" \/ reader' = reader
        /\ writer' # "none" \/ writer' = writer
        /\ hb' # "none" \/ hb' = hb
    BY <1>5 DEF ResetRuns, Fire, AnswerPanics, Heartbeat, HeartbeatLoop, HeartbeatTick,
       HeartbeatAnswered, HeartbeatTimeout, ReadLoop, ReaderStep, ReaderCheck, ReaderRead,
       ReaderFail, ReaderSend, ReaderClose, ReaderNotifyPanic, WriteLoop, WriterStep, WriterCheck,
       WriterRecv, WriterWrite, WriterFail, WriterClose
  <2>. QED
    BY <1>e, <2>1 DEF EndInv, Dialed, At
<1>6. CASE (\E w \in Writers : Sending(w)) \/ (\E w \in Callers : Write(w)) \/ Peer \/ UNCHANGED vars
  <2>1. UNCHANGED <<pc, isOpen, hbClosed, reader, writer, hb>>
    BY <1>6 DEF Sending, SenderStep, SendCheck, SendEnqueue, SendPanic, Write, Peer, Answer,
       PeerSend, PeerClose, vars
  <2>. QED
    BY <1>e, <2>1 DEF EndInv, Dialed, At
<1>. QED
  BY <1>1, <1>2, <1>3, <1>4, <1>5, <1>6 DEF Next, OwnerStep, Closers

\* Where nobody can go on, the Owner has closed the session or found it closed:
\* while it waits in its select the reader is not held up by inData, and once
\* the reader has ended the Owner does not wait.
LEMMA RestIsEnd ==
    TypeOK /\ ControlInv /\ (Running => ReleaseInv) /\ EndInv => NobodyStuck
<1> SUFFICES ASSUME TypeOK, ControlInv, Running => ReleaseInv, EndInv,
                    ~peerOpen, Dialed, Running, ~ProgramCan
             PROVE  Ended
  BY DEF NobodyStuck
<1>1. /\ ~OwnerCan /\ ~HeartbeatCan /\ ~ReaderCan /\ ~WriterCan
      /\ \A w \in Writers : ~SenderCan(w)
      /\ \A a \in Apps : pc[a] \notin ClosePcs \ {"done"}
  BY DEF ProgramCan
<1>2. /\ pc[Owner] \in OwnerPcs \cup ClosePcs /\ pc[Owner] # "none"
      /\ \A a \in Apps : pc[a] \in {"idle", "done"}
  BY <1>1 DEF ControlInv, Dialed
<1>3. /\ reader \in ReaderPcs \ {"none"} /\ writer \in WriterPcs \ {"none"}
      /\ hb \in {"loop", "tick", "await", "done"}
  BY DEF TypeOK, LoopTypeOK, EndInv
<1>4. inData.buf \in Seq(Frame) /\ InCap \in Nat \ {0}
  BY CapAssumption DEF TypeOK, ChanTypeOK, CapAssumption
<1>5. pc[Owner] = "done"
  <2>1. pc[Owner] \in {"select", "done"}
    BY <1>1, <1>2 DEF OwnerCan, OwnerPcs
  <2>2. ASSUME pc[Owner] = "select" PROVE FALSE
    <3>1. inData.buf = <<>> /\ ~inData.closed /\ reader # "notify"
      BY <1>1, <2>2 DEF OwnerCan
    <3>2. Len(inData.buf) < InCap
      BY <1>4, <3>1
    <3>3. reader = "done"
      BY <1>1, <1>3, <3>1, <3>2 DEF ReaderCan, ReaderPcs
    <3>. QED
      BY <2>2, <3>3 DEF EndInv, ClosePcs
  <2>. QED
    BY <2>1, <2>2
<1>6. \A c \in Closers : pc[c] \in {"idle", "done"}
  BY <1>2, <1>5 DEF Closers
<1>7. hbClosed
  <2>1. ~isOpen
    BY <1>5 DEF ControlInv, Closers, NotClosing, OwnerPcs
  <2>. QED
    BY <1>6, <2>1 DEF EndInv, At
<1>8. /\ closeEvents = 1 /\ state = "CLOSED"
      /\ inData.closed /\ outData.closed /\ cClosed
  BY <1>6, <1>7 DEF ReleaseInv, At, Releasing
<1>9. reader = "done"
  BY <1>1, <1>3, <1>8 DEF ReaderCan, ReaderPcs
<1>10. writer = "done"
  BY <1>1, <1>3, <1>8 DEF WriterCan, WriterPcs
<1>11. \A w \in Writers : sender[w] \notin {"check", "enqueue"}
  BY <1>1, <1>8 DEF SenderCan
<1>12. hb \in {"tick", "done"}
  BY <1>1, <1>3 DEF HeartbeatCan
<1>. QED
  BY <1>5, <1>8, <1>9, <1>10, <1>11, <1>12 DEF Ended
-----------------------------------------------------------------------------
(* The theorems.                                                           *)

\* TcpClient (network/tcp.go) keeps IInv, whoever calls Close and however the
\* server answers.
THEOREM Invariance == Spec => []IInv
<1>1. Init => IInv
  <2> SUFFICES ASSUME Init PROVE IInv
    OBVIOUS
  <2>1. timerArmed /\ Running /\ closeEvents = 0 /\ state # "CLOSED"
    BY DEF Init, SessionInit, Running
  <2>2. TimerInv /\ HandlerClosedOnce /\ PanicsOnlyAfterClose /\ ReleasedInOrder
    BY <2>1 DEF TimerInv, HandlerClosedOnce, PanicsOnlyAfterClose, ReleasedInOrder
  <2>. QED
    BY <2>2, TypeInit, ControlInit, ReleaseInit, SentInit, AnswersInit DEF IInv
<1>2. IInv /\ [Next]_vars => IInv'
  <2> SUFFICES ASSUME IInv, [Next]_vars PROVE IInv'
    OBVIOUS
  <2>i. /\ TypeOK /\ ControlInv /\ (Running => ReleaseInv) /\ SentInv
        /\ hbClosed \/ (ComingInv /\ AnswersInv)
        /\ isOpen => TimerInv
        /\ HandlerClosedOnce /\ PanicsOnlyAfterClose /\ ReleasedInOrder
    BY DEF IInv
  <2>1. TypeOK'
    BY <2>i, TypeStep
  <2>2. ControlInv'
    BY <2>i, ControlStep
  <2>3. Running' => ReleaseInv'
    BY <2>i, ReleaseStep
  <2>4. SentInv'
    BY <2>i, SentStep
  <2>5. hbClosed' \/ (ComingInv' /\ AnswersInv')
    BY <2>i, AnswersStep
  <2>6. isOpen' => TimerInv'
    BY <2>i, TimerStep
  <2>7. HandlerClosedOnce' /\ PanicsOnlyAfterClose' /\ ReleasedInOrder'
    BY <2>i, <2>2, <2>3, HandlerStep, PanicStep, OrderStep
  <2>. QED
    BY <2>1, <2>2, <2>3, <2>4, <2>5, <2>6, <2>7 DEF IInv
<1>. QED
  BY <1>1, <1>2, PTL DEF Spec

\* The types of the client's variables, of whatever length the channels, the
\* wire and the histories are.
THEOREM TypeCorrect == Spec => []TypeOK
<1>1. IInv => TypeOK
  BY DEF IInv
<1>. QED
  BY <1>1, Invariance, PTL

\* Any number of goroutines may call TcpClient.Close while the reader reports:
\* Handler.Close is called once.
THEOREM HandlerOnce == Spec => []HandlerClosedOnce
<1>1. IInv => HandlerClosedOnce
  BY DEF IInv
<1>. QED
  BY <1>1, Invariance, PTL

\* The process panics only after somebody called Close, each panic for the
\* reason it has, and a client whose owner alone closes it panics only on a
\* send to a closed outData or cHeartbeat.
THEOREM PanicsHaveCauses == Spec => []PanicsOnlyAfterClose
<1>1. IInv => PanicsOnlyAfterClose
  BY DEF IInv
<1>. QED
  BY <1>1, Invariance, PTL

\* Session.Release marks the session CLOSED after the last channel, and without
\* a Close of the application only when the connection is closed too.
THEOREM ReleaseOrder == Spec => []ReleasedInOrder
<1>1. IInv => ReleasedInOrder
  BY DEF IInv
<1>. QED
  BY <1>1, Invariance, PTL

\* A waiting handleHeartbeatRet goroutine is left behind by a heartbeat that
\* timed out, one by each at most.
THEOREM BacklogBounded == Spec => []BacklogFromTimeouts
<1>1. IInv => BacklogFromTimeouts
  <2> SUFFICES ASSUME IInv, ~hbClosed
               PROVE  rets <= timeouts + (IF hb = "await" THEN 1 ELSE 0)
    BY DEF BacklogFromTimeouts
  <2>1. AnswersInv /\ TypeOK /\ SentInv
    BY DEF IInv
  <2> DEFINE n == Cardinality(Delivered)
  <2>2. n \in Nat /\ n <= beats
    BY <2>1, DeliveredBound
  <2>3. rets + beats <= timeouts + (IF hb = "await" THEN 1 ELSE 0) + n
    BY <2>1 DEF AnswersInv
  <2>4. rets \in Nat /\ timeouts \in Nat /\ beats \in Nat
    BY <2>1 DEF TypeOK
  <2> HIDE DEF n
  <2>. QED
    BY <2>2, <2>3, <2>4
<1>. QED
  BY <1>1, Invariance, PTL

\* The heartbeat of an open client waits on a timer at rest only while the
\* server owes an answer.
THEOREM StallsExplained == Spec => []StallsOnlyUnanswered
<1>1. IInv => StallsOnlyUnanswered
  <2> SUFFICES ASSUME IInv, isOpen, ~timerArmed, ~tickReady, ~(resets > 0), ~InFlight
               PROVE  Cardinality(AnsweredBeats) < beats
    BY DEF StallsOnlyUnanswered
  <2>1. TimerInv /\ TypeOK /\ SentInv
    BY DEF IInv
  <2>2. beats > 0 /\ beats \notin Delivered
    BY <2>1 DEF TimerInv
  <2>3. inData.buf = <<>> /\ rHeld = <<>> /\ arriving = <<>>
    BY DEF InFlight
  <2>4. <<>> \o <<>> = <<>>
    BY ConcatSimplifications
  <2>5. Coming = <<>>
    BY <2>3, <2>4 DEF Coming
  <2>6. HeadsOf(<<>>) = {}
    BY DEF HeadsOf, Range
  <2>7. AnsweredBeats = Delivered
    BY <2>5, <2>6 DEF Delivered
  <2>8. AnsweredBeats \subseteq 1 .. beats /\ beats \in Nat
    BY <2>1, DeliveredBound DEF TypeOK
  <2>9. AnsweredBeats \in SUBSET (1 .. beats - 1)
    BY <2>2, <2>7, <2>8
  <2>10. IsFiniteSet(1 .. beats - 1) /\ Cardinality(1 .. beats - 1) = beats - 1
    <3>1. Cardinality(1 .. beats - 1) = IF 1 > beats - 1 THEN 0 ELSE (beats - 1) - 1 + 1
      BY <2>8, FS_Interval
    <3>2. (IF 1 > beats - 1 THEN 0 ELSE (beats - 1) - 1 + 1) = beats - 1
      BY <2>2, <2>8
    <3>. QED
      BY <2>8, <3>1, <3>2, FS_Interval
  <2>11. Cardinality(AnsweredBeats) <= beats - 1 /\ Cardinality(AnsweredBeats) \in Nat
    BY <2>9, <2>10, FS_Subset, FS_CardinalityType
  <2>. QED
    BY <2>8, <2>11
<1>. QED
  BY <1>1, Invariance, PTL

\* Once the server has closed the connection no two goroutines of the client
\* wait for one another: where nobody can go on, all have ended, the session is
\* released and the Handler has heard of it.
THEOREM NoDeadlock == Spec => []NobodyStuck
<1>1. IInv => TypeOK /\ ControlInv /\ (Running => ReleaseInv)
  BY DEF IInv
<1>. QED
  BY <1>1, EndInit, EndStep, RestIsEnd, Invariance, PTL DEF Spec

\* So the client comes to rest only when it has ended.  The premise relates the
\* guards of the steps to ENABLED, which the provers do not expand; TLC checks
\* it as the first part of ClientEnds.
THEOREM ClientComesToRest == Spec => [](CanIsEnabled => ClientEnds)
<1>1. ASSUME NobodyStuck, CanIsEnabled PROVE ClientEnds
  <2>1. Running /\ ~ENABLED Program => ~ProgramCan
    BY <1>1 DEF CanIsEnabled
  <2>. QED
    BY <1>1, <2>1 DEF NobodyStuck, ClientEnds, CanIsEnabled
<1>. QED
  BY <1>1, NoDeadlock, PTL
=============================================================================
