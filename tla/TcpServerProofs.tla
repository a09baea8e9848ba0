-------------------------- MODULE TcpServerProofs --------------------------
(***************************************************************************)
(* IInv is an inductive invariant of TcpServer, for any number of frames   *)
(* and writers and any capacity of the two channels; the safety properties *)
(* the runs check follow from it.                                          *)
(***************************************************************************)
EXTENDS TcpServer, SequenceTheorems, TLAPS

Queue(S) == [buf : Seq(S), closed : BOOLEAN]

\* What a receive leaves of a channel's buffer.
LEMMA QueueRemove ==
    ASSUME NEW S, NEW q \in Queue(S), q.buf # <<>>
    PROVE  LET r == [q EXCEPT !.buf = Tail(@)]
           IN  /\ Head(q.buf) \in S
               /\ Head(q.buf) = q.buf[1]
               /\ Len(q.buf) \in Nat \ {0}
               /\ r \in Queue(S)
               /\ r.closed = q.closed
               /\ Len(r.buf) = Len(q.buf) - 1
               /\ \A i \in 1 .. Len(r.buf) : r.buf[i] = q.buf[i + 1]
<1>1. q.buf \in Seq(S)
  BY DEF Queue
<1>2. /\ Head(q.buf) \in S
      /\ Tail(q.buf) \in Seq(S)
      /\ Len(Tail(q.buf)) = Len(q.buf) - 1
      /\ \A i \in 1 .. Len(Tail(q.buf)) : Tail(q.buf)[i] = q.buf[i + 1]
  BY <1>1, HeadTailProperties
<1>3. Head(q.buf) = q.buf[1] /\ Len(q.buf) \in Nat \ {0}
  BY <1>1, EmptySeq
<1>. QED
  BY <1>1, <1>2, <1>3 DEF Queue

\* What a send adds to it.
LEMMA QueueAdd ==
    ASSUME NEW S, NEW q \in Queue(S), NEW e \in S
    PROVE  LET r == [q EXCEPT !.buf = Append(@, e)]
           IN  /\ r \in Queue(S)
               /\ r.closed = q.closed
               /\ Len(q.buf) \in Nat
               /\ Len(r.buf) = Len(q.buf) + 1
               /\ \A i \in 1 .. Len(q.buf) : r.buf[i] = q.buf[i]
               /\ r.buf[Len(q.buf) + 1] = e
<1>1. q.buf \in Seq(S) /\ Len(q.buf) \in Nat
  BY LenProperties DEF Queue
<1>2. /\ Append(q.buf, e) \in Seq(S)
      /\ Len(Append(q.buf, e)) = Len(q.buf) + 1
      /\ \A i \in 1 .. Len(q.buf) : Append(q.buf, e)[i] = q.buf[i]
      /\ Append(q.buf, e)[Len(q.buf) + 1] = e
  BY <1>1, AppendProperties
<1>. QED
  BY <1>1, <1>2 DEF Queue

\* A buffer of one element is not empty, and its head is an element.
LEMMA Single ==
    ASSUME NEW S, NEW s \in Seq(S), Len(s) = 1
    PROVE  s # <<>> /\ Head(s) \in S /\ Head(s) = s[1]
<1>1. s # <<>>
  BY EmptySeq
<1>. QED
  BY <1>1, HeadTailProperties

LEMMA Singleton ==
    ASSUME NEW S, NEW e \in S
    PROVE  <<e>> \in Seq(S) /\ Len(<<e>>) = 1 /\ <<e>>[1] = e
  OBVIOUS
\* A sequence that is not empty is its head and then its tail.
LEMMA Uncons ==
    ASSUME NEW S, NEW s \in Seq(S), s # <<>>
    PROVE  /\ Head(s) \in S /\ Head(s) = s[1]
           /\ <<Head(s)>> \in Seq(S) /\ Tail(s) \in Seq(S)
           /\ s = <<Head(s)>> \o Tail(s)
<1>1. /\ Head(s) \in S /\ Tail(s) \in Seq(S) /\ Len(Tail(s)) = Len(s) - 1
      /\ \A i \in 1 .. Len(Tail(s)) : Tail(s)[i] = s[i + 1]
      /\ Len(s) \in Nat \ {0} /\ Head(s) = s[1]
  BY HeadTailProperties, EmptySeq
<1> DEFINE h == <<Head(s)>>
<1>2. h \in Seq(S) /\ Len(h) = 1 /\ h[1] = Head(s)
  BY <1>1, Singleton
<1> HIDE DEF h
<1>3. /\ h \o Tail(s) \in Seq(S)
      /\ Len(h \o Tail(s)) = Len(s)
      /\ \A i \in 1 .. Len(s) : (h \o Tail(s))[i] = IF i <= 1 THEN h[i] ELSE Tail(s)[i - 1]
  <2> DEFINE t == Tail(s)
  <2>1. Len(h) + Len(t) = Len(s) /\ t \in Seq(S)
    BY <1>1, <1>2
  <2> HIDE DEF t
  <2>2. /\ h \o t \in Seq(S)
        /\ Len(h \o t) = Len(h) + Len(t)
        /\ \A i \in 1 .. Len(h) + Len(t) : (h \o t)[i] = IF i <= Len(h) THEN h[i] ELSE t[i - Len(h)]
    BY <1>2, <2>1, ConcatProperties
  <2>. QED
    BY <1>2, <2>1, <2>2 DEF t
<1>4. \A i \in 1 .. Len(s) : (h \o Tail(s))[i] = s[i]
  <2> TAKE i \in 1 .. Len(s)
  <2>1. CASE i = 1
    BY <1>1, <1>2, <1>3, <2>1
  <2>2. CASE i # 1
    <3>1. i - 1 \in 1 .. Len(Tail(s)) /\ (i - 1) + 1 = i /\ ~(i <= 1)
      BY <1>1, <2>2
    <3>. QED
      BY <1>1, <1>3, <3>1
  <2>. QED
    BY <2>1, <2>2
<1>5. h \o Tail(s) = s
  BY <1>3, <1>4, SeqEqual
<1>. QED
  BY <1>1, <1>2, <1>5 DEF h

\* What enters behind the second of two sequences in a row enters behind both.
LEMMA EnterBehind ==
    ASSUME NEW S, NEW s \in Seq(S), NEW t \in Seq(S), NEW e \in S
    PROVE  s \o Append(t, e) = Append(s \o t, e)
<1>1. Append(t, e) = t \o <<e>> /\ <<e>> \in Seq(S)
  BY AppendIsConcat
<1>2. s \o t \in Seq(S)
  BY ConcatProperties
<1>3. Append(s \o t, e) = (s \o t) \o <<e>>
  BY <1>2, AppendIsConcat
<1>4. (s \o t) \o <<e>> = s \o (t \o <<e>>)
  <2> DEFINE u == <<e>>
  <2>1. u \in Seq(S)
    BY <1>1
  <2> HIDE DEF u
  <2>2. (s \o t) \o u = s \o (t \o u)
    BY <2>1, ConcatAssociative, SMTT(30)
  <2>. QED
    BY <2>2 DEF u
<1>. QED
  BY <1>1, <1>3, <1>4

\* Two sequences in a row, the first not empty: head and tail come from it.
LEMMA LeaveInFront ==
    ASSUME NEW S, NEW s \in Seq(S), NEW t \in Seq(S), s # <<>>
    PROVE  /\ s \o t \in Seq(S)
           /\ s \o t # <<>>
           /\ Head(s \o t) = Head(s)
           /\ Tail(s \o t) = Tail(s) \o t
<1> DEFINE v == s \o t
           h == <<Head(s)>>
<1>1. v \in Seq(S) /\ v # <<>> /\ v[1] = s[1]
  <2>1. /\ v \in Seq(S) /\ Len(v) = Len(s) + Len(t)
        /\ \A i \in 1 .. Len(s) + Len(t) : v[i] = IF i <= Len(s) THEN s[i] ELSE t[i - Len(s)]
        /\ Len(s) \in Nat \ {0} /\ Len(t) \in Nat
    BY ConcatProperties, EmptySeq, LenProperties
  <2> HIDE DEF v
  <2>2. v # <<>>
    BY <2>1, EmptySeq
  <2>3. v[1] = s[1]
    BY <2>1
  <2>. QED
    BY <2>1, <2>2, <2>3
<1>2. /\ Head(s) = s[1] /\ h \in Seq(S) /\ Tail(s) \in Seq(S) /\ s = h \o Tail(s)
  BY Uncons
<1> HIDE DEF v
<1>3. /\ Head(v) = v[1] /\ Tail(v) \in Seq(S) /\ v = <<Head(v)>> \o Tail(v)
  BY <1>1, Uncons
<1>4. Head(v) = Head(s)
  BY <1>1, <1>2, <1>3
<1>5. Tail(s) \o t \in Seq(S)
  BY <1>2, ConcatProperties
<1>6. v = h \o (Tail(s) \o t)
  <2>1. h \in Seq(S) /\ Tail(s) \in Seq(S)
    BY <1>2
  <2> HIDE DEF h
  <2>2. (h \o Tail(s)) \o t = h \o (Tail(s) \o t)
    BY <2>1, ConcatAssociative, SMTT(30)
  <2>. QED
    BY <1>2, <2>2 DEF v
<1>7. h \o Tail(v) = h \o (Tail(s) \o t)
  BY <1>3, <1>4, <1>6
<1>8. Tail(v) = Tail(s) \o t
  <2> HIDE DEF h
  <2>. QED
    BY <1>2, <1>3, <1>5, <1>7, ConcatSimplifications
<1>. QED
  BY <1>1, <1>4, <1>8 DEF v

\* An element goes from the front of one sequence to the end of the one before.
LEMMA MoveUp ==
    ASSUME NEW S, NEW s \in Seq(S), NEW t \in Seq(S), t # <<>>
    PROVE  s \o t = Append(s, Head(t)) \o Tail(t)
<1>1. /\ Head(t) \in S /\ <<Head(t)>> \in Seq(S) /\ Tail(t) \in Seq(S)
      /\ t = <<Head(t)>> \o Tail(t)
  BY Uncons
<1>2. Append(s, Head(t)) = s \o <<Head(t)>>
  BY <1>1, AppendIsConcat
<1>3. (s \o <<Head(t)>>) \o Tail(t) = s \o (<<Head(t)>> \o Tail(t))
  <2> DEFINE h == <<Head(t)>>
             u == Tail(t)
  <2>1. h \in Seq(S) /\ u \in Seq(S)
    BY <1>1
  <2> HIDE DEF h, u
  <2>2. (s \o h) \o u = s \o (h \o u)
    BY <2>1, ConcatAssociative, SMTT(30)
  <2>. QED
    BY <2>2 DEF h, u
<1>. QED
  BY <1>1, <1>2, <1>3
-----------------------------------------------------------------------------
(* Type correctness, one step per action.                                  *)

LEMMA TypeInit == Init => TypeOK
<1> SUFFICES ASSUME Init PROVE TypeOK
  OBVIOUS
<1> USE DEF Init, SessionInit
<1>1. /\ <<>> \in Seq(Frame) /\ <<>> \in Seq(Writers)
      /\ Len(<<>>) = 0
  BY EmptySeq
<1>2. ChanTypeOK
  BY <1>1, CapAssumption DEF CapAssumption, ChanTypeOK
<1>3. FlagTypeOK
  BY DEF FlagTypeOK
<1>4. WireTypeOK /\ LoopTypeOK /\ SenderTypeOK
  BY <1>1 DEF WireTypeOK, LoopTypeOK, SenderTypeOK, ReaderPcs, WriterPcs, SenderPcs
<1>. QED
  BY <1>1, <1>2, <1>3, <1>4 DEF TypeOK, SessionTypeOK, States, Panics, Before

\* A part of the type invariant whose variables do not change is kept.
LEMMA TypeKept ==
    /\ ChanTypeOK /\ UNCHANGED <<inData, outData>> => ChanTypeOK'
    /\ FlagTypeOK /\ UNCHANGED <<cClosed, connOpen, peerOpen>> => FlagTypeOK'
    /\ WireTypeOK /\ UNCHANGED <<arriving, wired>> => WireTypeOK'
    /\ LoopTypeOK /\ UNCHANGED <<readerVars, writerVars>> => LoopTypeOK'
    /\ SenderTypeOK /\ UNCHANGED senderVars => SenderTypeOK'
<1>1. ChanTypeOK /\ UNCHANGED <<inData, outData>> => ChanTypeOK'
  BY DEF ChanTypeOK
<1>2. FlagTypeOK /\ UNCHANGED <<cClosed, connOpen, peerOpen>> => FlagTypeOK'
  BY DEF FlagTypeOK
<1>3. WireTypeOK /\ UNCHANGED <<arriving, wired>> => WireTypeOK'
  BY DEF WireTypeOK
<1>4. LoopTypeOK /\ UNCHANGED <<readerVars, writerVars>> => LoopTypeOK'
  BY DEF LoopTypeOK, readerVars, writerVars
<1>5. SenderTypeOK /\ UNCHANGED senderVars => SenderTypeOK'
  BY DEF SenderTypeOK, senderVars
<1>. QED
  BY <1>1, <1>2, <1>3, <1>4, <1>5

LEMMA TypeStep == TypeOK /\ ControlInv /\ [Next]_vars => TypeOK'
<1> SUFFICES ASSUME TypeOK, ControlInv, [Next]_vars PROVE TypeOK'
  OBVIOUS
<1> USE DEF sessionVars, serverVars, chanVars, connVars, readerVars, writerVars,
            senderVars
<1> DEFINE Rest == /\ state \in States
                   /\ panic \in Panics
                   /\ owner \in Before \cup {"handler close"} \cup Releasing
                   /\ dispatched \in Seq(Frame)
                   /\ closeEvents \in Nat
<1>t. ChanTypeOK /\ FlagTypeOK /\ WireTypeOK /\ LoopTypeOK /\ SenderTypeOK /\ Rest
  BY DEF TypeOK, SessionTypeOK
<1>p. SUFFICES ChanTypeOK' /\ FlagTypeOK' /\ WireTypeOK' /\ LoopTypeOK'
                 /\ SenderTypeOK' /\ Rest'
  BY DEF TypeOK, SessionTypeOK
<1>1. CASE NewSession
  <2>1. LoopTypeOK'
    <3>1. /\ reader = "none" /\ reader' = "check" /\ UNCHANGED rHeld
          /\ writer = "none" /\ writer' = "check" /\ UNCHANGED wHeld
          /\ UNCHANGED nread
      BY <1>1 DEF NewSession, Start, ControlInv
    <3>. QED
      BY <1>t, <3>1 DEF LoopTypeOK, ReaderPcs, WriterPcs
  <2>2. Rest'
    BY <1>1, <1>t DEF NewSession, Start, States, Before
  <2>. QED
    BY <1>1, <1>t, <2>1, <2>2, TypeKept DEF NewSession, Start
<1>2. CASE ConnectReturns
  <2>1. Rest'
    BY <1>2, <1>t DEF ConnectReturns, Before
  <2>. QED
    BY <1>2, <1>t, <2>1, TypeKept DEF ConnectReturns
<1>3. CASE ConnectPanics
  <2>1. Rest'
    BY <1>3, <1>t DEF ConnectPanics, MarkClosing, States, Before
  <2>. QED
    BY <1>3, <1>t, <2>1, TypeKept DEF ConnectPanics, MarkClosing
<1>4. CASE Dispatch
  <2>1. inData \in Queue(Frame) /\ inData.buf # <<>>
    BY <1>4, <1>t DEF Dispatch, ChanTypeOK, Queue
  <2>2. /\ Head(inData.buf) \in Frame
        /\ inData' \in Queue(Frame)
        /\ Len(inData.buf) \in Nat
        /\ Len(inData'.buf) = Len(inData.buf) - 1
    BY <1>4, <2>1, QueueRemove DEF Dispatch
  <2>3. ChanTypeOK'
    BY <1>4, <1>t, <2>2, CapAssumption DEF CapAssumption, Dispatch, ChanTypeOK, Queue
  <2>4. Rest'
    <3>1. dispatched' \in Seq(Frame)
      BY <1>4, <1>t, <2>2, AppendProperties DEF Dispatch
    <3>. QED
      BY <1>4, <1>t, <3>1 DEF Dispatch
  <2>5. SenderTypeOK'
    <3>1. Spawned(Head(inData.buf)) \in SenderPcs
      BY DEF Spawned, SenderPcs
    <3>. QED
      BY <1>4, <1>t, <3>1 DEF Dispatch, SenderTypeOK
  <2>. QED
    BY <1>4, <1>t, <2>3, <2>4, <2>5, TypeKept DEF Dispatch
<1>5. CASE Notified
  <2>1. LoopTypeOK'
    BY <1>5, <1>t DEF Notified, NotifyTaken, LoopTypeOK, ReaderPcs
  <2>2. Rest'
    BY <1>5, <1>t DEF Notified, NotifyTaken
  <2>. QED
    BY <1>5, <1>t, <2>1, <2>2, TypeKept DEF Notified, NotifyTaken
<1>6. CASE HandlerClose
  <2>1. Rest'
    <3>1. owner' \in Releasing
      BY <1>6 DEF HandlerClose, Releasing
    <3>2. closeEvents' \in Nat
      <4>1. closeEvents \in Nat /\ closeEvents' = closeEvents + 1
        BY <1>6, <1>t DEF HandlerClose
      <4>. QED
        BY <4>1
    <3>. QED
      BY <1>6, <1>t, <3>1, <3>2 DEF HandlerClose
  <2>. QED
    BY <1>6, <1>t, <2>1, TypeKept DEF HandlerClose
<1>7. CASE Release
  <2>1. CASE ReleaseChannel("close inData", CloseInData)
    <3>1. Rest'
      BY <2>1, <1>t DEF ReleaseChannel, CloseInData, After, Releasing, Panics
    <3>2. ChanTypeOK'
      BY <2>1, <1>t DEF ReleaseChannel, CloseInData, ChanTypeOK
    <3>. QED
      BY <2>1, <1>t, <3>1, <3>2, TypeKept DEF ReleaseChannel, CloseInData
  <2>2. CASE ReleaseChannel("close outData", CloseOutData)
    <3>1. Rest'
      BY <2>2, <1>t DEF ReleaseChannel, CloseOutData, After, Releasing, Panics
    <3>2. ChanTypeOK'
      BY <2>2, <1>t DEF ReleaseChannel, CloseOutData, ChanTypeOK
    <3>. QED
      BY <2>2, <1>t, <3>1, <3>2, TypeKept DEF ReleaseChannel, CloseOutData
  <2>3. CASE ReleaseChannel("close cClose", CloseNotify)
    <3>1. Rest'
      BY <2>3, <1>t DEF ReleaseChannel, CloseNotify, After, Releasing, Panics
    <3>2. FlagTypeOK'
      BY <2>3, <1>t DEF ReleaseChannel, CloseNotify, FlagTypeOK
    <3>. QED
      BY <2>3, <1>t, <3>1, <3>2, TypeKept DEF ReleaseChannel, CloseNotify
  <2>4. CASE owner = "set CLOSED" /\ SetClosed /\ owner' = "done"
             /\ UNCHANGED <<dispatched, closeEvents>>
    <3>1. Rest'
      BY <2>4, <1>t DEF SetClosed, Releasing, States
    <3>. QED
      BY <2>4, <1>t, <3>1, TypeKept DEF SetClosed
  <2>. QED
    BY <1>7, <2>1, <2>2, <2>3, <2>4 DEF Release
<1>8. CASE ReadLoop
  <2>1. CASE ReaderCheck \/ ReaderFail \/ ReaderClose \/ ReaderNotifyPanic
    <3>1. LoopTypeOK'
      BY <2>1, <1>t DEF ReaderCheck, ReaderFail, ReaderClose, ReaderNotifyPanic,
                        LoopTypeOK, ReaderPcs
    <3>2. FlagTypeOK'
      BY <2>1, <1>t DEF ReaderCheck, ReaderFail, ReaderClose, ReaderNotifyPanic,
                        FlagTypeOK
    <3>3. Rest' /\ UNCHANGED <<inData, outData, arriving, wired, senderVars>>
      BY <1>8, <2>1, <1>t DEF ReadLoop, ReaderCheck, ReaderFail, ReaderClose,
                        ReaderNotifyPanic, Panics
    <3>. QED
      BY <1>t, <3>1, <3>2, <3>3, TypeKept
  <2>2. CASE ReaderRead
    <3>1. arriving \in Seq(Frame) /\ arriving # <<>>
      BY <2>2, <1>t DEF ReaderRead, WireTypeOK
    <3>2. Head(arriving) \in Frame /\ Tail(arriving) \in Seq(Frame)
      BY <3>1, HeadTailProperties
    <3>3. rHeld' \in Seq(Frame) /\ Len(rHeld') = 1
      <4>1. rHeld' = <<Head(arriving)>>
        BY <2>2 DEF ReaderRead
      <4>. QED
        BY <3>2, <4>1, Singleton
    <3>4. LoopTypeOK'
      <4>1. reader' = "send" /\ nread' = nread + 1 /\ UNCHANGED <<writer, wHeld>>
        BY <2>2 DEF ReaderRead
      <4>. QED
        <5>1. nread' \in Nat
          <6>1. nread \in Nat
            BY <1>t DEF LoopTypeOK
          <6>. QED
            BY <4>1, <6>1
        <5>. QED
          BY <1>t, <3>3, <4>1, <5>1 DEF LoopTypeOK, ReaderPcs
    <3>5. WireTypeOK'
      BY <2>2, <1>t, <3>2 DEF ReaderRead, WireTypeOK
    <3>6. Rest' /\ UNCHANGED <<inData, outData, cClosed, connOpen, peerOpen, senderVars>>
      BY <1>8, <2>2, <1>t DEF ReadLoop, ReaderRead
    <3>. QED
      BY <1>t, <3>4, <3>5, <3>6, TypeKept
  <2>3. CASE ReaderSend
    <3>1. LoopTypeOK'
      <4>1. reader' \in {"check", "close"} /\ rHeld' = <<>>
            /\ UNCHANGED <<nread, writer, wHeld>>
        BY <2>3 DEF ReaderSend
      <4>2. rHeld' \in Seq(Frame) /\ Len(rHeld') = 0
        BY <4>1, EmptySeq
      <4>. QED
        <5>1. reader' \in ReaderPcs /\ reader' # "send"
          BY <4>1 DEF ReaderPcs
        <5>2. nread' \in Nat /\ writer' \in WriterPcs /\ wHeld' \in Seq(Writers)
              /\ Len(wHeld') = (IF writer' = "write" THEN 1 ELSE 0)
          BY <1>t, <4>1 DEF LoopTypeOK
        <5>. QED
          BY <4>2, <5>1, <5>2 DEF LoopTypeOK
    <3>2. ChanTypeOK'
      <4>1. CASE inData.closed
        <5>1. UNCHANGED <<inData, outData>>
          BY <2>3, <4>1 DEF ReaderSend
        <5>. QED
          BY <1>t, <5>1, TypeKept
      <4>2. CASE ~inData.closed
        <5>1. Len(rHeld) = 1 /\ rHeld \in Seq(Frame)
          BY <2>3, <1>t DEF ReaderSend, LoopTypeOK
        <5>2. Head(rHeld) \in Frame
          BY <5>1, Single
        <5>3. inData \in Queue(Frame)
          BY <1>t DEF ChanTypeOK, Queue
        <5>4. /\ inData' = [inData EXCEPT !.buf = Append(@, Head(rHeld))]
              /\ Len(inData.buf) < InCap
              /\ UNCHANGED outData
          BY <2>3, <4>2 DEF ReaderSend
        <5>5. /\ inData' \in Queue(Frame)
              /\ Len(inData.buf) \in Nat
              /\ Len(inData'.buf) = Len(inData.buf) + 1
          BY <5>2, <5>3, <5>4, QueueAdd
        <5>. QED
          <6>1. Len(inData'.buf) <= InCap
            BY <5>4, <5>5, CapAssumption DEF CapAssumption
          <6>. QED
            BY <1>t, <5>4, <5>5, <6>1 DEF ChanTypeOK, Queue
      <4>. QED
        BY <4>1, <4>2
    <3>3. Rest' /\ UNCHANGED <<cClosed, connOpen, peerOpen, arriving, wired, senderVars>>
      BY <1>8, <2>3, <1>t DEF ReadLoop, ReaderSend
    <3>. QED
      BY <1>t, <3>1, <3>2, <3>3, TypeKept
  <2>. QED
    BY <1>8, <2>1, <2>2, <2>3 DEF ReadLoop, ReaderStep
<1>9. CASE WriteLoop
  <2>1. CASE WriterCheck \/ WriterFail \/ WriterClose
    <3>1. LoopTypeOK'
      BY <2>1, <1>t, EmptySeq DEF WriterCheck, WriterFail, WriterClose, LoopTypeOK,
                        WriterPcs
    <3>2. FlagTypeOK'
      BY <2>1, <1>t DEF WriterCheck, WriterFail, WriterClose, FlagTypeOK
    <3>3. Rest' /\ UNCHANGED <<inData, outData, arriving, wired, senderVars>>
      BY <1>9, <2>1, <1>t DEF WriteLoop, WriterCheck, WriterFail, WriterClose
    <3>. QED
      BY <1>t, <3>1, <3>2, <3>3, TypeKept
  <2>2. CASE WriterRecv
    <3>0. Rest' /\ UNCHANGED <<inData, cClosed, connOpen, peerOpen, arriving, wired,
                               readerVars, senderVars>>
      BY <1>9, <2>2, <1>t DEF WriteLoop, WriterRecv
    <3>1. CASE outData.buf = <<>>
      <4>1. LoopTypeOK'
        BY <2>2, <1>t, <3>1 DEF WriterRecv, LoopTypeOK, WriterPcs
      <4>2. UNCHANGED outData
        BY <2>2, <3>1 DEF WriterRecv
      <4>. QED
        BY <1>t, <3>0, <4>1, <4>2, TypeKept
    <3>2. CASE outData.buf # <<>>
      <4>1. outData \in Queue(Writers)
        BY <1>t DEF ChanTypeOK, Queue
      <4>2. /\ writer' = "write"
            /\ outData' = [outData EXCEPT !.buf = Tail(@)]
            /\ wHeld' = <<Head(outData.buf)>>
        BY <2>2, <3>2 DEF WriterRecv
      <4>3. /\ Head(outData.buf) \in Writers
            /\ outData' \in Queue(Writers)
            /\ Len(outData.buf) \in Nat
            /\ Len(outData'.buf) = Len(outData.buf) - 1
        BY <3>2, <4>1, <4>2, QueueRemove
      <4>4. ChanTypeOK'
        <5>1. Len(outData'.buf) <= OutCap
          <6>1. Len(outData.buf) <= OutCap
            BY <1>t DEF ChanTypeOK
          <6>. QED
            BY <4>3, <6>1, CapAssumption DEF CapAssumption
        <5>. QED
          BY <1>t, <3>0, <4>3, <5>1 DEF ChanTypeOK, Queue
      <4>5. wHeld' \in Seq(Writers) /\ Len(wHeld') = 1
        BY <4>2, <4>3, Singleton
      <4>6. LoopTypeOK'
        BY <1>t, <3>0, <4>2, <4>5 DEF LoopTypeOK, WriterPcs
      <4>. QED
        BY <1>t, <3>0, <4>4, <4>6, TypeKept
    <3>. QED
      BY <3>1, <3>2
  <2>3. CASE WriterWrite
    <3>1. Len(wHeld) = 1 /\ wHeld \in Seq(Writers)
      BY <2>3, <1>t DEF WriterWrite, LoopTypeOK
    <3>2. Head(wHeld) \in Writers
      BY <3>1, Single
    <3>3. WireTypeOK'
      BY <2>3, <1>t, <3>2, AppendProperties DEF WriterWrite, WireTypeOK
    <3>4. LoopTypeOK'
      BY <2>3, <1>t, EmptySeq DEF WriterWrite, LoopTypeOK, WriterPcs
    <3>5. Rest' /\ UNCHANGED <<inData, outData, cClosed, connOpen, peerOpen, senderVars>>
      BY <1>9, <2>3, <1>t DEF WriteLoop, WriterWrite
    <3>. QED
      BY <1>t, <3>3, <3>4, <3>5, TypeKept
  <2>. QED
    BY <1>9, <2>1, <2>2, <2>3 DEF WriteLoop, WriterStep
<1>10. ASSUME NEW w \in Writers, Sending(w) PROVE TypeOK'
  <2>0. Rest' /\ UNCHANGED <<inData, cClosed, connOpen, peerOpen, arriving, wired,
                             readerVars, writerVars>>
    BY <1>10, <1>t DEF Sending, SenderStep, SendCheck, SendEnqueue, SendPanic, Panics
  <2>1. CASE SendCheck(w)
    <3>1. SenderTypeOK'
      BY <2>1, <1>t DEF SendCheck, SenderTypeOK, SenderPcs
    <3>2. UNCHANGED outData
      BY <2>1 DEF SendCheck
    <3>. QED
      BY <1>t, <2>0, <3>1, <3>2, TypeKept DEF TypeOK, SessionTypeOK
  <2>2. CASE SendEnqueue(w)
    <3>1. outData \in Queue(Writers)
      BY <1>t DEF ChanTypeOK, Queue
    <3>2. outData' = [outData EXCEPT !.buf = Append(@, w)] /\ Len(outData.buf) < OutCap
      BY <2>2 DEF SendEnqueue
    <3>3. /\ outData' \in Queue(Writers)
          /\ Len(outData.buf) \in Nat
          /\ Len(outData'.buf) = Len(outData.buf) + 1
      BY <3>1, <3>2, QueueAdd
    <3>4. ChanTypeOK'
      <4>1. Len(outData'.buf) <= OutCap
        BY <3>2, <3>3, CapAssumption DEF CapAssumption
      <4>. QED
        BY <1>t, <2>0, <3>3, <4>1 DEF ChanTypeOK, Queue
    <3>5. SenderTypeOK'
      BY <2>2, <1>t, AppendProperties DEF SendEnqueue, SenderTypeOK, SenderPcs
    <3>. QED
      BY <1>t, <2>0, <3>4, <3>5, TypeKept DEF TypeOK, SessionTypeOK
  <2>3. CASE SendPanic(w)
    <3>1. UNCHANGED <<outData, senderVars>>
      BY <2>3 DEF SendPanic
    <3>. QED
      BY <1>t, <2>0, <3>1, TypeKept DEF TypeOK, SessionTypeOK
  <2>. QED
    BY <1>10, <2>1, <2>2, <2>3 DEF Sending, SenderStep
<1>11. ASSUME NEW w \in Heads \cup Pushers, Handle(w) \/ Push(w) PROVE TypeOK'
  <2>1. SenderTypeOK'
    BY <1>11, <1>t, ServerAssumption DEF ServerAssumption, Handle, Push, SenderTypeOK,
                        SenderPcs
  <2>2. Rest' /\ UNCHANGED <<chanVars, connVars, readerVars, writerVars>>
    BY <1>11, <1>t DEF Handle, Push
  <2>. QED
    BY <1>t, <2>1, <2>2, TypeKept DEF TypeOK, SessionTypeOK
<1>12. CASE Peer
  <2>1. WireTypeOK'
    <3>1. CASE PeerClose
      BY <3>1, <1>t, TypeKept DEF PeerClose
    <3>2. ASSUME NEW t \in DTypes, nread + Len(arriving) < MaxFrames,
                 PeerSend([dType |-> t, head |-> nread + Len(arriving) + 1])
          PROVE  WireTypeOK'
      <4>1. Len(arriving) \in Nat /\ nread \in Nat
        BY <1>t, LenProperties DEF WireTypeOK, LoopTypeOK
      <4>2. nread + Len(arriving) + 1 \in Heads
        BY <3>2, <4>1, ServerAssumption DEF ServerAssumption
      <4>3. [dType |-> t, head |-> nread + Len(arriving) + 1] \in Frame
        BY <4>2 DEF Frame
      <4>. QED
        BY <3>2, <1>t, <4>3, AppendProperties DEF PeerSend, WireTypeOK
    <3>. QED
      BY <1>12, <3>1, <3>2 DEF Peer
  <2>2. Rest' /\ UNCHANGED <<chanVars, connOpen, readerVars, writerVars, senderVars>>
    BY <1>12, <1>t DEF Peer, PeerSend, PeerClose
  <2>3. FlagTypeOK'
    BY <1>12, <1>t DEF Peer, PeerSend, PeerClose, FlagTypeOK
  <2>. QED
    BY <1>t, <2>1, <2>2, <2>3, TypeKept
<1>13. CASE UNCHANGED vars
  <2>1. Rest' /\ UNCHANGED sessionVars
    BY <1>13, <1>t DEF vars
  <2>. QED
    BY <1>t, <2>1, TypeKept
<1>. QED
  BY <1>1, <1>2, <1>3, <1>4, <1>5, <1>6, <1>7, <1>8, <1>9, <1>10, <1>11, <1>12, <1>13
     DEF Next, Owner, TypeOK, SessionTypeOK
-----------------------------------------------------------------------------
(* The control part.                                                       *)

LEMMA ControlInit == Init => ControlInv
  BY DEF Init, SessionInit, ControlInv, Before, Releasing

\* Steps that touch no channel's closed flag, no control point the invariant
\* speaks of, neither the state nor the connection.
LEMMA ControlKept ==
    ASSUME ControlInv, UNCHANGED <<owner, state, cClosed, connOpen, reader>>,
           writer' = writer \/ owner # "create",
           inData'.closed = inData.closed, outData'.closed = outData.closed
    PROVE  ControlInv'
  BY DEF ControlInv

LEMMA ControlStep == TypeOK /\ ControlInv /\ [Next]_vars => ControlInv'
<1> SUFFICES ASSUME TypeOK, ControlInv, [Next]_vars PROVE ControlInv'
  OBVIOUS
<1> USE DEF sessionVars, serverVars, chanVars, connVars, readerVars, writerVars,
            senderVars, ControlInv
<1>t. inData \in Queue(Frame) /\ outData \in Queue(Writers)
  BY DEF TypeOK, SessionTypeOK, ChanTypeOK, Queue
<1>1. CASE NewSession
  BY <1>1 DEF NewSession, Start, Before, Releasing
<1>2. CASE ConnectReturns \/ ConnectPanics
  <2>1. CASE ConnectReturns
    BY <2>1 DEF ConnectReturns, Before, Releasing
  <2>2. CASE ConnectPanics
    BY <2>2 DEF ConnectPanics, MarkClosing, Before, Releasing
  <2>. QED
    BY <1>2, <2>1, <2>2
<1>3. CASE Dispatch
  <2>1. inData'.closed = inData.closed
    BY <1>3, <1>t, QueueRemove DEF Dispatch
  <2>. QED
    BY <1>3, <2>1, ControlKept DEF Dispatch
<1>4. CASE Notified \/ HandlerClose
  <2>1. CASE Notified
    BY <2>1 DEF Notified, NotifyTaken, Before, Releasing
  <2>2. CASE HandlerClose
    BY <2>2 DEF HandlerClose, Before, Releasing
  <2>. QED
    BY <1>4, <2>1, <2>2
<1>5. CASE Release
  <2>1. CASE ReleaseChannel("close inData", CloseInData)
    <3>1. inData'.closed /\ UNCHANGED <<outData, cClosed, connOpen, state, reader>>
          /\ owner = "close inData" /\ owner' = "close outData"
      BY <2>1, <1>t DEF ReleaseChannel, CloseInData, After, Queue, Releasing
    <3>. QED
      BY <3>1 DEF Before, Releasing
  <2>2. CASE ReleaseChannel("close outData", CloseOutData)
    <3>1. outData'.closed /\ UNCHANGED <<inData, cClosed, connOpen, state, reader>>
          /\ owner = "close outData" /\ owner' = "close cClose"
      BY <2>2, <1>t DEF ReleaseChannel, CloseOutData, After, Queue, Releasing
    <3>. QED
      BY <3>1 DEF Before, Releasing
  <2>3. CASE ReleaseChannel("close cClose", CloseNotify)
    <3>1. cClosed' /\ UNCHANGED <<inData, outData, connOpen, state, reader>>
          /\ owner = "close cClose" /\ owner' = "set CLOSED"
      BY <2>3 DEF ReleaseChannel, CloseNotify, After
    <3>. QED
      BY <3>1 DEF Before, Releasing
  <2>4. CASE owner = "set CLOSED" /\ SetClosed /\ owner' = "done"
    BY <2>4 DEF SetClosed, Before, Releasing
  <2>. QED
    BY <1>5, <2>1, <2>2, <2>3, <2>4 DEF Release
<1>6. CASE ReadLoop
  <2>1. UNCHANGED <<owner, state, cClosed, outData, writer>>
    BY <1>6 DEF ReadLoop, ReaderStep, ReaderCheck, ReaderRead, ReaderFail, ReaderSend,
                ReaderClose, ReaderNotifyPanic
  <2>2. inData'.closed = inData.closed
    BY <1>6, <1>t DEF ReadLoop, ReaderStep, ReaderCheck, ReaderRead, ReaderFail,
                ReaderSend, ReaderClose, ReaderNotifyPanic, Queue
  <2>3. reader \notin {"none", "done"} /\ reader' # "done"
    BY <1>6 DEF ReadLoop, ReaderStep, ReaderCheck, ReaderRead, ReaderFail, ReaderSend,
                ReaderClose, ReaderNotifyPanic
  <2>4. reader' = "notify" => ~connOpen'
    <3>1. CASE ReaderClose \/ ReaderNotifyPanic
      BY <3>1 DEF ReaderClose, ReaderNotifyPanic
    <3>2. CASE ReaderCheck \/ ReaderRead \/ ReaderFail \/ ReaderSend
      BY <3>2 DEF ReaderCheck, ReaderRead, ReaderFail, ReaderSend
    <3>. QED
      BY <1>6, <3>1, <3>2 DEF ReadLoop, ReaderStep
  <2>. QED
    BY <2>1, <2>2, <2>3, <2>4 DEF Before, Releasing
<1>7. CASE WriteLoop
  <2>1. UNCHANGED <<owner, state, cClosed, inData, reader>>
    BY <1>7 DEF WriteLoop, WriterStep, WriterCheck, WriterRecv, WriterWrite, WriterFail,
                WriterClose
  <2>2. outData'.closed = outData.closed
    BY <1>7, <1>t DEF WriteLoop, WriterStep, WriterCheck, WriterRecv, WriterWrite,
                WriterFail, WriterClose, Queue
  <2>3. writer # "none"
    BY <1>7 DEF WriteLoop, WriterStep, WriterCheck, WriterRecv, WriterWrite, WriterFail,
                WriterClose
  <2>4. connOpen' => connOpen
    <3>1. CASE WriterClose
      BY <3>1 DEF WriterClose
    <3>2. CASE WriterCheck \/ WriterRecv \/ WriterWrite \/ WriterFail
      BY <3>2 DEF WriterCheck, WriterRecv, WriterWrite, WriterFail
    <3>. QED
      BY <1>7, <3>1, <3>2 DEF WriteLoop, WriterStep
  <2>. QED
    BY <2>1, <2>2, <2>3, <2>4
<1>8. ASSUME NEW w \in Writers, Sending(w) PROVE ControlInv'
  <2>1. UNCHANGED <<owner, state, cClosed, connOpen, reader, writer, inData>>
    BY <1>8 DEF Sending, SenderStep, SendCheck, SendEnqueue, SendPanic
  <2>2. outData'.closed = outData.closed
    BY <1>8, <1>t DEF Sending, SenderStep, SendCheck, SendEnqueue, SendPanic, Queue
  <2>. QED
    BY <2>1, <2>2, ControlKept
<1>9. ASSUME NEW w \in Heads \cup Pushers, Handle(w) \/ Push(w) PROVE ControlInv'
  BY <1>9, ControlKept DEF Handle, Push
<1>10. CASE Peer
  BY <1>10, ControlKept DEF Peer, PeerSend, PeerClose
<1>11. CASE UNCHANGED vars
  BY <1>11, ControlKept DEF vars
<1>. QED
  BY <1>1, <1>2, <1>3, <1>4, <1>5, <1>6, <1>7, <1>8, <1>9, <1>10, <1>11
     DEF Next, Owner
-----------------------------------------------------------------------------
(* The numbering of the frames.                                            *)

LEMMA NumberInit == Init => NumberInv
<1> SUFFICES ASSUME Init PROVE NumberInv
  OBVIOUS
<1>1. /\ dispatched = <<>> /\ inData.buf = <<>> /\ rHeld = <<>> /\ arriving = <<>>
      /\ nread = 0
  BY DEF Init, SessionInit
<1>. QED
  BY <1>1 DEF NumberInv

LEMMA NumberKept ==
    ASSUME NumberInv, UNCHANGED <<readerVars, arriving, dispatched>>,
           inData'.buf = inData.buf
    PROVE  NumberInv'
  BY DEF NumberInv, readerVars

LEMMA NumberStep == TypeOK /\ ControlInv /\ NumberInv /\ [Next]_vars => NumberInv'
<1> SUFFICES ASSUME TypeOK, ControlInv, NumberInv, [Next]_vars PROVE NumberInv'
  OBVIOUS
<1> USE DEF sessionVars, serverVars, chanVars, connVars, readerVars, writerVars,
            senderVars
<1>t. /\ inData \in Queue(Frame) /\ inData.buf \in Seq(Frame)
      /\ arriving \in Seq(Frame) /\ rHeld \in Seq(Frame) /\ dispatched \in Seq(Frame)
      /\ nread \in Nat
  BY DEF TypeOK, SessionTypeOK, ChanTypeOK, WireTypeOK, LoopTypeOK, Queue
<1>h. Len(rHeld) = (IF reader = "send" THEN 1 ELSE 0)
  BY DEF TypeOK, SessionTypeOK, LoopTypeOK
<1>l. /\ Len(dispatched) \in Nat /\ Len(inData.buf) \in Nat /\ Len(arriving) \in Nat
      /\ DOMAIN inData.buf = 1 .. Len(inData.buf)
      /\ DOMAIN arriving = 1 .. Len(arriving)
      /\ DOMAIN rHeld = 1 .. Len(rHeld)
  BY <1>t, LenProperties
<1>n. /\ nread = Len(dispatched) + Len(inData.buf) + Len(rHeld)
      /\ \A i \in 1 .. Len(inData.buf) : inData.buf[i].head = Len(dispatched) + i
      /\ \A i \in 1 .. Len(rHeld) : rHeld[i].head = nread
      /\ \A i \in 1 .. Len(arriving) : arriving[i].head = nread + i
  BY <1>l DEF NumberInv
<1>1. CASE Dispatch
  <2>1. inData.buf # <<>> /\ inData' = [inData EXCEPT !.buf = Tail(@)]
        /\ dispatched' = Append(dispatched, Head(inData.buf))
        /\ UNCHANGED <<rHeld, nread, arriving>>
    BY <1>1 DEF Dispatch
  <2>2. /\ Head(inData.buf) \in Frame
        /\ inData' \in Queue(Frame)
        /\ Len(inData'.buf) = Len(inData.buf) - 1
        /\ \A i \in 1 .. Len(inData'.buf) : inData'.buf[i] = inData.buf[i + 1]
    BY <1>t, <2>1, QueueRemove
  <2>3. Len(dispatched') = Len(dispatched) + 1
    BY <1>t, <2>1, <2>2, AppendProperties
  <2>4. DOMAIN inData'.buf = 1 .. Len(inData'.buf)
    BY <2>2, LenProperties DEF Queue
  <2>5. nread' = Len(dispatched') + Len(inData'.buf) + Len(rHeld')
    <3>1. Len(rHeld') = Len(rHeld) /\ Len(rHeld) \in Nat /\ nread' = nread
      BY <1>h, <2>1
    <3>2. nread = Len(dispatched) + Len(inData.buf) + Len(rHeld)
      BY <1>n
    <3>. QED
      <4>1. Len(dispatched) \in Nat /\ Len(inData.buf) \in Nat
        BY <1>l
      <4>2. Len(inData'.buf) = Len(inData.buf) - 1
        BY <2>2
      <4>3. Len(dispatched') + Len(inData'.buf) = Len(dispatched) + Len(inData.buf)
        <5> DEFINE a == Len(dispatched)   a2 == Len(dispatched')
                   b == Len(inData.buf)   b2 == Len(inData'.buf)
        <5>1. a \in Nat /\ b \in Nat /\ a2 = a + 1 /\ b2 = b - 1
          BY <2>3, <4>1, <4>2
        <5> HIDE DEF a, a2, b, b2
        <5>2. a2 + b2 = a + b
          BY <5>1
        <5>. QED
          BY <5>2 DEF a, a2, b, b2
      <4>. QED
        BY <3>1, <3>2, <4>3
  <2>6. \A i \in 1 .. Len(inData'.buf) : inData'.buf[i].head = Len(dispatched') + i
    <3> TAKE i \in 1 .. Len(inData'.buf)
    <3>1. i + 1 \in 1 .. Len(inData.buf)
      BY <1>l, <2>2
    <3>2. inData'.buf[i].head = Len(dispatched) + (i + 1)
      BY <1>n, <2>2, <3>1
    <3>. QED
      BY <1>l, <2>3, <3>2
  <2>. QED
    BY <1>l, <1>n, <2>1, <2>4, <2>5, <2>6 DEF NumberInv
<1>2. CASE ReadLoop
  <2>1. CASE ReaderRead
    <3>1. /\ arriving # <<>> /\ reader = "read"
          /\ rHeld' = <<Head(arriving)>>
          /\ arriving' = Tail(arriving)
          /\ nread' = nread + 1
          /\ UNCHANGED <<inData, dispatched>>
      BY <1>2, <2>1 DEF ReadLoop, ReaderRead
    <3>2. /\ Head(arriving) \in Frame
          /\ arriving' \in Seq(Frame)
          /\ Len(arriving') = Len(arriving) - 1
          /\ \A i \in 1 .. Len(arriving') : arriving'[i] = arriving[i + 1]
      BY <1>t, <3>1, HeadTailProperties
    <3>3. Head(arriving) = arriving[1] /\ Len(arriving) \in Nat \ {0}
      BY <1>t, <3>1, EmptySeq
    <3>4. Len(rHeld) = 0
      BY <1>h, <3>1
    <3>5. rHeld' \in Seq(Frame) /\ Len(rHeld') = 1 /\ rHeld'[1] = arriving[1]
      BY <3>1, <3>2, <3>3, Singleton
    <3>6. DOMAIN arriving' = 1 .. Len(arriving') /\ DOMAIN rHeld' = 1 .. Len(rHeld')
      BY <3>2, <3>5, LenProperties
    <3>7. nread' = Len(dispatched') + Len(inData'.buf) + Len(rHeld')
      BY <1>l, <1>n, <3>1, <3>4, <3>5
    <3>8. \A i \in 1 .. Len(rHeld') : rHeld'[i].head = nread'
      BY <1>n, <3>1, <3>3, <3>5
    <3>9. \A i \in 1 .. Len(arriving') : arriving'[i].head = nread' + i
      BY <1>t, <1>l, <1>n, <3>1, <3>2
    <3>. QED
      BY <1>l, <1>n, <3>1, <3>6, <3>7, <3>8, <3>9 DEF NumberInv
  <2>2. CASE ReaderSend /\ ~inData.closed
    <3>1. /\ reader = "send"
          /\ inData' = [inData EXCEPT !.buf = Append(@, Head(rHeld))]
          /\ rHeld' = <<>>
          /\ UNCHANGED <<nread, arriving, dispatched>>
      BY <1>2, <2>2 DEF ReadLoop, ReaderSend
    <3>2. Len(rHeld) = 1
      BY <1>h, <3>1
    <3>3. Head(rHeld) \in Frame /\ Head(rHeld) = rHeld[1]
      BY <1>t, <3>2, Single
    <3>4. /\ inData' \in Queue(Frame)
          /\ Len(inData'.buf) = Len(inData.buf) + 1
          /\ \A i \in 1 .. Len(inData.buf) : inData'.buf[i] = inData.buf[i]
          /\ inData'.buf[Len(inData.buf) + 1] = rHeld[1]
      <4>1. inData \in Queue(Frame)
        BY <1>t
      <4>2. inData' = [inData EXCEPT !.buf = Append(@, Head(rHeld))]
        BY <3>1
      <4>. QED
        BY <3>3, <4>1, <4>2, QueueAdd
    <3>5. DOMAIN inData'.buf = 1 .. Len(inData'.buf)
      BY <3>4, LenProperties DEF Queue
    <3>6. Len(rHeld') = 0 /\ DOMAIN rHeld' = {}
      BY <3>1, EmptySeq
    <3>7. nread' = Len(dispatched') + Len(inData'.buf) + Len(rHeld')
      BY <1>l, <1>n, <3>1, <3>2, <3>4, <3>6
    <3>8. rHeld[1].head = nread
      BY <1>n, <3>2
    <3>9. \A i \in 1 .. Len(inData'.buf) : inData'.buf[i].head = Len(dispatched') + i
      <4> TAKE i \in 1 .. Len(inData'.buf)
      <4>1. CASE i = Len(inData.buf) + 1
        BY <1>t, <1>l, <1>n, <3>1, <3>2, <3>4, <3>8, <4>1
      <4>2. CASE i \in 1 .. Len(inData.buf)
        BY <1>n, <3>1, <3>4, <4>2
      <4>. QED
        BY <1>l, <3>4, <4>1, <4>2, SMTT(20)
    <3>. QED
      BY <1>l, <1>n, <3>1, <3>5, <3>6, <3>7, <3>9 DEF NumberInv
  <2>3. CASE ReaderSend /\ inData.closed
    <3>1. reader = "send" /\ reader # "done" /\ inData.closed
      BY <2>3 DEF ReaderSend
    <3>. QED
      BY <3>1 DEF ControlInv, TypeOK, Before, Releasing
  <2>4. CASE ReaderCheck \/ ReaderFail \/ ReaderClose \/ ReaderNotifyPanic
    <3>1. UNCHANGED <<rHeld, nread, arriving, dispatched, inData>>
      BY <1>2, <2>4 DEF ReadLoop, ReaderCheck, ReaderFail, ReaderClose,
                        ReaderNotifyPanic
    <3>. QED
      BY <3>1 DEF NumberInv
  <2>. QED
    BY <1>2, <2>1, <2>2, <2>3, <2>4 DEF ReadLoop, ReaderStep
<1>3. CASE Peer
  <2>1. CASE PeerClose
    BY <1>3, <2>1, NumberKept DEF Peer, PeerClose
  <2>2. ASSUME NEW t \in DTypes, nread + Len(arriving) < MaxFrames,
               PeerSend([dType |-> t, head |-> nread + Len(arriving) + 1])
        PROVE  NumberInv'
    <3> DEFINE f == [dType |-> t, head |-> nread + Len(arriving) + 1]
    <3>1. f \in Frame
      <4>1. nread + Len(arriving) + 1 \in Heads
        BY <1>t, <1>l, <2>2, ServerAssumption DEF ServerAssumption
      <4>. QED
        BY <4>1 DEF Frame
    <3>2. arriving' = Append(arriving, f) /\ UNCHANGED <<inData, rHeld, nread, dispatched>>
      BY <1>3, <2>2 DEF Peer, PeerSend
    <3> HIDE DEF f
    <3>3. /\ arriving' \in Seq(Frame)
          /\ Len(arriving') = Len(arriving) + 1
          /\ \A i \in 1 .. Len(arriving) : arriving'[i] = arriving[i]
          /\ arriving'[Len(arriving) + 1] = f
      BY <1>t, <3>1, <3>2, AppendProperties
    <3>4. DOMAIN arriving' = 1 .. Len(arriving')
      BY <3>3, LenProperties
    <3>5. f.head = nread + Len(arriving) + 1
      BY DEF f
    <3>6. \A i \in 1 .. Len(arriving') : arriving'[i].head = nread + i
      <4> TAKE i \in 1 .. Len(arriving')
      <4>1. CASE i = Len(arriving) + 1
        BY <1>t, <1>l, <3>3, <3>5, <4>1
      <4>2. CASE i \in 1 .. Len(arriving)
        BY <1>n, <3>3, <4>2
      <4>. QED
        BY <1>l, <3>3, <4>1, <4>2
    <3>. QED
      BY <1>l, <1>n, <3>2, <3>4, <3>6 DEF NumberInv
  <2>. QED
    BY <1>3, <2>1, <2>2 DEF Peer
<1>4. CASE NewSession \/ ConnectReturns \/ ConnectPanics \/ Notified \/ HandlerClose
  <2>1. UNCHANGED <<inData, arriving, rHeld, nread, dispatched>>
    BY <1>4 DEF NewSession, Start, ConnectReturns, ConnectPanics, MarkClosing, Notified,
                NotifyTaken, HandlerClose
  <2>. QED
    BY <2>1 DEF NumberInv
<1>5. CASE Release
  <2>1. UNCHANGED <<arriving, rHeld, nread, dispatched>>
    BY <1>5 DEF Release, ReleaseChannel, CloseInData, CloseOutData, CloseNotify,
                SetClosed
  <2>2. inData'.buf = inData.buf
    BY <1>5, <1>t DEF Release, ReleaseChannel, CloseInData, CloseOutData, CloseNotify,
                SetClosed, Queue
  <2>. QED
    BY <2>1, <2>2 DEF NumberInv
<1>6. CASE WriteLoop
  <2>1. UNCHANGED <<inData, arriving, rHeld, nread, dispatched>>
    BY <1>6 DEF WriteLoop, WriterStep, WriterCheck, WriterRecv, WriterWrite, WriterFail,
                WriterClose
  <2>. QED
    BY <2>1 DEF NumberInv
<1>7. ASSUME NEW w \in Writers, Sending(w) PROVE NumberInv'
  <2>1. UNCHANGED <<inData, arriving, rHeld, nread, dispatched>>
    BY <1>7 DEF Sending, SenderStep, SendCheck, SendEnqueue, SendPanic
  <2>. QED
    BY <2>1 DEF NumberInv
<1>8. ASSUME NEW w \in Heads \cup Pushers, Handle(w) \/ Push(w) PROVE NumberInv'
  BY <1>8, NumberKept DEF Handle, Push
<1>9. CASE UNCHANGED vars
  BY <1>9, NumberKept DEF vars
<1>. QED
  BY <1>1, <1>2, <1>3, <1>4, <1>5, <1>6, <1>7, <1>8, <1>9 DEF Next, Owner
-----------------------------------------------------------------------------
(* Order of the dispatched frames.                                         *)

LEMMA OrderStep ==
    TypeOK /\ NumberInv /\ InOrderDelivery /\ [Next]_vars => InOrderDelivery'
<1> SUFFICES ASSUME TypeOK, NumberInv, InOrderDelivery, [Next]_vars
             PROVE  InOrderDelivery'
  OBVIOUS
<1>1. CASE Dispatch
  <2>1. /\ inData \in Queue(Frame) /\ inData.buf \in Seq(Frame)
        /\ dispatched \in Seq(Frame)
    BY DEF TypeOK, SessionTypeOK, ChanTypeOK, Queue
  <2>2. inData.buf # <<>> /\ dispatched' = Append(dispatched, Head(inData.buf))
    BY <1>1 DEF Dispatch
  <2>3. /\ Head(inData.buf) \in Frame
        /\ Head(inData.buf) = inData.buf[1]
        /\ Len(inData.buf) \in Nat \ {0}
    BY <2>1, <2>2, QueueRemove
  <2>4. 1 \in DOMAIN inData.buf
    BY <2>1, <2>3, LenProperties
  <2>5. Head(inData.buf).head = Len(dispatched) + 1
    BY <2>3, <2>4 DEF NumberInv
  <2>6. /\ dispatched' \in Seq(Frame)
        /\ Len(dispatched) \in Nat
        /\ Len(dispatched') = Len(dispatched) + 1
        /\ \A i \in 1 .. Len(dispatched) : dispatched'[i] = dispatched[i]
        /\ dispatched'[Len(dispatched) + 1] = Head(inData.buf)
    BY <2>1, <2>2, <2>3, AppendProperties, LenProperties
  <2>7. DOMAIN dispatched = 1 .. Len(dispatched)
        /\ DOMAIN dispatched' = 1 .. Len(dispatched')
    BY <2>1, <2>6, LenProperties
  <2>8. SUFFICES ASSUME NEW i \in 1 .. Len(dispatched') PROVE dispatched'[i].head = i
    BY <2>7 DEF InOrderDelivery
  <2>9. CASE i = Len(dispatched) + 1
    BY <2>5, <2>6, <2>9
  <2>10. CASE i \in 1 .. Len(dispatched)
    BY <2>6, <2>7, <2>10 DEF InOrderDelivery
  <2>. QED
    BY <2>6, <2>9, <2>10
<1>2. CASE ~Dispatch
  <2>1. UNCHANGED dispatched
    BY <1>2 DEF Next, Owner, NewSession, ConnectReturns, ConnectPanics, Notified,
                HandlerClose, Release, ReleaseChannel, ReadLoop, WriteLoop, Sending,
                Handle, Push, Peer, vars, serverVars
  <2>. QED
    BY <2>1 DEF InOrderDelivery
<1>. QED
  BY <1>1, <1>2
-----------------------------------------------------------------------------
(* The panics.                                                             *)

LEMMA PanicStep ==
    TypeOK /\ ControlInv /\ OnlyLateSendPanics /\ [Next]_vars => OnlyLateSendPanics'
<1> SUFFICES ASSUME TypeOK, ControlInv, OnlyLateSendPanics, [Next]_vars
             PROVE  OnlyLateSendPanics'
  OBVIOUS
<1> USE DEF sessionVars, serverVars, chanVars, connVars, readerVars, writerVars,
            senderVars
\* A process that has panicked takes no step that could undo what it died of.
<1>1. CASE panic # "none"
  <2>1. CASE Peer
    BY <2>1 DEF Peer, PeerSend, PeerClose, OnlyLateSendPanics
  <2>2. CASE UNCHANGED vars
    BY <2>2 DEF vars, OnlyLateSendPanics
  <2>3. CASE Next /\ ~Peer
    BY <1>1, <2>3
       DEF Next, Owner, NewSession, ConnectReturns, ConnectPanics, Dispatch, Notified,
           HandlerClose, Release, ReleaseChannel, ReadLoop, ReaderStep, ReaderCheck,
           ReaderRead, ReaderFail, ReaderSend, ReaderClose, ReaderNotifyPanic, WriteLoop,
           WriterStep, WriterCheck, WriterRecv, WriterWrite, WriterFail, WriterClose,
           Sending, SenderStep, SendCheck, SendEnqueue, SendPanic, Handle, Push, Running
  <2>. QED
    BY <2>1, <2>2, <2>3
<1>2. CASE panic = "none"
  <2>1. SUFFICES ASSUME panic' # "none" PROVE OnlyLateSendPanics'
    BY DEF OnlyLateSendPanics
  \* Release finds its channel open, and the reader finds cClose open.
  <2>2. CASE Release
    <3>1. CASE ReleaseChannel("close inData", CloseInData)
      BY <1>2, <2>1, <3>1 DEF ReleaseChannel, CloseInData, ControlInv, Releasing
    <3>2. CASE ReleaseChannel("close outData", CloseOutData)
      BY <1>2, <2>1, <3>2 DEF ReleaseChannel, CloseOutData, ControlInv
    <3>3. CASE ReleaseChannel("close cClose", CloseNotify)
      BY <1>2, <2>1, <3>3 DEF ReleaseChannel, CloseNotify, ControlInv
    <3>4. CASE SetClosed
      BY <1>2, <2>1, <3>4 DEF SetClosed
    <3>. QED
      BY <2>2, <3>1, <3>2, <3>3, <3>4 DEF Release
  <2>3. CASE ReadLoop
    <3>1. CASE ReaderNotifyPanic
      BY <3>1 DEF ReaderNotifyPanic, ControlInv, Before
    <3>2. CASE ~ReaderNotifyPanic
      BY <1>2, <2>1, <2>3, <3>2 DEF ReadLoop, ReaderStep, ReaderCheck, ReaderRead,
                ReaderFail, ReaderSend, ReaderClose
    <3>. QED
      BY <3>1, <3>2
  <2>4. ASSUME NEW w \in Writers, Sending(w) PROVE OnlyLateSendPanics'
    <3>1. CASE SendPanic(w)
      BY <3>1 DEF SendPanic, OnlyLateSendPanics
    <3>2. CASE ~SendPanic(w)
      BY <1>2, <2>1, <2>4, <3>2 DEF Sending, SenderStep, SendCheck, SendEnqueue
    <3>. QED
      BY <3>1, <3>2
  <2>5. CASE \/ NewSession \/ ConnectReturns \/ ConnectPanics \/ Dispatch \/ Notified
             \/ HandlerClose \/ WriteLoop \/ Peer \/ UNCHANGED vars
             \/ \E w \in Heads : Handle(w)
             \/ \E w \in Pushers : Push(w)
    BY <1>2, <2>1, <2>5
       DEF NewSession, Start, ConnectReturns, ConnectPanics, MarkClosing, Dispatch,
           Notified, NotifyTaken, HandlerClose, WriteLoop, WriterStep, WriterCheck,
           WriterRecv, WriterWrite, WriterFail, WriterClose, Peer, PeerSend, PeerClose,
           Handle, Push, vars
  <2>. QED
    BY <2>2, <2>3, <2>4, <2>5 DEF Next, Owner
<1>. QED
  BY <1>1, <1>2
-----------------------------------------------------------------------------
(* The way of the frames out.                                              *)

\* A fresh session has written nothing and holds nothing to write.
LEMMA WireInit == Init => WireOrder
<1> SUFFICES ASSUME Init PROVE WireOrder
  OBVIOUS
<1>1. wired = <<>> /\ wHeld = <<>> /\ outData.buf = <<>> /\ queued = <<>>
  BY DEF Init, SessionInit
<1>2. <<>> \o <<>> = <<>>
  BY ConcatSimplifications
<1>. QED
  BY <1>1, <1>2 DEF WireOrder

\* A frame enters behind in doWrite, moves up twice in handleWrite, and is lost
\* only where conn.Write fails.
LEMMA WireStep == TypeOK /\ WireOrder /\ [Next]_vars => WireOrder'
<1> SUFFICES ASSUME TypeOK, WireOrder, [Next]_vars, connOpen', peerOpen'
             PROVE  (wired \o wHeld \o outData.buf = queued)'
  BY DEF WireOrder
<1> USE DEF sessionVars, serverVars, chanVars, connVars, readerVars, writerVars,
            senderVars
<1> DEFINE b == outData.buf
           h == wHeld
           s == wired
<1>t. /\ outData \in Queue(Writers) /\ b \in Seq(Writers) /\ h \in Seq(Writers)
      /\ s \in Seq(Writers)
      /\ Len(h) = (IF writer = "write" THEN 1 ELSE 0)
  BY DEF TypeOK, SessionTypeOK, ChanTypeOK, WireTypeOK, LoopTypeOK, Queue
<1> HIDE DEF TypeOK
<1>o. connOpen /\ peerOpen
  <2>1. CASE ReaderClose \/ WriterClose \/ PeerClose
    BY <2>1 DEF ReaderClose, WriterClose, PeerClose
  <2>2. CASE ~ReaderClose /\ ~WriterClose /\ ~PeerClose
    <3>1. UNCHANGED <<connOpen, peerOpen>>
      BY <2>2 DEF Next, Owner, NewSession, Start, ConnectReturns, ConnectPanics, MarkClosing,
         Dispatch, Notified, NotifyTaken, HandlerClose, Release, ReleaseChannel, CloseInData,
         CloseOutData, CloseNotify, SetClosed, ReadLoop, ReaderStep, ReaderCheck, ReaderRead,
         ReaderFail, ReaderSend, ReaderNotifyPanic, WriteLoop, WriterStep, WriterCheck,
         WriterRecv, WriterWrite, WriterFail, Sending, SenderStep, SendCheck, SendEnqueue,
         SendPanic, Handle, Push, Peer, PeerSend, vars
    <3>. QED
      BY <3>1
  <2>. QED
    BY <2>1, <2>2
<1>e. queued = (s \o h) \o b
  BY <1>o DEF WireOrder
<1>1. CASE WriterRecv /\ outData.buf # <<>>
  <2>1. /\ writer = "recv" /\ b # <<>> /\ wHeld' = <<Head(b)>> /\ outData'.buf = Tail(b)
        /\ UNCHANGED <<wired, queued>>
    BY <1>1, <1>t DEF WriterRecv, Queue
  <2>2. h = <<>>
    BY <1>t, <2>1, EmptySeq
  <2>3. queued = s \o b
    BY <1>e, <1>t, <2>2, ConcatEmptySeq
  <2>4. Head(b) \in Writers
    BY <1>t, <2>1, HeadTailProperties
  <2>5. s \o <<Head(b)>> = Append(s, Head(b))
    BY <1>t, <2>4, AppendIsConcat
  <2>6. s \o b = (s \o <<Head(b)>>) \o Tail(b)
    BY <1>t, <2>1, <2>5, MoveUp
  <2>. QED
    BY <2>1, <2>3, <2>6
<1>2. CASE WriterWrite
  <2>1. /\ Len(h) = 1 /\ wired' = Append(s, Head(h)) /\ wHeld' = <<>>
        /\ UNCHANGED <<outData, queued>>
    BY <1>2, <1>t DEF WriterWrite
  <2>2. Head(h) \in Writers /\ h = <<Head(h)>>
    <3>1. Head(h) \in Writers /\ h # <<>> /\ Head(h) = h[1]
      BY <1>t, <2>1, Single
    <3>. QED
      BY <1>t, <2>1, <3>1
  <2>3. Append(s, Head(h)) = s \o h /\ Append(s, Head(h)) \in Seq(Writers)
    <3> DEFINE e == Head(h)
    <3>1. e \in Writers /\ h = <<e>>
      BY <2>2
    <3> HIDE DEF e, s
    <3>2. Append(s, e) = s \o <<e>> /\ Append(s, e) \in Seq(Writers)
      BY <1>t, <3>1, AppendIsConcat, AppendProperties
    <3>. QED
      BY <3>1, <3>2 DEF e
  <2>4. Append(s, Head(h)) \o <<>> = Append(s, Head(h))
    BY <2>3, ConcatEmptySeq
  <2>. QED
    BY <1>e, <2>1, <2>3, <2>4
<1>3. ASSUME NEW w \in Writers, SendEnqueue(w)
      PROVE  (wired \o wHeld \o outData.buf = queued)'
  <2>1. /\ outData'.buf = Append(b, w) /\ queued' = Append(queued, w)
        /\ UNCHANGED <<wired, wHeld>>
    BY <1>3, <1>t DEF SendEnqueue, Queue
  <2>2. (s \o h) \o Append(b, w) = Append((s \o h) \o b, w)
    <3> DEFINE sh == s \o h
    <3>1. sh \in Seq(Writers)
      <4> HIDE DEF s, h
      <4>. QED
        BY <1>t, ConcatProperties DEF sh
    <3> HIDE DEF sh, b
    <3>2. sh \o Append(b, w) = Append(sh \o b, w)
      BY <1>t, <3>1, EnterBehind
    <3>. QED
      BY <3>2 DEF sh
  <2>. QED
    BY <1>e, <2>1, <2>2
<1>4. CASE /\ ~(WriterRecv /\ outData.buf # <<>>) /\ ~WriterWrite
           /\ ~\E w \in Writers : SendEnqueue(w)
  <2>1. UNCHANGED <<wired, wHeld, queued>> /\ outData'.buf = outData.buf
    <3>1. CASE Release
      BY <1>t, <3>1 DEF Release, ReleaseChannel, CloseInData, CloseOutData, CloseNotify,
                SetClosed, Queue
    <3>2. CASE WriteLoop
      BY <1>4, <1>o, <3>2 DEF WriteLoop, WriterStep, WriterCheck, WriterRecv, WriterFail,
                WriterClose
    <3>3. CASE ~Release /\ ~WriteLoop
      BY <1>4, <3>3 DEF Next, Owner, NewSession, Start, ConnectReturns, ConnectPanics,
         MarkClosing, Dispatch, Notified, NotifyTaken, HandlerClose, ReadLoop, ReaderStep,
         ReaderCheck, ReaderRead, ReaderFail, ReaderSend, ReaderClose, ReaderNotifyPanic,
         Sending, SenderStep, SendCheck, SendPanic, Handle, Push, Peer, PeerSend, PeerClose,
         vars
    <3>. QED
      BY <3>1, <3>2, <3>3
  <2>. QED
    BY <1>e, <2>1
<1>. QED
  BY <1>1, <1>2, <1>3, <1>4
-----------------------------------------------------------------------------
(* The pipe of incoming frames.                                            *)

InFlight == inData.buf \o rHeld
Ended == owner \notin Before

\* A fresh session is an empty pipe.
LEMMA PipeStarts == Init => Pipe!PipeInit
<1> SUFFICES ASSUME Init PROVE Pipe!PipeInit
  OBVIOUS
<1>1. inData.buf = <<>> /\ rHeld = <<>> /\ dispatched = <<>> /\ owner \in Before
  BY DEF Init, SessionInit, Before
<1>2. <<>> \o <<>> = <<>>
  BY ConcatSimplifications
<1>. QED
  BY <1>1, <1>2 DEF Pipe!PipeInit

\* ReaderRead accepts a frame, Dispatch delivers one and Notified ends the
\* pipe; no other step touches it.
LEMMA PipeStep ==
    TypeOK /\ ControlInv /\ [Next]_vars => [Pipe!PipeNext]_(Pipe!pipeVars)
<1> SUFFICES ASSUME TypeOK, ControlInv, [Next]_vars
             PROVE  Pipe!PipeNext \/ UNCHANGED Pipe!pipeVars
  OBVIOUS
<1> USE DEF sessionVars, serverVars, chanVars, connVars, readerVars, writerVars,
            senderVars
<1> DEFINE b == inData.buf
           h == rHeld
<1>t. /\ inData \in Queue(Frame) /\ b \in Seq(Frame) /\ h \in Seq(Frame)
      /\ arriving \in Seq(Frame) /\ Len(b) <= InCap
      /\ Len(h) = (IF reader = "send" THEN 1 ELSE 0)
  BY DEF TypeOK, SessionTypeOK, ChanTypeOK, WireTypeOK, LoopTypeOK, Queue
<1>c. /\ Ended => reader = "done"
      /\ inData.closed => Ended
  BY DEF ControlInv, Ended, Before, Releasing
<1>f. InFlight = b \o h
  BY DEF InFlight
<1>p. /\ Pipe!Accept <=> /\ ~Ended
                         /\ \E m \in Frame : InFlight' = Append(InFlight, m)
                         /\ UNCHANGED <<dispatched, Ended>>
      /\ Pipe!Deliver <=> /\ ~Ended
                          /\ InFlight # <<>>
                          /\ dispatched' = Append(dispatched, Head(InFlight))
                          /\ InFlight' = Tail(InFlight)
                          /\ UNCHANGED Ended
      /\ Pipe!End <=> /\ ~Ended
                      /\ Len(InFlight) <= InCap
                      /\ Ended' = TRUE
                      /\ UNCHANGED <<InFlight, dispatched>>
      /\ UNCHANGED Pipe!pipeVars <=> UNCHANGED <<InFlight, dispatched, Ended>>
  BY DEF Pipe!Accept, Pipe!Deliver, Pipe!End, Pipe!pipeVars, InFlight, Ended
<1> HIDE DEF TypeOK, ControlInv
<1>1. CASE ReadLoop /\ ReaderRead
  <2>1. /\ arriving # <<>> /\ reader = "read" /\ rHeld' = <<Head(arriving)>>
        /\ UNCHANGED <<inData, owner, dispatched>>
    BY <1>1 DEF ReadLoop, ReaderRead
  <2>2. h = <<>> /\ Head(arriving) \in Frame
    BY <1>t, <2>1, EmptySeq, HeadTailProperties
  <2>3. InFlight = b
    BY <1>f, <1>t, <2>2, ConcatEmptySeq
  <2>4. InFlight' = b \o <<Head(arriving)>>
    BY <2>1 DEF InFlight
  <2>5. b \o <<Head(arriving)>> = Append(b, Head(arriving))
    BY <1>t, <2>2, AppendIsConcat
  <2>6. ~Ended /\ Ended' = Ended
    BY <1>c, <2>1 DEF Ended
  <2>7. Pipe!Accept
    BY <1>p, <2>1, <2>2, <2>3, <2>4, <2>5, <2>6
  <2>. QED
    BY <2>7 DEF Pipe!PipeNext
<1>2. CASE ReadLoop /\ ReaderSend
  <2>1. reader = "send" /\ ~inData.closed
    <3>1. reader = "send"
      BY <1>2 DEF ReaderSend
    <3>. QED
      BY <1>c, <3>1
  <2>2. /\ Len(h) = 1 /\ inData'.buf = Append(b, Head(h)) /\ rHeld' = <<>>
        /\ UNCHANGED <<owner, dispatched>>
    BY <1>2, <1>t, <2>1 DEF ReadLoop, ReaderSend, Queue
  <2>3. Head(h) \in Frame /\ h = <<Head(h)>>
    <3>1. Head(h) \in Frame /\ h # <<>> /\ Head(h) = h[1]
      BY <1>t, <2>2, Single
    <3>. QED
      BY <1>t, <2>2, <3>1
  <2>4. Append(b, Head(h)) = b \o h /\ Append(b, Head(h)) \in Seq(Frame)
    <3> DEFINE e == Head(h)
    <3>1. e \in Frame /\ h = <<e>>
      BY <2>3
    <3> HIDE DEF e, b
    <3>2. Append(b, e) = b \o <<e>> /\ Append(b, e) \in Seq(Frame)
      BY <1>t, <3>1, AppendIsConcat, AppendProperties
    <3>. QED
      BY <3>1, <3>2 DEF e
  <2>5. Append(b, Head(h)) \o <<>> = Append(b, Head(h))
    BY <2>4, ConcatEmptySeq
  <2>6. InFlight' = InFlight /\ Ended' = Ended
    BY <2>2, <2>4, <2>5 DEF InFlight, Ended
  <2>. QED
    BY <1>p, <2>2, <2>6
<1>3. CASE Dispatch
  <2>1. /\ b # <<>> /\ owner = "select" /\ inData'.buf = Tail(b)
        /\ dispatched' = Append(dispatched, Head(b))
        /\ UNCHANGED <<rHeld, owner>>
    BY <1>3, <1>t DEF Dispatch, Queue
  <2>2. InFlight # <<>> /\ Head(InFlight) = Head(b) /\ Tail(InFlight) = Tail(b) \o h
    <3> HIDE DEF b, h
    <3>. QED
      BY <1>f, <1>t, <2>1, LeaveInFront
  <2>3. InFlight' = Tail(b) \o h
    BY <2>1 DEF InFlight
  <2>4. ~Ended /\ Ended' = Ended
    BY <2>1 DEF Ended, Before
  <2>5. Pipe!Deliver
    BY <1>p, <2>1, <2>2, <2>3, <2>4
  <2>. QED
    BY <2>5 DEF Pipe!PipeNext
<1>4. CASE Notified
  <2>1. /\ owner = "select" /\ owner' = "handler close" /\ reader = "notify"
        /\ UNCHANGED <<inData, rHeld, dispatched>>
    BY <1>4 DEF Notified, NotifyTaken
  <2>2. h = <<>>
    BY <1>t, <2>1, EmptySeq
  <2>3. InFlight = b /\ InFlight' = InFlight
    BY <1>f, <1>t, <2>1, <2>2, ConcatEmptySeq DEF InFlight
  <2>4. ~Ended /\ Ended' = TRUE
    BY <2>1 DEF Ended, Before
  <2>5. Pipe!End
    BY <1>p, <1>t, <2>1, <2>3, <2>4
  <2>. QED
    BY <2>5 DEF Pipe!PipeNext
<1>5. CASE /\ ~(ReadLoop /\ (ReaderRead \/ ReaderSend)) /\ ~Dispatch /\ ~Notified
  <2>1. UNCHANGED <<rHeld, dispatched>> /\ inData'.buf = inData.buf /\ Ended' = Ended
    <3>1. CASE Release
      <4>1. Ended' = TRUE /\ Ended = TRUE
        BY <3>1 DEF Release, ReleaseChannel, After, Ended, Before
      <4>. QED
        BY <1>t, <3>1, <4>1 DEF Release, ReleaseChannel, CloseInData, CloseOutData,
                CloseNotify, SetClosed, Queue
    <3>2. CASE NewSession \/ ConnectReturns \/ ConnectPanics \/ HandlerClose
      BY <3>2 DEF NewSession, Start, ConnectReturns, ConnectPanics, MarkClosing,
                HandlerClose, Ended, Before
    <3>3. CASE ReadLoop
      BY <1>5, <3>3 DEF ReadLoop, ReaderStep, ReaderCheck, ReaderFail, ReaderClose,
                ReaderNotifyPanic, Ended
    <3>4. CASE \/ WriteLoop \/ Peer \/ UNCHANGED vars
               \/ \E w \in Writers : Sending(w)
               \/ \E w \in Heads : Handle(w)
               \/ \E w \in Pushers : Push(w)
      BY <3>4 DEF WriteLoop, WriterStep, WriterCheck, WriterRecv, WriterWrite, WriterFail,
                WriterClose, Sending, SenderStep, SendCheck, SendEnqueue, SendPanic, Handle,
                Push, Peer, PeerSend, PeerClose, vars, Ended
    <3>. QED
      BY <1>5, <3>1, <3>2, <3>3, <3>4 DEF Next, Owner
  <2>2. InFlight' = InFlight
    BY <2>1 DEF InFlight
  <2>. QED
    BY <1>p, <2>1, <2>2
<1>. QED
  BY <1>1, <1>2, <1>3, <1>4, <1>5
-----------------------------------------------------------------------------
(* Rest.  Which goroutines have been started, when the reader may be done, *)
(* and how often the Handler has heard of the end.                         *)

EndInv ==
    /\ owner # "create" => reader # "none" /\ writer # "none"
    /\ reader = "done" => owner \notin Before
    /\ closeEvents = IF owner \in Releasing THEN 1 ELSE 0

LEMMA EndInit == Init => EndInv
  BY DEF Init, SessionInit, EndInv, Before, Releasing

\* Steps of a loop, a doWrite, a handler or the peer: none starts or ends the
\* reader, none touches the owner.
LEMMA EndKept ==
    ASSUME EndInv, UNCHANGED <<owner, closeEvents>>,
           reader' = reader \/ reader' \notin {"none", "done"},
           writer' = writer \/ writer' # "none"
    PROVE  EndInv'
  BY DEF EndInv

LEMMA EndStep == ControlInv /\ EndInv /\ [Next]_vars => EndInv'
<1> SUFFICES ASSUME ControlInv, EndInv, [Next]_vars PROVE EndInv'
  OBVIOUS
<1> USE DEF sessionVars, serverVars, chanVars, connVars, readerVars, writerVars,
            senderVars
<1>1. CASE NewSession
  BY <1>1 DEF NewSession, Start, EndInv, Before, Releasing
<1>2. CASE ConnectReturns \/ ConnectPanics
  BY <1>2 DEF ConnectReturns, ConnectPanics, MarkClosing, EndInv, Before, Releasing
<1>3. CASE Dispatch
  BY <1>3, EndKept DEF Dispatch
<1>4. CASE Notified \/ HandlerClose
  <2>1. CASE Notified
    <3>1. /\ owner = "select" /\ owner' = "handler close"
          /\ reader' = "done" /\ UNCHANGED <<writer, closeEvents>>
      BY <2>1 DEF Notified, NotifyTaken
    <3>. QED
      BY <3>1 DEF EndInv, Before, Releasing
  <2>2. CASE HandlerClose
    <3>1. /\ owner = "handler close" /\ owner' = "close inData"
          /\ UNCHANGED <<reader, writer>> /\ closeEvents' = closeEvents + 1
      BY <2>2 DEF HandlerClose
    <3>2. closeEvents = 0
      BY <3>1 DEF EndInv, Releasing
    <3>3. closeEvents' = 1
      <4>1. closeEvents' = closeEvents + 1
        BY <3>1
      <4>. QED
        BY <3>2, <4>1
    <3>4. owner # "create" => reader # "none" /\ writer # "none"
      BY DEF EndInv
    <3>. QED
      BY <3>1, <3>3, <3>4 DEF EndInv, Before, Releasing
  <2>. QED
    BY <1>4, <2>1, <2>2
<1>5. CASE Release
  <2>1. /\ owner \in Releasing \ {"done"} /\ owner' \in Releasing
        /\ UNCHANGED <<reader, writer, closeEvents>>
    BY <1>5 DEF Release, ReleaseChannel, CloseInData, CloseOutData, CloseNotify, SetClosed,
                After, Releasing
  <2>. QED
    BY <2>1 DEF EndInv, Before, Releasing
<1>6. CASE ReadLoop
  <2>1. /\ UNCHANGED <<serverVars, writer>>
        /\ reader' = reader \/ reader' \notin {"none", "done"}
    BY <1>6 DEF ReadLoop, ReaderStep, ReaderCheck, ReaderRead, ReaderFail, ReaderSend,
                ReaderClose, ReaderNotifyPanic
  <2>. QED
    BY <2>1, EndKept
<1>7. CASE WriteLoop
  <2>1. UNCHANGED <<serverVars, reader>> /\ writer' # "none"
    BY <1>7 DEF WriteLoop, WriterStep, WriterCheck, WriterRecv, WriterWrite, WriterFail,
                WriterClose
  <2>. QED
    BY <2>1, EndKept
<1>8. CASE \/ \E w \in Writers : Sending(w)
           \/ \E w \in Heads : Handle(w)
           \/ \E w \in Pushers : Push(w)
           \/ Peer
           \/ UNCHANGED vars
  <2>1. UNCHANGED <<serverVars, reader, writer>>
    BY <1>8 DEF Sending, SenderStep, SendCheck, SendEnqueue, SendPanic, Handle, Push,
                Peer, PeerSend, PeerClose, vars
  <2>. QED
    BY <2>1, EndKept
<1>. QED
  BY <1>1, <1>2, <1>3, <1>4, <1>5, <1>6, <1>7, <1>8 DEF Next, Owner

\* Where nobody can go on the owner has released the session: while it waits in
\* its select inData is empty, so the reader is not held up by it, and a reader
\* at its notification is heard.
LEMMA RestIsEnd == TypeOK /\ ControlInv /\ EndInv => NobodyStuck
<1> SUFFICES ASSUME TypeOK, ControlInv, EndInv,
                    ~peerOpen, Running, owner # "recovered", ~ProgramCan
             PROVE  SessionEnded /\ \A w \in Writers : sender[w] \notin {"check", "enqueue"}
  BY DEF NobodyStuck
<1>1. ~OwnerCan /\ ~ReaderCan /\ ~WriterCan /\ \A w \in Writers : ~SenderCan(w)
  BY DEF ProgramCan
<1>2. owner \in {"select", "done"}
  BY <1>1 DEF OwnerCan
<1>3. reader \in ReaderPcs \ {"none"} /\ writer \in WriterPcs \ {"none"}
  BY <1>2 DEF TypeOK, SessionTypeOK, LoopTypeOK, EndInv
<1>4. inData.buf \in Seq(Frame) /\ InCap \in Nat \ {0}
  BY CapAssumption DEF TypeOK, SessionTypeOK, ChanTypeOK, CapAssumption
<1>5. owner # "select"
  <2> SUFFICES ASSUME owner = "select" PROVE FALSE
    OBVIOUS
  <2>1. inData.buf = <<>> /\ ~cClosed /\ reader # "notify"
    BY <1>1 DEF OwnerCan, ControlInv
  <2>2. Len(inData.buf) < InCap
    BY <1>4, <2>1
  <2>3. reader = "done"
    BY <1>1, <1>3, <2>1, <2>2 DEF ReaderCan, ReaderPcs
  <2>. QED
    BY <2>3 DEF EndInv, Before
<1>6. owner = "done"
  BY <1>2, <1>5
<1>7. state = "CLOSED" /\ inData.closed /\ outData.closed /\ cClosed
  BY <1>6 DEF ControlInv, Releasing
<1>8. closeEvents = 1 /\ reader = "done"
  BY <1>6 DEF EndInv, ControlInv, Before, Releasing
<1>9. writer = "done"
  BY <1>1, <1>3, <1>7 DEF WriterCan, WriterPcs
<1>10. \A w \in Writers : sender[w] \notin {"check", "enqueue"}
  BY <1>1, <1>7 DEF SenderCan
<1>. QED
  BY <1>6, <1>7, <1>8, <1>9, <1>10 DEF SessionEnded
-----------------------------------------------------------------------------
(* The theorems.                                                           *)

\* IInv holds in every reachable state.
THEOREM Invariance == Spec => []IInv
<1>1. Init => IInv
  <2>1. Init => InOrderDelivery /\ OnlyLateSendPanics
    BY DEF Init, SessionInit, InOrderDelivery, OnlyLateSendPanics
  <2>. QED
    BY <2>1, TypeInit, ControlInit, NumberInit DEF IInv
<1>2. IInv /\ [Next]_vars => IInv'
  BY TypeStep, ControlStep, NumberStep, OrderStep, PanicStep DEF IInv
<1>. QED
  BY <1>1, <1>2, PTL DEF Spec

\* Every variable of the session and of its owner keeps its type; in
\* particular neither channel ever holds more than its capacity.
THEOREM TypeCorrect == Spec => []TypeOK
<1>1. IInv => TypeOK
  BY DEF IInv
<1>. QED
  BY <1>1, Invariance, PTL

\* Frames reach the handlers in the order the peer sent them (Reader,
\* handleRead and processInData), whatever the capacity of inData.
THEOREM Order == Spec => []InOrderDelivery
<1>1. IInv => InOrderDelivery
  BY DEF IInv
<1>. QED
  BY <1>1, Invariance, PTL

\* The end of a session costs at most the frames inData still buffers: the
\* random choice of the select in processInData loses no more.
THEOREM Loss == Spec => []BoundedLoss
<1>1. IInv => BoundedLoss
  <2> SUFFICES ASSUME IInv, owner \notin Before
               PROVE  nread - Len(dispatched) \in 0 .. InCap
    BY DEF BoundedLoss
  <2>1. reader = "done"
    BY DEF IInv, ControlInv
  <2>2. Len(rHeld) = 0 /\ Len(inData.buf) <= InCap
    BY <2>1 DEF IInv, TypeOK, SessionTypeOK, LoopTypeOK, ChanTypeOK
  <2>3. Len(dispatched) \in Nat /\ Len(inData.buf) \in Nat
    BY LenProperties DEF IInv, TypeOK, SessionTypeOK, ChanTypeOK
  <2>4. nread = Len(dispatched) + Len(inData.buf) + Len(rHeld)
    BY DEF IInv, NumberInv
  <2>5. InCap \in Nat
    BY CapAssumption DEF CapAssumption
  <2>. QED
    BY <2>2, <2>3, <2>4, <2>5
<1>. QED
  BY <1>1, Invariance, PTL

\* Release, and with it the closing of the channels the two loops use, comes
\* only after handleRead has closed the connection and reported.
THEOREM ReleaseOrder == Spec => []ReleaseAfterReader
<1>1. IInv => ReleaseAfterReader
  BY DEF IInv, TypeOK, ControlInv, ReleaseAfterReader, Before, Releasing
<1>. QED
  BY <1>1, Invariance, PTL

\* Of the five places where a session could panic, only doWrite's send on
\* the closed outData ever does in a server.
THEOREM PanicSource == Spec => []OnlyLateSendPanics
<1>1. IInv => OnlyLateSendPanics
  BY DEF IInv
<1>. QED
  BY <1>1, Invariance, PTL

\* While both ends of the connection are open nothing that doWrite queued is
\* lost, repeated or reordered by outData and handleWrite.
THEOREM Wire == Spec => []WireOrder
<1>1. IInv /\ WireOrder /\ [Next]_vars => WireOrder'
  BY WireStep DEF IInv
<1>. QED
  BY <1>1, WireInit, Invariance, PTL DEF Spec

\* A session keeps the promise of FramePipe: what handleRead has parsed is
\* delivered in its order until the session ends, and then at most InCap of it
\* is left undelivered.
THEOREM SessionIsPipe == Spec => ImplementsPipe
<1>1. Init => Pipe!PipeInit
  BY PipeStarts
<1>2. IInv /\ [Next]_vars => [Pipe!PipeNext]_(Pipe!pipeVars)
  BY PipeStep DEF IInv
<1>. QED
  BY <1>1, <1>2, Invariance, PTL DEF Spec, ImplementsPipe, Pipe!PipeSpec

\* Once the peer is gone no two goroutines of a served session (network/tcp.go
\* and session.go) wait for one another: where nobody can go on, the session is
\* released, the Handler has heard of it once and no doWrite is left waiting.
THEOREM NoDeadlock == Spec => []NobodyStuck
<1>1. IInv => TypeOK /\ ControlInv
  BY DEF IInv
<1>. QED
  BY <1>1, EndInit, EndStep, RestIsEnd, Invariance, PTL DEF Spec
=============================================================================
