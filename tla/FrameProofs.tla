---------------------------- MODULE FrameProofs ----------------------------
(***************************************************************************)
(* Proofs about Frame, for every base, every set of bodies and any number  *)
(* of messages: what pack writes, Reader reads back, frame after frame,    *)
(* wherever the stream breaks off.                                         *)
(***************************************************************************)
EXTENDS Frame, SequenceTheorems, TLAPS

\* The two bytes of a word give the word back, and are bytes.
LEMMA WordRoundTrip ==
    ASSUME NEW n \in Word
    PROVE  Low(n) \in Byte /\ High(n) \in Byte /\ WordOf(Low(n), High(n)) = n
<1>1. Base \in Nat \ {0, 1} /\ n \in 0 .. (Base * Base) - 1
  BY BaseAssumption DEF BaseAssumption, Word, Limit
<1>2. n % Base \in 0 .. Base - 1 /\ (n \div Base) % Base \in 0 .. Base - 1
  BY <1>1
<1>3. ((n % Base) + ((n \div Base) % Base) * Base) % (Base * Base) = n
  BY <1>1
<1> QED BY <1>2, <1>3 DEF Low, High, WordOf, Byte

\* The length pack writes fits in its two bytes: the conversion to uint8 and
\* the shift lose nothing.
LEMMA BodyFits ==
    ASSUME NEW m \in Message
    PROVE  Body(m) \in Seq(Byte) /\ Len(Body(m)) \in Word
<1>1. m.body \in Seq(Byte) /\ Len(m.body) \in Nat
  BY DEF Message
<1>2. Limit \in Nat
  <2>1. Base \in Nat /\ Base >= 2
    BY BaseAssumption DEF BaseAssumption
  <2>2. Base * Base >= Base
    BY <2>1
  <2> QED BY <2>1, <2>2 DEF Limit
<1>3. CASE TooBig(m.body)
  <2>1. Body(m) = <<>>
    BY <1>3 DEF Body
  <2> QED BY <1>2, <2>1 DEF Word
<1>4. CASE ~TooBig(m.body)
  <2>1. Body(m) = m.body /\ Len(m.body) <= Limit
    BY <1>1, <1>2, <1>4 DEF Body, TooBig
  <2> QED BY <1>1, <1>2, <2>1 DEF Word
<1> QED BY <1>3, <1>4

\* Dropping the first of two concatenated sequences leaves the second.
LEMMA DropFirst ==
    ASSUME NEW S, NEW s \in Seq(S), NEW t \in Seq(S)
    PROVE  Drop(s \o t, Len(s)) = t
  BY DEF Drop

\* A frame in front of the stream: dropping its header leaves body and rest.
LEMMA DropHeader ==
    ASSUME NEW S, NEW h \in Seq(S), NEW s \in Seq(S), NEW t \in Seq(S)
    PROVE  Drop((h \o s) \o t, Len(h)) = s \o t
<1>1. (h \o s) \o t = h \o (s \o t) /\ s \o t \in Seq(S)
  OBVIOUS
<1> QED BY <1>1, DropFirst

\* What Reader's header says of a packed message.
HeaderOf(m) == [len |-> Len(Body(m)), dType |-> m.dType, head |-> m.head]

\* A packed message in front of the stream: its first five bytes are the header,
\* and what comes after them is the body.
LEMMA HeaderRead ==
    ASSUME NEW m \in Message, NEW rest \in Seq(Byte)
    PROVE  LET b == Pack(m) \o rest
           IN  /\ b \in Seq(Byte) /\ Pack(m) \in Seq(Byte)
               /\ Len(b) >= 5
               /\ Header(b) = HeaderOf(m)
               /\ Drop(b, 5) = Body(m) \o rest
<1> DEFINE n == Len(Body(m))
           hd == <<Low(n), High(n), m.dType, Low(m.head), High(m.head)>>
           b == Pack(m) \o rest
<1>1. /\ n \in Word
      /\ Body(m) \in Seq(Byte)
      /\ m.head \in Word
      /\ m.dType \in DTypes
  BY BodyFits DEF Message
<1>2. /\ Low(n) \in Byte /\ High(n) \in Byte /\ WordOf(Low(n), High(n)) = n
      /\ Low(m.head) \in Byte /\ High(m.head) \in Byte
      /\ WordOf(Low(m.head), High(m.head)) = m.head
  BY <1>1, WordRoundTrip
<1>3. m.dType \in Byte
  BY <1>1, FrameAssumption DEF FrameAssumption, Byte
<1>4. hd \in Seq(Byte) /\ Len(hd) = 5
  BY <1>2, <1>3
<1>5. Pack(m) = hd \o Body(m) /\ b = (hd \o Body(m)) \o rest
  BY DEF Pack
<1>6. b[1] = Low(n) /\ b[2] = High(n) /\ b[3] = m.dType
        /\ b[4] = Low(m.head) /\ b[5] = High(m.head)
  <2> HIDE DEF n, b
  <2>1. \A i \in 1 .. 5 : ((hd \o Body(m)) \o rest)[i] = hd[i]
    BY <1>1, <1>4
  <2> QED BY <1>5, <2>1
<1>7. Header(b) = [len |-> n, dType |-> m.dType, head |-> m.head]
  BY <1>2, <1>6 DEF Header
<1> HIDE DEF hd, b, n
<1>8. Drop(b, 5) = Body(m) \o rest
  <2>1. Body(m) \in Seq(Byte) /\ rest \in Seq(Byte)
    BY <1>1
  <2>2. Drop((hd \o Body(m)) \o rest, Len(hd)) = Body(m) \o rest
    BY <1>4, <2>1, DropHeader, ZenonT(20)
  <2> QED BY <1>4, <1>5, <2>2
<1>9. Pack(m) \in Seq(Byte) /\ b \in Seq(Byte) /\ Len(b) >= 5
  <2>1. Len(Body(m)) \in Nat /\ Len(rest) \in Nat
    BY <1>1, LenProperties
  <2> DEFINE c == Body(m)
             p == hd \o c
  <2>2. p \in Seq(Byte) /\ Len(p) = 5 + Len(c)
    <3>1. c \in Seq(Byte)
      BY <1>1
    <3> HIDE DEF c
    <3>2. hd \o c \in Seq(Byte) /\ Len(hd \o c) = Len(hd) + Len(c)
      BY <1>4, <3>1, ConcatProperties
    <3> QED BY <1>4, <3>2
  <2>3. p \in Seq(Byte) /\ Len(p) = 5 + Len(Body(m)) /\ b = p \o rest /\ Pack(m) = p
    BY <1>5, <2>2
  <2> HIDE DEF p
  <2>4. p \o rest \in Seq(Byte) /\ Len(p \o rest) = Len(p) + Len(rest)
    BY <2>3, ConcatProperties
  <2> QED BY <2>1, <2>3, <2>4
<1> QED BY <1>7, <1>8, <1>9 DEF b, n, HeaderOf

\* The first n elements of the first of two concatenated sequences.
LEMMA InFirst ==
    ASSUME NEW S, NEW s \in Seq(S), NEW t \in Seq(S), NEW n \in 0 .. Len(s)
    PROVE  /\ SubSeq(s, 1, n) \in Seq(S) /\ Drop(s, n) \in Seq(S)
           /\ Len(SubSeq(s, 1, n)) = n
           /\ SubSeq(s, 1, n) \o Drop(s, n) = s
           /\ SubSeq(s \o t, 1, n) = SubSeq(s, 1, n)
           /\ Drop(s \o t, n) = Drop(s, n) \o t
<1>1. Len(s) \in Nat /\ Len(t) \in Nat
  BY LenProperties
<1> DEFINE a == SubSeq(s, 1, n)
           d == Drop(s, n)
           v == s \o t
<1>2. a \in Seq(S) /\ Len(a) = n /\ \A i \in 1 .. n : a[i] = s[i]
  BY <1>1
<1>3. d \in Seq(S) /\ Len(d) = Len(s) - n /\ \A i \in 1 .. Len(s) - n : d[i] = s[n + i]
  BY <1>1 DEF Drop
<1>4. /\ v \in Seq(S) /\ Len(v) = Len(s) + Len(t)
      /\ \A i \in 1 .. Len(s) + Len(t) : v[i] = IF i <= Len(s) THEN s[i] ELSE t[i - Len(s)]
  BY ConcatProperties
<1> HIDE DEF a, d, v
<1>5. a \o d = s
  <2>1. /\ a \o d \in Seq(S) /\ Len(a \o d) = Len(s)
        /\ \A i \in 1 .. Len(s) : (a \o d)[i] = IF i <= n THEN a[i] ELSE d[i - n]
    <3>1. /\ a \o d \in Seq(S) /\ Len(a \o d) = Len(a) + Len(d)
          /\ \A i \in 1 .. Len(a) + Len(d) : (a \o d)[i] = IF i <= Len(a) THEN a[i] ELSE d[i - Len(a)]
      BY <1>2, <1>3, ConcatProperties
    <3>2. Len(a) + Len(d) = Len(s)
      BY <1>1, <1>2, <1>3
    <3> QED BY <1>2, <3>1, <3>2
  <2>2. ASSUME NEW i \in 1 .. Len(s) PROVE (a \o d)[i] = s[i]
    <3>1. CASE i <= n
      BY <1>1, <1>2, <2>1, <3>1
    <3>2. CASE ~(i <= n)
      <4>1. i - n \in 1 .. Len(s) - n /\ n + (i - n) = i
        BY <1>1, <3>2
      <4> QED BY <1>3, <2>1, <3>2, <4>1
    <3> QED BY <3>1, <3>2
  <2> QED BY <2>1, <2>2, SeqEqual
<1>6. SubSeq(v, 1, n) = a
  <2>1. SubSeq(v, 1, n) \in Seq(S) /\ Len(SubSeq(v, 1, n)) = n
        /\ \A i \in 1 .. n : SubSeq(v, 1, n)[i] = v[i]
    BY <1>1, <1>4
  <2>2. \A i \in 1 .. n : SubSeq(v, 1, n)[i] = a[i]
    BY <1>1, <1>2, <1>4, <2>1
  <2> QED BY <1>2, <2>1, <2>2, SeqEqual
<1>7. v = a \o (d \o t)
  <2>b. a \in Seq(S) /\ d \in Seq(S)
    BY <1>2, <1>3
  <2>1. (a \o d) \o t = a \o (d \o t)
    BY <2>b, ConcatAssociative, SMTT(30)
  <2> QED BY <1>5, <2>1 DEF v
<1>8. d \o t \in Seq(S)
  BY <1>3, ConcatProperties
<1>9. Drop(v, n) = d \o t
  BY <1>2, <1>7, <1>8, DropFirst
<1> QED BY <1>2, <1>3, <1>5, <1>6, <1>9 DEF a, d, v

\* Whatever follows it on the stream, a packed message is read back with its
\* type, its head and the body that was packed, and the stream is left at the
\* byte after it.
THEOREM FrameRoundTrip ==
    ASSUME NEW m \in Message, NEW rest \in Seq(Byte)
    PROVE  LET b == Pack(m) \o rest
               h == Header(b)
           IN  /\ h = [len |-> Len(Body(m)), dType |-> m.dType, head |-> m.head]
               /\ SubSeq(Drop(b, 5), 1, h.len) = Body(m)
               /\ Drop(Drop(b, 5), h.len) = rest
<1> DEFINE n == Len(Body(m))
           b == Pack(m) \o rest
<1>1. Body(m) \in Seq(Byte)
  BY BodyFits
<1>2. Header(b) = HeaderOf(m) /\ Drop(b, 5) = Body(m) \o rest
  BY HeaderRead
<1> HIDE DEF b, n
<1>3. SubSeq(Body(m) \o rest, 1, n) = Body(m)
  BY <1>1 DEF n
<1>4. Drop(Body(m) \o rest, n) = rest
  <2>1. Drop(Body(m) \o rest, Len(Body(m))) = rest
    BY <1>1, DropFirst
  <2> QED BY <2>1 DEF n
<1>5. Header(b).len = n
  BY <1>2 DEF HeaderOf, n
<1> QED BY <1>1, <1>2, <1>3, <1>4, <1>5 DEF b, n, HeaderOf
-----------------------------------------------------------------------------
(* The stream, frame after frame.                                          *)

Headers == [len : Word, dType : DTypes, head : Word]

TypeInv ==
    /\ sent \in Seq(Message) /\ got \in Seq(Message)
    /\ wire \in Seq(Byte)
    /\ pkg \in Seq(Headers)
    /\ cut \in BOOLEAN

\* r[i] is the stream from the start of frame i on.
Streams == [Nat -> Seq(Byte)]

FromFrame(r) ==
    /\ r[Len(sent) + 1] = <<>>
    /\ \A i \in 1 .. Len(sent) : r[i] = Pack(sent[i]) \o r[i + 1]

\* What Reader has yet to see: whole frames, or a body and then whole frames.
Due(r) == IF pkg = <<>> THEN r[Len(got) + 1]
          ELSE Body(sent[Len(got) + 1]) \o r[Len(got) + 2]

\* The wire holds the beginning of that, and all of it until the stream is cut.
WireInv ==
    \E r \in Streams : \E rest \in Seq(Byte) :
        FromFrame(r) /\ Due(r) = wire \o rest /\ (~cut => rest = <<>>)

\* The header Reader waits with is the one of the next message.
HeaderInv ==
    pkg # <<>> => Len(got) < Len(sent) /\ pkg = <<HeaderOf(sent[Len(got) + 1])>>

\* What pack leaves of a message.
Packed(m) == [m EXCEPT !.body = Body(m)]

\* Reader has returned the first of these.
GotInv ==
    /\ Len(got) <= Len(sent)
    /\ \A i \in DOMAIN got : got[i] = Packed(sent[i])

FrameInv == TypeInv /\ HeaderInv /\ WireInv /\ GotInv

\* What Reader makes of a message is a message.
LEMMA PackedType ==
    ASSUME NEW m \in Message
    PROVE  /\ Packed(m) \in Message
           /\ Packed(m) = [head |-> m.head, dType |-> m.dType, body |-> Body(m)]
           /\ HeaderOf(m) \in Headers
<1>1. Body(m) \in Seq(Byte) /\ Len(Body(m)) \in Word
  BY BodyFits
<1>2. Packed(m) = [head |-> m.head, dType |-> m.dType, body |-> Body(m)]
  BY DEF Packed, Message
<1>3. m.head \in Word /\ m.dType \in DTypes
  BY DEF Message
<1> QED BY <1>1, <1>2, <1>3 DEF Message, HeaderOf, Headers

\* The messages pack is given.
LEMMA Given ==
    ASSUME NEW h \in Word, NEW t \in DTypes, NEW b \in Bodies
    PROVE  [head |-> h, dType |-> t, body |-> b] \in Message
  BY FrameAssumption DEF FrameAssumption, Message, Byte

\* A header is in a stream whose first five bytes are there.
LEMMA HeaderInFirst ==
    ASSUME NEW s \in Seq(Byte), NEW t \in Seq(Byte), Len(s) >= 5
    PROVE  Header(s \o t) = Header(s)
<1>1. Len(s) \in Nat /\ Len(t) \in Nat
  BY LenProperties
<1>2. \A i \in 1 .. Len(s) + Len(t) : (s \o t)[i] = IF i <= Len(s) THEN s[i] ELSE t[i - Len(s)]
  BY ConcatProperties
<1>3. \A i \in 1 .. 5 : (s \o t)[i] = s[i]
  BY <1>1, <1>2
<1> QED BY <1>3 DEF Header

\* Before the first frame every r[i] may be the empty stream.
LEMMA FrameInit == Init => FrameInv
<1> SUFFICES ASSUME Init PROVE FrameInv
  OBVIOUS
<1>1. sent = <<>> /\ wire = <<>> /\ pkg = <<>> /\ got = <<>> /\ cut = FALSE /\ Len(<<>>) = 0
  BY DEF Init
<1>2. TypeInv /\ HeaderInv /\ GotInv
  <2>1. DOMAIN got = {}
    BY <1>1
  <2>2. HeaderInv /\ GotInv
    BY <1>1, <2>1 DEF HeaderInv, GotInv
  <2>3. <<>> \in Seq(Message) /\ <<>> \in Seq(Byte) /\ <<>> \in Seq(Headers)
    OBVIOUS
  <2>4. TypeInv
    BY <1>1, <2>3 DEF TypeInv
  <2> QED BY <2>2, <2>4
<1> DEFINE r == [i \in Nat |-> <<>>]
<1>3. r \in Streams /\ r[1] = <<>> /\ <<>> \in Seq(Byte)
  BY DEF Streams
<1>4. FromFrame(r)
  BY <1>1, <1>3 DEF FromFrame
<1>5. Due(r) = wire \o <<>>
  <2>1. Due(r) = <<>>
    BY <1>1, <1>3 DEF Due
  <2>2. <<>> \o <<>> = <<>>
    BY ConcatSimplifications
  <2> QED BY <1>1, <2>1, <2>2
<1>6. WireInv
  <2> HIDE DEF r
  <2> QED BY <1>3, <1>4, <1>5 DEF WireInv
<1> QED BY <1>2, <1>6 DEF FrameInv

\* pack puts a message behind the stream: every r[i] grows at its end.
LEMMA WriteStep ==
    ASSUME FrameInv, NEW m \in Message, Write(m)
    PROVE  FrameInv'
<1>t. /\ sent \in Seq(Message) /\ got \in Seq(Message) /\ wire \in Seq(Byte)
      /\ pkg \in Seq(Headers) /\ cut \in BOOLEAN
      /\ Len(sent) \in Nat /\ Len(got) \in Nat
      /\ DOMAIN sent = 1 .. Len(sent) /\ DOMAIN got = 1 .. Len(got)
  BY LenProperties DEF FrameInv, TypeInv
<1>w. /\ ~cut /\ sent' = Append(sent, m) /\ wire' = wire \o Pack(m)
      /\ UNCHANGED <<pkg, got, cut>>
  BY DEF Write
<1>p. Pack(m) \in Seq(Byte) /\ <<>> \in Seq(Byte)
  BY <1>t, HeaderRead
<1> DEFINE n == Len(sent)
           g == Len(got)
           P == Pack(m)
<1>a. /\ sent' \in Seq(Message) /\ Len(sent') = n + 1 /\ sent'[n + 1] = m
      /\ \A i \in 1 .. n : sent'[i] = sent[i]
  BY <1>t, <1>w, AppendProperties
<1>d. /\ g <= n
      /\ \A i \in 1 .. g : got[i] = Packed(sent[i])
      /\ pkg # <<>> => g < n /\ pkg = <<HeaderOf(sent[g + 1])>>
  BY <1>t DEF FrameInv, GotInv, HeaderInv
<1>r. PICK r \in Streams : FromFrame(r) /\ Due(r) = wire \o <<>>
  BY <1>w DEF FrameInv, WireInv
<1>f. /\ r[n + 1] = <<>>
      /\ \A i \in 1 .. n : r[i] = Pack(sent[i]) \o r[i + 1]
      /\ \A i \in Nat : r[i] \in Seq(Byte)
  BY <1>r DEF FromFrame, Streams
<1>e. Due(r) = wire
  BY <1>t, <1>r, ConcatEmptySeq
<1>n. n \in Nat /\ g \in Nat
  BY <1>t
<1> HIDE DEF n, g, P
<1>P. P \in Seq(Byte)
  BY <1>p DEF P
<1>1. PICK q \in Streams :
         /\ q[n + 2] = <<>>
         /\ \A i \in 1 .. n + 1 : q[i] = r[i] \o P
  <2> DEFINE s == [i \in Nat |-> IF i <= n + 1 THEN r[i] \o P ELSE <<>>]
  <2>1. \A i \in Nat : r[i] \o P \in Seq(Byte)
    BY <1>f, <1>P, ConcatProperties
  <2>2. n + 2 \in Nat /\ ~(n + 2 <= n + 1) /\ \A i \in 1 .. n + 1 : i \in Nat /\ i <= n + 1
    BY <1>n
  <2>3. /\ s \in Streams
        /\ s[n + 2] = <<>>
        /\ \A i \in 1 .. n + 1 : s[i] = r[i] \o P
    BY <1>p, <2>1, <2>2 DEF Streams
  <2> HIDE DEF s
  <2> QED BY <2>3
<1>2. q[n + 1] = P
  <2>1. n + 1 \in 1 .. n + 1
    BY <1>n
  <2>2. q[n + 1] = <<>> \o P
    BY <1>1, <1>f, <2>1
  <2> QED BY <1>P, <2>2, ConcatEmptySeq
<1>3. \A i \in 1 .. n + 1 : q[i] = Pack(sent'[i]) \o q[i + 1]
  <2> TAKE i \in 1 .. n + 1
  <2>1. CASE i = n + 1
    <3>1. P \o <<>> = P
      BY <1>P, ConcatEmptySeq
    <3>2. i + 1 = n + 2
      BY <1>n, <2>1
    <3> QED BY <1>1, <1>2, <1>a, <2>1, <3>1, <3>2 DEF P
  <2>2. CASE i \in 1 .. n
    <3>1. i + 1 \in 1 .. n + 1 /\ i + 1 \in Nat
      BY <1>n, <2>2
    <3>2. sent[i] \in Message
      BY <1>t, <2>2, ElementOfSeq DEF n
    <3> DEFINE a == Pack(sent[i])
               b == r[i + 1]
    <3>3. a \in Seq(Byte) /\ b \in Seq(Byte)
      BY <1>f, <1>p, <3>1, <3>2, HeaderRead
    <3>4. q[i] = (a \o b) \o P /\ q[i + 1] = b \o P
      BY <1>1, <1>f, <2>2, <3>1
    <3>5. sent'[i] = sent[i]
      BY <1>a, <2>2
    <3> HIDE DEF a, b
    <3>7. (a \o b) \o P = a \o (b \o P)
      BY <1>P, <3>3, ConcatAssociative, SMTT(30)
    <3> QED BY <3>4, <3>5, <3>7 DEF a
  <2>3. i = n + 1 \/ i \in 1 .. n
    BY <1>n
  <2> QED BY <2>1, <2>2, <2>3
<1>4. FromFrame(q)'
  <2>1. Len(sent') + 1 = n + 2
    BY <1>n, <1>a
  <2> QED BY <1>1, <1>3, <1>a, <2>1 DEF FromFrame
<1>5. Due(q)' = wire' \o <<>>
  <2>1. wire' \in Seq(Byte)
    <3>1. wire \o P \in Seq(Byte)
      BY <1>t, <1>P, ConcatProperties
    <3> QED BY <1>w, <3>1 DEF P
  <2>2. wire' \o <<>> = wire'
    BY <2>1, ConcatEmptySeq
  <2>3. CASE pkg = <<>>
    <3>1. g + 1 \in 1 .. n + 1
      BY <1>n, <1>d
    <3>2. Due(r) = r[g + 1] /\ Due(q)' = q[g + 1]
      BY <1>w, <2>3 DEF Due, g
    <3> QED BY <1>1, <1>e, <1>w, <2>2, <3>1, <3>2 DEF P
  <2>4. CASE pkg # <<>>
    <3>1. g + 1 \in 1 .. n /\ g + 2 \in 1 .. n + 1 /\ g + 2 \in Nat
      BY <1>n, <1>d, <2>4
    <3> DEFINE a == Body(sent[g + 1])
               b == r[g + 2]
    <3>2. Due(r) = a \o b
      BY <2>4 DEF Due, g
    <3>3. Due(q)' = a \o q[g + 2]
      <4>1. sent'[g + 1] = sent[g + 1] /\ pkg' = pkg /\ got' = got
        BY <1>a, <1>w, <3>1
      <4>2. Due(q)' = Body(sent'[g + 1]) \o q[g + 2]
        BY <2>4, <4>1 DEF Due, g
      <4> QED BY <4>1, <4>2
    <3>4. a \in Seq(Byte) /\ b \in Seq(Byte)
      <4>1. sent[g + 1] \in Message
        BY <1>t, <3>1, ElementOfSeq DEF n
      <4> QED BY <1>f, <3>1, <4>1, BodyFits
    <3>5. q[g + 2] = b \o P
      BY <1>1, <3>1
    <3> HIDE DEF a, b
    <3>7. (a \o b) \o P = a \o (b \o P)
      BY <1>P, <3>4, ConcatAssociative, SMTT(30)
    <3>8. wire' = wire \o P
      BY <1>w DEF P
    <3> QED BY <1>e, <2>2, <3>2, <3>3, <3>5, <3>7, <3>8
  <2> QED BY <2>3, <2>4
<1>6. WireInv'
  <2>1. \E rest \in Seq(Byte) : FromFrame(q)' /\ Due(q)' = wire' \o rest /\ (~cut' => rest = <<>>)
    BY <1>4, <1>5, <1>p
  <2> QED BY <1>1, <2>1 DEF WireInv
<1>7. TypeInv'
  <2>1. wire' \in Seq(Byte)
    <3>1. wire \o P \in Seq(Byte)
      BY <1>t, <1>P, ConcatProperties
    <3> QED BY <1>w, <3>1 DEF P
  <2> QED BY <1>t, <1>w, <1>a, <2>1 DEF TypeInv
<1>8. HeaderInv' /\ GotInv'
  <2>1. \A i \in 1 .. g : i \in 1 .. n
    BY <1>n, <1>d
  <2>2. pkg # <<>> => g + 1 \in 1 .. n /\ g < n + 1
    BY <1>n, <1>d
  <2>3. g <= n + 1
    BY <1>n, <1>d
  <2> QED BY <1>t, <1>w, <1>a, <1>d, <2>1, <2>2, <2>3 DEF HeaderInv, GotInv, g
<1> QED BY <1>6, <1>7, <1>8 DEF FrameInv

\* Reader takes the five bytes of a header: the next frame is whole at the front
\* of the stream, and its first five bytes are what pack put there.
LEMMA ReadHeaderStep ==
    ASSUME FrameInv, ReadHeader
    PROVE  FrameInv'
<1>t. /\ sent \in Seq(Message) /\ wire \in Seq(Byte)
      /\ Len(sent) \in Nat /\ Len(got) \in Nat /\ Len(wire) \in Nat
  BY LenProperties DEF FrameInv, TypeInv
<1>w. /\ pkg = <<>> /\ Len(wire) >= 5 /\ pkg' = <<Header(wire)>> /\ wire' = Drop(wire, 5)
      /\ UNCHANGED <<sent, got, cut>>
  BY DEF ReadHeader
<1> DEFINE n == Len(sent)
           g == Len(got)
           m == sent[g + 1]
<1>n. n \in Nat /\ g \in Nat /\ g <= n
  BY <1>t DEF FrameInv, GotInv
<1>r. PICK r \in Streams, rest \in Seq(Byte) :
         FromFrame(r) /\ Due(r) = wire \o rest /\ (~cut => rest = <<>>)
  BY DEF FrameInv, WireInv
<1>f. /\ r[n + 1] = <<>>
      /\ \A i \in 1 .. n : r[i] = Pack(sent[i]) \o r[i + 1]
      /\ \A i \in Nat : r[i] \in Seq(Byte)
  BY <1>r DEF FromFrame, Streams
<1>e. r[g + 1] = wire \o rest
  BY <1>w, <1>r DEF Due
<1>1. g < n
  <2>1. Len(wire \o rest) = Len(wire) + Len(rest) /\ Len(rest) \in Nat
    BY <1>t, ConcatProperties, LenProperties
  <2>2. Len(r[g + 1]) # 0
    BY <1>t, <1>w, <1>e, <2>1
  <2>3. r[g + 1] # <<>>
    BY <2>2
  <2> QED BY <1>n, <1>f, <2>3
<1> HIDE DEF n, g
<1>2. g + 1 \in 1 .. n /\ g + 2 \in Nat /\ (g + 1) + 1 = g + 2
  BY <1>n, <1>1
<1>3. m \in Message
  BY <1>t, <1>2, ElementOfSeq DEF n
<1>4. r[g + 2] \in Seq(Byte) /\ wire \o rest = Pack(m) \o r[g + 2]
  BY <1>e, <1>f, <1>2
<1> HIDE DEF m
<1>5. /\ Header(wire \o rest) = HeaderOf(m)
      /\ Drop(wire \o rest, 5) = Body(m) \o r[g + 2]
  BY <1>3, <1>4, HeaderRead
<1>6. 5 \in 0 .. Len(wire)
  BY <1>t, <1>w
<1>7. /\ Header(wire) = HeaderOf(m)
      /\ Drop(wire, 5) \in Seq(Byte)
      /\ Drop(wire, 5) \o rest = Body(m) \o r[g + 2]
  <2>1. Header(wire \o rest) = Header(wire)
    BY <1>t, <1>w, <1>r, HeaderInFirst
  <2>2. /\ Drop(wire, 5) \in Seq(Byte)
        /\ Drop(wire \o rest, 5) = Drop(wire, 5) \o rest
    BY <1>t, <1>r, <1>6, InFirst
  <2> QED BY <1>5, <2>1, <2>2
<1>8. HeaderOf(m) \in Headers
  BY <1>3, PackedType
<1>9. TypeInv'
  BY <1>w, <1>7, <1>8 DEF FrameInv, TypeInv
<1>10. HeaderInv' /\ GotInv'
  BY <1>w, <1>1, <1>7 DEF FrameInv, HeaderInv, GotInv, n, g, m
<1>11. WireInv'
  <2>1. FromFrame(r)'
    BY <1>w, <1>r DEF FromFrame
  <2>2. Due(r)' = Body(m) \o r[g + 2]
    BY <1>w DEF Due, g, m
  <2>3. Due(r)' = wire' \o rest /\ (~cut' => rest = <<>>)
    BY <1>w, <1>r, <1>7, <2>2
  <2> QED BY <2>1, <2>3 DEF WireInv
<1> QED BY <1>9, <1>10, <1>11 DEF FrameInv

\* Reader takes the body: as many bytes as the header says are the body that
\* was packed, and the stream is at the start of the frame after it.
LEMMA ReadBodyStep ==
    ASSUME FrameInv, ReadBody
    PROVE  FrameInv'
<1>t. /\ sent \in Seq(Message) /\ got \in Seq(Message) /\ wire \in Seq(Byte)
      /\ Len(sent) \in Nat /\ Len(got) \in Nat /\ Len(wire) \in Nat
      /\ DOMAIN got = 1 .. Len(got)
  BY LenProperties DEF FrameInv, TypeInv
<1> DEFINE n == Len(sent)
           g == Len(got)
           m == sent[g + 1]
           k == Len(Body(m))
<1>h. pkg # <<>> /\ pkg = <<HeaderOf(m)>> /\ g < n
  BY DEF ReadBody, FrameInv, HeaderInv
<1>d. g <= n /\ \A i \in 1 .. g : got[i] = Packed(sent[i])
  BY <1>t DEF FrameInv, GotInv
<1>2. n \in Nat /\ g \in Nat /\ g + 1 \in 1 .. n /\ g + 2 \in Nat
  BY <1>t, <1>h
<1>3. m \in Message
  BY <1>t, <1>2, ElementOfSeq
<1>w. /\ Len(wire) >= k
      /\ got' = Append(got, [head |-> m.head, dType |-> m.dType, body |-> SubSeq(wire, 1, k)])
      /\ wire' = Drop(wire, k) /\ pkg' = <<>>
      /\ UNCHANGED <<sent, cut>>
  <2>1. pkg[1] = HeaderOf(m)
    BY <1>h
  <2> HIDE DEF m
  <2> QED BY <2>1 DEF ReadBody, HeaderOf
<1>r. PICK r \in Streams, rest \in Seq(Byte) :
         FromFrame(r) /\ Due(r) = wire \o rest /\ (~cut => rest = <<>>)
  BY DEF FrameInv, WireInv
<1>4. r[g + 2] \in Seq(Byte) /\ wire \o rest = Body(m) \o r[g + 2]
  BY <1>h, <1>r, <1>2 DEF Due, Streams
<1> HIDE DEF n, g, m
<1>5. Body(m) \in Seq(Byte) /\ k \in Nat
  BY <1>3, BodyFits, LenProperties
<1>6. SubSeq(Body(m) \o r[g + 2], 1, k) = Body(m) /\ Drop(Body(m) \o r[g + 2], k) = r[g + 2]
  <2> DEFINE c == Body(m)
             s == r[g + 2]
  <2>1. c \in Seq(Byte) /\ s \in Seq(Byte)
    BY <1>4, <1>5
  <2> HIDE DEF c, s
  <2>2. SubSeq(c \o s, 1, Len(c)) = c
    BY <2>1
  <2>3. Drop(c \o s, Len(c)) = s
    BY <2>1, DropFirst
  <2> QED BY <2>2, <2>3 DEF c, s
<1>7. k \in 0 .. Len(wire)
  BY <1>t, <1>w, <1>5
<1> HIDE DEF k
<1>8. /\ SubSeq(wire, 1, k) = Body(m)
      /\ Drop(wire, k) \in Seq(Byte)
      /\ Drop(wire, k) \o rest = r[g + 2]
  <2>1. /\ SubSeq(wire \o rest, 1, k) = SubSeq(wire, 1, k)
        /\ Drop(wire \o rest, k) = Drop(wire, k) \o rest
        /\ Drop(wire, k) \in Seq(Byte)
    BY <1>t, <1>7, InFirst
  <2> QED BY <1>4, <1>6, <2>1
<1>9. got' = Append(got, Packed(m)) /\ Packed(m) \in Message
  BY <1>w, <1>3, <1>8, PackedType
<1>10. /\ got' \in Seq(Message) /\ Len(got') = g + 1 /\ got'[g + 1] = Packed(m)
       /\ \A i \in 1 .. g : got'[i] = got[i]
       /\ DOMAIN got' = 1 .. g + 1
  BY <1>t, <1>9, AppendProperties, LenProperties DEF g
<1>11. TypeInv'
  BY <1>w, <1>8, <1>10 DEF FrameInv, TypeInv
<1>12. HeaderInv'
  BY <1>w DEF HeaderInv
<1>13. GotInv'
  <2>1. g + 1 <= n
    BY <1>2
  <2>2. ASSUME NEW i \in 1 .. g + 1 PROVE got'[i] = Packed(sent[i])
    <3>1. i = g + 1 \/ i \in 1 .. g
      BY <1>2
    <3>2. sent[g + 1] = m
      BY DEF m
    <3> QED BY <1>10, <1>d, <3>1, <3>2
  <2> QED BY <1>w, <1>10, <2>1, <2>2 DEF GotInv, n
<1>14. WireInv'
  <2>1. FromFrame(r)'
    BY <1>w, <1>r DEF FromFrame
  <2>2. Due(r)' = r[g + 2]
    <3>1. Len(got') + 1 = g + 2
      BY <1>2, <1>10
    <3> QED BY <1>w, <3>1 DEF Due
  <2>3. Due(r)' = wire' \o rest /\ (~cut' => rest = <<>>)
    BY <1>w, <1>r, <1>8, <2>2
  <2> QED BY <2>1, <2>3 DEF WireInv
<1> QED BY <1>11, <1>12, <1>13, <1>14 DEF FrameInv

\* What follows the first n elements of two joined texts is the rest of the
\* first text and the second.
LEMMA Broken ==
    ASSUME NEW S, NEW s \in Seq(S), NEW t \in Seq(S), NEW n \in 0 .. Len(s)
    PROVE  /\ Drop(s, n) \o t \in Seq(S)
           /\ s \o t = SubSeq(s, 1, n) \o (Drop(s, n) \o t)
<1> DEFINE v == s \o t
<1>1. v \in Seq(S) /\ Len(v) = Len(s) + Len(t) /\ Len(s) \in Nat /\ Len(t) \in Nat
  BY ConcatProperties, LenProperties
<1>2. SubSeq(v, 1, n) = SubSeq(s, 1, n) /\ Drop(v, n) = Drop(s, n) \o t
  BY InFirst
<1> HIDE DEF v
<1>3. n \in 0 .. Len(v)
  BY <1>1
<1>4. Drop(v, n) \in Seq(S) /\ SubSeq(v, 1, n) \o Drop(v, n) = v
  BY <1>1, <1>3, InFirst
<1>5. v = SubSeq(s, 1, n) \o (Drop(s, n) \o t)
  BY <1>2, <1>4
<1> QED BY <1>2, <1>4, <1>5 DEF v

\* The stream breaks off, or Reader gives up on what is left of it.
LEMMA CutStep ==
    ASSUME FrameInv, Cut \/ ReadFails
    PROVE  FrameInv'
<1>t. wire \in Seq(Byte) /\ Len(wire) \in Nat /\ Len(sent) \in Nat /\ Len(got) \in Nat
  BY LenProperties DEF FrameInv, TypeInv
<1>r. PICK r \in Streams, rest \in Seq(Byte) :
         FromFrame(r) /\ Due(r) = wire \o rest /\ (~cut => rest = <<>>)
  BY DEF FrameInv, WireInv
<1>1. CASE Cut
  <2>1. PICK k \in 0 .. Len(wire) : wire' = SubSeq(wire, 1, k)
    BY <1>1 DEF Cut
  <2>2. cut' = TRUE /\ UNCHANGED <<sent, pkg, got>>
    BY <1>1 DEF Cut
  <2> DEFINE d == Drop(wire, k)
  <2>3. wire' \in Seq(Byte)
    BY <1>t, <2>1, InFirst
  <2>4. d \o rest \in Seq(Byte) /\ wire \o rest = wire' \o (d \o rest)
    BY <1>t, <2>1, Broken
  <2> HIDE DEF d
  <2>5. FromFrame(r)' /\ Due(r)' = Due(r)
    BY <1>r, <2>2 DEF FromFrame, Due
  <2>6. WireInv'
    BY <1>r, <2>2, <2>4, <2>5 DEF WireInv
  <2> QED BY <2>2, <2>3, <2>6 DEF FrameInv, TypeInv, HeaderInv, GotInv
<1>2. CASE ReadFails
  <2>1. cut /\ wire' = <<>> /\ pkg' = <<>> /\ UNCHANGED <<sent, got, cut>>
    BY <1>2 DEF ReadFails
  <2>2. FromFrame(r)'
    BY <1>r, <2>1 DEF FromFrame
  <2>3. Due(r)' = r[Len(got) + 1] /\ r[Len(got) + 1] \in Seq(Byte)
    BY <1>t, <2>1 DEF Due, Streams
  <2> DEFINE d == r[Len(got) + 1]
  <2>4. d \in Seq(Byte) /\ Due(r)' = d
    BY <2>3
  <2> HIDE DEF d
  <2>5. <<>> \o d = d
    BY <2>4, ConcatEmptySeq
  <2>6. WireInv'
    BY <2>1, <2>2, <2>4, <2>5 DEF WireInv
  <2>7. <<>> \in Seq(Byte) /\ <<>> \in Seq(Headers)
    OBVIOUS
  <2> QED BY <2>1, <2>6, <2>7 DEF FrameInv, TypeInv, HeaderInv, GotInv
<1> QED BY <1>1, <1>2

\* FrameInv holds for every set of bodies and any number of messages, wherever
\* the stream breaks off.
THEOREM FrameInvariance == Spec => []FrameInv
<1>1. FrameInv /\ [Next]_vars => FrameInv'
  <2> SUFFICES ASSUME FrameInv, [Next]_vars PROVE FrameInv'
    OBVIOUS
  <2>1. ASSUME NEW h \in Word, NEW t \in DTypes, NEW b \in Bodies,
               Write([head |-> h, dType |-> t, body |-> b])
        PROVE  FrameInv'
    BY <2>1, Given, WriteStep
  <2>2. CASE ReadHeader
    BY <2>2, ReadHeaderStep
  <2>3. CASE ReadBody
    BY <2>3, ReadBodyStep
  <2>4. CASE Cut \/ ReadFails
    BY <2>4, CutStep
  <2>5. CASE UNCHANGED vars
    BY <2>5 DEF vars, FrameInv, TypeInv, HeaderInv, WireInv, FromFrame, Due, GotInv
  <2> QED BY <2>1, <2>2, <2>3, <2>4, <2>5 DEF Next
<1> QED BY <1>1, FrameInit, PTL DEF Spec

\* Reader returns the messages that pack was given, in their order, wherever the
\* stream breaks off: whole, if two bytes can say how long they are.
THEOREM Prefix == Spec => []PrefixDelivered
<1>1. FrameInv => PrefixDelivered
  <2> SUFFICES ASSUME FrameInv, NEW i \in DOMAIN got PROVE Conveys(got[i], sent[i])
    BY DEF FrameInv, GotInv, PrefixDelivered
  <2>1. i \in 1 .. Len(sent) /\ got[i] = Packed(sent[i]) /\ sent \in Seq(Message)
    BY LenProperties DEF FrameInv, TypeInv, GotInv
  <2> DEFINE m == sent[i]
  <2>2. m \in Message
    BY <2>1, ElementOfSeq
  <2> HIDE DEF m
  <2>3. Packed(m) = [head |-> m.head, dType |-> m.dType, body |-> Body(m)]
    BY <2>2, PackedType
  <2>4. TooBig(m.body) => \E n \in Word : Body(m) = SubSeq(m.body, 1, n)
    <3>1. 0 \in Word
      <4>1. Base \in Nat /\ Base >= 2
        BY BaseAssumption DEF BaseAssumption
      <4>2. Base * Base >= Base
        BY <4>1
      <4>. QED
        BY <4>1, <4>2 DEF Word, Limit
    <3>2. SubSeq(m.body, 1, 0) = <<>>
      BY SubSeqEmpty
    <3>. QED
      BY <3>1, <3>2 DEF Body
  <2>5. Conveys(Packed(m), m)
    <3>1. Packed(m).head = m.head /\ Packed(m).dType = m.dType /\ Packed(m).body = Body(m)
      BY <2>3
    <3>2. ~TooBig(m.body) => Body(m) = m.body
      BY DEF Body
    <3>. QED
      BY <2>4, <3>1, <3>2 DEF Conveys
  <2> QED BY <2>1, <2>5 DEF m
<1> QED BY <1>1, FrameInvariance, PTL

\* A Reader that has consumed a stream that was not cut has returned everything.
THEOREM Complete == Spec => []NothingLost
<1>1. FrameInv => NothingLost
  <2> SUFFICES ASSUME FrameInv, ~cut, wire = <<>>, pkg = <<>>, Len(got) # Len(sent)
               PROVE  FALSE
    BY DEF NothingLost
  <2>t. sent \in Seq(Message) /\ Len(sent) \in Nat /\ Len(got) \in Nat /\ Len(got) <= Len(sent)
    BY LenProperties DEF FrameInv, TypeInv, GotInv
  <2>r. PICK r \in Streams : FromFrame(r) /\ Due(r) = <<>> \o <<>>
    BY DEF FrameInv, WireInv
  <2> DEFINE g == Len(got)
             m == sent[g + 1]
  <2>1. g + 1 \in 1 .. Len(sent) /\ g + 2 \in Nat /\ (g + 1) + 1 = g + 2
    BY <2>t
  <2>2. r[g + 1] = Pack(m) \o r[g + 2] /\ r[g + 2] \in Seq(Byte)
    BY <2>r, <2>1 DEF FromFrame, Streams
  <2>3. m \in Message
    BY <2>t, <2>1, ElementOfSeq
  <2>4. <<>> \o <<>> = <<>>
    BY ConcatSimplifications
  <2>5. r[g + 1] = <<>>
    BY <2>r, <2>4 DEF Due
  <2> HIDE DEF m, g
  <2>6. Len(r[g + 1]) >= 5
    BY <2>2, <2>3, HeaderRead
  <2>7. Len(<<>>) = 0
    OBVIOUS
  <2> QED BY <2>5, <2>6, <2>7
<1> QED BY <1>1, FrameInvariance, PTL
=============================================================================
