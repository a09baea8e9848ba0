------------------------------- MODULE Frame -------------------------------
(***************************************************************************)
(* The wire format of a session: pack, which doWrite applies to a message, *)
(* and Reader, which takes messages off the byte stream (network/          *)
(* session.go).  A frame is five header bytes - length, type and head, low *)
(* byte first - and the body.                                              *)
(*                                                                         *)
(* A byte is a digit in base Base, 256 in the code; a small base makes the *)
(* edges of the two-byte length reachable.                                 *)
(***************************************************************************)
EXTENDS Integers, Sequences

CONSTANTS Base,       \* values of a byte
          DTypes,     \* values of the type byte
          Bodies,     \* bodies that are sent
          MaxSent     \* bound: frames sent

ASSUME BaseAssumption == Base \in Nat \ {0, 1}
ASSUME FrameAssumption ==
    /\ DTypes \subseteq 0 .. Base - 1
    /\ Bodies \subseteq Seq(0 .. Base - 1)
    /\ MaxSent \in Nat

Byte  == 0 .. Base - 1
Limit == Base * Base - 1
Word  == 0 .. Limit

VARIABLES
    sent,  \* messages given to pack, in order (history)
    wire,  \* bytes written and not yet read
    pkg,   \* the header Reader has read, when it waits for the body
    got,   \* messages Reader has returned, in order
    cut    \* the stream has ended

vars == <<sent, wire, pkg, got, cut>>

Message == [head : Word, dType : DTypes, body : Seq(Byte)]
-----------------------------------------------------------------------------
(* pack.                                                                   *)
Low(n)  == n % Base
High(n) == (n \div Base) % Base

\* A body longer than two bytes can say is replaced by an empty one, where the
\* comment and the warning speak of a limit.
TooBig(body) == Len(body) > Limit

Body(m) == IF TooBig(m.body) THEN <<>> ELSE m.body

Pack(m) ==
    <<Low(Len(Body(m))), High(Len(Body(m))), m.dType, Low(m.head), High(m.head)>> \o Body(m)
-----------------------------------------------------------------------------
(* Reader.                                                                 *)

WordOf(low, high) == (low + high * Base) % (Base * Base)

Header(b) == [len |-> WordOf(b[1], b[2]), dType |-> b[3], head |-> WordOf(b[4], b[5])]

Drop(s, n) == SubSeq(s, n + 1, Len(s))

Init ==
    /\ sent = <<>>
    /\ wire = <<>>
    /\ pkg = <<>>
    /\ got = <<>>
    /\ cut = FALSE

Write(m) ==
    /\ ~cut
    /\ Len(sent) < MaxSent
    /\ sent' = Append(sent, m)
    /\ wire' = wire \o Pack(m)
    /\ UNCHANGED <<pkg, got, cut>>

\* Mutant: a message without a body is skipped.
ReadHeaderSkipping ==
    /\ pkg = <<>>
    /\ Len(wire) >= 5
    /\ pkg' = IF Header(wire).len = 0 THEN <<>> ELSE <<Header(wire)>>
    /\ wire' = Drop(wire, 5)
    /\ UNCHANGED <<sent, got, cut>>

ReadHeader ==
    /\ pkg = <<>>
    /\ Len(wire) >= 5
    /\ pkg' = <<Header(wire)>>
    /\ wire' = Drop(wire, 5)
    /\ UNCHANGED <<sent, got, cut>>

\* Mutant: a body of which only a part is there is taken for the whole.
ReadBodyShort ==
    /\ pkg # <<>>
    /\ LET h == pkg[1]
           n == IF Len(wire) < h.len THEN Len(wire) ELSE h.len
       IN  /\ got' = Append(got, [head |-> h.head, dType |-> h.dType,
                                  body |-> SubSeq(wire, 1, n)])
           /\ wire' = Drop(wire, n)
    /\ pkg' = <<>>
    /\ UNCHANGED <<sent, cut>>

\* ReadFull waits for the whole body; a body of length 0 is not waited for.
ReadBody ==
    /\ pkg # <<>>
    /\ LET h == pkg[1]
       IN  /\ Len(wire) >= h.len
           /\ got' = Append(got, [head |-> h.head, dType |-> h.dType,
                                  body |-> SubSeq(wire, 1, h.len)])
           /\ wire' = Drop(wire, h.len)
    /\ pkg' = <<>>
    /\ UNCHANGED <<sent, cut>>

\* The stream breaks off anywhere: bytes written are lost from some point on.
Cut ==
    /\ ~cut
    /\ cut' = TRUE
    /\ \E n \in 0 .. Len(wire) : wire' = SubSeq(wire, 1, n)
    /\ UNCHANGED <<sent, pkg, got>>

\* ReadFull fails on a stream that ends too early, and the loop ends.
ReadFails ==
    /\ cut
    /\ wire # <<>> \/ pkg # <<>>
    /\ Len(wire) < (IF pkg = <<>> THEN 5 ELSE pkg[1].len)
    /\ wire' = <<>>
    /\ pkg' = <<>>
    /\ UNCHANGED <<sent, got, cut>>

Next ==
    \/ \E h \in Word, t \in DTypes, b \in Bodies : Write([head |-> h, dType |-> t, body |-> b])
    \/ ReadHeader
    \/ ReadBody
    \/ Cut
    \/ ReadFails

Spec == Init /\ [][Next]_vars
-----------------------------------------------------------------------------
(* Properties.                                                             *)

\* g is what can arrive of message m: its type, its head, and its body, whole if
\* two bytes can say its length and otherwise the beginning of it up to some byte.
\* The comment at session.go:102 has longer bodies limited to 65535 bytes, and
\* pack leaves nothing of them; neither is built in here.
Conveys(g, m) ==
    /\ g.head = m.head /\ g.dType = m.dType
    /\ IF TooBig(m.body) THEN \E n \in Word : g.body = SubSeq(m.body, 1, n)
                         ELSE g.body = m.body

\* Wherever the stream breaks off, Reader returns the messages sent, in order:
\* those whose length can be said are whole, and none is put together from two,
\* also behind one whose body is too long.
PrefixDelivered ==
    /\ Len(got) <= Len(sent)
    /\ \A i \in DOMAIN got : Conveys(got[i], sent[i])

\* Between frames Reader is at the start of a frame: when it has consumed the
\* stream it has returned every message.
NothingLost == ~cut /\ wire = <<>> /\ pkg = <<>> => Len(got) = Len(sent)
=============================================================================
