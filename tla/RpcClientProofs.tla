-------------------------- MODULE RpcClientProofs ---------------------------
(***************************************************************************)
(* Proofs about RpcClient, for all sets of callers and all widths of the   *)
(* session ID: until the IDs wrap each reply finds its own call, a waiting *)
(* call can be woken, and the client implements Calls.                     *)
(***************************************************************************)
EXTENDS RpcClient, TLAPS

\* How far a call has come, whether IDs wrap or not: it is open until it returns,
\* a request has been written, a reply answers one, a Send waits for nothing.
OpenInv     == \A c \in Callers : outcome[c] = "open" <=> at[c] # "returned"
RequestsInv == \A c \in requests : at[c] \in {"wait", "returned"}
RepliesInv  == \A r \in Callers : msg[r] # "none" => r \in requests
SendsInv    == \A c \in Sends : at[c] \notin {"put", "wait"}

\* A channel is registered under the ID of its call, which waits for an answer.
CallRetInv ==
    \A i \in DOMAIN callRet :
        /\ id[callRet[i]] = i
        /\ callRet[i] \notin Sends
        /\ at[callRet[i]] \notin {"idle", "put"}

PathInv == OpenInv /\ RequestsInv /\ RepliesInv /\ SendsInv /\ CallRetInv

\* Until the IDs wrap: the goroutine of the reply to r has the channel of r, is past
\* the send only if r has returned, and waits in it only for an r that gave up or that
\* Close woke.
FoundInv == \A r \in Callers : msg[r] \in {"send", "delete", "close"} => waitRet[r] = {r} /\ r \notin Sends
EndedInv == \A r \in Callers : msg[r] \in {"delete", "close"} => at[r] = "returned"
StuckInv ==
    \A r \in requests \ Sends :
        at[r] = "returned" /\ msg[r] \in {"none", "lookup", "send"} => r \in gaveUp \cup closed
OwnInv   == \A r \in Callers : Answered(r) => outcome[r] = r

\* Channels are closed by the goroutine that has delivered, or by Close.
ClosedInv == sweep = "idle" => \A r \in closed : msg[r] = "done"

WaitInv ==
    \A r \in Callers \ Sends : at[r] \in {"write", "wait"} =>
        \/ r \in closed
        \/ id[r] \in DOMAIN callRet /\ callRet[id[r]] = r

MatchInv == FoundInv /\ EndedInv /\ StuckInv /\ OwnInv /\ ClosedInv /\ WaitInv

PanicInv == panic \in {"send waitRet", "close waitRet"} => sweep # "idle"

ClientInv ==
    /\ TypeOK
    /\ PathInv
    /\ NoWrap => MatchInv /\ PanicInv
-----------------------------------------------------------------------------
(* Types.                                                                  *)

LEMMA NumInIds == ASSUME NEW n \in Nat PROVE n % IdSpace \in Ids
  BY CallAssumption, SMT DEF Ids

LEMMA TypeInit == Init => TypeOK
  BY CallAssumption DEF Init, TypeOK, Ids, CallerPcs, MessagePcs

Outcomes == Callers \cup {"open", "nil"}

LEMMA OutcomeAfter ==
  ASSUME NEW c \in Callers, NEW o \in Callers \cup {"nil"}, TypeOK
  PROVE  [outcome EXCEPT ![c] = o] \in [Callers -> Outcomes]
<1>1. outcome \in [Callers -> Outcomes]
  BY DEF TypeOK, Outcomes
<1>2. o \in Outcomes
  BY DEF Outcomes
<1> QED BY <1>1, <1>2

\* What a call returns.
LEMMA OutcomeStep == TypeOK /\ [Next]_vars => outcome' \in [Callers -> Outcomes]
<1> SUFFICES ASSUME TypeOK, [Next]_vars, outcome' # outcome
             PROVE  outcome' \in [Callers -> Outcomes]
  BY DEF TypeOK, Outcomes
<1>1. \E c \in Callers : \E o \in Callers \cup {"nil"} : outcome' = [outcome EXCEPT ![c] = o]
  <2>1. PICK c \in Callers : Call(c) \/ Reply(c) \/ Message(c)
    BY DEF Next, vars, callerVars, Connect, Heartbeat, SessionEnds, Close, SweepBegin, SweepEntry,
           SweepEnd, Release
  <2>2. CASE Begin(c) \/ WaitClosed(c) \/ WaitTimeout(c)
    BY <2>2 DEF Begin, WaitClosed, WaitTimeout
  <2>3. CASE Write(c)
    <3>1. outcome' = [outcome EXCEPT ![c] = IF c \in Sends THEN "nil" ELSE outcome[c]]
      BY <2>3 DEF Write, AfterWrite
    <3>2. [outcome EXCEPT ![c] = outcome[c]] = outcome
      BY DEF TypeOK
    <3> QED BY <3>1, <3>2
  <2>4. CASE Deliver(c)
    BY <2>4 DEF Deliver, TypeOK
  <2>5. CASE Register(c) \/ Reply(c) \/ Lookup(c) \/ DeliverPanics(c) \/ Remove(c) \/ CloseWaitRet(c)
    BY <2>5 DEF Register, Reply, Lookup, DeliverPanics, Remove, CloseWaitRet, callerVars
  <2> QED BY <2>1, <2>2, <2>3, <2>4, <2>5 DEF Call, Message
<1> QED BY <1>1, OutcomeAfter

LEMMA NumStep == TypeOK /\ [Next]_vars => num' \in Ids /\ beats' \in 0 .. MaxBeats
<1> SUFFICES ASSUME TypeOK, [Next]_vars PROVE num' \in Ids /\ beats' \in 0 .. MaxBeats
  OBVIOUS
<1>1. num \in Ids /\ beats \in 0 .. MaxBeats
  BY DEF TypeOK
<1>2. MaxBeats \in Nat /\ IdSpace \in Nat \ {0}
  BY CallAssumption
<1>3. GetNum \in Ids
  <2>1. num + 1 \in Nat
    BY <1>1, <1>2 DEF Ids
  <2> QED BY <2>1, NumInIds DEF GetNum
<1>4. num' \in {num, GetNum}
  BY DEF Next, vars, callerVars, messageVars, mapVars, Connect, Heartbeat, SessionEnds, Close,
         SweepBegin, SweepEntry, SweepEnd, Release, Call, Message, Begin, Register, Write,
         WaitClosed, WaitTimeout, Reply, Lookup, Deliver, DeliverPanics, Remove, CloseWaitRet
<1>5. beats' = beats \/ (beats < MaxBeats /\ beats' = beats + 1)
  <2>1. CASE Heartbeat
    BY <2>1 DEF Heartbeat
  <2>2. ASSUME ~Heartbeat PROVE beats' = beats
    BY <2>2 DEF Next, vars, callerVars, messageVars, mapVars, Connect, SessionEnds, Close,
         SweepBegin, SweepEntry, SweepEnd, Release, Call, Message, Begin, Register, Write,
         WaitClosed, WaitTimeout, Reply, Lookup, Deliver, DeliverPanics, Remove, CloseWaitRet
  <2> QED BY <2>1, <2>2
<1>6. num' \in Ids
  BY <1>1, <1>3, <1>4
<1>7. beats' \in 0 .. MaxBeats
  BY <1>1, <1>2, <1>5
<1> QED BY <1>6, <1>7

\* What the other variables can be.
RestOK ==
    /\ session \in {"none", "working", "ended", "released"}
    /\ at \in [Callers -> CallerPcs]
    /\ id \in [Callers -> Ids]
    /\ gaveUp \subseteq Callers
    /\ DOMAIN callRet \subseteq Ids
    /\ \A i \in DOMAIN callRet : callRet[i] \in Callers
    /\ closed \subseteq Callers
    /\ requests \subseteq Callers
    /\ msg \in [Callers -> MessagePcs]
    /\ waitRet \in [Callers -> SUBSET Callers]
    /\ sweep \in {"idle", "sweeping", "done"}
    /\ panic \in {"none", "nil session", "send outData",
                  "send waitRet", "close waitRet"}

LEMMA RestStep == RestOK /\ num' \in Ids /\ [Next]_vars => RestOK'
<1> SUFFICES ASSUME RestOK, num' \in Ids, [Next]_vars PROVE RestOK'
  OBVIOUS
<1> USE DEF RestOK
<1>1. CASE UNCHANGED vars
  BY <1>1 DEF vars, callerVars, mapVars, messageVars
<1>2. CASE Connect \/ Heartbeat \/ SessionEnds \/ Release \/ SweepBegin \/ SweepEnd
  BY <1>2 DEF Connect, Heartbeat, SessionEnds, Release, SweepBegin, SweepEnd, callerVars, mapVars,
              messageVars
<1>3. CASE SweepEntry
  BY <1>3 DEF SweepEntry, Delete, callerVars, messageVars
<1>4. ASSUME NEW c \in Callers, Call(c) PROVE RestOK'
  <2>1. CASE Begin(c)
    <3>1. id' = id \/ id' = [id EXCEPT ![c] = num']
      BY <2>1 DEF Begin
    <3>2. id' \in [Callers -> Ids]
      BY <3>1
    <3> QED BY <2>1, <3>2 DEF Begin, CallerPcs, mapVars, messageVars
  <2>2. CASE Register(c)
    BY <2>2 DEF Register, Put, CallerPcs, messageVars
  <2>3. CASE Write(c)
    BY <2>3 DEF Write, AfterWrite, CallerPcs, mapVars, messageVars
  <2>4. CASE WaitClosed(c) \/ WaitTimeout(c)
    BY <2>4 DEF WaitClosed, WaitTimeout, CallerPcs, mapVars, messageVars
  <2> QED BY <1>4, <2>1, <2>2, <2>3, <2>4 DEF Call
<1>5. ASSUME NEW r \in Callers, Reply(r) \/ Message(r) PROVE RestOK'
  <2>1. CASE Reply(r)
    BY <2>1 DEF Reply, MessagePcs, callerVars, mapVars
  <2>2. CASE Lookup(r)
    <3>1. waitRet' \in [Callers -> SUBSET Callers]
      <4>1. CASE waitRet' # waitRet
        <5>1. PICK d \in Callers : waitRet' = [waitRet EXCEPT ![r] = {d}]
          BY <2>2, <4>1 DEF Lookup
        <5>2. {d} \in SUBSET Callers
          OBVIOUS
        <5> QED BY <5>1, <5>2
      <4> QED BY <4>1
    <3>2. msg' \in [Callers -> MessagePcs]
      BY <2>2 DEF Lookup, MessagePcs
    <3> QED BY <2>2, <3>1, <3>2 DEF Lookup, callerVars, mapVars
  <2>3. CASE Deliver(r)
    BY <2>3 DEF Deliver, MessagePcs, CallerPcs, mapVars
  <2>4. CASE DeliverPanics(r)
    BY <2>4 DEF DeliverPanics, callerVars, mapVars, messageVars
  <2>5. CASE Remove(r)
    BY <2>5 DEF Remove, Delete, MessagePcs, callerVars
  <2>6. CASE CloseWaitRet(r)
    BY <2>6 DEF CloseWaitRet, MessagePcs, callerVars
  <2> QED BY <1>5, <2>1, <2>2, <2>3, <2>4, <2>5, <2>6 DEF Message
<1> QED BY <1>1, <1>2, <1>3, <1>4, <1>5 DEF Next, Close

\* Every step keeps the types.
LEMMA TypeStep == TypeOK /\ [Next]_vars => TypeOK'
<1> SUFFICES ASSUME TypeOK, [Next]_vars PROVE TypeOK'
  OBVIOUS
<1>1. RestOK
  BY DEF TypeOK, RestOK
<1>2. RestOK'
  BY <1>1, NumStep, RestStep
<1> QED BY <1>2, NumStep, OutcomeStep DEF TypeOK, RestOK, Outcomes
-----------------------------------------------------------------------------
(* The invariant.                                                          *)

\* The variables that are functions.
Fns ==
    /\ at \in [Callers -> CallerPcs]
    /\ id \in [Callers -> Ids]
    /\ outcome \in [Callers -> Outcomes]
    /\ msg \in [Callers -> MessagePcs]
    /\ waitRet \in [Callers -> SUBSET Callers]
    /\ requests \subseteq Callers
    /\ \A i \in DOMAIN callRet : callRet[i] \in Callers

LEMMA TypeFns == TypeOK => Fns
  BY DEF TypeOK, Fns, Outcomes

\* A call keeps its ID.
LEMMA IdStep ==
  ASSUME TypeOK, [Next]_vars, NEW c \in Callers, at[c] # "idle"
  PROVE  at'[c] # "idle" /\ id'[c] = id[c]
<1> Fns
  BY TypeFns
<1> USE DEF Fns
<1>1. CASE \E d \in Callers : Call(d)
  BY <1>1, ZenonT(40) DEF Call, Begin, Register, Write, AfterWrite, WaitClosed, WaitTimeout
<1>2. CASE ~ \E d \in Callers : Call(d)
  BY <1>2 DEF Next, vars, callerVars, Connect, Heartbeat, SessionEnds, Close, SweepBegin,
              SweepEntry, SweepEnd, Release, Reply, Message, Lookup, Deliver, DeliverPanics,
              Remove, CloseWaitRet
<1> QED BY <1>1, <1>2

LEMMA WrapStep == TypeOK /\ [Next]_vars /\ NoWrap' => NoWrap
  BY IdStep DEF NoWrap

LEMMA InvInit == Init => ClientInv
<1> SUFFICES ASSUME Init PROVE PathInv /\ MatchInv /\ PanicInv
  BY TypeInit DEF ClientInv
<1>1. PathInv
  BY CallAssumption DEF Init, PathInv, OpenInv, RequestsInv, RepliesInv, SendsInv, CallRetInv
<1>2. MatchInv
  BY CallAssumption DEF Init, MatchInv, FoundInv, EndedInv, StuckInv, OwnInv, ClosedInv, WaitInv, Answered
<1>3. PanicInv
  BY DEF Init, PanicInv
<1> QED BY <1>1, <1>2, <1>3

\* What the steps of the connection, of Close and of Message leave alone.
LEMMA CallsAlone ==
  ASSUME [Next]_vars, ~ \E c \in Callers : Call(c) \/ Deliver(c)
  PROVE  UNCHANGED <<at, id, outcome, requests>>
  BY DEF Next, vars, callerVars, Connect, Heartbeat, SessionEnds, Close, SweepBegin,
         SweepEntry, SweepEnd, Release, Reply, Message, Lookup, DeliverPanics, Remove,
         CloseWaitRet

LEMMA OpenStep == TypeOK /\ OpenInv /\ [Next]_vars => OpenInv'
<1> SUFFICES ASSUME TypeOK, OpenInv, [Next]_vars, NEW c \in Callers
             PROVE  (outcome[c] = "open" <=> at[c] # "returned")'
  BY DEF OpenInv
<1>t. at \in [Callers -> CallerPcs] /\ outcome \in [Callers -> Outcomes]
  BY DEF TypeOK, Outcomes
<1>o. outcome[c] = "open" <=> at[c] # "returned"
  BY DEF OpenInv
<1>1. CASE \E d \in Callers : Begin(d) \/ WaitClosed(d) \/ WaitTimeout(d)
  BY <1>1, <1>t, <1>o DEF Begin, WaitClosed, WaitTimeout
<1>2. CASE \E d \in Callers : Register(d) \/ Write(d)
  BY <1>2, <1>t, <1>o DEF Register, Write, AfterWrite
<1>3. CASE \E d \in Callers : Deliver(d)
  <2>p. PICK r \in Callers : Deliver(r)
    BY <1>3
  <2>1. PICK d \in Callers : /\ at' = [at EXCEPT ![d] = "returned"]
                             /\ outcome' = [outcome EXCEPT ![d] = r]
    <3>1. waitRet[r] \subseteq Callers
      BY DEF TypeOK
    <3> QED BY <2>p, <3>1 DEF Deliver
  <2>2. r # "open"
    BY CallAssumption
  <2> QED BY <2>1, <2>2, <1>t, <1>o
<1>4. CASE ~ \E d \in Callers : Call(d) \/ Deliver(d)
  BY <1>4, <1>o, CallsAlone
<1> QED BY <1>1, <1>2, <1>3, <1>4 DEF Call

LEMMA RequestsStep == TypeOK /\ RequestsInv /\ [Next]_vars => RequestsInv'
<1> SUFFICES ASSUME TypeOK, RequestsInv, [Next]_vars PROVE RequestsInv'
  OBVIOUS
<1>t. at \in [Callers -> CallerPcs] /\ requests \subseteq Callers
  BY DEF TypeOK
<1>1. CASE \E d \in Callers : Call(d) \/ Deliver(d)
  BY <1>1, <1>t, ZenonT(40) DEF RequestsInv, Call, Begin, Register, Write, AfterWrite, WaitClosed,
                    WaitTimeout, Deliver, mapVars
<1>2. CASE ~ \E d \in Callers : Call(d) \/ Deliver(d)
  BY <1>2, CallsAlone DEF RequestsInv
<1> QED BY <1>1, <1>2

LEMMA RepliesStep == TypeOK /\ RepliesInv /\ [Next]_vars => RepliesInv'
<1> SUFFICES ASSUME TypeOK, RepliesInv, [Next]_vars PROVE RepliesInv'
  OBVIOUS
<1>t. msg \in [Callers -> MessagePcs]
  BY DEF TypeOK
<1>1. CASE \E d \in Callers : Call(d)
  BY <1>1, <1>t DEF RepliesInv, Call, Begin, Register, Write, WaitClosed, WaitTimeout, messageVars
<1>2. CASE \E d \in Callers : Reply(d) \/ Message(d)
  BY <1>2, <1>t DEF RepliesInv, Reply, Message, Lookup, Deliver, DeliverPanics, Remove, CloseWaitRet,
                    messageVars
<1>3. CASE ~ \E d \in Callers : Call(d) \/ Reply(d) \/ Message(d)
  BY <1>3 DEF RepliesInv, Next, vars, Connect, Heartbeat, SessionEnds, Close, SweepBegin, SweepEntry,
              SweepEnd, Release, messageVars
<1> QED BY <1>1, <1>2, <1>3

LEMMA SendsStep == TypeOK /\ SendsInv /\ [Next]_vars => SendsInv'
<1> SUFFICES ASSUME TypeOK, SendsInv, [Next]_vars PROVE SendsInv'
  OBVIOUS
<1>t. at \in [Callers -> CallerPcs] /\ Sends \subseteq Callers
  BY CallAssumption DEF TypeOK
<1>1. CASE \E d \in Callers : Call(d) \/ Deliver(d)
  BY <1>1, <1>t DEF SendsInv, Call, Begin, Register, Write, AfterWrite, WaitClosed,
                    WaitTimeout, Deliver
<1>2. CASE ~ \E d \in Callers : Call(d) \/ Deliver(d)
  BY <1>2, CallsAlone DEF SendsInv
<1> QED BY <1>1, <1>2

LEMMA CallRetStep == TypeOK /\ SendsInv /\ CallRetInv /\ [Next]_vars => CallRetInv'
<1> SUFFICES ASSUME TypeOK, SendsInv, CallRetInv, [Next]_vars PROVE CallRetInv'
  OBVIOUS
<1>t. at \in [Callers -> CallerPcs] /\ \A i \in DOMAIN callRet : callRet[i] \in Callers
  BY DEF TypeOK
<1>k. \A c \in Callers : at[c] \notin {"idle", "put"} =>
           at'[c] \notin {"idle", "put"} /\ id'[c] = id[c]
  <2> SUFFICES ASSUME NEW c \in Callers, at[c] \notin {"idle", "put"}
               PROVE  at'[c] # "put" /\ at'[c] # "idle" /\ id'[c] = id[c]
    OBVIOUS
  <2>1. at'[c] # "idle" /\ id'[c] = id[c]
    BY IdStep
  <2>2. at'[c] # "put"
    <3>1. CASE \E d \in Callers : Call(d) \/ Deliver(d)
      BY <3>1, <1>t DEF Call, Begin, Register, Write, AfterWrite, WaitClosed, WaitTimeout, Deliver
    <3>2. CASE ~ \E d \in Callers : Call(d) \/ Deliver(d)
      BY <3>2, CallsAlone
    <3> QED BY <3>1, <3>2
  <2> QED BY <2>1, <2>2
<1>1. CASE \E c \in Callers : Register(c)
  BY <1>1, <1>t DEF CallRetInv, SendsInv, Register, Put
<1>2. CASE ~ \E c \in Callers : Register(c)
  <2>1. \A i \in DOMAIN callRet' : i \in DOMAIN callRet /\ callRet'[i] = callRet[i]
    BY <1>2, ZenonT(40) DEF Next, vars, Call, Begin, Write, WaitClosed, WaitTimeout, Reply, Message,
                Lookup, Deliver, DeliverPanics, Remove, CloseWaitRet, Connect, Heartbeat,
                SessionEnds, Close, SweepBegin, SweepEntry, SweepEnd, Release, Delete, mapVars
  <2> QED BY <2>1, <1>t, <1>k DEF CallRetInv
<1> QED BY <1>1, <1>2

LEMMA PathStep == TypeOK /\ PathInv /\ [Next]_vars => PathInv'
  BY OpenStep, RequestsStep, RepliesStep, SendsStep, CallRetStep DEF PathInv
-----------------------------------------------------------------------------
(* The reply to each request, while the IDs do not wrap.                   *)

LEMMA FoundStep ==
  ASSUME TypeOK, PathInv, FoundInv, NoWrap, [Next]_vars
  PROVE  FoundInv'
<1>t. msg \in [Callers -> MessagePcs] /\ waitRet \in [Callers -> SUBSET Callers]
  BY DEF TypeOK
<1>1. CASE \E r \in Callers : Lookup(r)
  <2>1. PICK r \in Callers : Lookup(r)
    BY <1>1
  <2>2. ASSUME id[r] \in DOMAIN callRet
        PROVE  callRet[id[r]] = r /\ r \notin Sends
    <3> DEFINE c == callRet[id[r]]
    <3>1. c \in Callers
      BY <2>2 DEF TypeOK
    <3>2. id[c] = id[r] /\ c \notin Sends /\ at[c] # "idle"
      BY <2>2 DEF PathInv, CallRetInv
    <3>3. at[r] # "idle"
      BY <2>1 DEF Lookup, PathInv, RepliesInv, RequestsInv
    <3> QED BY <3>1, <3>2, <3>3 DEF NoWrap
  <2> QED BY <2>1, <2>2, <1>t DEF FoundInv, Lookup
<1>2. CASE \E r \in Callers : Reply(r) \/ Deliver(r) \/ DeliverPanics(r) \/ Remove(r) \/ CloseWaitRet(r)
  BY <1>2, <1>t DEF FoundInv, Reply, Deliver, DeliverPanics, Remove, CloseWaitRet, messageVars
<1>3. CASE ~ \E r \in Callers : Reply(r) \/ Message(r)
  <2>1. UNCHANGED messageVars
    BY <1>3 DEF Next, vars, Call, Begin, Register, Write, WaitClosed, WaitTimeout, Connect,
                Heartbeat, SessionEnds, Close, SweepBegin, SweepEntry, SweepEnd, Release
  <2> QED BY <2>1 DEF FoundInv, messageVars
<1> QED BY <1>1, <1>2, <1>3 DEF Message

LEMMA EndedStep ==
  ASSUME TypeOK, FoundInv, EndedInv, [Next]_vars
  PROVE  EndedInv'
<1>t. msg \in [Callers -> MessagePcs] /\ at \in [Callers -> CallerPcs]
  BY DEF TypeOK
<1>1. CASE \E r \in Callers : Deliver(r)
  <2>1. PICK r \in Callers : Deliver(r)
    BY <1>1
  <2>2. waitRet[r] = {r}
    BY <2>1 DEF Deliver, FoundInv
  <2>3. at' = [at EXCEPT ![r] = "returned"]
    BY <2>1, <2>2 DEF Deliver
  <2> QED BY <2>1, <2>3, <1>t DEF EndedInv, Deliver
<1>2. CASE \E r \in Callers : Call(r)
  BY <1>2, <1>t DEF EndedInv, Call, Begin, Register, Write, AfterWrite, WaitClosed, WaitTimeout, messageVars
<1>3. CASE \E r \in Callers : Reply(r) \/ Lookup(r) \/ DeliverPanics(r) \/ Remove(r) \/ CloseWaitRet(r)
  BY <1>3, <1>t DEF EndedInv, Reply, Lookup, DeliverPanics, Remove, CloseWaitRet, messageVars, callerVars
<1>4. CASE ~ \E r \in Callers : Call(r) \/ Reply(r) \/ Message(r)
  BY <1>4 DEF EndedInv, Next, vars, Connect, Heartbeat, SessionEnds, Close, SweepBegin, SweepEntry,
              SweepEnd, Release, messageVars, callerVars
<1> QED BY <1>1, <1>2, <1>3, <1>4 DEF Message

LEMMA StuckStep ==
  ASSUME TypeOK, PathInv, FoundInv, StuckInv, [Next]_vars
  PROVE  StuckInv'
<1>t. msg \in [Callers -> MessagePcs] /\ at \in [Callers -> CallerPcs] /\ requests \subseteq Callers
  BY DEF TypeOK
<1>1. CASE \E r \in Callers : Deliver(r)
  <2>1. PICK r \in Callers : Deliver(r)
    BY <1>1
  <2>2. waitRet[r] = {r}
    BY <2>1 DEF Deliver, FoundInv
  <2>3. at' = [at EXCEPT ![r] = "returned"]
    BY <2>1, <2>2 DEF Deliver
  <2> QED BY <2>1, <2>3, <1>t DEF StuckInv, Deliver, mapVars
<1>2. CASE \E r \in Callers : Begin(r) \/ Register(r)
  <2>1. PICK r \in Callers : Begin(r) \/ Register(r)
    BY <1>2
  <2>2. r \notin requests
    BY <2>1 DEF Begin, Register, PathInv, RequestsInv
  <2>3. UNCHANGED <<gaveUp, closed, msg, requests>> /\ \A c \in Callers \ {r} : at'[c] = at[c]
    BY <2>1, <1>t DEF Begin, Register, mapVars, messageVars
  <2> QED BY <2>2, <2>3, <1>t DEF StuckInv
<1>3. CASE \E r \in Callers : Write(r)
  <2>1. PICK r \in Callers : Write(r)
    BY <1>3
  <2>2. r \notin requests
    BY <2>1 DEF Write, PathInv, RequestsInv
  <2>3. /\ UNCHANGED <<gaveUp, closed, msg>>
        /\ \A c \in Callers \ {r} : at'[c] = at[c]
        /\ r \notin Sends => at'[r] # "returned"
        /\ requests' \subseteq requests \cup {r}
    BY <2>1, <1>t DEF Write, AfterWrite, mapVars, messageVars
  <2> QED BY <2>2, <2>3, <1>t DEF StuckInv
<1>4. CASE \E r \in Callers : WaitClosed(r) \/ WaitTimeout(r)
  BY <1>4, <1>t DEF StuckInv, WaitClosed, WaitTimeout, mapVars, messageVars
<1>5. CASE \E r \in Callers : Reply(r) \/ DeliverPanics(r) \/ Remove(r) \/ CloseWaitRet(r)
  BY <1>5, <1>t DEF StuckInv, Reply, DeliverPanics, Remove, CloseWaitRet, messageVars, callerVars, mapVars
<1>6. CASE \E r \in Callers : Lookup(r)
  BY <1>6, <1>t DEF StuckInv, Lookup, callerVars, mapVars
<1>7. CASE ~ \E r \in Callers : Call(r) \/ Reply(r) \/ Message(r)
  <2>1. UNCHANGED <<msg, at, gaveUp, requests>> /\ closed \subseteq closed'
    BY <1>7 DEF Next, vars, Connect, Heartbeat, SessionEnds, Close, SweepBegin, SweepEntry,
              SweepEnd, Release, messageVars, callerVars, mapVars
  <2> QED BY <2>1 DEF StuckInv
<1> QED BY <1>1, <1>2, <1>3, <1>4, <1>5, <1>6, <1>7 DEF Message, Call

\* The outcome of a call changes once, to nil or to the answer it was sent.
LEMMA OwnStep ==
  ASSUME TypeOK, FoundInv, OwnInv, [Next]_vars
  PROVE  OwnInv'
<1>t. outcome \in [Callers -> Outcomes]
  BY DEF TypeOK, Outcomes
<1>1. CASE \E r \in Callers : Deliver(r)
  <2>1. PICK r \in Callers : Deliver(r)
    BY <1>1
  <2>2. waitRet[r] = {r}
    BY <2>1 DEF Deliver, FoundInv
  <2>3. outcome' = [outcome EXCEPT ![r] = r]
    BY <2>1, <2>2 DEF Deliver
  <2> QED BY <2>3, <1>t DEF OwnInv, Answered
<1>2. CASE \E r \in Callers : Begin(r) \/ WaitClosed(r) \/ WaitTimeout(r)
  <2>1. PICK r \in Callers : outcome' \in {outcome, [outcome EXCEPT ![r] = "nil"]}
    BY <1>2 DEF Begin, WaitClosed, WaitTimeout
  <2> QED BY <2>1, <1>t DEF OwnInv, Answered
<1>3. CASE \E r \in Callers : Register(r) \/ Write(r)
  BY <1>3, <1>t DEF OwnInv, Answered, Register, Write, AfterWrite
<1>4. CASE ~ \E r \in Callers : Call(r) \/ Deliver(r)
  BY <1>4, CallsAlone DEF OwnInv, Answered
<1> QED BY <1>1, <1>2, <1>3, <1>4 DEF Call

LEMMA ClosedStep ==
  ASSUME TypeOK, FoundInv, ClosedInv, [Next]_vars
  PROVE  ClosedInv'
<1>t. msg \in [Callers -> MessagePcs] /\ closed \subseteq Callers
  BY DEF TypeOK
<1>1. CASE \E r \in Callers : CloseWaitRet(r)
  <2>1. PICK r \in Callers : CloseWaitRet(r)
    BY <1>1
  <2>2. waitRet[r] = {r}
    BY <2>1 DEF CloseWaitRet, FoundInv
  <2> QED BY <2>1, <2>2, <1>t DEF ClosedInv, CloseWaitRet
<1>2. CASE \E r \in Callers : Call(r)
  BY <1>2 DEF ClosedInv, Call, Begin, Register, Write, WaitClosed, WaitTimeout, mapVars, messageVars
<1>3. CASE \E r \in Callers : Reply(r) \/ Lookup(r) \/ Deliver(r) \/ DeliverPanics(r) \/ Remove(r)
  BY <1>3, <1>t DEF ClosedInv, Reply, Lookup, Deliver, DeliverPanics, Remove, mapVars, messageVars
<1>4. CASE Connect \/ Heartbeat \/ SessionEnds \/ Close \/ Release \/ UNCHANGED vars
  BY <1>4 DEF ClosedInv, vars, Connect, Heartbeat, SessionEnds, Close, SweepBegin, SweepEntry,
              SweepEnd, Release, mapVars, messageVars
<1> QED BY <1>1, <1>2, <1>3, <1>4 DEF Next, Message
\* A registered call stays so until its own reply or Close takes it off.
LEMMA WaitStep ==
  ASSUME TypeOK, PathInv, FoundInv, EndedInv, WaitInv, NoWrap, [Next]_vars
  PROVE  WaitInv'
<1> SUFFICES ASSUME NEW c \in Callers \ Sends, at'[c] \in {"write", "wait"}
             PROVE  c \in closed' \/ (id'[c] \in DOMAIN callRet' /\ callRet'[id'[c]] = c)
  BY DEF WaitInv
<1>t. at \in [Callers -> CallerPcs]
  BY DEF TypeOK
<1>c. closed \subseteq closed'
  BY DEF Next, vars, Call, Begin, Register, Write, WaitClosed, WaitTimeout, Reply, Message,
         Lookup, Deliver, DeliverPanics, Remove, CloseWaitRet, Connect, Heartbeat,
         SessionEnds, Close, SweepBegin, SweepEntry, SweepEnd, Release, mapVars
<1>1. CASE Register(c)
  BY <1>1, <1>t DEF Register, Put
<1>2. CASE ~Register(c)
  <2>1. at[c] \in {"write", "wait"}
    <3>1. CASE \E d \in Callers : Call(d)
      BY <3>1, <1>2, <1>t DEF Call, Begin, Register, Write, AfterWrite, WaitClosed, WaitTimeout
    <3>2. CASE \E r \in Callers : Deliver(r)
      BY <3>2, <1>t DEF Deliver
    <3>3. CASE ~ \E r \in Callers : Call(r) \/ Deliver(r)
      BY <3>3, CallsAlone
    <3> QED BY <3>1, <3>2, <3>3
  <2>2. id'[c] = id[c]
    BY <2>1, IdStep
  <2>3. CASE c \in closed
    BY <2>3, <1>c
  <2>4. ASSUME id[c] \in DOMAIN callRet, callRet[id[c]] = c
        PROVE  c \in closed' \/ (id[c] \in DOMAIN callRet' /\ callRet'[id[c]] = c)
    <3>1. CASE \E d \in Callers : Register(d)
      <4>1. PICK d \in Callers : Register(d)
        BY <3>1
      <4>2. id[d] # id[c]
        BY <4>1, <2>1, <1>2 DEF Register, NoWrap
      <4> QED BY <4>1, <4>2, <2>4 DEF Register, Put
    <3>2. CASE \E r \in Callers : Remove(r)
      <4>1. PICK r \in Callers : Remove(r)
        BY <3>2
      <4>2. at[r] = "returned"
        BY <4>1 DEF Remove, EndedInv
      <4>3. id[r] # id[c]
        BY <4>2, <2>1 DEF NoWrap
      <4> QED BY <4>1, <4>3, <2>4 DEF Remove, Delete
    <3>3. CASE SweepEntry
      BY <3>3, <2>4, <1>c, ZenonT(40) DEF SweepEntry, Delete
    <3>4. CASE ~SweepEntry /\ ~ \E r \in Callers : Register(r) \/ Remove(r)
      BY <3>4, <2>4 DEF Next, vars, Call, Begin, Write, WaitClosed, WaitTimeout, Reply, Message,
         Lookup, Deliver, DeliverPanics, CloseWaitRet, Connect, Heartbeat,
         SessionEnds, Close, SweepBegin, SweepEnd, Release, mapVars
    <3> QED BY <3>1, <3>2, <3>3, <3>4
  <2> QED BY <2>1, <2>2, <2>3, <2>4 DEF WaitInv
<1> QED BY <1>1, <1>2

\* Two parties meet on a waitRet channel only if Close is one of them.
LEMMA PanicStep ==
  ASSUME TypeOK, FoundInv, ClosedInv, PanicInv, [Next]_vars
  PROVE  PanicInv'
<1>1. CASE \E r \in Callers : DeliverPanics(r) \/ CloseWaitRet(r)
  <2>1. PICK r \in Callers : DeliverPanics(r) \/ CloseWaitRet(r)
    BY <1>1
  <2>2. msg[r] \in {"send", "close"} /\ waitRet[r] = {r}
    BY <2>1 DEF DeliverPanics, CloseWaitRet, FoundInv
  <2>3. r \in closed => sweep # "idle"
    BY <2>2 DEF ClosedInv
  <2> QED BY <2>1, <2>2, <2>3 DEF DeliverPanics, CloseWaitRet, PanicInv, Running
<1>2. CASE \E r \in Callers : Call(r) \/ Reply(r) \/ Lookup(r) \/ Deliver(r) \/ Remove(r)
  BY <1>2 DEF PanicInv, Call, Begin, Register, Write, WaitClosed, WaitTimeout, Reply, Lookup,
              Deliver, Remove
<1>3. CASE Connect \/ Heartbeat \/ SessionEnds \/ Close \/ Release \/ UNCHANGED vars
  BY <1>3 DEF PanicInv, vars, Connect, Heartbeat, SessionEnds, Close, SweepBegin, SweepEntry,
              SweepEnd, Release
<1> QED BY <1>1, <1>2, <1>3 DEF Next, Message

LEMMA InvStep == ClientInv /\ [Next]_vars => ClientInv'
<1> SUFFICES ASSUME ClientInv, [Next]_vars PROVE ClientInv'
  OBVIOUS
<1>1. TypeOK' /\ PathInv'
  BY TypeStep, PathStep DEF ClientInv
<1>2. ASSUME NoWrap' PROVE MatchInv' /\ PanicInv'
  <2>1. NoWrap
    BY <1>2, WrapStep DEF ClientInv
  <2>2. TypeOK /\ PathInv /\ MatchInv /\ PanicInv
    BY <2>1 DEF ClientInv
  <2> QED BY <2>1, <2>2, FoundStep, EndedStep, StuckStep, OwnStep, ClosedStep, WaitStep, PanicStep
          DEF MatchInv
<1> QED BY <1>1, <1>2 DEF ClientInv
-----------------------------------------------------------------------------
(* Theorems.                                                               *)

\* The invariant behind the rest: how far each call and each reply has come, and,
\* until the session IDs wrap, that a reply has the channel of its own call.
THEOREM ClientInvariance == Spec => []ClientInv
<1> QED BY InvInit, InvStep, PTL DEF Spec

\* The variables of rpc.Client keep their types.
THEOREM TypeCorrect == Spec => []TypeOK
<1>1. ClientInv => TypeOK
  BY DEF ClientInv
<1> QED BY <1>1, ClientInvariance, PTL

\* Until the session IDs wrap Client.Call returns the reply to its own request.
THEOREM OwnReply == Spec => []OwnAnswer
<1>1. ClientInv => OwnAnswer
  BY DEF ClientInv, OwnAnswer, MatchInv, OwnInv
<1> QED BY <1>1, ClientInvariance, PTL

\* Until they wrap a call that waits is registered under its ID or its channel
\* is closed, so its reply or Close can wake it.
THEOREM Reachable == Spec => []WaiterReachable
<1>1. ClientInv => WaiterReachable
  BY DEF ClientInv, WaiterReachable, MatchInv, WaitInv
<1> QED BY <1>1, ClientInvariance, PTL

\* Until they wrap Message blocks for ever only on a call that timed out or that
\* Close woke.
THEOREM StuckSource == Spec => []StuckOnlyAfterTimeout
<1>1. ClientInv => StuckOnlyAfterTimeout
  <2> SUFFICES ASSUME ClientInv, NoWrap, NEW r \in Callers, NEW c \in waitRet[r],
                      msg[r] = "send", at[c] = "returned"
               PROVE  c \in gaveUp \cup closed
    BY DEF StuckOnlyAfterTimeout
  <2>1. waitRet[r] = {r} /\ r \notin Sends
    BY DEF ClientInv, MatchInv, FoundInv
  <2>2. r \in requests
    BY DEF ClientInv, PathInv, RepliesInv
  <2> QED BY <2>1, <2>2 DEF ClientInv, MatchInv, StuckInv
<1> QED BY <1>1, ClientInvariance, PTL

\* Until they wrap a panic on a waitRet channel takes Client.Close.
THEOREM WaitRetPanics == Spec => []WaitRetPanicsNeedClose
<1>1. ClientInv => WaitRetPanicsNeedClose
  BY DEF ClientInv, PanicInv, WaitRetPanicsNeedClose
<1> QED BY <1>1, ClientInvariance, PTL

\* Until they wrap the client implements Calls: each call ends once, with the
\* answer to its own request or with nil.
THEOREM ClientIsCalls == Spec => ImplementsCalls
<1> DEFINE Asks   == Callers \ Sends
           Opened == requests \ Sends
           Run    == {c \in Asks : msg[c] # "none"}
           Result == [c \in Asks |-> outcome[c]]
           Same   == UNCHANGED <<Opened, Run, Result>>
           Promised == (\E c \in Asks : C!Request(c) \/ C!Execute(c) \/ C!Return(c) \/ C!GiveUp(c)) \/ Same
<1>1. Init => C!CallInit
  BY DEF Init, C!CallInit
<1>2. ASSUME ClientInv, [Next]_vars, NoWrap'
      PROVE  C!CallNext \/ UNCHANGED C!callVars
  <2>w. NoWrap
    BY <1>2, WrapStep DEF ClientInv
  <2>t. /\ at \in [Callers -> CallerPcs] /\ outcome \in [Callers -> Outcomes]
        /\ msg \in [Callers -> MessagePcs] /\ requests \subseteq Callers
    BY <1>2 DEF ClientInv, TypeOK, Outcomes
  <2> SUFFICES Promised
    BY DEF C!CallNext, C!callVars
  <2>1. CASE \E c \in Callers : Begin(c) \/ WaitClosed(c) \/ WaitTimeout(c)
    <3>1. PICK c \in Callers : Begin(c) \/ WaitClosed(c) \/ WaitTimeout(c)
      BY <2>1
    <3>2. at[c] # "returned" /\ outcome[c] = "open"
      BY <1>2, <3>1 DEF Begin, WaitClosed, WaitTimeout, ClientInv, PathInv, OpenInv
    <3>3. UNCHANGED <<Opened, Run>>
      BY <3>1 DEF Begin, WaitClosed, WaitTimeout, messageVars
    <3>4. CASE outcome' = outcome
      BY <3>3, <3>4
    <3>5. CASE outcome' # outcome
      <4>1. outcome' = [outcome EXCEPT ![c] = "nil"]
        BY <3>1, <3>5 DEF Begin, WaitClosed, WaitTimeout
      <4>2. CASE c \in Sends
        BY <4>1, <4>2, <3>3, <2>t
      <4>3. CASE c \notin Sends
        <5>1. Result' = [Result EXCEPT ![c] = "nil"]
          BY <4>1, <4>3, <2>t
        <5>2. Result[c] = "open"
          BY <4>3, <3>2
        <5> QED BY <5>1, <5>2, <3>3, <4>3 DEF C!GiveUp
      <4> QED BY <4>2, <4>3
    <3> QED BY <3>4, <3>5
  <2>2. CASE \E c \in Callers : Write(c)
    <3>1. PICK c \in Callers : Write(c)
      BY <2>2
    <3>2. UNCHANGED <<Run, Result>>
      <4>1. \A d \in Asks : outcome'[d] = outcome[d]
        BY <3>1, <2>t DEF Write, AfterWrite
      <4> QED BY <4>1, <3>1 DEF Write, messageVars
    <3>3. requests' = requests \/ requests' = requests \cup {c}
      BY <3>1 DEF Write
    <3>4. c \notin requests /\ outcome[c] = "open"
      BY <1>2, <3>1 DEF Write, ClientInv, PathInv, OpenInv, RequestsInv
    <3>5. CASE requests' = requests \cup {c} /\ c \notin Sends
      <4>1. Opened' = Opened \cup {c} /\ c \notin Opened /\ Result[c] = "open"
        BY <3>4, <3>5
      <4> QED BY <4>1, <3>2, <3>5 DEF C!Request
    <3>6. CASE requests' = requests \/ c \in Sends
      BY <3>2, <3>3, <3>6
    <3> QED BY <3>3, <3>5, <3>6
  <2>3. CASE \E r \in Callers : Reply(r)
    <3>1. PICK r \in Callers : Reply(r)
      BY <2>3
    <3>2. UNCHANGED <<Opened, Result>>
      BY <3>1 DEF Reply, callerVars
    <3>3. CASE r \in Sends
      <4>1. Run' = Run
        BY <3>1, <3>3, <2>t DEF Reply
      <4> QED BY <4>1, <3>2
    <3>4. CASE r \notin Sends
      <4>1. Run' = Run \cup {r} /\ r \in Opened \ Run
        BY <3>1, <3>4, <2>t DEF Reply
      <4> QED BY <4>1, <3>2, <3>4 DEF C!Execute
    <3> QED BY <3>3, <3>4
  <2>4. CASE \E r \in Callers : Deliver(r)
    <3>1. PICK r \in Callers : Deliver(r)
      BY <2>4
    <3>2. waitRet[r] = {r} /\ r \notin Sends
      BY <1>2, <2>w, <3>1 DEF Deliver, ClientInv, MatchInv, FoundInv
    <3>3. outcome' = [outcome EXCEPT ![r] = r] /\ at[r] = "wait"
      BY <3>1, <3>2 DEF Deliver
    <3>4. outcome[r] = "open"
      BY <1>2, <3>3 DEF ClientInv, PathInv, OpenInv
    <3>5. UNCHANGED <<Opened, Run>> /\ r \in Run
      BY <3>1, <3>2, <2>t DEF Deliver
    <3>6. Result' = [Result EXCEPT ![r] = r] /\ Result[r] = "open"
      BY <3>2, <3>3, <3>4, <2>t
    <3> QED BY <3>2, <3>5, <3>6 DEF C!Return
  <2>5. CASE \E r \in Callers : Lookup(r) \/ DeliverPanics(r) \/ Remove(r) \/ CloseWaitRet(r)
    <3>1. PICK r \in Callers : Lookup(r) \/ DeliverPanics(r) \/ Remove(r) \/ CloseWaitRet(r)
      BY <2>5
    <3>2. UNCHANGED <<Opened, Result>>
      BY <3>1 DEF Lookup, DeliverPanics, Remove, CloseWaitRet, callerVars
    <3>3. \A c \in Callers : msg'[c] = "none" <=> msg[c] = "none"
      BY <3>1, <2>t DEF Lookup, DeliverPanics, Remove, CloseWaitRet, messageVars
    <3> QED BY <3>2, <3>3
  <2>6. CASE (\E c \in Callers : Register(c)) \/ Connect \/ Heartbeat \/ SessionEnds \/ Close \/ Release
               \/ UNCHANGED vars
    <3>1. UNCHANGED <<requests, msg, outcome>>
      BY <2>6 DEF vars, Register, Connect, Heartbeat, SessionEnds, Close, SweepBegin, SweepEntry,
                  SweepEnd, Release, callerVars, messageVars
    <3> QED BY <3>1
  <2> QED BY <1>2, <2>1, <2>2, <2>3, <2>4, <2>5, <2>6 DEF Next, Call, Message
<1>3. ClientInv /\ [Next]_vars => [NoWrap' => C!CallNext \/ UNCHANGED C!callVars]_vars
  BY <1>2
<1> QED BY <1>1, <1>3, ClientInvariance, PTL DEF Spec, ImplementsCalls
=============================================================================
