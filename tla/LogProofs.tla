------------------------------ MODULE LogProofs ------------------------------
(***************************************************************************)
(* Proofs about the log package.                                           *)
(*                                                                         *)
(* Logger: lines have their own tags and message where no array is shared, *)
(* and where an event is alone, and everybody comes back, for all events,  *)
(* users of the default logger and levels.                                 *)
(*                                                                         *)
(* Logfmt: a record is one line, a line is read back as the pairs of its   *)
(* event and of its headers, and an event is given up only for a cause,    *)
(* for all keys and values.                                                *)
(***************************************************************************)
EXTENDS Logger, Logfmt, WellFoundedInduction, SequenceTheorems, TLAPS

\* Past WithHeader, up to the point where KVLog or VLog has taken the tags.
Tagged == {"kv", "lock", "tags"}

\* What goroutine g will write once it has come so far.
Prepared(g) ==
    /\ g \in Events /\ at[g] \in Tagged => tagMem[tagArr[g]] = g
    /\ g \in Events \ VEvents /\ at[g] \in {"write", "writing"} => pooled[g] = g
    /\ g \notin Events \ VEvents =>
          /\ at[g] \in {"message", "write", "writing"} => bufMem[bufArr[g]].tags = OwnTags(g)
          /\ at[g] \in {"write", "writing"} => bufMem[bufArr[g]].msg = g

\* Users of the SwapLogger take no step of a template, and events of KVLog none
\* of VLog.
PathInv ==
    /\ \A d \in Direct : at[d] \notin {"check", "copy", "origin", "header", "kv"}
    /\ \A e \in Events \ VEvents : at[e] \notin {"lock", "tags", "message"}
    /\ \A e \in VEvents : at[e] # "kv"

\* Who is inside the writer holds its mutex.
WriterInv == \A g \in Goroutines : at[g] = "writing" => writer = {g}

\* A goroutine that runs and overlapped with none is the only one that runs.
AloneInv ==
    \A g \in Goroutines \ crowded :
        /\ g \in Active => Active = {g}
        /\ Prepared(g)

\* Without room behind the default tags and before the default buffer is used
\* every template has the arrays to itself.
SeparateInv ==
    /\ ~room => \A e \in Events : tagArr[e] = e
    /\ ~bufReady => /\ \A e \in Events : bufArr[e] = e
                    /\ \A d \in Direct : at[d] \in {"idle", "lock", "tags", "done"}
    /\ ~room /\ ~bufReady => \A e \in Events : Prepared(e)

LoggerInv ==
    /\ TypeOK
    /\ PathInv
    /\ WriterInv
    /\ AloneInv
    /\ SeparateInv
    /\ OwnWhenAlone
    /\ OwnWithoutSharing
-----------------------------------------------------------------------------
(* Types.                                                                  *)

LEMMA TypeInit == Init => TypeOK
<1> SUFFICES ASSUME Init PROVE TypeOK
  OBVIOUS
<1>1. LOG_LEVEL \in 0 .. 4
  BY DEF Init
<1>2. room \in BOOLEAN /\ bufReady \in BOOLEAN /\ wrapped \in BOOLEAN
  BY Zenon DEF Init
<1>3. mu \subseteq Direct /\ (\A d, e \in mu : d = e) /\ muCopied \subseteq Events
  BY DEF Init
<1>4. at \in [Goroutines -> Pcs]
  BY DEF Init, Pcs
<1>8. /\ default \in {"origin", "replacing", "influx", "torn"}
      /\ early \subseteq Events /\ origin \subseteq Events
      /\ writer \subseteq Goroutines /\ \A g, h \in writer : g = h
      /\ pooled \in [Events -> Tags]
  BY DEF Init, Tags
<1>5. tagArr \in [Events -> Arrays] /\ bufArr \in [Goroutines -> Arrays]
  BY DEF Init, Arrays
<1>6. tagMem \in [Arrays -> Tags] /\ bufMem \in [Arrays -> Line]
  BY DEF Init, Tags, Messages, Line
<1>7. out \subseteq [by : Goroutines, tags : Tags, msg : Messages] /\ crowded \subseteq Goroutines
  BY DEF Init
<1> QED BY <1>1, <1>2, <1>3, <1>4, <1>5, <1>6, <1>7, <1>8 DEF TypeOK

LEMMA TypeStep == TypeOK /\ [Next]_vars => TypeOK'
<1> SUFFICES ASSUME TypeOK, [Next]_vars PROVE TypeOK'
  OBVIOUS
<1> USE DEF Goroutines, Arrays, setVars, pastVars, copyVars, memVars
<1>1. ASSUME NEW l \in Levels, SetLevel(l) PROVE TypeOK'
  BY <1>1, LoggerAssumption DEF SetLevel, TypeOK, LoggerAssumption
<1>2. ASSUME Replace PROVE TypeOK'
  BY <1>2 DEF Replace, TypeOK
<1>3. ASSUME NEW full \in Swaps, Swap(full) PROVE TypeOK'
  <2>1. wrapped' \in BOOLEAN
    BY <1>3, LoggerAssumption DEF Swap, LoggerAssumption
  <2> QED BY <1>3, <2>1 DEF Swap, TypeOK
<1>4. ASSUME NEW e \in Events, Start(e) PROVE TypeOK'
  BY <1>4 DEF Start, Enter, Goto, Active, TypeOK, Pcs
<1>5. ASSUME NEW d \in Direct, SwapLog(d) PROVE TypeOK'
  BY <1>5 DEF SwapLog, Enter, Goto, Active, TypeOK, Pcs
<1>6. ASSUME NEW g \in Goroutines, Lock(g) PROVE TypeOK'
  BY <1>6 DEF Lock, Goto, TypeOK, Pcs
<1>7. ASSUME NEW g \in Goroutines, WriteTags(g) PROVE TypeOK'
  <2>1. /\ (IF g \in Events THEN tagMem[tagArr[g]] ELSE "base") \in Tags
        /\ bufArr[g] \in Arrays
    BY DEF TypeOK, Tags
  <2>2. bufMem' \in [Arrays -> Line]
    BY <1>7, <2>1 DEF WriteTags, TypeOK, Line
  <2> QED BY <1>7, <2>2 DEF WriteTags, Goto, TypeOK, Pcs
<1>8. ASSUME NEW g \in Goroutines, WriteMessage(g) PROVE TypeOK'
  <2>1. bufMem' \in [Arrays -> Line]
    BY <1>8 DEF WriteMessage, TypeOK, Line, Messages
  <2> QED BY <1>8, <2>1 DEF WriteMessage, Goto, TypeOK, Pcs
<1>9. ASSUME NEW g \in Goroutines, WriterLock(g) PROVE TypeOK'
  BY <1>9 DEF WriterLock, Goto, TypeOK, Pcs
<1>10. ASSUME NEW g \in Goroutines, WriteLine(g) PROVE TypeOK'
  <2> DEFINE Lines == [by : Goroutines, tags : Tags, msg : Messages]
  <2>1. bufMem[bufArr[g]] \in Line /\ (g \in Events => pooled[g] \in Tags)
    BY DEF TypeOK
  <2>2. LineOf(g) \in Lines
    BY <2>1 DEF LineOf, Line, Messages
  <2>3. Mixed(LineOf(g)) \in Lines
    BY <2>2 DEF Mixed, Messages
  <2>4. out' \subseteq Lines
    BY <1>10, <2>2, <2>3 DEF WriteLine, TypeOK
  <2>5. pooled' \in [Events -> Tags]
    BY <1>10 DEF WriteLine, TypeOK, Tags
  <2> QED BY <1>10, <2>4, <2>5 DEF WriteLine, Goto, TypeOK, Pcs
<1>11. ASSUME NEW e \in Events, CheckLevel(e) PROVE TypeOK'
  BY <1>11 DEF CheckLevel, Goto, TypeOK, Pcs
<1>12. ASSUME NEW e \in Events, CopyOrigin(e) \/ OriginLog(e) \/ ReadTorn(e) PROVE TypeOK'
  BY <1>12 DEF CopyOrigin, OriginLog, ReadTorn, Goto, TypeOK, Pcs
<1>13. ASSUME NEW e \in Events, Copy(e) PROVE TypeOK'
  BY <1>13 DEF Copy, CopyMutex, Goto, TypeOK, Pcs
<1>14. ASSUME NEW e \in Events, Header(e) PROVE TypeOK'
  BY <1>14 DEF Header, Goto, TypeOK, Pcs, Tags
<1>15. ASSUME NEW e \in Events, KVLog(e) PROVE TypeOK'
  BY <1>15 DEF KVLog, Goto, TypeOK, Pcs
<1>16. ASSUME UNCHANGED vars PROVE TypeOK'
  BY <1>16 DEF vars, TypeOK
<1> QED BY <1>1, <1>2, <1>3, <1>4, <1>5, <1>6, <1>7, <1>8, <1>9, <1>10, <1>11, <1>12, <1>13,
           <1>14, <1>15, <1>16
        DEF Next, Step, DoLog, VLog, Write
-----------------------------------------------------------------------------
(* One goroutine's steps.                                                  *)

StepOf(g) == VLog(g) \/ Write(g) \/ (g \in Events /\ DoLog(g))

\* A step is taken by a goroutine that runs and moves no other.
LEMMA StepFacts ==
    ASSUME TypeOK, NEW g \in Goroutines, StepOf(g)
    PROVE  /\ g \in Active
           /\ crowded' = crowded /\ room' = room
           /\ \A h \in Goroutines : h # g => at'[h] = at[h]
<1>1. at \in [Goroutines -> Pcs]
  BY DEF TypeOK
<1>2. at' = at \/ \E pc \in Pcs : at' = [at EXCEPT ![g] = pc]
  BY DEF StepOf, VLog, Write, DoLog, Lock, WriteTags, WriteMessage, WriterLock, WriteLine,
         CheckLevel, CopyOrigin, OriginLog, ReadTorn, Copy, Header, KVLog, Goto, Pcs
<1>3. at[g] \notin {"idle", "done"} /\ crowded' = crowded /\ room' = room
  BY DEF StepOf, VLog, Write, DoLog, Lock, WriteTags, WriteMessage, WriterLock, WriteLine,
         CheckLevel, CopyOrigin, OriginLog, ReadTorn, Copy, Header, KVLog,
         setVars, pastVars
<1>4. \A h \in Goroutines : h # g => at'[h] = at[h]
  BY <1>1, <1>2
<1> QED BY <1>3, <1>4 DEF Active

\* What a goroutine has prepared, its own step keeps and completes.
LEMMA StepPrepares ==
    ASSUME TypeOK, PathInv, NEW g \in Goroutines, StepOf(g), Prepared(g)
    PROVE  Prepared(g)'
<1> USE DEF Prepared, PathInv, TypeOK, Goto, Tagged, OwnTags, Goroutines, Arrays, copyVars, memVars
<1>1. CASE Lock(g)
  BY <1>1 DEF Lock
<1>2. CASE WriteTags(g)
  <2>1. bufMem'[bufArr[g]].tags = OwnTags(g)
    BY <1>2 DEF WriteTags, Line
  <2> QED BY <1>2, <2>1 DEF WriteTags
<1>3. CASE WriteMessage(g)
  <2>1. /\ bufMem'[bufArr[g]].tags = bufMem[bufArr[g]].tags
        /\ bufMem'[bufArr[g]].msg = g
    BY <1>3 DEF WriteMessage, Line
  <2> QED BY <1>3, <2>1 DEF WriteMessage
<1>4. CASE WriterLock(g)
  BY <1>4 DEF WriterLock
<1>5. CASE WriteLine(g)
  BY <1>5 DEF WriteLine
<1>6. CASE g \in Events /\ CheckLevel(g)
  BY <1>6 DEF CheckLevel
<1>7. CASE g \in Events /\ (CopyOrigin(g) \/ OriginLog(g) \/ ReadTorn(g))
  BY <1>7 DEF CopyOrigin, OriginLog, ReadTorn
<1>8. CASE g \in Events /\ Copy(g)
  BY <1>8 DEF Copy
<1>9. CASE g \in Events /\ Header(g)
  BY <1>9 DEF Header
<1>10. CASE g \in Events /\ KVLog(g)
  BY <1>10 DEF KVLog
<1> QED BY <1>1, <1>2, <1>3, <1>4, <1>5, <1>6, <1>7, <1>8, <1>9, <1>10
        DEF StepOf, VLog, Write, DoLog

\* A line is written as it was prepared; no other line appears.
LEMMA StepEmits ==
    ASSUME TypeOK, WriterInv, NEW g \in Goroutines, StepOf(g), NEW o \in out', o \notin out
    PROVE  o.by = g /\ WriteLine(g) /\ (Prepared(g) => Own(o))
<1>1. CASE WriteLine(g)
  <2>1. o = LineOf(g)
    BY <1>1 DEF WriteLine, WriterInv
  <2> QED BY <1>1, <2>1 DEF WriteLine, LineOf, Own, OwnTags, Prepared
<1>2. CASE ~WriteLine(g)
  <2>1. out' = out
    BY <1>2 DEF StepOf, VLog, Write, DoLog, Lock, WriteTags, WriteMessage, WriterLock,
                CheckLevel, CopyOrigin, OriginLog, ReadTorn, Copy, Header, KVLog
  <2> QED BY <2>1
<1> QED BY <1>1, <1>2

\* Everybody stays on their path.
LEMMA StepPath ==
    ASSUME TypeOK, PathInv, NEW g \in Goroutines, StepOf(g)
    PROVE  PathInv'
<1>1. \A h \in Goroutines : h # g => at'[h] = at[h]
  BY StepFacts
<1>2. at \in [Goroutines -> Pcs] /\ Events \cap Direct = {} /\ VEvents \subseteq Events
  BY LoggerAssumption DEF TypeOK, LoggerAssumption
<1>3. ASSUME g \in Direct PROVE at'[g] \notin {"check", "copy", "origin", "header", "kv"}
  <2>1. g \notin Events
    BY <1>2, <1>3
  <2> QED BY <1>2, <1>3, <2>1 DEF PathInv, StepOf, VLog, Write, Lock, WriteTags, WriteMessage,
              WriterLock, WriteLine, Goto
<1>4. ASSUME g \in Events
      PROVE  /\ g \notin VEvents => at'[g] \notin {"lock", "tags", "message"}
             /\ g \in VEvents => at'[g] # "kv"
  BY <1>2, <1>4 DEF PathInv, StepOf, VLog, Write, DoLog, Lock, WriteTags, WriteMessage,
     WriterLock, WriteLine, CheckLevel, CopyOrigin, OriginLog, ReadTorn, Copy, Header, KVLog, Goto
<1> QED BY <1>1, <1>2, <1>3, <1>4 DEF PathInv, Goroutines

\* The mutex of the SyncWriter lets one goroutine in.
LEMMA StepWriter ==
    ASSUME TypeOK, WriterInv, NEW g \in Goroutines, StepOf(g)
    PROVE  WriterInv'
<1>1. at \in [Goroutines -> Pcs] /\ \A h \in Goroutines : h # g => at'[h] = at[h]
  BY StepFacts DEF TypeOK
<1>2. CASE WriterLock(g)
  BY <1>1, <1>2 DEF WriterLock, Goto, WriterInv
<1>3. CASE WriteLine(g)
  BY <1>1, <1>3 DEF WriteLine, Goto, WriterInv
<1>4. CASE ~WriterLock(g) /\ ~WriteLine(g)
  <2>1. writer' = writer /\ at'[g] # "writing"
    BY <1>1, <1>4 DEF StepOf, VLog, Write, DoLog, Lock, WriteTags, WriteMessage, CheckLevel,
           CopyOrigin, OriginLog, ReadTorn, Copy, Header, KVLog, Goto
  <2> QED BY <1>1, <2>1 DEF WriterInv
<1> QED BY <1>2, <1>3, <1>4
-----------------------------------------------------------------------------
(* Alone.                                                                  *)

LEMMA StepAlone ==
    ASSUME TypeOK, PathInv, WriterInv, AloneInv, OwnWhenAlone, NEW g \in Goroutines, StepOf(g)
    PROVE  AloneInv' /\ OwnWhenAlone'
<1>1. /\ g \in Active /\ crowded' = crowded
      /\ \A h \in Goroutines : h # g => at'[h] = at[h]
  BY StepFacts
<1>2. ASSUME NEW h \in Goroutines \ crowded
      PROVE  (h \in Active' => Active' = {h}) /\ Prepared(h)'
  <2>1. CASE h = g
    <3>1. Active = {g} /\ Prepared(g)
      BY <1>1, <2>1 DEF AloneInv
    <3>2. Active' \subseteq {g}
      BY <1>1, <3>1 DEF Active
    <3> QED BY <2>1, <3>1, <3>2, StepPrepares
  <2>2. CASE h # g
    <3>1. h \notin Active
      BY <1>1, <2>2 DEF AloneInv
    <3>2. at'[h] \in {"idle", "done"}
      BY <1>1, <2>2, <3>1 DEF Active
    <3> QED BY <3>2 DEF Active, Prepared, Tagged
  <2> QED BY <2>1, <2>2
<1>3. AloneInv'
  BY <1>1, <1>2 DEF AloneInv
<1>4. ASSUME NEW o \in out', o.by \notin crowded PROVE Own(o)
  <2>1. CASE o \in out
    BY <1>4, <2>1 DEF OwnWhenAlone
  <2>2. CASE o \notin out
    <3>1. g \notin crowded
      BY <1>4, <2>2, StepEmits
    <3>2. Prepared(g)
      BY <3>1 DEF AloneInv
    <3> QED BY <2>2, <3>2, StepEmits
  <2> QED BY <2>1, <2>2
<1>5. OwnWhenAlone'
  BY <1>1, <1>4 DEF OwnWhenAlone
<1> QED BY <1>3, <1>5

\* A goroutine begins to log: an event, or a user of the SwapLogger.
Begin(g) ==
    \/ /\ g \in Events
       /\ Start(g)
    \/ /\ g \in Direct
       /\ SwapLog(g)

LEMMA BeginFacts ==
    ASSUME TypeOK, NEW g \in Goroutines, Begin(g)
    PROVE  /\ \E pc \in {"check", "lock", "done"} :
                 /\ pc = "check" => g \in Events
                 /\ pc # "check" => g \in Direct
                 /\ at' = [at EXCEPT ![g] = pc]
                 /\ IF pc = "done" THEN crowded' = crowded ELSE Enter(g)
           /\ at[g] = "idle"
           /\ UNCHANGED <<room, writer, pooled, bufArr, copyVars, memVars, out>>
  BY DEF Begin, Start, SwapLog, Goto, setVars

\* Who starts while another runs is crowded, and so is the other.
LEMMA BeginAlone ==
    ASSUME TypeOK, AloneInv, OwnWhenAlone, NEW g \in Goroutines, Begin(g)
    PROVE  AloneInv' /\ OwnWhenAlone'
<1>1. PICK pc \in {"check", "lock", "done"} :
         /\ pc = "check" => g \in Events
         /\ pc # "check" => g \in Direct
         /\ at' = [at EXCEPT ![g] = pc]
         /\ IF pc = "done" THEN crowded' = crowded ELSE Enter(g)
  BY BeginFacts
<1>2. /\ at \in [Goroutines -> Pcs] /\ at[g] = "idle" /\ Events \cap Direct = {}
      /\ UNCHANGED <<room, writer, pooled, bufArr, copyVars, memVars, out>>
  BY BeginFacts, LoggerAssumption DEF TypeOK, LoggerAssumption
<1>3. ASSUME NEW h \in Goroutines, h \notin crowded'
      PROVE  (h \in Active' => Active' = {h}) /\ Prepared(h)'
  <2>0. h \notin crowded
    BY <1>1, <1>3 DEF Enter
  <2>1. CASE h = g
    <3>1. at'[h] = pc /\ (h \in Events => pc \notin Tagged)
      BY <1>1, <1>2, <2>1 DEF Tagged
    <3>2. Prepared(h)'
      BY <1>1, <3>1 DEF Prepared, Tagged
    <3>3. ASSUME h \in Active' PROVE Active' = {h}
      <4>1. pc # "done" /\ Active = {}
        BY <1>1, <1>3, <2>1, <3>1, <3>3 DEF Active, Enter
      <4> QED BY <1>1, <1>2, <2>1, <3>3, <4>1 DEF Active
    <3> QED BY <3>2, <3>3
  <2>2. CASE h # g
    <3>1. at'[h] = at[h]
      BY <1>1, <1>2, <2>2
    <3>2. Prepared(h)'
      <4>1. Prepared(h)
        BY <2>0 DEF AloneInv
      <4> QED BY <1>2, <3>1, <4>1 DEF Prepared, OwnTags, copyVars, memVars
    <3>3. ASSUME h \in Active' PROVE Active' = {h}
      <4>1. h \in Active /\ Active = {h}
        BY <2>0, <3>1, <3>3 DEF Active, AloneInv
      <4>2. pc = "done"
        BY <1>1, <1>3, <4>1 DEF Enter
      <4> QED BY <1>1, <1>2, <2>2, <3>3, <4>1, <4>2 DEF Active
    <3> QED BY <3>2, <3>3
  <2> QED BY <2>1, <2>2
<1>4. AloneInv'
  BY <1>3 DEF AloneInv
<1>5. OwnWhenAlone'
  BY <1>1, <1>2 DEF OwnWhenAlone, Own, OwnTags, Enter
<1> QED BY <1>4, <1>5
-----------------------------------------------------------------------------
(* Without sharing.                                                        *)

\* A step of one goroutine leaves the arrays to the others.
LEMMA StepSeparate ==
    ASSUME TypeOK, PathInv, WriterInv, SeparateInv, OwnWithoutSharing,
           NEW g \in Goroutines, StepOf(g)
    PROVE  SeparateInv' /\ OwnWithoutSharing'
<1> USE DEF Goroutines, Arrays
<1>1. /\ g \in Active /\ room' = room
      /\ \A h \in Goroutines : h # g => at'[h] = at[h]
  BY StepFacts
<1>2. bufReady => bufReady'
  BY DEF StepOf, VLog, Write, DoLog, Lock, WriteTags, WriteMessage, WriterLock, WriteLine,
         CheckLevel, CopyOrigin, OriginLog, ReadTorn, Copy, Header, KVLog, memVars
<1>3. CASE g \in Events /\ Copy(g)
  <2>1. UNCHANGED memVars /\ out' = out /\ pooled' = pooled
    BY <1>3 DEF Copy
  <2>2. ~room => \A e \in Events : tagArr'[e] = e
    BY <1>3 DEF Copy, TypeOK, SeparateInv
  <2>3. ~bufReady => /\ \A e \in Events : bufArr'[e] = e
                    /\ \A d \in Direct : at'[d] \in {"idle", "lock", "tags", "done"}
    BY <1>1, <1>3, LoggerAssumption DEF Copy, TypeOK, SeparateInv, LoggerAssumption
  <2>4. ASSUME ~room, ~bufReady, NEW e \in Events PROVE Prepared(e)'
    <3>1. Prepared(e) /\ tagArr'[e] = tagArr[e] /\ bufArr'[e] = bufArr[e]
      BY <2>2, <2>3, <2>4 DEF SeparateInv
    <3>2. CASE e = g
      BY <3>1, <3>2, StepPrepares
    <3>3. CASE e # g
      <4>1. at'[e] = at[e]
        BY <1>1, <3>3
      <4> QED BY <2>1, <3>1, <4>1 DEF Prepared, OwnTags, memVars
    <3> QED BY <3>2, <3>3
  <2>5. SeparateInv'
    BY <1>1, <2>1, <2>2, <2>3, <2>4 DEF SeparateInv, memVars
  <2>6. OwnWithoutSharing'
    BY <1>1, <2>1 DEF OwnWithoutSharing, Own, OwnTags, memVars
  <2> QED BY <2>5, <2>6
<1>4. CASE ~(g \in Events /\ Copy(g))
  <2>1. tagArr' = tagArr /\ bufArr' = bufArr
    BY <1>4 DEF StepOf, VLog, Write, DoLog, Lock, WriteTags, WriteMessage, WriterLock, WriteLine,
                CheckLevel, CopyOrigin, OriginLog, ReadTorn, Header, KVLog, copyVars
  <2>2. ASSUME ~bufReady', NEW d \in Direct
        PROVE  at'[d] \in {"idle", "lock", "tags", "done"}
    <3>1. at[d] \in {"idle", "lock", "tags", "done"}
      BY <1>2, <2>2 DEF SeparateInv
    <3>2. CASE d = g
      <4>1. g \notin Events
        BY <3>2, LoggerAssumption DEF LoggerAssumption
      <4>2. Lock(g)
        BY <2>2, <3>1, <3>2, <4>1
        DEF StepOf, VLog, Write, WriteTags, WriteMessage, WriterLock, WriteLine
      <4> QED BY <3>2, <4>2 DEF Lock, Goto, TypeOK
    <3>3. CASE d # g
      BY <1>1, <3>1, <3>3
    <3> QED BY <3>2, <3>3
  <2>3. ASSUME ~room, ~bufReady', NEW e \in Events PROVE Prepared(e)'
    <3>1. /\ \A f \in Events : Prepared(f) /\ tagArr[f] = f /\ bufArr[f] = f
          /\ g \in Direct => at[g] \in {"lock", "tags"}
      BY <1>1, <1>2, <2>3 DEF SeparateInv, Active
    <3>2. CASE e = g
      BY <3>1, <3>2, StepPrepares
    <3>3. CASE e # g
      <4>1. at'[e] = at[e]
        BY <1>1, <3>3
      <4>2. tagMem'[e] = tagMem[e] /\ bufMem'[e] = bufMem[e] /\ pooled'[e] = pooled[e]
        <5>1. CASE g \in Events
          <6>1. tagArr[g] = g /\ bufArr[g] = g
            BY <3>1, <5>1
          <6> QED BY <1>4, <3>3, <5>1, <6>1 DEF StepOf, VLog, Write, DoLog, Lock, WriteTags,
                      WriteMessage, WriterLock, WriteLine, CheckLevel, CopyOrigin, OriginLog,
                      ReadTorn, Header, KVLog, TypeOK, memVars
        <5>2. CASE g \notin Events
          <6>1. Lock(g)
            BY <2>3, <3>1, <5>2
            DEF StepOf, VLog, Write, WriteTags, WriteMessage, WriterLock, WriteLine
          <6> QED BY <6>1 DEF Lock, memVars
        <5> QED BY <5>1, <5>2
      <4>3. Prepared(e) /\ tagArr[e] = e /\ bufArr[e] = e
        BY <3>1
      <4> QED BY <2>1, <4>1, <4>2, <4>3 DEF Prepared, OwnTags
    <3> QED BY <3>2, <3>3
  <2>4. SeparateInv'
    BY <1>1, <1>2, <2>1, <2>2, <2>3 DEF SeparateInv
  <2>5. ASSUME ~room, ~bufReady', NEW o \in out' PROVE Own(o)
    <3>1. CASE o \in out
      BY <1>2, <2>5, <3>1 DEF OwnWithoutSharing
    <3>2. CASE o \notin out
      <4>1. g \in Events
        <5>1. WriteLine(g) /\ (g \in Direct => at[g] \in {"lock", "tags"})
          BY <1>1, <1>2, <2>5, <3>2, StepEmits DEF SeparateInv, Active
        <5> QED BY <5>1 DEF WriteLine
      <4>2. Prepared(g)
        BY <1>2, <2>5, <4>1 DEF SeparateInv
      <4> QED BY <3>2, <4>2, StepEmits
    <3> QED BY <3>1, <3>2
  <2>6. OwnWithoutSharing'
    BY <1>1, <2>5 DEF OwnWithoutSharing, Own, OwnTags
  <2> QED BY <2>4, <2>6
<1> QED BY <1>3, <1>4

\* A goroutine that starts disturbs nothing.
LEMMA BeginSeparate ==
    ASSUME TypeOK, PathInv, WriterInv, SeparateInv, OwnWithoutSharing,
           NEW g \in Goroutines, Begin(g)
    PROVE  PathInv' /\ WriterInv' /\ SeparateInv' /\ OwnWithoutSharing'
<1>1. PICK pc \in {"check", "lock", "done"} :
         /\ pc = "check" => g \in Events
         /\ pc # "check" => g \in Direct
         /\ at' = [at EXCEPT ![g] = pc]
  BY BeginFacts
<1>2. /\ at \in [Goroutines -> Pcs] /\ at[g] = "idle"
      /\ Events \cap Direct = {} /\ VEvents \subseteq Events
      /\ UNCHANGED <<room, writer, pooled, bufArr, copyVars, memVars, out>>
  BY BeginFacts, LoggerAssumption DEF TypeOK, LoggerAssumption
<1>3. PathInv'
  BY <1>1, <1>2 DEF PathInv, Goroutines
<1>4. WriterInv'
  BY <1>1, <1>2 DEF WriterInv
<1>5. ASSUME NEW e \in Events, Prepared(e) PROVE Prepared(e)'
  <2>1. at'[e] = at[e] \/ at'[e] = "check"
    BY <1>1, <1>2 DEF Goroutines
  <2> QED BY <1>2, <1>5, <2>1 DEF Prepared, Tagged, OwnTags, copyVars, memVars
<1>6. ASSUME NEW d \in Direct, at[d] \in {"idle", "lock", "tags", "done"}
      PROVE  at'[d] \in {"idle", "lock", "tags", "done"}
  BY <1>1, <1>2, <1>6 DEF Goroutines
<1>7. SeparateInv'
  BY <1>2, <1>5, <1>6 DEF SeparateInv, copyVars, memVars
<1>8. OwnWithoutSharing'
  BY <1>2 DEF OwnWithoutSharing, Own, OwnTags, memVars
<1> QED BY <1>3, <1>4, <1>7, <1>8
-----------------------------------------------------------------------------
(* The invariant of the lines.                                             *)

LEMMA LoggerInit == Init => LoggerInv
<1> SUFFICES ASSUME Init PROVE LoggerInv
  OBVIOUS
<1>1. TypeOK
  BY TypeInit
<1>2. (\A g \in Goroutines : at[g] = "idle") /\ VEvents \subseteq Events
  BY LoggerAssumption DEF Init, LoggerAssumption
<1>3. PathInv /\ WriterInv /\ AloneInv /\ (\A e \in Events : Prepared(e))
  BY <1>2 DEF PathInv, WriterInv, AloneInv, Prepared, Tagged, Active, Goroutines
<1>4. /\ \A e \in Events : tagArr[e] = e /\ bufArr[e] = e
      /\ \A d \in Direct : at[d] \in {"idle", "lock", "tags", "done"}
  BY <1>2 DEF Init, Goroutines
<1>5. SeparateInv
  BY <1>3, <1>4 DEF SeparateInv
<1>6. OwnWhenAlone /\ OwnWithoutSharing
  BY DEF Init, OwnWhenAlone, OwnWithoutSharing
<1> QED BY <1>1, <1>3, <1>5, <1>6 DEF LoggerInv

LEMMA LoggerStep == LoggerInv /\ [Next]_vars => LoggerInv'
<1> SUFFICES ASSUME LoggerInv, [Next]_vars PROVE LoggerInv'
  OBVIOUS
<1> USE DEF LoggerInv
<1>1. TypeOK'
  BY TypeStep
<1>2. ASSUME NEW g \in Goroutines, StepOf(g) PROVE LoggerInv'
  BY <1>1, <1>2, StepPath, StepWriter, StepAlone, StepSeparate
<1>3. ASSUME NEW g \in Goroutines, Begin(g) PROVE LoggerInv'
  BY <1>1, <1>3, BeginAlone, BeginSeparate
<1>4. ASSUME UNCHANGED <<room, writer, at, pooled, bufArr, copyVars, memVars, out, crowded>>
      PROVE  LoggerInv'
  <2>1. PathInv' /\ WriterInv' /\ AloneInv' /\ SeparateInv'
    BY <1>4 DEF PathInv, WriterInv, AloneInv, SeparateInv, Prepared, OwnTags, Active, copyVars,
                memVars
  <2>2. OwnWhenAlone' /\ OwnWithoutSharing'
    BY <1>4 DEF OwnWhenAlone, OwnWithoutSharing, Own, OwnTags, memVars
  <2> QED BY <1>1, <2>1, <2>2
<1>5. \/ \E l \in Levels : SetLevel(l)
      \/ Replace
      \/ \E full \in Swaps : Swap(full)
      \/ UNCHANGED vars
      => UNCHANGED <<room, writer, at, pooled, bufArr, copyVars, memVars, out, crowded>>
  BY DEF SetLevel, Replace, Swap, vars, setVars, pastVars
<1>6. Next => \/ \E l \in Levels : SetLevel(l)
              \/ Replace
              \/ \E full \in Swaps : Swap(full)
              \/ \E g \in Goroutines : Begin(g) \/ StepOf(g)
  BY DEF Next, Step, Begin, StepOf, Goroutines
<1> QED BY <1>2, <1>3, <1>4, <1>5, <1>6
-----------------------------------------------------------------------------
(* The default logger is replaced.                                         *)

\* Until NewInfluxdbLogger returns every event that runs has started before.
EarlyInv ==
    /\ default \in {"origin", "replacing"} => \A e \in Events : at[e] # "idle" => e \in early
    /\ \A e \in Events : at[e] = "origin" => e \in early
    /\ SafeOnceReplaced

LEMMA EarlyInit == Init => EarlyInv
  BY DEF Init, EarlyInv, SafeOnceReplaced, Goroutines

LEMMA EarlyStep == TypeOK /\ EarlyInv /\ [Next]_vars => EarlyInv'
<1> SUFFICES ASSUME TypeOK, EarlyInv, [Next]_vars PROVE EarlyInv'
  OBVIOUS
<1> USE DEF EarlyInv, SafeOnceReplaced, Goroutines, Goto, setVars, pastVars
<1>1. at \in [Goroutines -> Pcs] /\ Events \cap Direct = {}
  BY LoggerAssumption DEF TypeOK, LoggerAssumption
<1>2. ASSUME NEW e \in Events, Start(e) PROVE EarlyInv'
  BY <1>1, <1>2 DEF Start, Running
<1>3. ASSUME NEW e \in Events, CopyOrigin(e) PROVE EarlyInv'
  <2>1. default \in {"origin", "replacing"} /\ e \in early
    BY <1>3 DEF CopyOrigin, Read
  <2> QED BY <1>1, <1>3, <2>1 DEF CopyOrigin
<1>4. ASSUME NEW e \in Events, OriginLog(e) PROVE EarlyInv'
  BY <1>1, <1>4 DEF OriginLog, Running
<1>5. ASSUME NEW e \in Events, ReadTorn(e) PROVE EarlyInv'
  <2>1. e \in early
    BY <1>5 DEF ReadTorn, Read, Running
  <2> QED BY <1>5, <2>1 DEF ReadTorn
<1>6. ASSUME Replace PROVE EarlyInv'
  BY <1>6 DEF Replace, Running
<1>7. ASSUME NEW g \in Goroutines, NEW pc \in Pcs \ {"origin"},
             at' = at \/ (at[g] # "idle" /\ at' = [at EXCEPT ![g] = pc]) \/ g \notin Events,
             \A h \in Goroutines \ {g} : at'[h] = at[h],
             Running, UNCHANGED <<default, early, origin>>
      PROVE  EarlyInv'
  BY <1>1, <1>7 DEF Running
<1>8. ASSUME NEW g \in Goroutines,
             \/ VLog(g) \/ Write(g) \/ (g \in Direct /\ SwapLog(g))
             \/ g \in Events /\ (CheckLevel(g) \/ Copy(g) \/ Header(g) \/ KVLog(g))
      PROVE  EarlyInv'
  <2>1. PICK pc \in Pcs \ {"origin"} : at' = [at EXCEPT ![g] = pc]
    BY <1>8 DEF VLog, Write, Lock, WriteTags, WriteMessage, WriterLock, WriteLine, SwapLog,
                CheckLevel, Copy, Header, KVLog, Pcs
  <2>2. Running /\ UNCHANGED <<default, early, origin>> /\ (at[g] # "idle" \/ g \notin Events)
    BY <1>1, <1>8 DEF VLog, Write, Lock, WriteTags, WriteMessage, WriterLock, WriteLine, SwapLog,
                CheckLevel, Copy, Header, KVLog
  <2> QED BY <1>1, <1>7, <2>1, <2>2
<1>9. ASSUME UNCHANGED <<default, early, origin, at>> PROVE EarlyInv'
  BY <1>9
<1>10. \/ \E l \in Levels : SetLevel(l)
       \/ \E full \in Swaps : Swap(full)
       \/ UNCHANGED vars
       => UNCHANGED <<default, early, origin, at>>
  BY DEF SetLevel, Swap, vars
<1> QED BY <1>2, <1>3, <1>4, <1>5, <1>6, <1>8, <1>9, <1>10 DEF Next, Step, DoLog

-----------------------------------------------------------------------------
(* Who waits, and for whom.                                                *)

\* The mutex of the InfluxdbLogger is held inside VLog, that of the SyncWriter
\* inside its Write.
HolderInv ==
    /\ \A d \in mu : at[d] \in {"tags", "message", "write", "writing"}
    /\ \A g \in writer : at[g] = "writing"

LEMMA HolderInit == Init => HolderInv
  BY DEF Init, HolderInv

\* A goroutine moves by its own step, and lets go of what it holds when it ends.
LEMMA StepHolds ==
    ASSUME TypeOK, PathInv, HolderInv, NEW g \in Goroutines, StepOf(g)
    PROVE  HolderInv'
<1>1. /\ at \in [Goroutines -> Pcs] /\ mu \subseteq Direct /\ writer \subseteq Goroutines
      /\ Direct \subseteq Goroutines /\ Events \cap Direct = {}
  BY LoggerAssumption DEF TypeOK, LoggerAssumption, Goroutines
<1>2. \A h \in Goroutines : h # g => at'[h] = at[h]
  BY StepFacts
<1>3. \A d \in mu' : d # g => d \in mu
  BY DEF StepOf, VLog, Write, DoLog, Lock, WriteTags, WriteMessage, WriterLock, WriteLine,
         CheckLevel, CopyOrigin, OriginLog, ReadTorn, Copy, Header, KVLog
<1>4. \A h \in writer' : h # g => h \in writer
  BY DEF StepOf, VLog, Write, DoLog, Lock, WriteTags, WriteMessage, WriterLock, WriteLine,
         CheckLevel, CopyOrigin, OriginLog, ReadTorn, Copy, Header, KVLog
<1>5. ASSUME g \in mu' PROVE at'[g] \in {"tags", "message", "write", "writing"}
  <2>1. CASE g \in mu
    <3>1. at[g] \in {"tags", "message", "write", "writing"} /\ g \notin Events
      BY <1>1, <2>1 DEF HolderInv
    <3> QED BY <1>1, <1>5, <3>1 DEF StepOf, VLog, Write, Lock, WriteTags, WriteMessage,
                WriterLock, WriteLine, Goto
  <2>2. CASE g \notin mu
    <3>1. Lock(g)
      BY <1>5, <2>2 DEF StepOf, VLog, Write, DoLog, WriteTags, WriteMessage, WriterLock, WriteLine,
         CheckLevel, CopyOrigin, OriginLog, ReadTorn, Copy, Header, KVLog
    <3> QED BY <1>1, <3>1 DEF Lock, Goto
  <2> QED BY <2>1, <2>2
<1>6. ASSUME g \in writer' PROVE at'[g] = "writing"
  <2>1. CASE g \in writer
    <3>1. WriteLine(g)
      BY <2>1 DEF HolderInv, StepOf, VLog, Write, DoLog, Lock, WriteTags, WriteMessage, WriterLock,
         CheckLevel, CopyOrigin, OriginLog, ReadTorn, Copy, Header, KVLog
    <3> QED BY <1>6, <3>1 DEF WriteLine
  <2>2. CASE g \notin writer
    <3>1. WriterLock(g)
      BY <1>6, <2>2 DEF StepOf, VLog, Write, DoLog, Lock, WriteTags, WriteMessage, WriteLine,
         CheckLevel, CopyOrigin, OriginLog, ReadTorn, Copy, Header, KVLog
    <3> QED BY <1>1, <3>1 DEF WriterLock, Goto
  <2> QED BY <2>1, <2>2
<1>7. mu' \subseteq Goroutines /\ writer' \subseteq Goroutines
  BY <1>1, <1>3, <1>4
<1> QED BY <1>1, <1>2, <1>3, <1>4, <1>5, <1>6, <1>7 DEF HolderInv

LEMMA HolderStep == TypeOK /\ PathInv /\ HolderInv /\ [Next]_vars => HolderInv'
<1> SUFFICES ASSUME TypeOK, PathInv, HolderInv, [Next]_vars PROVE HolderInv'
  OBVIOUS
<1>1. ASSUME NEW g \in Goroutines, Begin(g) PROVE HolderInv'
  <2>1. PICK pc \in {"check", "lock", "done"} : at' = [at EXCEPT ![g] = pc]
    BY <1>1, BeginFacts
  <2>2. /\ at \in [Goroutines -> Pcs] /\ at[g] = "idle" /\ mu \subseteq Goroutines
        /\ writer \subseteq Goroutines /\ mu' = mu /\ writer' = writer
    BY <1>1 DEF TypeOK, Goroutines, Begin, Start, SwapLog
  <2> QED BY <2>1, <2>2 DEF HolderInv
<1>2. \/ \E l \in Levels : SetLevel(l)
      \/ Replace
      \/ \E full \in Swaps : Swap(full)
      \/ UNCHANGED vars
      => HolderInv'
  BY DEF SetLevel, Replace, Swap, vars, HolderInv
<1>3. Next => \/ \E l \in Levels : SetLevel(l)
              \/ Replace
              \/ \E full \in Swaps : Swap(full)
              \/ \E g \in Goroutines : Begin(g) \/ StepOf(g)
  BY DEF Next, Step, Begin, StepOf, Goroutines
<1> QED BY <1>1, <1>2, <1>3, StepHolds

\* The holders of the two mutexes wait in one order: with the logger's for the
\* writer's, never with the writer's for anything.
LEMMA OnlyCopiesBlock == TypeOK /\ HolderInv => OnlyCopiedWait
<1> SUFFICES ASSUME TypeOK, HolderInv, \A g \in Active : Waits(g), NEW g \in Active
             PROVE  at[g] = "lock" /\ g \in muCopied
  BY DEF OnlyCopiedWait
<1>1. writer = {}
  <2> SUFFICES ASSUME NEW h \in writer PROVE FALSE
    OBVIOUS
  <2>1. h \in Goroutines /\ at[h] = "writing"
    BY DEF TypeOK, HolderInv
  <2>2. h \in Active
    BY <2>1 DEF Active
  <2> QED BY <2>1, <2>2 DEF Waits
<1>2. \A h \in Active : at[h] = "lock"
  BY <1>1 DEF Waits
<1>3. mu = {}
  <2> SUFFICES ASSUME NEW d \in mu PROVE FALSE
    OBVIOUS
  <2>1. d \in Goroutines /\ at[d] \in {"tags", "message", "write", "writing"}
    BY DEF TypeOK, HolderInv, Goroutines
  <2>2. d \in Active
    BY <2>1 DEF Active
  <2> QED BY <1>2, <2>1, <2>2
<1> QED BY <1>1, <1>2, <1>3 DEF Waits
-----------------------------------------------------------------------------
(* How far a goroutine has come.                                           *)

Way == [pc \in Pcs |->
          CASE pc = "idle" -> 0 [] pc = "check" -> 1 [] pc = "copy" -> 2
            [] pc \in {"origin", "header"} -> 3 [] pc \in {"kv", "lock"} -> 4
            [] pc = "tags" -> 5 [] pc = "message" -> 6 [] pc = "write" -> 7
            [] pc = "writing" -> 8 [] pc = "done" -> 9]

\* Goroutine g comes nearer to its end and the others stay where they are.
Nearer(g) ==
    /\ Way[at[g]] < Way[at'[g]]
    /\ \A h \in Goroutines \ {g} : at'[h] = at[h]

LEMMA StepNearer ==
    ASSUME TypeOK, NEW g \in Goroutines, StepOf(g) \/ Begin(g)
    PROVE  Nearer(g) \/ (default' = "torn" /\ at' = at)
<1>1. at \in [Goroutines -> Pcs]
  BY DEF TypeOK
<1>2. CASE ~(g \in Events /\ ReadTorn(g))
  <2>1. \E pc \in Pcs : Way[at[g]] < Way[pc] /\ at' = [at EXCEPT ![g] = pc]
    <3>1. /\ Way["idle"] = 0 /\ Way["check"] = 1 /\ Way["copy"] = 2 /\ Way["origin"] = 3
          /\ Way["header"] = 3 /\ Way["kv"] = 4 /\ Way["lock"] = 4 /\ Way["tags"] = 5
          /\ Way["message"] = 6 /\ Way["write"] = 7 /\ Way["writing"] = 8 /\ Way["done"] = 9
      BY DEF Way, Pcs
    <3>2. CASE VLog(g)
      BY <3>1, <3>2 DEF VLog, Lock, WriteTags, WriteMessage, Goto, Pcs
    <3>3. CASE Write(g)
      BY <3>1, <3>3 DEF Write, WriterLock, WriteLine, Goto, Pcs
    <3>4. CASE g \in Events /\ DoLog(g)
      BY <1>2, <3>1, <3>4 DEF DoLog, CheckLevel, CopyOrigin, OriginLog, Copy, Header, KVLog,
                              Goto, Pcs
    <3>5. CASE Begin(g)
      BY <3>1, <3>5 DEF Begin, Start, SwapLog, Goto, Pcs
    <3> QED BY <3>2, <3>3, <3>4, <3>5 DEF StepOf
  <2> QED BY <1>1, <2>1 DEF Nearer
<1>3. CASE g \in Events /\ ReadTorn(g)
  BY <1>3 DEF ReadTorn, setVars
<1> QED BY <1>2, <1>3

-----------------------------------------------------------------------------
(* The theorems.                                                           *)

\* The inductive invariant of the package functions and users of the default
\* logger.
THEOREM LoggerInvariance == Spec => []LoggerInv
  BY LoggerInit, LoggerStep, PTL DEF Spec

\* Every variable has its type.
THEOREM TypeCorrect == Spec => []TypeOK
<1>1. LoggerInv => TypeOK
  BY DEF LoggerInv
<1> QED BY <1>1, LoggerInvariance, PTL

\* An event that no other overlaps is written with its own tags and message,
\* for every number of events before it and whatever they left in the arrays.
THEOREM AloneIsOwn == Spec => []OwnWhenAlone
<1>1. LoggerInv => OwnWhenAlone
  BY DEF LoggerInv
<1> QED BY <1>1, LoggerInvariance, PTL

\* Events may overlap while the default logger has no tags with room and its
\* own buffer is not in use.
THEOREM SeparateIsOwn == Spec => []OwnWithoutSharing
<1>1. LoggerInv => OwnWithoutSharing
  BY DEF LoggerInv
<1> QED BY <1>1, LoggerInvariance, PTL

\* An event that starts once NewInfluxdbLogger has returned is not written by
\* the old logger and reads no torn pair.
THEOREM ReplacedIsSafe == Spec => []SafeOnceReplaced
<1>1. LoggerInv => TypeOK
  BY DEF LoggerInv
<1>2. EarlyInv => SafeOnceReplaced
  BY DEF EarlyInv
<1> QED BY <1>1, <1>2, EarlyInit, EarlyStep, LoggerInvariance, PTL DEF Spec

\* Of the goroutines that log, all that are left when none can go on are events
\* whose template was copied with its mutex locked: whoever holds a mutex can
\* always go on.
THEOREM HoldersGoOn == Spec => []OnlyCopiedWait
<1>1. LoggerInv => TypeOK /\ PathInv
  BY DEF LoggerInv
<1> QED BY <1>1, HolderInit, HolderStep, OnlyCopiesBlock, LoggerInvariance, PTL DEF Spec

\* So everybody who logs comes back but for those events.  The premise relates
\* the guards of the steps to ENABLED, which the provers do not expand; TLC
\* checks it as the first part of EventsEnd.
THEOREM EventsComeBack == Spec => [](WaitsBlock => EventsEnd)
<1>1. ASSUME OnlyCopiedWait, WaitsBlock PROVE EventsEnd
  <2>1. Running /\ ~ENABLED Step => \A g \in Active : Waits(g)
    BY <1>1 DEF WaitsBlock
  <2> QED BY <1>1, <2>1 DEF OnlyCopiedWait, EventsEnd
<1> QED BY <1>1, HoldersGoOn, PTL

\* A step of somebody who logs brings one goroutine nearer to its end, and no
\* step sends one back: a goroutine takes at most nine, however many run.
THEOREM StepsAdvance ==
    Spec => [][/\ Step => default' = "torn" \/ \E g \in Goroutines : Nearer(g)
               /\ \A g \in Goroutines : at'[g] # at[g] => Nearer(g)]_vars
<1> DEFINE Advance == /\ Step => default' = "torn" \/ \E g \in Goroutines : Nearer(g)
                      /\ \A g \in Goroutines : at'[g] # at[g] => Nearer(g)
<1>1. ASSUME TypeOK, [Next]_vars PROVE [Advance]_vars
  <2>1. ASSUME NEW g \in Goroutines, StepOf(g) \/ Begin(g) PROVE Advance
    <3>1. CASE Nearer(g)
      BY <3>1 DEF Nearer
    <3>2. CASE default' = "torn" /\ at' = at
      BY <3>2
    <3> QED BY <1>1, <2>1, <3>1, <3>2, StepNearer
  <2>2. ASSUME at' = at, ~Step PROVE Advance
    BY <2>2
  <2>3. \/ \E g \in Goroutines : StepOf(g) \/ Begin(g)
        \/ at' = at /\ ~Step
        \/ UNCHANGED vars
    BY <1>1 DEF Next, Step, StepOf, Begin, Goroutines, SetLevel, Replace, Swap
  <2> QED BY <2>1, <2>2, <2>3
<1>2. LoggerInv => TypeOK
  BY DEF LoggerInv
<1> QED BY <1>1, <1>2, LoggerInvariance, PTL DEF Spec
-----------------------------------------------------------------------------
(* Logfmt: sequences.                                                      *)

\* Induction over the natural numbers, in terms of a set.  The proofs about
\* recursive functions below rest on it: it makes the function they choose
\* exist, and what holds of one value hold of all.
LEMMA NatSetInduction ==
    ASSUME NEW S, 0 \in S, \A n \in Nat : n \in S => n + 1 \in S
    PROVE  Nat \subseteq S
<1> DEFINE R == {ss \in Nat \X Nat : ss[1] < ss[2]}
           T == Nat \ S
<1>1. IsWellFoundedOn(R, Nat)
  BY NatLessThanWellFounded DEF OpToRel
<1>2. SUFFICES ASSUME T # {} PROVE FALSE
  OBVIOUS
<1>3. PICK x \in T : \A y \in T : ~(<<y, x>> \in R)
  <2> HIDE DEF R, T
  <2>1. T \subseteq Nat
    BY DEF T
  <2>. QED
    BY <1>1, <1>2, <2>1, WFMin
<1>4. x \in Nat /\ x # 0
  OBVIOUS
<1>5. x - 1 \in T
  BY <1>4
<1>6. <<x - 1, x>> \in R
  BY <1>4
<1>. QED
  BY <1>3, <1>5, <1>6

\* FlattenSeq is the last of the partial concatenations.
LEMMA Flattened ==
    ASSUME NEW S, NEW q \in Seq(Seq(S))
    PROVE  \E f \in [0 .. Len(q) -> Seq(S)] :
              /\ f[0] = <<>>
              /\ \A i \in 1 .. Len(q) : f[i] = f[i - 1] \o q[i]
              /\ FlattenSeq(q) = f[Len(q)]
<1> DEFINE n == Len(q)
           Rec(g) == [i \in 1 .. n |-> IF i = 1 THEN q[i] ELSE g[i - 1] \o q[i]]
           Upto(m, g) == \A i \in 1 .. m : g[i] = IF i = 1 THEN q[i] ELSE g[i - 1] \o q[i]
           Some(m) == \E g \in [1 .. m -> Seq(S)] : Upto(m, g)
           Has == {m \in Nat : m <= n => Some(m)}
<1>1. n \in Nat /\ \A i \in 1 .. n : q[i] \in Seq(S)
  BY LenProperties, ElementOfSeq
<1>2. Nat \subseteq Has
  <2>1. 0 \in Has
    <3>1. [i \in 1 .. 0 |-> <<>>] \in [1 .. 0 -> Seq(S)] /\ Upto(0, [i \in 1 .. 0 |-> <<>>])
      OBVIOUS
    <3>. QED
      BY <3>1
  <2>2. ASSUME NEW m \in Nat, m \in Has PROVE m + 1 \in Has
    <3> SUFFICES ASSUME m + 1 <= n PROVE Some(m + 1)
      <4> HIDE DEF Some
      <4>. QED
        OBVIOUS
    <3>0. Some(m)
      <4> HIDE DEF Some
      <4>. QED
        BY <1>1, <2>2
    <3>1. PICK g \in [1 .. m -> Seq(S)] : Upto(m, g)
      BY <3>0
    <3> DEFINE e == IF m = 0 THEN q[1] ELSE g[m] \o q[m + 1]
               h == [i \in 1 .. m + 1 |-> IF i = m + 1 THEN e ELSE g[i]]
    <3>2. e \in Seq(S)
      <4>1. CASE m = 0
        BY <1>1, <4>1
      <4>2. CASE m # 0
        <5>1. g[m] \in Seq(S) /\ q[m + 1] \in Seq(S)
          BY <1>1, <4>2
        <5>. QED
          BY <4>2, <5>1, ConcatProperties
      <4>. QED
        BY <4>1, <4>2
    <3>3. h \in [1 .. m + 1 -> Seq(S)]
      <4> HIDE DEF e
      <4>. QED
        BY <3>2
    <3>4. Upto(m + 1, h)
      <4> SUFFICES ASSUME NEW i \in 1 .. m + 1
                   PROVE  h[i] = IF i = 1 THEN q[i] ELSE h[i - 1] \o q[i]
        OBVIOUS
      <4>1. CASE i = m + 1
        BY <4>1
      <4>2. CASE i # m + 1
        <5>1. i \in 1 .. m /\ h[i] = g[i] /\ (i # 1 => i - 1 \in 1 .. m /\ h[i - 1] = g[i - 1])
          BY <4>2
        <5>. QED
          BY <3>1, <5>1
      <4>. QED
        BY <4>1, <4>2
    <3>. QED
      BY <3>3, <3>4
  <2>. QED
    <3> HIDE DEF Has
    <3>. QED
      BY <2>1, <2>2, NatSetInduction
<1>3. CASE n = 0
  <2>1. FlattenSeq(q) = <<>>
    BY <1>3, EmptySeq DEF FlattenSeq
  <2> DEFINE f == [i \in 0 .. n |-> <<>>]
  <2>2. f \in [0 .. n -> Seq(S)] /\ f[0] = <<>> /\ FlattenSeq(q) = f[n]
    BY <1>3, <2>1
  <2>3. \A i \in 1 .. n : f[i] = f[i - 1] \o q[i]
    BY <1>3
  <2> HIDE DEF f
  <2>. QED
    BY <2>2, <2>3
<1>4. CASE n # 0
  <2> DEFINE g == CHOOSE g : g = Rec(g)
  <2>1. g = Rec(g)
    <3>0. Some(n)
      <4> HIDE DEF Some
      <4>. QED
        BY <1>1, <1>2
    <3>1. PICK h \in [1 .. n -> Seq(S)] : Upto(n, h)
      BY <3>0
    <3>2. h = Rec(h)
      BY <3>1
    <3>. QED
      BY <3>2
  <2>2. FlattenSeq(q) = g[n]
    BY <1>4 DEF FlattenSeq
  <2> HIDE DEF g
  <2> DEFINE Typed == {m \in Nat : m \in 1 .. n => g[m] \in Seq(S)}
  <2>3. Nat \subseteq Typed
    <3>1. 0 \in Typed
      OBVIOUS
    <3>2. ASSUME NEW m \in Nat, m \in Typed PROVE m + 1 \in Typed
      <4> SUFFICES ASSUME m + 1 \in 1 .. n PROVE g[m + 1] \in Seq(S)
        OBVIOUS
      <4>1. g[m + 1] = IF m = 0 THEN q[1] ELSE g[m] \o q[m + 1]
        <5>1. g[m + 1] = Rec(g)[m + 1]
          BY <2>1
        <5>2. (m + 1 = 1 <=> m = 0) /\ (m + 1) - 1 = m
          OBVIOUS
        <5>. QED
          BY <5>1, <5>2
      <4>2. m # 0 => g[m] \in Seq(S)
        BY <1>1, <3>2
      <4>. QED
        BY <1>1, <4>1, <4>2, ConcatProperties
    <3>. QED
      <4> HIDE DEF Typed
      <4>. QED
        BY <3>1, <3>2, NatSetInduction
  <2> DEFINE f == [i \in 0 .. n |-> IF i = 0 THEN <<>> ELSE g[i]]
  <2>4. f \in [0 .. n -> Seq(S)]
    BY <1>1, <2>3
  <2>5. \A i \in 1 .. n : f[i] = f[i - 1] \o q[i]
    <3> SUFFICES ASSUME NEW i \in 1 .. n PROVE f[i] = f[i - 1] \o q[i]
      OBVIOUS
    <3>1. g[i] = IF i = 1 THEN q[i] ELSE g[i - 1] \o q[i]
      BY <2>1
    <3>2. CASE i = 1
      <4>1. f[i] = q[i] /\ f[i - 1] = <<>> /\ q[i] \in Seq(S)
        BY <1>1, <3>1, <3>2
      <4>. QED
        BY <4>1, ConcatEmptySeq
    <3>3. CASE i # 1
      <4>1. f[i] = g[i] /\ f[i - 1] = g[i - 1]
        BY <3>3
      <4>. QED
        BY <3>1, <3>3, <4>1
    <3>. QED
      BY <3>2, <3>3
  <2>6. f[0] = <<>> /\ FlattenSeq(q) = f[n]
    BY <1>1, <1>4, <2>2
  <2> HIDE DEF f
  <2>. QED
    BY <2>4, <2>5, <2>6
<1>. QED
  BY <1>3, <1>4

\* Runes that show, and runes of keys.
Shown == {r \in Nat : r >= Space}
Clean == {r \in Nat : keyRuneFilter(r)}

\* FlattenSeq of sequences over S is one.
LEMMA FlattenedType ==
    ASSUME NEW S, NEW q \in Seq(Seq(S))
    PROVE  FlattenSeq(q) \in Seq(S)
<1>1. PICK f \in [0 .. Len(q) -> Seq(S)] : FlattenSeq(q) = f[Len(q)]
  BY Flattened
<1>2. Len(q) \in 0 .. Len(q)
  BY LenProperties
<1>. QED
  BY <1>1, <1>2

\* What is left of a key holds no rune that the filter takes out.
LEMMA KeyClean ==
    ASSUME NEW s \in Seq(Nat)
    PROVE  writeStringKey(s).text \in Seq(Clean)
<1> DEFINE q == [i \in DOMAIN s |-> IF keyRuneFilter(s[i]) THEN <<s[i]>> ELSE <<>>]
<1>1. Len(s) \in Nat /\ DOMAIN s = 1 .. Len(s) /\ \A i \in 1 .. Len(s) : s[i] \in Nat
  BY LenProperties, ElementOfSeq
<1>2. \A i \in 1 .. Len(s) : q[i] \in Seq(Clean)
  <2> SUFFICES ASSUME NEW i \in 1 .. Len(s) PROVE q[i] \in Seq(Clean)
    OBVIOUS
  <2>1. CASE keyRuneFilter(s[i])
    <3>1. s[i] \in Clean /\ q[i] = <<s[i]>>
      BY <1>1, <2>1 DEF Clean
    <3>. QED
      BY <3>1
  <2>2. CASE ~keyRuneFilter(s[i])
    BY <1>1, <2>2
  <2>. QED
    BY <2>1, <2>2
<1>3. q \in Seq(Seq(Clean))
  <2>1. q \in [1 .. Len(s) -> Seq(Clean)]
    BY <1>1, <1>2
  <2> HIDE DEF q
  <2>. QED
    BY <1>1, <2>1
<1>4. FlattenSeq(q) \in Seq(Clean)
  <2> HIDE DEF q
  <2>. QED
    BY <1>3, FlattenedType
<1>. QED
  BY <1>4 DEF writeStringKey, Chosen, Written, Failed

\* An escape is made of runes that show.
LEMMA EscapeShown ==
    ASSUME NEW r \in Nat
    PROVE  Escape(r) \in Seq(Shown)
<1> USE DEF Quote, Backslash, Space, Newline, Return, Tab, RuneError, Shown
<1>d. DOMAIN LetterOf = {Newline, Return, Tab}
  BY DEF LetterOf
<1>1. CASE r \in Escaped
  <2>1. r \in Shown /\ r \notin DOMAIN LetterOf /\ r # RuneError
    BY <1>1, <1>d DEF Escaped
  <2>2. Escape(r) = <<Backslash, r>>
    BY <1>1, <2>1 DEF Escape
  <2>. QED
    BY <2>1, <2>2
<1>2. CASE r \in DOMAIN LetterOf
  <2>1. r \notin Escaped /\ LetterOf[r] \in Shown
    BY <1>2 DEF LetterOf, Escaped
  <2>2. r # RuneError
    BY <1>2, <1>d
  <2>3. Escape(r) = <<Backslash, LetterOf[r]>>
    BY <1>2, <2>1, <2>2 DEF Escape
  <2>. QED
    BY <2>1, <2>3
<1>3. CASE r \in 0 .. Space - 1 /\ r \notin DOMAIN LetterOf
  <2>1. r \notin Escaped /\ Hex(r \div 16) \in Shown /\ Hex(r % 16) \in Shown
    BY <1>3 DEF Escaped, Hex
  <2>2. Escape(r) = <<Backslash, 117, 48, 48, Hex(r \div 16), Hex(r % 16)>>
    BY <1>3, <2>1 DEF Escape
  <2>. QED
    BY <2>1, <2>2
<1>4. CASE r >= Space
  <2>1. CASE r = RuneError
    BY <2>1 DEF Escape, Escaped, LetterOf
  <2>2. CASE r # RuneError /\ r \notin Escaped
    <3>1. r \notin DOMAIN LetterOf /\ r \notin 0 .. Space - 1
      BY <1>4, <1>d
    <3>2. Escape(r) = <<r>>
      BY <2>2, <3>1 DEF Escape
    <3>. QED
      BY <1>4, <3>2
  <2>. QED
    BY <1>1, <2>1, <2>2
<1>. QED
  BY <1>1, <1>2, <1>3, <1>4

\* A text in quotes is on one line.
LEMMA QuotedShown ==
    ASSUME NEW s \in Seq(Nat)
    PROVE  writeQuotedString(s) \in Seq(Shown)
<1> DEFINE q == [i \in DOMAIN s |-> Escape(s[i])]
<1>1. Len(s) \in Nat /\ DOMAIN s = 1 .. Len(s) /\ \A i \in 1 .. Len(s) : s[i] \in Nat
  BY LenProperties, ElementOfSeq
<1>2. q \in [1 .. Len(s) -> Seq(Shown)]
  BY <1>1, EscapeShown
<1> HIDE DEF q
<1>3. FlattenSeq(q) \in Seq(Shown)
  <2>1. q \in Seq(Seq(Shown))
    BY <1>1, <1>2
  <2>. QED
    BY <2>1, FlattenedType
<1>4. <<Quote>> \in Seq(Shown)
  BY DEF Quote, Shown, Space
<1>. QED
  BY <1>3, <1>4, ConcatProperties DEF writeQuotedString, q

\* A text that needs no quotes is, too.
LEMMA PlainShown ==
    ASSUME NEW s \in Seq(Nat), ~NeedsQuotes(s)
    PROVE  s \in Seq(Shown)
<1>1. Len(s) \in Nat /\ s \in [1 .. Len(s) -> Nat] /\ \A i \in 1 .. Len(s) : s[i] > Space
  BY LenProperties, ElementOfSeq DEF NeedsQuotes, needsQuotedValueRune, Space
<1>2. \A i \in 1 .. Len(s) : s[i] \in Shown
  BY <1>1 DEF Shown, Space
<1>3. s \in [1 .. Len(s) -> Shown]
  BY <1>1, <1>2
<1>. QED
  BY <1>1, <1>3

\* A key or a value as the application gives it.
Item(v) == v.kind \in Kinds /\ v.text \in Seq(Nat)

\* What a String or Error method gives is a text.
LEMMA SafeStringType ==
    ASSUME NEW v, Item(v)
    PROVE  safeString(v) \in Seq(Nat)
<1>1. PanicText \in Seq(Nat)
  BY DEF PanicText
<1>. QED
  BY <1>1 DEF safeString, Item

\* The texts of a key and of a value are on one line.
LEMMA KeyShown ==
    ASSUME NEW k, Item(k)
    PROVE  writeKey(k).text \in Seq(Shown)
<1>1. \A s \in Seq(Nat) : writeStringKey(s).text \in Seq(Shown)
  <2> SUFFICES ASSUME NEW s \in Seq(Nat) PROVE writeStringKey(s).text \in Seq(Shown)
    OBVIOUS
  <2>1. Clean \subseteq Shown
    BY DEF Clean, Shown, keyRuneFilter, Space
  <2>. QED
    BY <2>1, KeyClean
<1>2. \A e : Failed(e).text \in Seq(Shown)
  BY DEF Failed
<1>3. safeString(k) \in Seq(Nat) /\ k.text \in Seq(Nat)
  BY SafeStringType DEF Item
<1>4. CASE k.kind = "nil" \/ k.does = "nil"
  BY <1>2, <1>4 DEF writeKey
<1>5. CASE ~(k.kind = "nil" \/ k.does = "nil") /\ k.kind \in {"error", "unsupported"}
  <2>1. writeKey(k) = Failed("unsupported key")
    BY <1>5 DEF writeKey
  <2>. QED
    BY <1>2, <2>1
<1>6. CASE ~(k.kind = "nil" \/ k.does = "nil") /\ k.kind = "marshaler"
  <2>1. writeKey(k) = IF safeMarshal(k).err = "none" THEN writeBytesKey(safeMarshal(k).text)
                                                     ELSE safeMarshal(k)
    BY <1>6 DEF writeKey
  <2>2. \/ safeMarshal(k).err = "none" /\ safeMarshal(k).text = k.text
        \/ safeMarshal(k).err # "none" /\ safeMarshal(k).text = <<>>
    BY DEF safeMarshal, Failed, Written
  <2>3. safeMarshal(k).err = "none" => writeKey(k) = writeStringKey(k.text)
    BY <2>1, <2>2 DEF writeBytesKey
  <2>4. <<>> \in Seq(Shown)
    OBVIOUS
  <2>. QED
    BY <1>1, <1>3, <2>1, <2>2, <2>3, <2>4
<1>7. CASE ~(k.kind = "nil" \/ k.does = "nil") /\ k.kind = "bytes"
  <2>1. writeKey(k) = writeBytesKey(k.text)
    BY <1>7 DEF writeKey
  <2>. QED
    BY <1>1, <1>3, <2>1 DEF writeBytesKey
<1>8. CASE /\ ~(k.kind = "nil" \/ k.does = "nil")
           /\ k.kind \notin {"error", "unsupported", "marshaler", "bytes"}
  <2>1. writeKey(k) = writeStringKey(safeString(k))
    BY <1>8 DEF writeKey
  <2>. QED
    BY <1>1, <1>3, <2>1
<1>. QED
  BY <1>4, <1>5, <1>6, <1>7, <1>8

\* A text in quotes or without, as it needs, is on one line.
LEMMA StringShown ==
    ASSUME NEW s \in Seq(Nat), NEW ok, NEW quoted
    PROVE  /\ writeStringValue(s, ok, quoted) \in Seq(Shown)
           /\ writeBytesValue(s, quoted) \in Seq(Shown)
  BY QuotedShown, PlainShown DEF writeStringValue, writeBytesValue, writeQuotedBytes

\* The text of a value of any kind is on one line.
LEMMA ValueShown ==
    ASSUME NEW v, Item(v), NEW quoted
    PROVE  writeValue(v, quoted).text \in Seq(Shown)
<1>1. /\ safeString(v) \in Seq(Nat) /\ v.text \in Seq(Nat) /\ Null \in Seq(Nat)
  BY SafeStringType DEF Item, Null
<1>2. \A e : Failed(e).text \in Seq(Shown)
  BY DEF Failed
<1>3. \A t \in Seq(Shown) : Written(t).text \in Seq(Shown)
  BY DEF Written
<1>4. CASE v.kind = "unsupported"
  BY <1>2, <1>4 DEF writeValue
<1>5. CASE v.kind = "nil"
  <2>1. writeValue(v, quoted) = Written(writeBytesValue(Null, quoted))
    BY <1>5 DEF writeValue
  <2>. QED
    BY <1>1, <1>3, <2>1, StringShown
<1>6. CASE v.kind = "number"
  <2>1. writeValue(v, quoted) = Written(writeStringValue(v.text, TRUE, FALSE))
    BY <1>6 DEF writeValue
  <2>. QED
    BY <1>1, <1>3, <2>1, StringShown
<1>7. CASE v.kind = "bytes"
  <2>1. writeValue(v, quoted) = Written(writeBytesValue(v.text, quoted))
    BY <1>7 DEF writeValue
  <2>. QED
    BY <1>1, <1>3, <2>1, StringShown
<1>8. CASE v.kind = "marshaler"
  <2> DEFINE m == safeMarshal(v)
             t == IF v.does = "nil" THEN Null ELSE m.text
  <2>1. writeValue(v, quoted) = IF m.err # "none" THEN m ELSE Written(writeBytesValue(t, quoted))
    BY <1>8 DEF writeValue
  <2>2. m.err # "none" => m.text = <<>>
    BY DEF safeMarshal, Failed, Written
  <2>3. t \in Seq(Nat)
    BY <1>1 DEF safeMarshal, Failed, Written
  <2> HIDE DEF m, t
  <2>4. writeBytesValue(t, quoted) \in Seq(Shown)
    BY <2>3, StringShown
  <2>5. <<>> \in Seq(Shown)
    OBVIOUS
  <2>. QED
    BY <1>3, <2>1, <2>2, <2>4, <2>5
<1>9. CASE v.kind \in {"error", "stringer", "pointer"} /\ v.does = "nil"
  <2>1. writeValue(v, quoted) = Written(writeStringValue(Null, FALSE, quoted))
    BY <1>9 DEF writeValue
  <2>. QED
    BY <1>1, <1>3, <2>1, StringShown
<1>10. CASE /\ v.kind \in {"string", "other", "error", "stringer", "pointer"}
            /\ ~(v.kind \in {"error", "stringer", "pointer"} /\ v.does = "nil")
  <2>1. writeValue(v, quoted) = Written(writeStringValue(safeString(v),
                              v.kind # "error" \/ v.does # "panics", quoted))
    BY <1>10 DEF writeValue
  <2>. QED
    BY <1>1, <1>3, <2>1, StringShown
<1>. QED
  BY <1>4, <1>5, <1>6, <1>7, <1>8, <1>9, <1>10 DEF Item, Kinds

\* So is a pair.
LEMMA PairShown ==
    ASSUME NEW k, Item(k), NEW v, Item(v), NEW quoted
    PROVE  EncodeKeyval(k, v, quoted).text \in Seq(Shown)
<1>1. writeKey(k).text \in Seq(Shown) /\ writeValue(v, quoted).text \in Seq(Shown)
  BY KeyShown, ValueShown
<1>2. <<Comma>> \in Seq(Shown) /\ <<Equals>> \in Seq(Shown) /\ <<>> \in Seq(Shown)
  BY DEF Comma, Equals, Shown, Space
<1> DEFINE t == (IF needSep THEN <<Comma>> ELSE <<>>) \o writeKey(k).text \o <<Equals>>
                  \o writeValue(v, quoted).text
<1>3. t \in Seq(Shown)
  BY <1>1, <1>2, ConcatProperties
<1>4. Written(t).text = t
  BY DEF Written
<1>5. \/ EncodeKeyval(k, v, quoted) = writeKey(k)
      \/ EncodeKeyval(k, v, quoted) = writeValue(v, quoted)
      \/ EncodeKeyval(k, v, quoted) = Written(t)
  BY DEF EncodeKeyval
<1>. QED
  BY <1>1, <1>3, <1>4, <1>5
-----------------------------------------------------------------------------
(* The invariants.                                                         *)

\* s is raw with a text without control characters behind it.
Behind(raw, s) == \E x \in Seq(Shown) : s = raw \o x

\* What is in the encoder while an event holds it, and what the logger has for
\* the next line, has no control character but those that NewInfluxdbLogger was
\* given; a line has one more, at its end.
TextInv ==
    /\ created \in Loggers
    /\ op \in {"none", "header", "record"}
    /\ op = "header" => buf \in Seq(Shown)
    /\ op = "record" => Behind(Raw, buf)
    /\ Behind(TagText(created.kv), tagSet)
    /\ OneLine

\* Texts without control characters are texts.
LEMMA ShownIsText ==
    ASSUME NEW x \in Seq(Shown)
    PROVE  x \in Seq(Nat)
<1>1. Shown \subseteq Nat
  BY DEF Shown
<1>. QED
  BY <1>1, SeqMonotonic

\* More of them may be added behind,
LEMMA BehindMore ==
    ASSUME NEW raw \in Seq(Nat), NEW s, Behind(raw, s), NEW t \in Seq(Shown)
    PROVE  Behind(raw, s \o t)
<1>1. PICK x \in Seq(Shown) : s = raw \o x
  BY DEF Behind
<1>2. x \in Seq(Nat) /\ t \in Seq(Nat)
  BY ShownIsText
<1>3. (raw \o x) \o t = raw \o (x \o t)
  BY <1>2, ConcatAssociative, SMTT(30)
<1>4. x \o t \in Seq(Shown)
  BY ConcatProperties
<1>. QED
  BY <1>1, <1>3, <1>4 DEF Behind

\* and the raw text may begin earlier.
LEMMA BehindEarlier ==
    ASSUME NEW a \in Seq(Nat), NEW raw \in Seq(Nat), NEW s, Behind(raw, s)
    PROVE  Behind(a \o raw, a \o s)
<1>1. PICK x \in Seq(Shown) : s = raw \o x
  BY DEF Behind
<1>2. x \in Seq(Nat)
  BY ShownIsText
<1>3. (a \o raw) \o x = a \o (raw \o x)
  BY <1>2, ConcatAssociative, SMTT(30)
<1>. QED
  BY <1>1, <1>3 DEF Behind

\* The tags of NewInfluxdbLogger, each with a comma before it.
TagTexts(kv) == [i \in DOMAIN kv |-> <<Comma>> \o kv[i].key \o <<Equals>> \o kv[i].val]

\* They are a sequence of texts, and what NewInfluxdbLogger writes.
LEMMA TagTextsType ==
    ASSUME NEW kv \in Seq([key : Seq(Nat), val : Seq(Nat)])
    PROVE  /\ TagTexts(kv) \in Seq(Seq(Nat)) /\ Len(TagTexts(kv)) = Len(kv) /\ Len(kv) \in Nat
           /\ \A i \in 1 .. Len(kv) :
                 TagTexts(kv)[i] = <<Comma>> \o kv[i].key \o <<Equals>> \o kv[i].val
           /\ TagText(kv) = FlattenSeq(TagTexts(kv)) /\ TagText(kv) \in Seq(Nat)
<1>1. /\ Len(kv) \in Nat /\ DOMAIN kv = 1 .. Len(kv)
      /\ \A i \in 1 .. Len(kv) : kv[i].key \in Seq(Nat) /\ kv[i].val \in Seq(Nat)
  <2>1. Len(kv) \in Nat /\ DOMAIN kv = 1 .. Len(kv)
    BY LenProperties
  <2>2. \A i \in 1 .. Len(kv) : kv[i] \in [key : Seq(Nat), val : Seq(Nat)]
    BY ElementOfSeq
  <2>. QED
    BY <2>1, <2>2
<1>2. ASSUME NEW k \in Seq(Nat), NEW v \in Seq(Nat)
      PROVE  <<Comma>> \o k \o <<Equals>> \o v \in Seq(Nat)
  <2>1. <<Comma>> \in Seq(Nat) /\ <<Equals>> \in Seq(Nat)
    BY DEF Comma, Equals
  <2> DEFINE c == <<Comma>>
             e == <<Equals>>
             ck == c \o k
             cke == ck \o e
  <2>2. c \in Seq(Nat) /\ e \in Seq(Nat)
    BY <2>1
  <2> HIDE DEF c, e
  <2>3. ck \in Seq(Nat)
    BY <2>2, ConcatProperties
  <2> HIDE DEF ck
  <2>4. cke \in Seq(Nat)
    BY <2>2, <2>3, ConcatProperties
  <2> HIDE DEF cke
  <2>5. cke \o v \in Seq(Nat)
    BY <2>4, ConcatProperties
  <2>. QED
    BY <2>5 DEF cke, ck, c, e
<1>3. TagTexts(kv) \in [1 .. Len(kv) -> Seq(Nat)]
  BY <1>1, <1>2 DEF TagTexts
<1>4. TagTexts(kv) \in Seq(Seq(Nat)) /\ Len(TagTexts(kv)) = Len(kv)
  <2> DEFINE q == TagTexts(kv)
             n == Len(kv)
             S == Seq(Nat)
  <2>1. n \in Nat /\ q \in [1 .. n -> S]
    BY <1>1, <1>3
  <2> HIDE DEF q, n, S
  <2>2. q \in Seq(S) /\ DOMAIN q = 1 .. n
    BY <2>1
  <2>3. Len(q) = n
    BY <2>1, <2>2, LenProperties
  <2>. QED
    BY <2>2, <2>3 DEF q, n, S
<1>5. TagText(kv) = FlattenSeq(TagTexts(kv))
  BY DEF TagText, TagTexts
<1>6. FlattenSeq(TagTexts(kv)) \in Seq(Nat)
  BY <1>4, FlattenedType
<1>7. \A i \in 1 .. Len(kv) :
         TagTexts(kv)[i] = <<Comma>> \o kv[i].key \o <<Equals>> \o kv[i].val
  BY <1>1 DEF TagTexts
<1>. QED
  BY <1>1, <1>4, <1>5, <1>6, <1>7

\* What NewInfluxdbLogger is given are texts.
LEMMA RawType ==
    ASSUME created \in Loggers
    PROVE  /\ created.kv \in Seq([key : Seq(Nat), val : Seq(Nat)])
           /\ measurement \in Seq(Nat) /\ TagText(created.kv) \in Seq(Nat) /\ Raw \in Seq(Nat)
<1>1. /\ Program \in Seq(Nat) /\ created.measurement \in Seq(Nat)
      /\ created.kv \in Seq([key : Seq(Nat), val : Seq(Nat)])
  BY LogfmtAssumption DEF LogfmtAssumption
<1>2. measurement \in Seq(Nat)
  BY <1>1 DEF measurement
<1>3. TagText(created.kv) \in Seq(Nat)
  BY <1>1, TagTextsType
<1>4. measurement \o TagText(created.kv) \in Seq(Nat)
  BY <1>2, <1>3, ConcatProperties
<1>. QED
  BY <1>1, <1>2, <1>3, <1>4 DEF Raw

\* What applications log are keys and values.
LEMMA KeyValsAreItems ==
    ASSUME NEW p \in KeyVals
    PROVE  Item(p[1]) /\ Item(p[2])
  BY LogfmtAssumption DEF LogfmtAssumption, Item

\* The error in the place of a value can always be written.
LEMMA ErrorWritten ==
    ASSUME NEW quoted
    PROVE  Item(ErrorValue) /\ writeValue(ErrorValue, quoted).err = "none"
<1>1. ErrorText \in Seq(Nat)
  BY DEF ErrorText
<1>. QED
  BY <1>1 DEF ErrorValue, Item, Kinds, writeValue, Written

\* TextInv holds at first,
LEMMA TextStart == TextInit => TextInv
<1> SUFFICES ASSUME TextInit PROVE TextInv
  OBVIOUS
<1>1. created \in Loggers /\ op = "none" /\ tagSet = TagText(created.kv) /\ line = {}
  BY DEF TextInit
<1>2. tagSet \in Seq(Nat)
  BY <1>1, RawType
<1>3. tagSet \o <<>> = tagSet /\ <<>> \in Seq(Shown)
  BY <1>2, ConcatEmptySeq
<1>4. Behind(TagText(created.kv), tagSet)
  BY <1>1, <1>3 DEF Behind
<1>. QED
  BY <1>1, <1>4 DEF TextInv, OneLine

\* and is kept by each step.
LEMMA TextStep == TextInv /\ [TextNext]_textVars => TextInv'
<1> SUFFICES ASSUME TextInv, [TextNext]_textVars PROVE TextInv'
  OBVIOUS
<1> USE DEF encVars
<1>c. created' = created
  BY DEF TextNext, HeaderBegins, RecordBegins, Take, Encode, HeaderEnds, RecordEnds, textVars
<1>r. Raw' = Raw /\ TagText(created.kv)' = TagText(created.kv)
  BY <1>c DEF Raw, measurement
<1>t. /\ created \in Loggers /\ measurement \in Seq(Nat) /\ TagText(created.kv) \in Seq(Nat)
      /\ Raw \in Seq(Nat) /\ Raw = measurement \o TagText(created.kv)
      /\ Behind(TagText(created.kv), tagSet) /\ OneLine
  BY RawType DEF TextInv, Raw
<1>s. /\ <<Comma>> \in Seq(Shown) /\ CallerPair \in Seq(Shown) /\ <<Space>> \in Seq(Shown)
      /\ Timestamp \in Seq(Shown)
  BY DEF Comma, Space, Shown, CallerPair, Timestamp
<1>k. UNCHANGED line => OneLine'
  BY <1>r, <1>t DEF OneLine
<1>1. CASE HeaderBegins
  <2>1. op' = "header" /\ buf' = <<>> /\ UNCHANGED <<tagSet, line>>
    BY <1>1 DEF HeaderBegins, Take
  <2>2. buf' \in Seq(Shown)
    BY <2>1
  <2>. QED
    BY <1>c, <1>r, <1>t, <1>k, <2>1, <2>2 DEF TextInv
<1>2. CASE RecordBegins
  <2>1. op' = "record" /\ buf' = measurement \o tagSet \o <<Space>> /\ UNCHANGED <<tagSet, line>>
    BY <1>2 DEF RecordBegins, Take
  <2>2. Behind(Raw, measurement \o tagSet)
    BY <1>t, BehindEarlier
  <2>3. Behind(Raw, buf')
    BY <1>t, <1>s, <2>1, <2>2, BehindMore
  <2>. QED
    BY <1>c, <1>r, <1>t, <1>k, <2>1, <2>3 DEF TextInv
<1>3. ASSUME NEW p \in KeyVals, Encode(p[1], p[2]) PROVE TextInv'
  <2> DEFINE first == EncodeKeyval(p[1], p[2], op = "record")
             again == EncodeKeyval(p[1], ErrorValue, op = "record")
             last  == IF first.err \in Retry THEN again ELSE first
             a     == IF first.err \in Retry THEN first.text ELSE <<>>
  <2>1. /\ buf' = buf \o a \o last.text /\ op # "none" /\ (op' = op \/ op' = "none")
        /\ UNCHANGED <<tagSet, line>>
    BY <1>3 DEF Encode
  <2>2. first.text \in Seq(Shown) /\ again.text \in Seq(Shown) /\ <<>> \in Seq(Shown)
    <3>1. Item(p[1]) /\ Item(p[2]) /\ Item(ErrorValue)
      BY KeyValsAreItems, ErrorWritten
    <3>2. first.text \in Seq(Shown)
      BY <3>1, PairShown
    <3>3. again.text \in Seq(Shown)
      BY <3>1, PairShown
    <3>. QED
      BY <3>2, <3>3
  <2>3. a \in Seq(Shown) /\ last.text \in Seq(Shown)
    <3> HIDE DEF first, again
    <3>. QED
      BY <2>2
  <2> DEFINE z == last.text
  <2> HIDE DEF a, last
  <2>4. buf' = (buf \o a) \o z /\ z \in Seq(Shown)
    BY <2>1, <2>3
  <2> HIDE DEF z
  <2>5. ASSUME op = "header" PROVE buf' \in Seq(Shown)
    BY <2>3, <2>4, <2>5, ConcatProperties DEF TextInv
  <2>6. ASSUME op = "record" PROVE Behind(Raw, buf')
    <3>1. Behind(Raw, buf \o a)
      BY <1>t, <2>3, <2>6, BehindMore DEF TextInv
    <3>. QED
      BY <1>t, <2>4, <3>1, BehindMore
  <2>. QED
    BY <1>c, <1>r, <1>t, <1>k, <2>1, <2>5, <2>6 DEF TextInv
<1>4. CASE HeaderEnds
  <2>1. /\ op = "header" /\ op' = "none" /\ tagSet' = (tagSet \o <<Comma>>) \o buf
        /\ UNCHANGED line
    BY <1>4 DEF HeaderEnds
  <2>2. Behind(TagText(created.kv), tagSet \o <<Comma>>)
    BY <1>t, <1>s, BehindMore
  <2>3. Behind(TagText(created.kv), tagSet')
    BY <1>t, <2>1, <2>2, BehindMore DEF TextInv
  <2>. QED
    BY <1>c, <1>r, <1>t, <1>k, <2>1, <2>3 DEF TextInv
<1>5. CASE RecordEnds
  <2> DEFINE t == buf \o <<Comma>> \o CallerPair \o <<Space>> \o Timestamp
  <2>1. /\ op = "record" /\ op' = "none" /\ tagSet' = tagSet
        /\ buf' = t \o <<Newline>>
        /\ \A l \in line' : l.text = buf'
    BY <1>5 DEF RecordEnds
  <2>2. Behind(Raw, t)
    <3>1. Behind(Raw, buf \o <<Comma>>)
      BY <1>t, <1>s, <2>1, BehindMore DEF TextInv
    <3>2. Behind(Raw, buf \o <<Comma>> \o CallerPair)
      BY <1>t, <1>s, <3>1, BehindMore
    <3>3. Behind(Raw, buf \o <<Comma>> \o CallerPair \o <<Space>>)
      BY <1>t, <1>s, <3>2, BehindMore
    <3>. QED
      BY <1>t, <1>s, <3>3, BehindMore
  <2> HIDE DEF t
  <2>3. PICK x \in Seq(Shown) : t = Raw \o x
    BY <2>2 DEF Behind
  <2> DEFINE raw == Raw
             m == Len(raw)
             n == Len(x)
             b == buf'
  <2>4. raw \in Seq(Nat) /\ x \in Seq(Nat) /\ t = raw \o x /\ b = t \o <<Newline>>
    BY <1>t, <2>1, <2>3, ShownIsText
  <2> HIDE DEF raw, b
  <2>5. /\ m \in Nat /\ n \in Nat /\ DOMAIN raw = 1 .. m /\ \A i \in 1 .. n : x[i] \in Shown
        /\ t \in Seq(Nat) /\ Len(t) = m + n
        /\ \A i \in 1 .. m + n : t[i] = IF i <= m THEN raw[i] ELSE x[i - m]
    BY <2>4, LenProperties, ElementOfSeq, ConcatProperties
  <2> HIDE DEF m, n
  <2>6. /\ DOMAIN b = 1 .. m + n + 1 /\ Len(b) = m + n + 1
        /\ \A i \in 1 .. m + n : b[i] = t[i]
        /\ b[m + n + 1] = Newline
    <3> DEFINE u == <<Newline>>
               k == m + n
    <3>1. u \in Seq(Nat) /\ Len(u) = 1 /\ u[1] = Newline
      BY DEF Newline
    <3>2. k \in Nat /\ Len(t) = k /\ b = t \o u
      BY <2>4, <2>5
    <3> HIDE DEF u, k
    <3>3. /\ b \in Seq(Nat) /\ Len(b) = k + 1
          /\ \A i \in 1 .. k + 1 : b[i] = IF i <= k THEN t[i] ELSE u[i - k]
      <4>1. t \in Seq(Nat)
        BY <2>5
      <4>2. /\ t \o u \in Seq(Nat) /\ Len(t \o u) = Len(t) + Len(u)
            /\ \A i \in 1 .. Len(t) + Len(u) :
                  (t \o u)[i] = IF i <= Len(t) THEN t[i] ELSE u[i - Len(t)]
        BY <3>1, <4>1, ConcatProperties
      <4>. QED
        BY <3>1, <3>2, <4>2
    <3>4. DOMAIN b = 1 .. k + 1
      BY <3>3, LenProperties
    <3>5. \A i \in 1 .. k : b[i] = t[i]
      <4>1. \A i \in 1 .. k : i \in 1 .. k + 1 /\ i <= k
        BY <3>2
      <4>. QED
        BY <3>3, <4>1
    <3>6. b[k + 1] = Newline
      <4>1. k + 1 \in 1 .. k + 1 /\ ~(k + 1 <= k) /\ (k + 1) - k = 1
        BY <3>2
      <4>2. b[k + 1] = u[(k + 1) - k]
        BY <3>3, <4>1
      <4>. QED
        BY <3>1, <4>1, <4>2
    <3>. QED
      BY <3>3, <3>4, <3>5, <3>6 DEF k
  <2>7. ASSUME NEW i \in DOMAIN b
        PROVE  b[i] < Space <=> (i = Len(b) \/ (i \in DOMAIN raw /\ raw[i] < Space))
    <3>1. CASE i \in 1 .. m
      <4>1. i \in 1 .. m + n /\ i <= m /\ i # m + n + 1
        BY <2>5, <3>1
      <4>2. b[i] = raw[i]
        BY <2>5, <2>6, <4>1
      <4>. QED
        BY <2>5, <2>6, <3>1, <4>1, <4>2
    <3>2. CASE i = m + n + 1
      BY <2>6, <3>2 DEF Newline, Space
    <3>3. CASE i \in m + 1 .. m + n
      <4>0. m \in Nat /\ n \in Nat
        BY <2>5
      <4>1. i \in 1 .. m + n /\ ~(i <= m) /\ i - m \in 1 .. n /\ i # m + n + 1 /\ i \notin 1 .. m
        BY <3>3, <4>0
      <4>2. b[i] = x[i - m] /\ x[i - m] \in Shown
        BY <2>5, <2>6, <4>1
      <4>3. b[i] \in Nat /\ b[i] >= Space
        BY <4>2 DEF Shown
      <4>4. ~(b[i] < Space)
        BY <4>3 DEF Space
      <4>. QED
        BY <2>5, <2>6, <4>1, <4>4
    <3>4. i \in 1 .. m \/ i = m + n + 1 \/ i \in m + 1 .. m + n
      BY <2>5, <2>6
    <3>. QED
      BY <3>1, <3>2, <3>3, <3>4
  <2>8. OneLine'
    BY <1>r, <2>1, <2>7 DEF OneLine, b, raw
  <2>. QED
    BY <1>c, <1>r, <1>t, <2>1, <2>8 DEF TextInv
<1>6. CASE UNCHANGED textVars
  <2>1. UNCHANGED <<op, buf, tagSet, line>>
    BY <1>6 DEF textVars
  <2>. QED
    BY <1>c, <1>r, <1>t, <1>k, <2>1 DEF TextInv
<1>. QED
  BY <1>1, <1>2, <1>3, <1>4, <1>5, <1>6 DEF TextNext

\* No event is given up at first,
LEMMA LostStart == TextInit => LostForCause
  BY DEF TextInit, LostForCause

\* Why an event is given up.
Cause(k, v) ==
    \/ k.kind = "nil" \/ k.does = "nil" \/ KeyText(k) = <<>>
    \/ k.kind = "marshaler" /\ k.does \in {"fails", "panics"}
    \/ v.kind = "marshaler" /\ v.does = "panics"

\* A string of which nothing is left is an invalid key.
LEMMA NothingLeft ==
    ASSUME NEW k, writeStringKey(safeString(k)).err # "none"
    PROVE  KeyText(k) = <<>>
  BY DEF keyRuneFilter, writeStringKey, KeyText, Chosen, Written, Failed

\* A key that cannot be written has a cause, unless its kind is not supported.
LEMMA KeyCause ==
    ASSUME NEW p \in KeyVals, writeKey(p[1]).err \notin {"none", "unsupported key"}
    PROVE  Cause(p[1], p[2])
<1> DEFINE k == p[1]
<1>1. k.kind \in {"nil", "number", "string", "bytes"} => k.does \in {"returns", "nil"}
  BY LogfmtAssumption DEF LogfmtAssumption
<1> HIDE DEF k
<1> SUFFICES ASSUME k.kind # "nil", k.does # "nil",
                    ~(k.kind = "marshaler" /\ k.does \in {"fails", "panics"})
             PROVE  KeyText(k) = <<>>
  BY DEF Cause, k
<1>2. k.kind \notin {"error", "unsupported"}
  <2>1. Failed("unsupported key").err = "unsupported key"
    BY DEF Failed
  <2>. QED
    BY <2>1 DEF writeKey, k
<1>3. CASE k.kind \in {"marshaler", "bytes"}
  <2>1. safeString(k) = k.text
    BY <1>1, <1>3 DEF safeString
  <2>2. k.kind = "marshaler" => safeMarshal(k).err = "none" /\ safeMarshal(k).text = k.text
    BY DEF safeMarshal, Written
  <2>3. writeKey(k) = writeStringKey(k.text)
    BY <1>3, <2>2 DEF writeKey, writeBytesKey
  <2>. QED
    BY <2>1, <2>3, NothingLeft DEF k
<1>4. CASE k.kind \notin {"marshaler", "bytes"}
  <2>1. writeKey(k) = writeStringKey(safeString(k))
    BY <1>2, <1>4 DEF writeKey
  <2>. QED
    BY <2>1, NothingLeft DEF k
<1>. QED
  BY <1>3, <1>4

\* A value that cannot be written and is not replaced has one.
LEMMA ValueCause ==
    ASSUME NEW v, NEW quoted, writeValue(v, quoted).err \notin Retry \cup {"none"}
    PROVE  v.kind = "marshaler" /\ v.does = "panics"
<1>1. \A t : Written(t).err = "none"
  BY DEF Written
<1>2. \A e : Failed(e).err = e
  BY DEF Failed
<1>3. v.kind # "unsupported"
  <2>1. v.kind = "unsupported" => writeValue(v, quoted) = Failed("unsupported value")
    BY DEF writeValue
  <2>. QED
    BY <1>2, <2>1 DEF Retry
<1>4. v.kind = "marshaler"
  <2> SUFFICES ASSUME v.kind # "marshaler" PROVE writeValue(v, quoted).err = "none"
    BY DEF Retry
  <2>1. \E t : writeValue(v, quoted) = Written(t)
    BY <1>3 DEF writeValue
  <2>. QED
    BY <1>1, <2>1
<1>5. safeMarshal(v).err \notin Retry \cup {"none"}
  <2>1. \/ writeValue(v, quoted) = safeMarshal(v)
        \/ \E t : writeValue(v, quoted) = Written(t)
    BY <1>4 DEF writeValue
  <2>. QED
    BY <1>1, <2>1
<1>6. v.does = "panics"
  BY <1>1, <1>2, <1>5 DEF safeMarshal, Retry
<1>. QED
  BY <1>4, <1>6

\* nor without cause in a step.
LEMMA LostStep == LostForCause /\ [TextNext]_textVars => LostForCause'
<1> SUFFICES ASSUME LostForCause, [TextNext]_textVars PROVE LostForCause'
  OBVIOUS
<1>1. ASSUME NEW p \in KeyVals, Encode(p[1], p[2]) PROVE LostForCause'
  <2> DEFINE k == p[1]
             v == p[2]
             q == op = "record"
             first == EncodeKeyval(k, v, q)
             again == EncodeKeyval(k, ErrorValue, q)
             last  == IF first.err \in Retry THEN again ELSE first
  <2>1. \/ lost' = lost
        \/ lost' = lost \cup {<<k, v>>} /\ last.err \notin {"none", "unsupported key"}
    BY <1>1 DEF Encode
  <2>2. ASSUME last.err \notin {"none", "unsupported key"} PROVE Cause(k, v)
    <3>1. \A u : LET e == EncodeKeyval(k, u, q)
                 IN  IF writeKey(k).err # "none" THEN e = writeKey(k)
                     ELSE IF writeValue(u, q).err # "none" THEN e = writeValue(u, q)
                     ELSE e.err = "none"
      BY DEF EncodeKeyval, Written
    <3>2. CASE writeKey(k).err # "none"
      <4>1. last = writeKey(k)
        <5>1. first = writeKey(k) /\ again = writeKey(k)
          BY <3>1, <3>2
        <5> HIDE DEF first, again
        <5>. QED
          BY <5>1
      <4>. QED
        BY <2>2, <3>2, <4>1, KeyCause
    <3>3. CASE writeKey(k).err = "none"
      <4>1. again.err = "none"
        BY <3>1, <3>3, ErrorWritten
      <4>2. last = first /\ first.err \notin Retry \cup {"none"}
        <5> HIDE DEF first, again
        <5>. QED
          BY <2>2, <4>1
      <4>3. first = writeValue(v, q)
        BY <3>1, <3>3, <4>2
      <4>. QED
        BY <4>2, <4>3, ValueCause DEF Cause
    <3>. QED
      BY <3>2, <3>3
  <2> HIDE DEF last
  <2>3. <<k, v>>[1] = k /\ <<k, v>>[2] = v
    OBVIOUS
  <2> HIDE DEF k, v
  <2>. QED
    BY <2>1, <2>2, <2>3 DEF LostForCause, Cause
<1>2. CASE HeaderBegins \/ RecordBegins \/ HeaderEnds \/ RecordEnds \/ UNCHANGED textVars
  <2>1. lost' = lost
    BY <1>2 DEF HeaderBegins, RecordBegins, Take, HeaderEnds, RecordEnds, textVars
  <2>. QED
    BY <2>1 DEF LostForCause
<1>. QED
  BY <1>1, <1>2 DEF TextNext
-----------------------------------------------------------------------------
(* Logfmt: what is quoted is read back.                                    *)

\* An escape is as long as it says.
LEMMA Getu4Inside ==
    ASSUME NEW s \in Seq(Nat), NEW i \in Nat \ {0}, getu4(s, i) >= 0
    PROVE  i + 5 <= Len(s)
  BY DEF getu4

\* What can be read from a place on depends on what can from later ones only.
LEMMA UnquoteLocal ==
    ASSUME NEW body \in Seq(Nat), NEW i \in 1 .. Len(body) + 1, NEW g, NEW h,
           \A j \in i + 1 .. Len(body) + 1 : g[j] = h[j]
    PROVE  UnquoteAt(body, g, i) = UnquoteAt(body, h, i)
<1> DEFINE n == Len(body)
           u == getu4(body, i)
           u2 == getu4(body, i + 6)
           d == DecodeRune(u, u2)
<1>1. n \in Nat /\ i \in Nat \ {0} /\ i <= n + 1
  BY LenProperties
<1>2. \A m \in Nat \ {0} : i + m <= n + 1 => g[i + m] = h[i + m]
  BY <1>1
<1>3. u >= 0 => g[i + 6] = h[i + 6]
  BY <1>1, <1>2, Getu4Inside
<1>4. d # RuneError => g[i + 12] = h[i + 12]
  <2>1. d # RuneError => u2 \in 56320 .. 57343
    BY DEF DecodeRune
  <2>2. u2 \in 56320 .. 57343 => u2 >= 0
    <3> HIDE DEF u2
    <3>. QED
      OBVIOUS
  <2>3. i + 6 \in Nat \ {0}
    BY <1>1
  <2>4. u2 >= 0 => (i + 6) + 5 <= n
    BY <2>3, Getu4Inside
  <2>. QED
    BY <1>1, <1>2, <2>1, <2>2, <2>4
<1>5. CASE i > n
  BY <1>1, <1>5 DEF UnquoteAt
<1>6. CASE i <= n /\ (body[i] = Quote \/ body[i] < Space)
  <2>1. body[i] # Backslash /\ ~(i > n)
    BY <1>1, <1>6 DEF Quote, Space, Backslash
  <2>. QED
    BY <1>6, <2>1 DEF UnquoteAt
<1>7. CASE i <= n /\ body[i] = Backslash
  <2>1. body[i] # Quote /\ ~(body[i] < Space) /\ ~(i > n)
    BY <1>1, <1>7 DEF Quote, Space, Backslash
  <2>2. \A f : UnquoteAt(body, f, i) =
                IF u >= 0
                THEN IF ~IsSurrogate(u) THEN Prepend(u, f[i + 6])
                     ELSE IF d # RuneError THEN Prepend(d, f[i + 12])
                     ELSE Prepend(RuneError, f[i + 6])
                ELSE IF i = n THEN {}
                ELSE UNION {Prepend(r, f[i + 2]) : r \in Unescape(body[i + 1])}
    BY <1>7, <2>1 DEF UnquoteAt
  <2>3. i # n => g[i + 2] = h[i + 2]
    BY <1>1, <1>2, <1>7
  <2>4. CASE u >= 0
    <3> HIDE DEF u, d, n
    <3>. QED
      BY <1>3, <1>4, <2>2, <2>4
  <2>5. CASE ~(u >= 0) /\ i = n
    <3> HIDE DEF u, d, n
    <3>. QED
      BY <2>2, <2>5
  <2>6. CASE ~(u >= 0) /\ i # n
    <3>1. \A f : UnquoteAt(body, f, i) = UNION {Prepend(r, f[i + 2]) : r \in Unescape(body[i + 1])}
      <4> HIDE DEF u, d, n
      <4>. QED
        BY <2>2, <2>6
    <3>. QED
      BY <2>3, <2>6, <3>1
  <2>. QED
    BY <2>4, <2>5, <2>6
<1>8. CASE i <= n /\ ~(body[i] = Quote \/ body[i] < Space) /\ body[i] # Backslash
  <2>1. ~(i > n) /\ g[i + 1] = h[i + 1]
    BY <1>1, <1>2, <1>8
  <2>. QED
    BY <1>8, <2>1 DEF UnquoteAt
<1>. QED
  BY <1>1, <1>5, <1>6, <1>7, <1>8

\* f is what unquoteBytes reads of body from each place on.
Reads(body, f) == f = [i \in 1 .. Len(body) + 1 |-> UnquoteAt(body, f, i)]

\* The recursion of unquoteBytes is well founded.
LEMMA ReadingExists ==
    ASSUME NEW body \in Seq(Nat)
    PROVE  \E f : Reads(body, f)
<1> DEFINE n == Len(body)
           From(m, g) == g = [i \in n + 1 - m .. n + 1 |-> UnquoteAt(body, g, i)]
           Has == {m \in Nat : m <= n => \E g : From(m, g)}
<1>1. n \in Nat
  BY LenProperties
<1>2. \A i, g, h : i \in 1 .. n + 1 /\ (\A j \in i + 1 .. n + 1 : g[j] = h[j]) =>
                      UnquoteAt(body, g, i) = UnquoteAt(body, h, i)
  BY UnquoteLocal
<1>3. 0 \in Has
  <2> DEFINE e == [i \in {} |-> {}]
             g == [i \in n + 1 .. n + 1 |-> UnquoteAt(body, e, i)]
  <2>1. UnquoteAt(body, g, n + 1) = UnquoteAt(body, e, n + 1)
    BY <1>1, <1>2
  <2>2. From(0, g)
    <3> HIDE DEF e
    <3>1. \A i \in n + 1 .. n + 1 : g[i] = UnquoteAt(body, g, i)
      BY <1>1, <2>1
    <3>2. n + 1 - 0 = n + 1
      BY <1>1
    <3>. QED
      BY <3>1, <3>2
  <2> HIDE DEF g
  <2>. QED
    BY <2>2
<1>4. ASSUME NEW m \in Nat, m \in Has PROVE m + 1 \in Has
  <2> SUFFICES ASSUME m + 1 <= n PROVE \E g : From(m + 1, g)
    OBVIOUS
  <2>1. PICK g : From(m, g)
    BY <1>1, <1>4
  <2> DEFINE k == n - m
             h == [i \in k .. n + 1 |-> IF i = k THEN UnquoteAt(body, g, k) ELSE g[i]]
  <2>2. k \in 1 .. n /\ n + 1 - (m + 1) = k /\ n + 1 - m = k + 1 /\ k \in Nat
    BY <1>1
  <2>3. \A j \in k + 1 .. n + 1 : h[j] = g[j]
    BY <2>2
  <2>4. \A i \in k .. n + 1 : h[i] = UnquoteAt(body, h, i)
    <3> SUFFICES ASSUME NEW i \in k .. n + 1 PROVE h[i] = UnquoteAt(body, h, i)
      OBVIOUS
    <3>1. UnquoteAt(body, h, i) = UnquoteAt(body, g, i)
      <4>1. i \in 1 .. n + 1 /\ \A j \in i + 1 .. n + 1 : h[j] = g[j]
        BY <1>1, <2>2, <2>3
      <4> HIDE DEF h
      <4>. QED
        BY <1>2, <4>1
    <3>2. CASE i = k
      <4>1. h[i] = UnquoteAt(body, g, k)
        BY <3>2
      <4>. QED
        BY <3>1, <3>2, <4>1
    <3>3. CASE i # k
      <4>1. i \in k + 1 .. n + 1 /\ h[i] = g[i]
        <5>1. i \in k + 1 .. n + 1
          <6> HIDE DEF k, h
          <6>. QED
            BY <1>1, <2>2, <3>3
        <5>. QED
          BY <2>3, <5>1
      <4>2. g[i] = UnquoteAt(body, g, i)
        BY <2>1, <2>2, <4>1
      <4>. QED
        BY <3>1, <4>1, <4>2
    <3>. QED
      BY <3>2, <3>3
  <2>5. h = [i \in k .. n + 1 |-> UnquoteAt(body, h, i)]
    BY <2>4
  <2>. QED
    BY <2>2, <2>5
<1>5. n \in Has
  <2> HIDE DEF Has
  <2>. QED
    BY <1>1, <1>3, <1>4, NatSetInduction
<1>6. \E g : From(n, g)
  BY <1>1, <1>5
<1>7. n + 1 - n = 1
  BY <1>1
<1>. QED
  BY <1>6, <1>7 DEF Reads

\* unquoteBytes takes the quotes off and reads from the first rune.
LEMMA UnquoteReads ==
    ASSUME NEW s, NEW body \in Seq(Nat), body = SubSeq(s, 2, Len(s) - 1),
           Len(s) >= 2, Len(s) \in Nat, s[1] = Quote, s[Len(s)] = Quote
    PROVE  \E f : Reads(body, f) /\ unquoteBytes(s) = f[1]
<1> DEFINE f == CHOOSE g : g = [i \in 1 .. Len(body) + 1 |-> UnquoteAt(body, g, i)]
<1>1. Reads(body, f)
  BY ReadingExists DEF Reads
<1>2. unquoteBytes(s) = f[1]
  BY DEF unquoteBytes
<1>. QED
  BY <1>1, <1>2

\* The escapes.
LEMMA EscapeForms ==
    ASSUME NEW r \in Nat
    PROVE  \/ r \in {Quote, Backslash} /\ Escape(r) = <<Backslash, r>>
           \/ \E c \in {110, 114, 116} : Unescape(c) = {r} /\ Escape(r) = <<Backslash, c>>
           \/ /\ r \in 0 .. 31
              /\ Escape(r) = <<Backslash, 117, 48, 48, Hex(r \div 16), Hex(r % 16)>>
           \/ r = RuneError /\ Escape(r) = <<Backslash, 117, 102, 102, 102, 100>>
           \/ r >= Space /\ r \notin {Quote, Backslash, RuneError} /\ Escape(r) = <<r>>
<1> USE DEF Quote, Backslash, Space, Newline, Return, Tab, RuneError
<1>d. DOMAIN LetterOf = {Newline, Return, Tab}
  BY DEF LetterOf
<1>1. CASE r \in Escaped
  <2>1. r \notin DOMAIN LetterOf /\ r # RuneError /\ r \notin 0 .. 31
    BY <1>1, <1>d DEF Escaped
  <2>. QED
    BY <1>1, <2>1 DEF Escape, Escaped
<1>2. CASE r \in {Newline, Return, Tab}
  <2>1. r \notin Escaped /\ r # RuneError
    BY <1>2 DEF Escaped
  <2>2. Escape(r) = <<Backslash, LetterOf[r]>>
    BY <1>2, <1>d, <2>1 DEF Escape
  <2>3. LetterOf[r] \in {110, 114, 116} /\ Unescape(LetterOf[r]) = {r}
    <3>1. Unescape(110) = {Newline} /\ Unescape(114) = {Return} /\ Unescape(116) = {Tab}
      BY DEF Unescape
    <3>. QED
      BY <1>2, <3>1 DEF LetterOf
  <2>. QED
    BY <2>2, <2>3
<1>3. CASE r \in 0 .. 31 /\ r \notin {Newline, Return, Tab}
  <2>1. r \notin Escaped /\ r # RuneError /\ r \notin DOMAIN LetterOf
    BY <1>3, <1>d DEF Escaped
  <2>. QED
    BY <1>3, <2>1 DEF Escape
<1>4. CASE r = RuneError
  BY <1>4, <1>d DEF Escape, Escaped
<1>5. CASE r >= Space /\ r # RuneError /\ r \notin Escaped
  <2>1. r \notin DOMAIN LetterOf /\ r \notin 0 .. 31
    BY <1>5, <1>d
  <2>. QED
    BY <1>5, <2>1 DEF Escape, Escaped
<1>. QED
  BY <1>1, <1>2, <1>3, <1>4, <1>5

\* A hexadecimal digit is read as it was written.
LEMMA HexRead ==
    ASSUME NEW d \in 0 .. 15
    PROVE  HexOf(Hex(d)) = d /\ Hex(d) \in Nat
  BY DEF HexOf, Hex

\* A control character has two hexadecimal digits.
LEMMA TwoDigits ==
    ASSUME NEW r \in 0 .. 31
    PROVE  /\ r \div 16 \in 0 .. 15 /\ r % 16 \in 0 .. 15
           /\ r = 16 * (r \div 16) + (r % 16)
           /\ ~IsSurrogate(r)
<1>1. r \div 16 \in 0 .. 15 /\ r % 16 \in 0 .. 15 /\ r = 16 * (r \div 16) + (r % 16)
  OBVIOUS
<1>2. ~IsSurrogate(r)
  <2>1. IsSurrogate(r) => r >= 55296
    BY DEF IsSurrogate
  <2>2. r \in Int /\ r <= 31
    OBVIOUS
  <2>3. ~(r >= 55296)
    BY <2>2
  <2>. QED
    BY <2>1, <2>3
<1>. QED
  BY <1>1, <1>2

\* Where the escape of a rune stands in full, that rune is read.
LEMMA EscapeRead ==
    ASSUME NEW body \in Seq(Nat), NEW i \in Nat \ {0}, NEW r \in Nat, NEW f,
           i + Len(Escape(r)) <= Len(body) + 1,
           \A j \in 1 .. Len(Escape(r)) : body[i + j - 1] = Escape(r)[j]
    PROVE  UnquoteAt(body, f, i) = Prepend(r, f[i + Len(Escape(r))])
<1> DEFINE n == Len(body)
           u == getu4(body, i)
<1>1. n \in Nat
  BY LenProperties
<1> USE DEF Quote, Backslash, Space, RuneError
\* Two runes of which the second is no u.
<1>2. ASSUME i + 1 <= n, body[i] = Backslash, body[i + 1] # 117
      PROVE  UnquoteAt(body, f, i) = UNION {Prepend(c, f[i + 2]) : c \in Unescape(body[i + 1])}
  <2>1. ~(u >= 0) /\ i # n /\ i <= n
    BY <1>1, <1>2 DEF getu4
  <2> HIDE DEF u
  <2>. QED
    BY <1>2, <2>1 DEF UnquoteAt, u
\* Six runes that are a number.
<1>3. ASSUME NEW a \in Nat, NEW b \in Nat, NEW c \in Nat, NEW d \in Nat,
             i + 5 <= n, body[i] = Backslash, body[i + 1] = 117,
             HexOf(body[i + 2]) = a, HexOf(body[i + 3]) = b,
             HexOf(body[i + 4]) = c, HexOf(body[i + 5]) = d,
             r = 4096 * a + 256 * b + 16 * c + d, ~IsSurrogate(r)
      PROVE  UnquoteAt(body, f, i) = Prepend(r, f[i + 6])
  <2>1. \A j \in i + 2 .. i + 5 : HexOf(body[j]) >= 0
    <3> SUFFICES ASSUME NEW j \in i + 2 .. i + 5 PROVE HexOf(body[j]) >= 0
      OBVIOUS
    <3>1. j = i + 2 \/ j = i + 3 \/ j = i + 4 \/ j = i + 5
      OBVIOUS
    <3>2. /\ HexOf(body[i + 2]) >= 0 /\ HexOf(body[i + 3]) >= 0
          /\ HexOf(body[i + 4]) >= 0 /\ HexOf(body[i + 5]) >= 0
      BY <1>3
    <3>. QED
      BY <3>1, <3>2
  <2>2. u = r
    BY <1>3, <2>1 DEF getu4
  <2>3. i <= n /\ u >= 0
    BY <1>1, <1>3, <2>2
  <2> HIDE DEF u
  <2>. QED
    BY <1>3, <2>2, <2>3 DEF UnquoteAt, u
<1>i. i + 1 - 1 = i /\ i + 2 - 1 = i + 1 /\ i + 3 - 1 = i + 2 /\ i + 4 - 1 = i + 3
      /\ i + 5 - 1 = i + 4 /\ i + 6 - 1 = i + 5
  OBVIOUS
<1>p. ASSUME NEW m \in Nat, Len(Escape(r)) = m
      PROVE  /\ m >= 1 => body[i] = Escape(r)[1]
             /\ m >= 2 => body[i + 1] = Escape(r)[2]
             /\ m >= 6 => /\ body[i + 2] = Escape(r)[3] /\ body[i + 3] = Escape(r)[4]
                          /\ body[i + 4] = Escape(r)[5] /\ body[i + 5] = Escape(r)[6]
             /\ i + m <= n + 1
  <2> DEFINE e == Escape(r)
  <2>1. \A j \in 1 .. m : body[i + j - 1] = e[j]
    BY <1>p
  <2>2. i + m <= n + 1
    BY <1>p
  <2> HIDE DEF e, n
  <2>. QED
    BY <1>i, <2>1, <2>2 DEF e
<1>4. CASE \E c : /\ Unescape(c) = {r} /\ c # 117 /\ Escape(r) = <<Backslash, c>>
  <2>1. PICK c : Unescape(c) = {r} /\ c # 117 /\ Escape(r) = <<Backslash, c>>
    BY <1>4
  <2>2. Len(Escape(r)) = 2 /\ Escape(r)[1] = Backslash /\ Escape(r)[2] = c
    BY <2>1
  <2>3. body[i] = Backslash /\ body[i + 1] = c /\ i + 2 <= n + 1
    BY <2>2, <1>p
  <2>4. UnquoteAt(body, f, i) = UNION {Prepend(x, f[i + 2]) : x \in {r}}
    <3>1. i + 1 <= n
      BY <1>1, <2>3
    <3>. QED
      BY <1>2, <2>1, <2>3, <3>1
  <2>. QED
    BY <2>2, <2>4
<1>5. CASE r \in {Quote, Backslash} /\ Escape(r) = <<Backslash, r>>
  <2>1. r # 117
    BY <1>5
  <2>2. Unescape(r) = {r}
    <3>1. /\ r \in {Quote, Backslash, 47, 39}
          /\ r # 98 /\ r # 102 /\ r # 110 /\ r # 114 /\ r # 116
      BY <1>5
    <3>. QED
      BY <3>1 DEF Unescape
  <2>. QED
    BY <1>4, <1>5, <2>1, <2>2
<1>6. CASE /\ r \in 0 .. 31
           /\ Escape(r) = <<Backslash, 117, 48, 48, Hex(r \div 16), Hex(r % 16)>>
  <2> DEFINE c == r \div 16
             d == r % 16
  <2>1. c \in 0 .. 15 /\ d \in 0 .. 15 /\ r = 16 * c + d /\ ~IsSurrogate(r)
    BY <1>6, TwoDigits
  <2>2. /\ Len(Escape(r)) = 6 /\ Escape(r)[1] = Backslash /\ Escape(r)[2] = 117
        /\ Escape(r)[3] = 48 /\ Escape(r)[4] = 48
        /\ Escape(r)[5] = Hex(c) /\ Escape(r)[6] = Hex(d)
    BY <1>6
  <2> HIDE DEF c, d
  <2>3. /\ body[i] = Backslash /\ body[i + 1] = 117 /\ body[i + 2] = 48 /\ body[i + 3] = 48
        /\ body[i + 4] = Hex(c) /\ body[i + 5] = Hex(d) /\ i + 6 <= n + 1
    BY <2>2, <1>p
  <2>4. HexOf(48) = 0 /\ HexOf(Hex(c)) = c /\ HexOf(Hex(d)) = d
    <3>1. HexOf(48) = 0
      BY DEF HexOf
    <3>. QED
      BY <2>1, <3>1, HexRead
  <2>5. i + 5 <= n /\ c \in Nat /\ d \in Nat /\ r = 4096 * 0 + 256 * 0 + 16 * c + d
    <3>1. i + 5 <= n
      BY <1>1, <2>3
    <3>2. c \in Nat /\ d \in Nat /\ r = 16 * c + d
      BY <2>1
    <3>3. 4096 * 0 + 256 * 0 + 16 * c + d = 16 * c + d
      BY <3>2
    <3>. QED
      BY <3>1, <3>2, <3>3
  <2>6. UnquoteAt(body, f, i) = Prepend(r, f[i + 6])
    BY <1>3, <2>1, <2>3, <2>4, <2>5
  <2>. QED
    BY <2>2, <2>6
<1>7. CASE r = RuneError /\ Escape(r) = <<Backslash, 117, 102, 102, 102, 100>>
  <2>1. /\ Len(Escape(r)) = 6 /\ Escape(r)[1] = Backslash /\ Escape(r)[2] = 117
        /\ Escape(r)[3] = 102 /\ Escape(r)[4] = 102
        /\ Escape(r)[5] = 102 /\ Escape(r)[6] = 100
    BY <1>7
  <2>2. /\ body[i] = Backslash /\ body[i + 1] = 117 /\ body[i + 2] = 102 /\ body[i + 3] = 102
        /\ body[i + 4] = 102 /\ body[i + 5] = 100 /\ i + 6 <= n + 1
    BY <2>1, <1>p
  <2>3. HexOf(102) = 15 /\ HexOf(100) = 13
    BY DEF HexOf
  <2>4. ~IsSurrogate(65533) /\ r = 65533
    BY <1>7 DEF IsSurrogate
  <2>5. i + 5 <= n /\ r = 4096 * 15 + 256 * 15 + 16 * 15 + 13
    BY <1>1, <2>2, <2>4
  <2>6. UnquoteAt(body, f, i) = Prepend(r, f[i + 6])
    BY <1>3, <2>2, <2>3, <2>4, <2>5
  <2>. QED
    BY <2>1, <2>6
<1>8. CASE r >= Space /\ r \notin {Quote, Backslash, RuneError} /\ Escape(r) = <<r>>
  <2>1. Len(Escape(r)) = 1 /\ body[i] = r /\ i <= n
    BY <1>1, <1>8
  <2>2. UnquoteAt(body, f, i) = Prepend(r, f[i + 1])
    <3>1. ~(i > n) /\ body[i] # Quote /\ ~(body[i] < Space) /\ body[i] # Backslash
      BY <1>1, <1>8, <2>1
    <3>. QED
      BY <2>1, <3>1 DEF UnquoteAt
  <2>. QED
    BY <2>1, <2>2
<1>. QED
  BY <1>4, <1>5, <1>6, <1>7, <1>8, EscapeForms

\* The partial concatenations that FlattenSeq goes through.
Parts(q, S, F) ==
    /\ F \in [0 .. Len(q) -> Seq(S)]
    /\ F[0] = <<>>
    /\ \A i \in 1 .. Len(q) : F[i] = F[i - 1] \o q[i]

\* There are such parts of every sequence of sequences.
LEMMA PartsExist ==
    ASSUME NEW S, NEW q \in Seq(Seq(S))
    PROVE  \E F : Parts(q, S, F) /\ FlattenSeq(q) = F[Len(q)]
  BY Flattened DEF Parts

\* Part i is part k with the text i at its end.
Follows(q, F, k, i) ==
    /\ Len(F[k]) \in Nat /\ Len(q[i]) \in Nat
    /\ Len(F[i]) = Len(F[k]) + Len(q[i])
    /\ \A j \in 1 .. Len(F[k]) : F[i][j] = F[k][j]
    /\ \A j \in 1 .. Len(q[i]) : F[i][Len(F[k]) + j] = q[i][j]

\* So it is for neighbours.
LEMMA PartsNext ==
    ASSUME NEW S, NEW q \in Seq(Seq(S)), NEW F, Parts(q, S, F),
           NEW k \in Nat, NEW i \in 1 .. Len(q), i = k + 1
    PROVE  Follows(q, F, k, i)
<1>1. Len(q) \in Nat /\ q[i] \in Seq(S) /\ F[k] \in Seq(S)
  <2>1. Len(q) \in Nat
    BY LenProperties
  <2>2. q[i] \in Seq(S)
    BY ElementOfSeq
  <2>3. F \in [0 .. Len(q) -> Seq(S)] /\ k \in 0 .. Len(q)
    BY <2>1 DEF Parts
  <2>. QED
    BY <2>1, <2>2, <2>3
<1>2. F[i] = F[k] \o q[i]
  <2>1. i - 1 = k
    OBVIOUS
  <2>. QED
    BY <2>1 DEF Parts
<1> DEFINE a == F[k]
           b == q[i]
<1> HIDE DEF a, b
<1>3. a \in Seq(S) /\ b \in Seq(S) /\ F[i] = a \o b
  BY <1>1, <1>2 DEF a, b
<1>4. /\ Len(a) \in Nat /\ Len(b) \in Nat
      /\ Len(a \o b) = Len(a) + Len(b)
      /\ \A j \in 1 .. Len(a) : (a \o b)[j] = a[j]
      /\ \A j \in 1 .. Len(b) : (a \o b)[Len(a) + j] = b[j]
  <2>1. \A j \in 1 .. Len(a) + Len(b) :
           (a \o b)[j] = IF j <= Len(a) THEN a[j] ELSE b[j - Len(a)]
    BY <1>3, ConcatProperties
  <2>2. Len(a) \in Nat /\ Len(b) \in Nat /\ Len(a \o b) = Len(a) + Len(b)
    BY <1>3, ConcatProperties, LenProperties
  <2>3. ASSUME NEW j \in 1 .. Len(b) PROVE (a \o b)[Len(a) + j] = b[j]
    <3>1. /\ Len(a) + j \in 1 .. Len(a) + Len(b) /\ ~(Len(a) + j <= Len(a))
          /\ (Len(a) + j) - Len(a) = j
      BY <2>2
    <3>. QED
      BY <2>1, <3>1
  <2>4. ASSUME NEW j \in 1 .. Len(a) PROVE (a \o b)[j] = a[j]
    <3>1. j \in 1 .. Len(a) + Len(b) /\ j <= Len(a)
      BY <2>2
    <3>. QED
      BY <2>1, <3>1
  <2>. QED
    BY <2>2, <2>3, <2>4
<1>. QED
  BY <1>3, <1>4 DEF a, b, Follows

Starts(a, b) == Len(a) <= Len(b) /\ \A j \in 1 .. Len(a) : b[j] = a[j]

\* Each part begins the later ones.
LEMMA PartsGrow ==
    ASSUME NEW S, NEW q \in Seq(Seq(S)), NEW F, Parts(q, S, F),
           NEW m \in 0 .. Len(q), NEW k \in 0 .. m
    PROVE  Starts(F[k], F[m])
<1> DEFINE n == Len(q)
           Begins(a, b) == Len(F[a]) <= Len(F[b]) /\ \A j \in 1 .. Len(F[a]) : F[b][j] = F[a][j]
           Has == {b \in Nat : b <= n => \A a \in 0 .. b : Begins(a, b)}
<1>1. n \in Nat /\ \A a \in 0 .. n : Len(F[a]) \in Nat
  <2>1. n \in Nat
    BY LenProperties
  <2>2. \A a \in 0 .. n : F[a] \in Seq(S)
    BY DEF Parts
  <2>. QED
    BY <2>1, <2>2, LenProperties
<1>2. \A a \in 0 .. n : Begins(a, a)
  BY <1>1
<1>3. 0 \in Has
  BY <1>1, <1>2
<1>4. ASSUME NEW b \in Nat, b \in Has PROVE b + 1 \in Has
  <2> SUFFICES ASSUME b + 1 <= n, NEW a \in 0 .. b + 1 PROVE Begins(a, b + 1)
    <3> HIDE DEF Begins
    <3>. QED
      OBVIOUS
  <2>1. CASE a = b + 1
    BY <1>1, <1>2, <2>1
  <2>2. CASE a # b + 1
    <3>1. a \in 0 .. b /\ b \in 0 .. n /\ b + 1 \in 1 .. n /\ a \in 0 .. n
      BY <1>1, <2>2
    <3>2. Begins(a, b)
      BY <1>1, <1>4, <3>1
    <3>3. Begins(b, b + 1)
      <4>1. /\ Len(F[b]) \in Nat /\ Len(q[b + 1]) \in Nat
            /\ Len(F[b + 1]) = Len(F[b]) + Len(q[b + 1])
            /\ \A j \in 1 .. Len(F[b]) : F[b + 1][j] = F[b][j]
        <5> DEFINE i == b + 1
        <5>1. b \in Nat /\ i \in 1 .. Len(q) /\ i = b + 1
          BY <3>1
        <5> HIDE DEF i
        <5>2. Follows(q, F, b, i)
          BY <5>1, PartsNext
        <5>. QED
          BY <5>2 DEF i, Follows
      <4>2. Len(F[b]) <= Len(F[b + 1])
        <5> DEFINE x == Len(F[b])
                   y == Len(q[b + 1])
                   z == Len(F[b + 1])
        <5>1. x \in Nat /\ y \in Nat /\ z = x + y
          BY <4>1
        <5> HIDE DEF x, y, z
        <5>2. x <= z
          BY <5>1
        <5>. QED
          BY <5>2 DEF x, z
      <4>. QED
        BY <4>1, <4>2
    <3>4. Len(F[a]) \in Nat /\ Len(F[b]) \in Nat /\ Len(F[b + 1]) \in Nat
      BY <1>1, <3>1
    <3>5. Len(F[a]) <= Len(F[b + 1])
      <4>1. Len(F[a]) <= Len(F[b]) /\ Len(F[b]) <= Len(F[b + 1])
        BY <3>2, <3>3
      <4>. QED
        BY <3>4, <4>1
    <3>6. ASSUME NEW j \in 1 .. Len(F[a]) PROVE F[b + 1][j] = F[a][j]
      <4>1. j \in 1 .. Len(F[b])
        BY <3>2, <3>4
      <4>. QED
        BY <3>2, <3>3, <4>1
    <3>. QED
      BY <3>5, <3>6
  <2>. QED
    BY <2>1, <2>2
<1>6. m <= n /\ m \in Nat
  BY <1>1
<1>5. m \in Has
  <2> HIDE DEF Has
  <2>. QED
    BY <1>3, <1>4, <1>6, NatSetInduction
<1>7. Begins(k, m)
  <2> HIDE DEF Begins
  <2>. QED
    BY <1>5, <1>6
<1>. QED
  BY <1>7 DEF Starts

\* A text in quotes: the escapes of its runes, one after the other.
Escapes(s) == [i \in DOMAIN s |-> Escape(s[i])]

\* They are a sequence of texts, and what writeQuotedString writes.
LEMMA EscapesType ==
    ASSUME NEW s \in Seq(Nat)
    PROVE  /\ Escapes(s) \in Seq(Seq(Nat)) /\ Len(Escapes(s)) = Len(s) /\ Len(s) \in Nat
           /\ \A i \in 1 .. Len(s) : s[i] \in Nat /\ Escapes(s)[i] = Escape(s[i])
           /\ writeQuotedString(s) = <<Quote>> \o FlattenSeq(Escapes(s)) \o <<Quote>>
<1>1. Len(s) \in Nat /\ DOMAIN s = 1 .. Len(s) /\ \A i \in 1 .. Len(s) : s[i] \in Nat
  BY LenProperties, ElementOfSeq
<1>2. ASSUME NEW r \in Nat PROVE Escape(r) \in Seq(Nat)
  <2>1. Shown \subseteq Nat
    BY DEF Shown
  <2>2. Escape(r) \in Seq(Shown)
    BY EscapeShown
  <2> DEFINE e == Escape(r)
  <2> HIDE DEF e
  <2>3. e \in Seq(Shown)
    BY <2>2 DEF e
  <2>4. Len(e) \in Nat /\ e \in [1 .. Len(e) -> Shown]
    BY <2>3, LenProperties
  <2>5. e \in [1 .. Len(e) -> Nat]
    BY <2>1, <2>4
  <2>6. e \in Seq(Nat)
    BY <2>4, <2>5
  <2>. QED
    BY <2>6 DEF e
<1>3. Escapes(s) \in [1 .. Len(s) -> Seq(Nat)]
  BY <1>1, <1>2 DEF Escapes
<1>4. \A i \in 1 .. Len(s) : Escapes(s)[i] = Escape(s[i])
  BY <1>1 DEF Escapes
<1>5. Escapes(s) \in Seq(Seq(Nat)) /\ Len(Escapes(s)) = Len(s)
  BY <1>1, <1>3, LenProperties
<1>. QED
  BY <1>1, <1>4, <1>5 DEF writeQuotedString, Escapes

\* Texts can be joined in any grouping.
Associate(y, z, x) == (y \o z) \o x = y \o (z \o x)

\* They always can.
LEMMA Rebracket ==
    ASSUME NEW x \in Seq(Nat), NEW y \in Seq(Nat), NEW z \in Seq(Nat)
    PROVE  Associate(y, z, x)
  BY ConcatAssociative, SMTT(30) DEF Associate

\* What is read from the beginning is first and what is read from place i on,
\* if that is one text at most.
LeadsWith(f, i, first) ==
    /\ f[i] = {} => f[1] = {}
    /\ \A x \in Seq(Nat) : f[i] = {x} => f[1] = {first \o x}

\* So it is with a body that begins with the escapes of the first runes of s.
LEMMA EscapesRead ==
    ASSUME NEW s \in Seq(Nat), NEW F, Parts(Escapes(s), Nat, F),
           NEW body \in Seq(Nat), NEW f, Reads(body, f),
           NEW k \in 0 .. Len(s), Starts(F[k], body)
    PROVE  LeadsWith(f, Len(F[k]) + 1, SubSeq(s, 1, k))
<1> DEFINE q == Escapes(s)
           n == Len(s)
           Good(m) == /\ f[Len(F[m]) + 1] = {} => f[1] = {}
                      /\ \A x \in Seq(Nat) :
                            f[Len(F[m]) + 1] = {x} => f[1] = {SubSeq(s, 1, m) \o x}
           Has == {m \in Nat : m <= k => Good(m)}
<1>1. /\ q \in Seq(Seq(Nat)) /\ Len(q) = n /\ n \in Nat /\ k \in Nat /\ k <= n
      /\ \A i \in 1 .. n : s[i] \in Nat /\ q[i] = Escape(s[i])
      /\ Len(body) \in Nat
      /\ Len(F[k]) <= Len(body) /\ \A j \in 1 .. Len(F[k]) : body[j] = F[k][j]
  BY EscapesType, LenProperties DEF Starts
<1> HIDE DEF q
<1>p. Parts(q, Nat, F)
  BY DEF q
<1>2. 0 \in Has
  <2>1. Len(F[0]) + 1 = 1
    BY <1>p DEF Parts
  <2>2. \A x \in Seq(Nat) : SubSeq(s, 1, 0) \o x = x
    <3>1. SubSeq(s, 1, 0) = <<>>
      BY SubSeqEmpty
    <3>. QED
      BY <3>1, ConcatEmptySeq
  <2>. QED
    BY <2>1, <2>2
<1>3. ASSUME NEW m \in Nat, m \in Has PROVE m + 1 \in Has
  <2> SUFFICES ASSUME m + 1 <= k PROVE Good(m + 1)
    <3> HIDE DEF Good
    <3>. QED
      OBVIOUS
  <2>1. Good(m)
    <3> HIDE DEF Good
    <3>. QED
      BY <1>1, <1>3
  <2>2. m + 1 \in 1 .. n /\ m + 1 \in 0 .. k /\ k \in 0 .. Len(q) /\ m + 1 \in 1 .. Len(q)
    BY <1>1
  <2> DEFINE r == s[m + 1]
             a == Len(F[m])
             e == Escape(r)
  <2>3. r \in Nat /\ q[m + 1] = e
    BY <1>1, <2>2
  <2>4. /\ a \in Nat /\ Len(e) \in Nat /\ Len(F[m + 1]) = a + Len(e)
        /\ \A j \in 1 .. Len(e) : F[m + 1][a + j] = e[j]
    <3>1. /\ Len(F[m]) \in Nat /\ Len(q[m + 1]) \in Nat
          /\ Len(F[m + 1]) = Len(F[m]) + Len(q[m + 1])
          /\ \A j \in 1 .. Len(q[m + 1]) : F[m + 1][Len(F[m]) + j] = q[m + 1][j]
      <4> HIDE DEF r, a, e
      <4> DEFINE i == m + 1
      <4>1. i \in 1 .. Len(q) /\ i = m + 1
        BY <2>2
      <4> HIDE DEF i
      <4>2. Follows(q, F, m, i)
        BY <1>1, <1>p, <4>1, PartsNext
      <4>. QED
        BY <4>2 DEF i, Follows
    <3>. QED
      BY <2>3, <3>1
  <2>5. Len(F[m + 1]) <= Len(F[k]) /\ \A j \in 1 .. Len(F[m + 1]) : F[k][j] = F[m + 1][j]
    <3> HIDE DEF r, a, e
    <3> DEFINE i == m + 1
    <3>1. i \in 0 .. k /\ k \in 0 .. Len(q)
      BY <2>2
    <3> HIDE DEF i
    <3>2. Starts(F[i], F[k])
      BY <1>1, <1>p, <3>1, PartsGrow
    <3>. QED
      BY <3>2 DEF Starts, i
  <2>6. Len(F[k]) \in Nat
    <3>1. F[k] \in Seq(Nat)
      BY <1>1, <1>p DEF Parts
    <3>. QED
      BY <3>1, LenProperties
  <2> HIDE DEF a, e, r
  <2>7. /\ (a + 1) + Len(e) <= Len(body) + 1
        /\ \A j \in 1 .. Len(e) : body[(a + 1) + j - 1] = e[j]
    <3>1. a + Len(e) <= Len(body)
      BY <1>1, <2>4, <2>5, <2>6
    <3>2. ASSUME NEW j \in 1 .. Len(e) PROVE body[(a + 1) + j - 1] = e[j]
      <4>1. /\ (a + 1) + j - 1 = a + j /\ a + j \in 1 .. Len(F[m + 1])
            /\ a + j \in 1 .. Len(F[k])
        <5> DEFINE w == Len(e)
                   lo == Len(F[m + 1])
                   hi == Len(F[k])
        <5>1. a \in Nat /\ w \in Nat /\ lo = a + w /\ lo <= hi /\ hi \in Nat /\ j \in 1 .. w
          BY <2>4, <2>5, <2>6
        <5> HIDE DEF w, lo, hi
        <5>2. (a + 1) + j - 1 = a + j /\ a + j \in 1 .. lo /\ a + j \in 1 .. hi
          BY <5>1
        <5>. QED
          BY <5>2 DEF lo, hi
      <4>2. body[a + j] = F[k][a + j]
        BY <1>1, <4>1
      <4>3. F[k][a + j] = F[m + 1][a + j]
        BY <2>5, <4>1
      <4>4. F[m + 1][a + j] = e[j]
        BY <2>4
      <4>. QED
        BY <4>1, <4>2, <4>3, <4>4
    <3>3. (a + 1) + Len(e) <= Len(body) + 1
      BY <1>1, <2>4, <3>1
    <3>. QED
      BY <3>2, <3>3
  <2>8. UnquoteAt(body, f, a + 1) = Prepend(r, f[(a + 1) + Len(e)])
    BY <2>3, <2>4, <2>7, EscapeRead DEF e
  <2>9. f[a + 1] = UnquoteAt(body, f, a + 1)
    <3>1. a + 1 \in 1 .. Len(body) + 1
      <4>1. (a + 1) + Len(e) <= Len(body) + 1
        BY <2>7
      <4>. QED
        BY <1>1, <2>4, <4>1
    <3>. QED
      BY <3>1 DEF Reads
  <2>10. f[a + 1] = Prepend(r, f[Len(F[m + 1]) + 1])
    <3>1. (a + 1) + Len(e) = Len(F[m + 1]) + 1
      BY <2>4
    <3>. QED
      BY <2>8, <2>9, <3>1
  <2>11. ASSUME f[Len(F[m + 1]) + 1] = {} PROVE f[1] = {}
    BY <2>1, <2>10, <2>11 DEF Prepend, a
  <2>12. ASSUME NEW x \in Seq(Nat), f[Len(F[m + 1]) + 1] = {x}
         PROVE  f[1] = {SubSeq(s, 1, m + 1) \o x}
    <3>1. f[a + 1] = {<<r>> \o x}
      BY <2>10, <2>12 DEF Prepend
    <3>2. <<r>> \in Seq(Nat) /\ <<r>> \o x \in Seq(Nat)
      BY <2>3, ConcatProperties
    <3>3. f[1] = {SubSeq(s, 1, m) \o (<<r>> \o x)}
      BY <2>1, <3>1, <3>2 DEF a
    <3>4. SubSeq(s, 1, m + 1) = SubSeq(s, 1, m) \o <<r>> /\ SubSeq(s, 1, m) \in Seq(Nat)
      <4>1. SubSeq(s, 1, m) \in Seq(Nat)
        <5>1. 1 .. m \subseteq 1 .. n
          BY <1>1, <2>2
        <5>2. \A j \in 1 .. m : s[j] \in Nat
          BY <1>1, <5>1
        <5>3. 1 \in Int /\ m \in Int
          OBVIOUS
        <5>. QED
          BY <5>2, <5>3, SubSeqProperties
      <4>2. SubSeq(s, 1, m + 1) = SubSeq(s, 1, m) \o <<r>>
        <5> DEFINE i == m + 1
        <5>1. 1 \in 1 .. Len(s) /\ i \in 1 .. Len(s) /\ i - 1 = m
          BY <1>1, <2>2
        <5> HIDE DEF i
        <5>2. SubSeq(s, 1, i) = SubSeq(s, 1, i - 1) \o <<s[i]>>
          BY <5>1, SubSeqRecursiveSecond
        <5>. QED
          BY <5>1, <5>2 DEF i, r
      <4>. QED
        BY <4>1, <4>2
    <3>5. SubSeq(s, 1, m) \o (<<r>> \o x) = SubSeq(s, 1, m + 1) \o x
      <4> DEFINE y == SubSeq(s, 1, m)
                 z == <<r>>
      <4>1. y \in Seq(Nat) /\ z \in Seq(Nat) /\ SubSeq(s, 1, m + 1) = y \o z
        BY <3>2, <3>4
      <4> HIDE DEF y, z, Good, Has
      <4>2. Associate(y, z, x)
        BY <4>1, Rebracket
      <4>. QED
        BY <4>1, <4>2 DEF y, z, Associate
    <3>. QED
      BY <3>3, <3>5
  <2>. QED
    BY <2>11, <2>12
<1>4. k \in Has
  <2> HIDE DEF Has
  <2>. QED
    BY <1>1, <1>2, <1>3, NatSetInduction
<1>5. Good(k)
  <2> HIDE DEF Good
  <2>. QED
    BY <1>1, <1>4
<1>. QED
  BY <1>5 DEF LeadsWith

\* The escapes in a text in quotes: the quotes around the last of their parts.
InQuotes(s, F) ==
    LET t == writeQuotedString(s)
        n == Len(F[Len(s)])
    IN  /\ Parts(Escapes(s), Nat, F)
        /\ F[Len(s)] \in Seq(Nat) /\ n \in Nat
        /\ t \in Seq(Nat) /\ Len(t) = n + 2 /\ t[1] = Quote /\ t[n + 2] = Quote
        /\ \A j \in 1 .. n : t[j + 1] = F[Len(s)][j]

\* Such parts there are for every text.
LEMMA QuotedParts ==
    ASSUME NEW s \in Seq(Nat)
    PROVE  \E F : InQuotes(s, F)
<1> DEFINE q == Escapes(s)
           n == Len(s)
           all == FlattenSeq(q)
           t == writeQuotedString(s)
<1>1. /\ q \in Seq(Seq(Nat)) /\ Len(q) = n /\ n \in Nat
      /\ t = <<Quote>> \o all \o <<Quote>>
  BY EscapesType
<1>2. PICK F : Parts(q, Nat, F) /\ all = F[n]
  BY <1>1, PartsExist
<1>3. all \in Seq(Nat) /\ Len(all) \in Nat
  <2>1. n \in 0 .. Len(q) /\ F \in [0 .. Len(q) -> Seq(Nat)]
    BY <1>1, <1>2 DEF Parts
  <2>2. all \in Seq(Nat)
    BY <1>2, <2>1
  <2>. QED
    BY <2>2, LenProperties
<1> HIDE DEF q, all, t
<1>4. /\ Len(t) = Len(all) + 2 /\ t[1] = Quote /\ t[Len(all) + 2] = Quote
      /\ \A j \in 1 .. Len(all) : t[j + 1] = all[j]
      /\ t \in Seq(Nat)
  <2> DEFINE a == <<Quote>> \o all
  <2>1. <<Quote>> \in Seq(Nat) /\ Len(<<Quote>>) = 1 /\ <<Quote>>[1] = Quote
    BY DEF Quote
  <2>2. a \in Seq(Nat) /\ Len(a) = 1 + Len(all)
        /\ \A i \in 1 .. 1 + Len(all) : a[i] = IF i <= 1 THEN <<Quote>>[i] ELSE all[i - 1]
    BY <1>3, <2>1, ConcatProperties
  <2> HIDE DEF a
  <2>3. t \in Seq(Nat) /\ Len(t) = Len(a) + 1
        /\ \A i \in 1 .. Len(a) + 1 : t[i] = IF i <= Len(a) THEN a[i] ELSE <<Quote>>[i - Len(a)]
    BY <1>1, <2>1, <2>2, ConcatProperties DEF a
  <2>4. ASSUME NEW j \in 1 .. Len(all) PROVE t[j + 1] = all[j]
    <3>1. /\ j + 1 \in 1 .. Len(a) + 1 /\ j + 1 <= Len(a) /\ j + 1 \in 1 .. 1 + Len(all)
          /\ ~(j + 1 <= 1) /\ (j + 1) - 1 = j
      BY <1>3, <2>2
    <3>2. t[j + 1] = a[j + 1]
      BY <2>3, <3>1
    <3>3. a[j + 1] = all[j]
      BY <2>2, <3>1
    <3>. QED
      BY <3>2, <3>3
  <2>5. t[1] = Quote
    <3>1. 1 \in 1 .. Len(a) + 1 /\ 1 <= Len(a) /\ 1 \in 1 .. 1 + Len(all)
      BY <1>3, <2>2
    <3>. QED
      BY <2>1, <2>2, <2>3, <3>1
  <2>6. t[Len(all) + 2] = Quote
    <3>1. /\ Len(all) + 2 \in 1 .. Len(a) + 1 /\ ~(Len(all) + 2 <= Len(a))
          /\ (Len(all) + 2) - Len(a) = 1
      BY <1>3, <2>2
    <3>. QED
      BY <2>1, <2>3, <3>1
  <2>7. Len(t) = Len(all) + 2
    BY <1>3, <2>2, <2>3
  <2>. QED
    BY <2>3, <2>4, <2>5, <2>6, <2>7
<1>. QED
  BY <1>2, <1>3, <1>4 DEF InQuotes, q, t

\* The text that is written for s in quotes is read back as s, and only so: a
\* JSON string loses nothing and nothing ends it early (jsonstring.go).
THEOREM QuotedIsReadBack ==
    \A s \in Seq(Nat) : unquoteBytes(writeQuotedString(s)) = {s}
<1> SUFFICES ASSUME NEW s \in Seq(Nat)
             PROVE  unquoteBytes(writeQuotedString(s)) = {s}
  OBVIOUS
<1> DEFINE n == Len(s)
           t == writeQuotedString(s)
<1>1. n \in Nat
  BY LenProperties
<1>2. PICK F : InQuotes(s, F)
  BY QuotedParts
<1> DEFINE all == F[n]
<1>3. all \in Seq(Nat) /\ Len(all) \in Nat
  BY <1>2 DEF InQuotes
<1>4. /\ Len(t) = Len(all) + 2 /\ t[1] = Quote /\ t[Len(all) + 2] = Quote
      /\ \A j \in 1 .. Len(all) : t[j + 1] = all[j]
      /\ t \in Seq(Nat)
  BY <1>2 DEF InQuotes
<1> HIDE DEF all, t
<1> DEFINE body == SubSeq(t, 2, Len(t) - 1)
<1>5. body = all
  <2>1. 2 \in Int /\ Len(t) - 1 \in Int /\ Len(t) - 1 = Len(all) + 1
    BY <1>3, <1>4
  <2>2. \A i \in 2 .. Len(t) - 1 : t[i] \in Nat
    <3>1. \A i \in 1 .. Len(t) : t[i] \in Nat
      BY <1>4, ElementOfSeq
    <3>. QED
      BY <1>3, <1>4, <3>1
  <2>3. /\ body \in Seq(Nat)
        /\ Len(body) = IF 2 <= Len(t) - 1 THEN (Len(t) - 1) - 2 + 1 ELSE 0
        /\ \A i \in 1 .. (Len(t) - 1) - 2 + 1 : body[i] = t[2 + i - 1]
    BY <2>1, <2>2, SubSeqProperties
  <2> HIDE DEF body
  <2>4. Len(body) = Len(all)
    BY <1>3, <2>1, <2>3
  <2>5. ASSUME NEW i \in 1 .. Len(all) PROVE body[i] = all[i]
    <3>1. i \in 1 .. (Len(t) - 1) - 2 + 1 /\ 2 + i - 1 = i + 1
      BY <1>3, <2>1
    <3>. QED
      BY <1>4, <2>3, <3>1
  <2>. QED
    BY <1>3, <2>3, <2>4, <2>5, SeqEqual
<1>6. PICK from : Reads(body, from) /\ unquoteBytes(t) = from[1]
  <2>1. body \in Seq(Nat) /\ Len(t) >= 2 /\ Len(t) \in Nat /\ t[1] = Quote /\ t[Len(t)] = Quote
    <3> DEFINE m == Len(all)
    <3>1. m \in Nat /\ Len(t) = m + 2 /\ t[1] = Quote /\ t[m + 2] = Quote
      BY <1>3, <1>4
    <3>2. body \in Seq(Nat)
      BY <1>3, <1>5
    <3> HIDE DEF m
    <3>3. Len(t) >= 2 /\ Len(t) \in Nat
      BY <3>1
    <3>. QED
      BY <3>1, <3>2, <3>3
  <2>2. body = SubSeq(t, 2, Len(t) - 1)
    OBVIOUS
  <2> HIDE DEF body
  <2>. QED
    BY <2>1, <2>2, UnquoteReads
<1> HIDE DEF body
<1>8. from[Len(all) + 1] = {<<>>}
  <2>1. Len(all) + 1 \in 1 .. Len(body) + 1 /\ Len(all) + 1 > Len(body)
    BY <1>3, <1>5
  <2>2. from[Len(all) + 1] = UnquoteAt(body, from, Len(all) + 1)
    BY <1>6, <2>1 DEF Reads
  <2>. QED
    BY <1>5, <2>1, <2>2 DEF UnquoteAt
<1>9. Starts(F[n], body)
  BY <1>3, <1>5 DEF Starts, all
<1>10. from[1] = {SubSeq(s, 1, n) \o <<>>}
  <2>1. n \in 0 .. Len(s) /\ <<>> \in Seq(Nat)
    BY <1>1
  <2>2. Parts(Escapes(s), Nat, F) /\ from[Len(F[n]) + 1] = {<<>>}
    BY <1>2, <1>8 DEF InQuotes, all
  <2>3. body \in Seq(Nat) /\ Reads(body, from) /\ Starts(F[n], body)
    BY <1>3, <1>5, <1>6, <1>9
  <2>4. LeadsWith(from, Len(F[n]) + 1, SubSeq(s, 1, n))
    BY <2>1, <2>2, <2>3, EscapesRead
  <2>. QED
    BY <2>1, <2>2, <2>4 DEF LeadsWith
<1>11. SubSeq(s, 1, n) \o <<>> = s
  BY SubSeqFull, ConcatEmptySeq
<1>. QED
  BY <1>6, <1>10, <1>11 DEF t
-----------------------------------------------------------------------------
(* Logfmt: a line is read back.                                            *)

\* Pairs whose key has no equals sign, as writeStringKey leaves them.
Pair == {p \in [key : Seq(Nat), val : Seq(Nat)] : \A i \in DOMAIN p.key : p.key[i] # Equals}

\* t stands in s behind place a.
Stands(s, a, t) == a + Len(t) <= Len(s) /\ \A m \in 1 .. Len(t) : s[a + m] = t[m]

\* A value is in quotes, or has nothing that would end it early.
ValueText(v, t) ==
    \/ t = writeQuotedString(v)
    \/ t = v /\ ~NeedsQuotes(v) /\ ~Contains(v, Comma)

\* Pair p stands in s behind place a, and ends at place b.
PairAt(s, a, p, b) ==
    /\ Stands(s, a, p.key)
    /\ a + Len(p.key) + 1 <= Len(s) /\ s[a + Len(p.key) + 1] = Equals
    /\ \E t \in {p.val, writeQuotedString(p.val)} :
          /\ ValueText(p.val, t)
          /\ Stands(s, a + Len(p.key) + 1, t)
          /\ b = a + Len(p.key) + 1 + Len(t)

\* The pairs ps stand in s behind place a up to place b, each behind a separator;
\* that of the first can be any rune.
ListedAt(s, a, ps, b, ends) ==
    /\ ends[1] = a /\ ends[Len(ps) + 1] = b
    /\ \A k \in 1 .. Len(ps) :
          PairAt(s, ends[k] + 1, ps[k], ends[k + 1]) /\ (k > 1 => s[ends[k] + 1] = Comma)

Listed(s, a, ps, b) ==
    \E ends \in [1 .. Len(ps) + 1 -> 0 .. Len(s)] : ListedAt(s, a, ps, b, ends)

\* The text of a value in quotes is a text.
LEMMA QuotedType ==
    ASSUME NEW s \in Seq(Nat)
    PROVE  writeQuotedString(s) \in Seq(Nat)
<1>1. Shown \subseteq Nat
  BY DEF Shown
<1>. QED
  BY <1>1, QuotedShown, SeqMonotonic

\* What stands in a text stands in each that begins with it,
LEMMA StandsLonger ==
    ASSUME NEW s \in Seq(Nat), NEW r \in Seq(Nat), Starts(s, r),
           NEW a \in Nat, NEW t \in Seq(Nat), Stands(s, a, t)
    PROVE  Stands(r, a, t)
<1>1. Len(s) \in Nat /\ Len(r) \in Nat /\ Len(t) \in Nat /\ Len(s) <= Len(r)
  BY LenProperties DEF Starts
<1>2. (\A m \in 1 .. Len(t) : a + m \in 1 .. Len(s)) /\ a + Len(t) <= Len(r)
  <2> DEFINE k == Len(s)
             l == Len(r)
             n == Len(t)
  <2>1. k \in Nat /\ l \in Nat /\ n \in Nat /\ k <= l /\ a + n <= k
    BY <1>1 DEF Stands
  <2> HIDE DEF k, l, n
  <2>2. (\A m \in 1 .. n : a + m \in 1 .. k) /\ a + n <= l
    BY <2>1
  <2>. QED
    BY <2>2 DEF k, l, n
<1>3. a + Len(t) <= Len(r)
  BY <1>2
<1>4. \A m \in 1 .. Len(t) : r[a + m] = t[m]
  BY <1>2 DEF Stands, Starts
<1>. QED
  BY <1>3, <1>4 DEF Stands

\* so do pairs
LEMMA PairLonger ==
    ASSUME NEW s \in Seq(Nat), NEW r \in Seq(Nat), Starts(s, r),
           NEW a \in Nat, NEW p \in Pair, NEW b, PairAt(s, a, p, b)
    PROVE  PairAt(r, a, p, b)
<1>1. p.key \in Seq(Nat) /\ p.val \in Seq(Nat)
  BY DEF Pair
<1> DEFINE n == Len(p.key)
<1>2. n \in Nat /\ Len(s) \in Nat /\ Len(r) \in Nat /\ Len(s) <= Len(r)
  BY <1>1, LenProperties DEF Starts
<1>3. Stands(r, a, p.key)
  BY <1>1, StandsLonger DEF PairAt
<1>4. a + n + 1 <= Len(r) /\ r[a + n + 1] = Equals
  <2>1. a + n + 1 <= Len(s) /\ s[a + n + 1] = Equals
    BY DEF PairAt
  <2> HIDE DEF n
  <2>2. a + n + 1 \in 1 .. Len(s)
    BY <1>2, <2>1
  <2>. QED
    BY <1>2, <2>1, <2>2 DEF Starts
<1>5. PICK t \in {p.val, writeQuotedString(p.val)} :
         ValueText(p.val, t) /\ Stands(s, a + n + 1, t) /\ b = a + n + 1 + Len(t)
  BY DEF PairAt
<1>6. t \in Seq(Nat) /\ a + n + 1 \in Nat
  BY <1>1, <1>2, QuotedType
<1>7. Stands(r, a + n + 1, t)
  BY <1>5, <1>6, StandsLonger
<1>. QED
  BY <1>3, <1>4, <1>5, <1>7 DEF PairAt

\* and lists of them.
LEMMA ListedLonger ==
    ASSUME NEW s \in Seq(Nat), NEW r \in Seq(Nat), Starts(s, r),
           NEW a \in Nat, NEW ps \in Seq(Pair), NEW b, Listed(s, a, ps, b)
    PROVE  Listed(r, a, ps, b)
<1>1. /\ Len(ps) \in Nat /\ \A k \in 1 .. Len(ps) : ps[k] \in Pair
      /\ Len(s) \in Nat /\ Len(r) \in Nat /\ Len(s) <= Len(r)
  BY LenProperties, ElementOfSeq DEF Starts
<1>2. PICK ends \in [1 .. Len(ps) + 1 -> 0 .. Len(s)] : ListedAt(s, a, ps, b, ends)
  BY DEF Listed
<1>3. ends \in [1 .. Len(ps) + 1 -> 0 .. Len(r)]
  BY <1>1
<1>4. ASSUME NEW k \in 1 .. Len(ps)
      PROVE  PairAt(r, ends[k] + 1, ps[k], ends[k + 1]) /\ (k > 1 => r[ends[k] + 1] = Comma)
  <2>1. ends[k] \in Nat /\ ends[k] + 1 \in Nat
    BY <1>1, SMTT(30)
  <2>2. PairAt(s, ends[k] + 1, ps[k], ends[k + 1]) /\ (k > 1 => s[ends[k] + 1] = Comma)
    BY <1>2 DEF ListedAt
  <2>3. PairAt(r, ends[k] + 1, ps[k], ends[k + 1])
    BY <1>1, <2>1, <2>2, PairLonger
  <2>4. ends[k] + 1 \in 1 .. Len(s)
    <3> DEFINE c == ends[k] + 1
               n == Len(ps[k].key)
    <3>1. c + n + 1 <= Len(s)
      BY <2>2 DEF PairAt
    <3>2. n \in Nat /\ c \in Nat /\ c >= 1
      BY <1>1, <2>1, LenProperties, SMTT(30) DEF Pair
    <3> HIDE DEF c, n
    <3>3. c \in 1 .. Len(s)
      BY <1>1, <3>1, <3>2
    <3>. QED
      BY <3>3 DEF c
  <2>5. r[ends[k] + 1] = s[ends[k] + 1]
    BY <2>4 DEF Starts
  <2>. QED
    BY <2>2, <2>3, <2>5
<1>. QED
  BY <1>2, <1>3, <1>4 DEF Listed, ListedAt

\* Two lists with a comma between them are one.
LEMMA ListedJoined ==
    ASSUME NEW s \in Seq(Nat), NEW a, NEW ps \in Seq(Pair), NEW b, Listed(s, a, ps, b),
           NEW qs \in Seq(Pair), NEW c, Listed(s, b, qs, c),
           ps # <<>> /\ qs # <<>> => s[b + 1] = Comma
    PROVE  Listed(s, a, ps \o qs, c)
<1> DEFINE m == Len(ps)
           n == Len(qs)
           rs == ps \o qs
<1>1. m \in Nat /\ n \in Nat
  BY LenProperties
<1>2. PICK f \in [1 .. m + 1 -> 0 .. Len(s)] : ListedAt(s, a, ps, b, f)
  BY DEF Listed
<1>3. PICK g \in [1 .. n + 1 -> 0 .. Len(s)] : ListedAt(s, b, qs, c, g)
  BY DEF Listed
<1>4. /\ rs \in Seq(Pair) /\ Len(rs) = m + n
      /\ \A k \in 1 .. m + n : rs[k] = IF k <= m THEN ps[k] ELSE qs[k - m]
  BY ConcatProperties
<1>5. (m > 0 => ps # <<>>) /\ (n > 0 => qs # <<>>)
  BY EmptySeq
<1>6. f[1] = a /\ f[m + 1] = b /\ g[1] = b /\ g[n + 1] = c
  BY <1>2, <1>3 DEF ListedAt
<1>7. /\ \A k \in 1 .. m : PairAt(s, f[k] + 1, ps[k], f[k + 1]) /\ (k > 1 => s[f[k] + 1] = Comma)
      /\ \A k \in 1 .. n : PairAt(s, g[k] + 1, qs[k], g[k + 1]) /\ (k > 1 => s[g[k] + 1] = Comma)
  BY <1>2, <1>3 DEF ListedAt
<1> DEFINE ends == [k \in 1 .. m + n + 1 |-> IF k <= m THEN f[k] ELSE g[k - m]]
<1> HIDE DEF m, n, rs
<1>8. ends \in [1 .. m + n + 1 -> 0 .. Len(s)]
  BY <1>1, SMTT(30)
<1>9. ends[1] = a /\ ends[m + n + 1] = c
  <2>1. /\ 1 \in 1 .. m + n + 1 /\ m + n + 1 \in 1 .. m + n + 1 /\ ~(m + n + 1 <= m)
        /\ (m + n + 1) - m = n + 1
    BY <1>1
  <2>2. CASE m = 0
    BY <1>6, <2>1, <2>2
  <2>3. CASE m # 0
    BY <1>1, <1>6, <2>1, <2>3
  <2>. QED
    BY <2>2, <2>3
<1>10. ASSUME NEW k \in 1 .. m + n
       PROVE  PairAt(s, ends[k] + 1, rs[k], ends[k + 1]) /\ (k > 1 => s[ends[k] + 1] = Comma)
  <2>0. k \in Nat /\ k \in 1 .. m + n + 1 /\ k + 1 \in 1 .. m + n + 1
    BY <1>1
  <2>1. CASE k < m
    <3>1. k \in 1 .. m /\ ends[k] = f[k] /\ ends[k + 1] = f[k + 1] /\ rs[k] = ps[k]
      <4>1. k <= m /\ k + 1 <= m
        BY <1>1, <2>0, <2>1
      <4>2. rs[k] = ps[k]
        BY <1>4, <4>1
      <4>. QED
        BY <2>0, <4>1, <4>2
    <3> HIDE DEF ends
    <3>. QED
      BY <1>7, <3>1
  <2>2. CASE k = m
    <3>1. k \in 1 .. m /\ ends[k] = f[k] /\ ends[k + 1] = g[1] /\ rs[k] = ps[k] /\ f[k + 1] = g[1]
      BY <1>1, <1>4, <1>6, <2>0, <2>2
    <3> HIDE DEF ends
    <3>. QED
      BY <1>7, <3>1
  <2>3. CASE k > m
    <3> DEFINE i == k - m
    <3>1. i \in 1 .. n /\ ends[k] = g[i] /\ ends[k + 1] = g[i + 1] /\ rs[k] = qs[i]
      <4>1. i \in 1 .. n /\ (k + 1) - m = i + 1 /\ ~(k <= m) /\ ~(k + 1 <= m)
        BY <1>1, <2>0, <2>3
      <4>. QED
        BY <1>4, <2>0, <4>1
    <3>2. i = 1 /\ k > 1 => m > 0 /\ n > 0
      BY <1>1, <2>0, <2>3
    <3>3. i = 1 /\ k > 1 => s[g[i] + 1] = Comma
      BY <1>5, <1>6, <3>2
    <3>4. i # 1 => i > 1
      BY <3>1
    <3> HIDE DEF ends, i
    <3>. QED
      BY <1>7, <3>1, <3>3, <3>4
  <2>. QED
    BY <1>1, <2>0, <2>1, <2>2, <2>3
<1> HIDE DEF ends
<1>11. ListedAt(s, a, rs, c, ends)
  BY <1>4, <1>9, <1>10 DEF ListedAt
<1>. QED
  BY <1>4, <1>8, <1>11 DEF Listed, rs

\* No pairs are listed anywhere,
LEMMA ListedNone ==
    ASSUME NEW s \in Seq(Nat), NEW a \in 0 .. Len(s)
    PROVE  Listed(s, a, <<>>, a)
<1> DEFINE ends == [k \in 1 .. 1 |-> a]
<1>1. ends \in [1 .. Len(<<>>) + 1 -> 0 .. Len(s)] /\ ListedAt(s, a, <<>>, a, ends)
  BY DEF ListedAt
<1>. QED
  BY <1>1 DEF Listed

\* and one where it stands.
LEMMA ListedOne ==
    ASSUME NEW s \in Seq(Nat), NEW a \in 0 .. Len(s), NEW p, NEW b \in 0 .. Len(s),
           PairAt(s, a + 1, p, b)
    PROVE  Listed(s, a, <<p>>, b)
<1> DEFINE ends == [k \in 1 .. 2 |-> IF k = 1 THEN a ELSE b]
<1>1. Len(<<p>>) = 1 /\ <<p>>[1] = p /\ ends[1] = a /\ ends[2] = b
  OBVIOUS
<1>2. ends \in [1 .. Len(<<p>>) + 1 -> 0 .. Len(s)]
  BY <1>1
<1> HIDE DEF ends
<1>3. ListedAt(s, a, <<p>>, b, ends)
  BY <1>1 DEF ListedAt
<1>. QED
  BY <1>2, <1>3 DEF Listed

\* Each place of the last part is in what one of the texts added.
LEMMA PartsCover ==
    ASSUME NEW S, NEW q \in Seq(Seq(S)), NEW F, Parts(q, S, F),
           NEW i \in 1 .. Len(F[Len(q)])
    PROVE  \E k \in 1 .. Len(q) : i > Len(F[k - 1]) /\ i <= Len(F[k])
<1> DEFINE n == Len(q)
           Some(m) == \E k \in 1 .. m : i > Len(F[k - 1]) /\ i <= Len(F[k])
           Has == {m \in Nat : m <= n /\ i <= Len(F[m]) => Some(m)}
<1>1. n \in Nat /\ i \in Nat \ {0} /\ F[0] = <<>> /\ \A a \in 0 .. n : Len(F[a]) \in Nat
  <2>1. n \in Nat
    BY LenProperties
  <2>2. \A a \in 0 .. n : F[a] \in Seq(S)
    BY DEF Parts
  <2>3. \A a \in 0 .. n : Len(F[a]) \in Nat
    BY <2>2, LenProperties
  <2>4. n \in 0 .. n
    BY <2>1
  <2>. QED
    BY <2>1, <2>3, <2>4 DEF Parts
<1>2. 0 \in Has
  BY <1>1
<1>3. ASSUME NEW m \in Nat, m \in Has PROVE m + 1 \in Has
  <2> SUFFICES ASSUME m + 1 <= n, i <= Len(F[m + 1]) PROVE Some(m + 1)
    <3> HIDE DEF Some
    <3>. QED
      OBVIOUS
  <2>1. CASE i <= Len(F[m])
    <3>1. Some(m)
      <4> HIDE DEF Some
      <4>. QED
        BY <1>1, <1>3, <2>1
    <3>. QED
      BY <3>1
  <2>2. CASE ~(i <= Len(F[m]))
    <3> DEFINE j == m + 1
    <3>1. j \in 1 .. m + 1 /\ j - 1 = m /\ m \in 0 .. n
      BY <1>1
    <3>2. i > Len(F[m])
      BY <1>1, <2>2, <3>1
    <3>3. i > Len(F[j - 1]) /\ i <= Len(F[j])
      BY <3>1, <3>2
    <3> HIDE DEF j
    <3>. QED
      BY <3>1, <3>3
  <2>. QED
    BY <2>1, <2>2
<1>4. n \in Has
  <2> HIDE DEF Has
  <2>. QED
    BY <1>1, <1>2, <1>3, NatSetInduction
<1>5. n <= n /\ i <= Len(F[n])
  <2>1. n \in 0 .. n
    BY <1>1
  <2>. QED
    BY <1>1, <2>1
<1>6. Some(n)
  <2> HIDE DEF Some
  <2>. QED
    BY <1>4, <1>5
<1>. QED
  BY <1>6

\* A quote in an escape has a backslash before it.
LEMMA EscapedQuote ==
    ASSUME NEW r \in Nat, NEW i \in 1 .. Len(Escape(r)), Escape(r)[i] = Quote
    PROVE  i = 2 /\ Escape(r)[1] = Backslash
<1> DEFINE e == Escape(r)
<1>1. CASE r \in {Quote, Backslash} /\ Escape(r) = <<Backslash, r>>
  BY <1>1 DEF Quote, Backslash
<1>2. CASE \E c \in {110, 114, 116} : Escape(r) = <<Backslash, c>>
  BY <1>2 DEF Quote, Backslash
<1>3. CASE r \in 0 .. 31 /\ Escape(r) = <<Backslash, 117, 48, 48, Hex(r \div 16), Hex(r % 16)>>
  <2>1. Hex(r \div 16) # Quote /\ Hex(r % 16) # Quote
    BY <1>3 DEF Hex, Quote
  <2> DEFINE x == Hex(r \div 16)
             y == Hex(r % 16)
  <2> HIDE DEF x, y
  <2>2. e = <<Backslash, 117, 48, 48, x, y>> /\ x # Quote /\ y # Quote
    BY <1>3, <2>1 DEF x, y
  <2>3. i \in 1 .. 6 /\ e[i] = Quote
    BY <2>2
  <2> HIDE DEF e
  <2>. QED
    BY <2>2, <2>3 DEF Quote, Backslash
<1>4. CASE Escape(r) = <<Backslash, 117, 102, 102, 102, 100>>
  BY <1>4 DEF Quote, Backslash
<1>5. CASE r # Quote /\ Escape(r) = <<r>>
  BY <1>5
<1>. QED
  BY <1>1, <1>2, <1>3, <1>4, <1>5, EscapeForms

\* A text that stands in another is a part of it.
LEMMA StandsIsPart ==
    ASSUME NEW s \in Seq(Nat), NEW a \in Nat, NEW t \in Seq(Nat), Stands(s, a, t)
    PROVE  SubSeq(s, a + 1, a + Len(t)) = t
<1> DEFINE n == Len(t)
           u == SubSeq(s, a + 1, a + n)
<1>1. n \in Nat /\ Len(s) \in Nat /\ a + n <= Len(s) /\ \A m \in 1 .. n : s[a + m] = t[m]
  BY LenProperties DEF Stands
<1>2. a + 1 \in Int /\ a + n \in Int
  BY <1>1
<1>3. \A i \in a + 1 .. a + n : s[i] \in Nat
  <2>1. \A i \in a + 1 .. a + n : i \in 1 .. Len(s)
    <3> HIDE DEF n
    <3>. QED
      BY <1>1
  <2>. QED
    BY <2>1, ElementOfSeq
<1>4. /\ u \in Seq(Nat)
      /\ Len(u) = IF a + 1 <= a + n THEN (a + n) - (a + 1) + 1 ELSE 0
      /\ \A i \in 1 .. (a + n) - (a + 1) + 1 : u[i] = s[(a + 1) + i - 1]
  <2> DEFINE lo == a + 1
             hi == a + n
  <2>1. lo \in Int /\ hi \in Int /\ \A i \in lo .. hi : s[i] \in Nat
    BY <1>2, <1>3
  <2> HIDE DEF lo, hi
  <2>2. /\ SubSeq(s, lo, hi) \in Seq(Nat)
        /\ Len(SubSeq(s, lo, hi)) = IF lo <= hi THEN hi - lo + 1 ELSE 0
        /\ \A i \in 1 .. hi - lo + 1 : SubSeq(s, lo, hi)[i] = s[lo + i - 1]
    BY <2>1, SubSeqProperties
  <2>. QED
    BY <2>2 DEF lo, hi
<1> HIDE DEF u, n
<1>5. Len(u) = n
  BY <1>1, <1>4
<1>6. ASSUME NEW i \in 1 .. n PROVE u[i] = t[i]
  <2>1. (a + n) - (a + 1) + 1 = n /\ (a + 1) + i - 1 = a + i
    BY <1>1
  <2>. QED
    BY <1>1, <1>4, <2>1
<1>7. u = t
  BY <1>4, <1>5, <1>6, SeqEqual DEF n
<1>. QED
  BY <1>7 DEF u, n

\* A part of a text, with its runes.
LEMMA PartOf ==
    ASSUME NEW s \in Seq(Nat), NEW a \in Nat, NEW m \in a .. Len(s)
    PROVE  /\ SubSeq(s, a + 1, m) \in Seq(Nat) /\ Len(SubSeq(s, a + 1, m)) = m - a
           /\ \A i \in 1 .. m - a : SubSeq(s, a + 1, m)[i] = s[a + i]
<1> DEFINE u == SubSeq(s, a + 1, m)
<1>1. Len(s) \in Nat /\ m \in Nat /\ a <= m /\ m <= Len(s) /\ a + 1 \in Int /\ m \in Int
  BY LenProperties
<1>2. \A i \in a + 1 .. m : s[i] \in Nat
  <2>1. \A i \in a + 1 .. m : i \in 1 .. Len(s)
    BY <1>1
  <2>. QED
    BY <2>1, ElementOfSeq
<1>3. /\ u \in Seq(Nat)
      /\ Len(u) = IF a + 1 <= m THEN m - (a + 1) + 1 ELSE 0
      /\ \A i \in 1 .. m - (a + 1) + 1 : u[i] = s[(a + 1) + i - 1]
  BY <1>1, <1>2, SubSeqProperties
<1> HIDE DEF u
<1>4. Len(u) = m - a
  BY <1>1, <1>3
<1>5. ASSUME NEW i \in 1 .. m - a PROVE u[i] = s[a + i]
  <2>1. m - (a + 1) + 1 = m - a /\ (a + 1) + i - 1 = a + i
    BY <1>1
  <2>. QED
    BY <1>3, <2>1
<1>. QED
  BY <1>3, <1>4, <1>5 DEF u

\* Nothing can be read of a body in which the escapes of the first k runes of v
\* have a quote or a lone backslash behind them.
LEMMA BrokenReads ==
    ASSUME NEW v \in Seq(Nat), NEW F, Parts(Escapes(v), Nat, F), NEW k \in 0 .. Len(v),
           NEW body \in Seq(Nat), Starts(F[k], body),
           NEW i, i = Len(F[k]) + 1, i <= Len(body),
           body[i] = Quote \/ (body[i] = Backslash /\ i = Len(body)),
           NEW f, Reads(body, f)
    PROVE  f[1] = {}
<1>1. Len(body) \in Nat /\ Len(F[k]) \in Nat
  <2>1. Len(Escapes(v)) = Len(v)
    BY EscapesType
  <2>2. F[k] \in Seq(Nat)
    BY <2>1 DEF Parts
  <2>. QED
    BY <2>2, LenProperties
<1>2. i \in 1 .. Len(body) + 1 /\ i \in Nat /\ ~(i > Len(body))
  BY <1>1
<1>3. f[i] = UnquoteAt(body, f, i)
  BY <1>2 DEF Reads
<1>4. UnquoteAt(body, f, i) = {}
  <2>1. CASE body[i] = Quote
    <3>1. body[i] # Backslash
      BY <2>1 DEF Quote, Backslash
    <3>. QED
      BY <1>2, <2>1, <3>1 DEF UnquoteAt
  <2>2. CASE body[i] = Backslash /\ i = Len(body)
    <3>1. getu4(body, i) = -1
      <4>1. ~(i + 5 <= Len(body))
        BY <1>1, <1>2, <2>2
      <4>. QED
        BY <4>1 DEF getu4
    <3>2. body[i] # Quote /\ ~(body[i] < Space)
      BY <2>2 DEF Quote, Backslash, Space
    <3>3. ~(getu4(body, i) >= 0)
      BY <3>1
    <3> DEFINE u == getu4(body, i)
    <3>4. UnquoteAt(body, f, i) =
            IF u >= 0
            THEN IF ~IsSurrogate(u) THEN Prepend(u, f[i + 6])
                 ELSE IF DecodeRune(u, getu4(body, i + 6)) # RuneError
                 THEN Prepend(DecodeRune(u, getu4(body, i + 6)), f[i + 12])
                 ELSE Prepend(RuneError, f[i + 6])
            ELSE IF i = Len(body) THEN {}
            ELSE UNION {Prepend(r, f[i + 2]) : r \in Unescape(body[i + 1])}
      BY <1>2, <2>2, <3>2 DEF UnquoteAt
    <3> HIDE DEF u
    <3>. QED
      BY <2>2, <3>3, <3>4 DEF u
  <2>. QED
    BY <2>1, <2>2
<1>5. LeadsWith(f, Len(F[k]) + 1, SubSeq(v, 1, k))
  BY EscapesRead
<1>. QED
  BY <1>3, <1>4, <1>5 DEF LeadsWith

\* A text in quotes ends at its last rune: no other part of a text that it stands
\* in can be read from its first.
LEMMA QuotedEnds ==
    ASSUME NEW s \in Seq(Nat), NEW a \in Nat, NEW v \in Seq(Nat),
           Stands(s, a, writeQuotedString(v)),
           NEW m \in a + 2 .. Len(s), m # a + Len(writeQuotedString(v))
    PROVE  unquoteBytes(SubSeq(s, a + 1, m)) = {}
<1> DEFINE t == writeQuotedString(v)
           w == SubSeq(s, a + 1, m)
           d == m - a
           n == Len(v)
           body == SubSeq(w, 2, Len(w) - 1)
<1>1. PICK F : InQuotes(v, F)
  BY QuotedParts
<1> DEFINE all == F[n]
           l == Len(all)
<1>2. /\ Parts(Escapes(v), Nat, F) /\ all \in Seq(Nat) /\ l \in Nat
      /\ Len(t) = l + 2 /\ t[1] = Quote /\ t[l + 2] = Quote
      /\ \A j \in 1 .. l : t[j + 1] = all[j]
  BY <1>1 DEF InQuotes
<1>3. Len(s) \in Nat /\ m \in Nat /\ d \in Nat /\ d >= 2 /\ m <= Len(s) /\ a + d = m /\ n \in Nat
  BY LenProperties
<1>4. w \in Seq(Nat) /\ Len(w) = d /\ \A i \in 1 .. d : w[i] = s[a + i]
  <2>1. m \in a .. Len(s)
    BY <1>3
  <2>. QED
    BY <2>1, PartOf
<1>5. \A i \in 1 .. l + 2 : s[a + i] = t[i]
  BY <1>2 DEF Stands
<1>6. d # l + 2
  <2> HIDE DEF l
  <2>. QED
    BY <1>2, <1>3
<1>7. body \in Seq(Nat) /\ Len(body) = d - 2 /\ \A i \in 1 .. d - 2 : body[i] = s[a + (1 + i)]
  <2>1. d - 1 \in 1 .. Len(w) /\ (d - 1) - 1 = d - 2 /\ 1 + 1 = 2
    <3> HIDE DEF d, w
    <3>1. d \in Nat /\ d >= 2 /\ Len(w) = d
      BY <1>3, <1>4
    <3>. QED
      BY <3>1
  <2>2. \A i \in 1 .. d - 2 : 1 + i \in 1 .. d
    BY <1>3
  <2> DEFINE x == SubSeq(w, 1 + 1, d - 1)
  <2>3. x \in Seq(Nat) /\ Len(x) = (d - 1) - 1 /\ \A i \in 1 .. (d - 1) - 1 : x[i] = w[1 + i]
    <3> HIDE DEF d, w
    <3>. QED
      BY <1>4, <2>1, PartOf
  <2>4. body = x
    BY <1>4, <2>1
  <2> HIDE DEF x, body, w, d
  <2>. QED
    BY <1>4, <2>1, <2>2, <2>3, <2>4
<1> HIDE DEF w, body, t, all, l, d
<1>a. d \in Nat /\ d >= 2 /\ l \in Nat /\ 1 \in 1 .. d /\ 1 \in 1 .. l + 2
  <2>1. d \in Nat /\ d >= 2 /\ l \in Nat
    BY <1>2, <1>3
  <2>. QED
    BY <2>1
<1>8. CASE w[d] # Quote
  <2>1. w[Len(w)] # Quote
    BY <1>4, <1>8
  <2>. QED
    BY <2>1 DEF unquoteBytes, w
<1>9. CASE w[d] = Quote
  <2>1. w[1] = Quote
    <3>1. w[1] = s[a + 1] /\ s[a + 1] = t[1]
      BY <1>4, <1>5, <1>a
    <3>. QED
      BY <1>2, <3>1
  <2>2. PICK f : Reads(body, f) /\ unquoteBytes(w) = f[1]
    <3>1. Len(w) >= 2 /\ Len(w) \in Nat /\ w[Len(w)] = Quote /\ body = SubSeq(w, 2, Len(w) - 1)
      BY <1>3, <1>4, <1>9 DEF body
    <3>. QED
      BY <1>7, <2>1, <3>1, UnquoteReads
  <2>3. ASSUME d > l + 2 PROVE f[1] = {}
    <3>1. Starts(F[n], body)
      <4>1. \A i \in 1 .. l : i \in 1 .. d - 2 /\ 1 + i \in 1 .. l + 2 /\ 1 + i = i + 1
        BY <1>2, <1>3, <2>3
      <4>2. \A i \in 1 .. l : body[i] = all[i]
        BY <1>2, <1>5, <1>7, <4>1
      <4>3. l <= Len(body)
        BY <1>2, <1>3, <1>7, <2>3
      <4>. QED
        BY <4>2, <4>3 DEF Starts, all, l
    <3> DEFINE i == l + 1
    <3>2. i <= Len(body) /\ body[i] = Quote
      <4>1. i \in 1 .. d - 2 /\ 1 + i \in 1 .. l + 2 /\ 1 + i = l + 2
        BY <1>a, <2>3
      <4>2. i <= Len(body)
        BY <1>a, <1>7, <4>1
      <4> HIDE DEF i
      <4>. QED
        BY <1>2, <1>5, <1>7, <4>1, <4>2
    <3>3. i = Len(F[n]) + 1 /\ n \in 0 .. Len(v)
      BY <1>3 DEF l, all
    <3> HIDE DEF i
    <3>. QED
      BY <1>2, <1>7, <2>2, <3>1, <3>2, <3>3, BrokenReads
  <2>4. ASSUME d < l + 2 PROVE f[1] = {}
    <3> DEFINE p == d - 1
               q == Escapes(v)
    <3>1. p \in 1 .. l /\ 1 + p = d /\ p + 1 = d /\ d \in 1 .. l + 2 /\ d \in 1 .. d
      BY <1>a, <2>4
    <3>2. all[p] = Quote
      <4> HIDE DEF p
      <4>1. t[p + 1] = all[p]
        BY <1>2, <3>1
      <4>2. s[a + d] = t[d]
        BY <1>5, <3>1
      <4>3. w[d] = s[a + d]
        BY <1>4, <3>1
      <4>. QED
        BY <1>9, <3>1, <4>1, <4>2, <4>3
    <3>3. q \in Seq(Seq(Nat)) /\ Len(q) = n /\ \A i \in 1 .. n : v[i] \in Nat /\ q[i] = Escape(v[i])
      BY EscapesType
    <3> HIDE DEF q, p
    <3>4. Parts(q, Nat, F) /\ p \in 1 .. Len(F[Len(q)])
      BY <1>2, <3>1, <3>3 DEF q, all, l
    <3>5. PICK j \in 1 .. Len(q) : p > Len(F[j - 1]) /\ p <= Len(F[j])
      BY <3>3, <3>4, PartsCover
    <3> DEFINE k == j - 1
               e == Escape(v[j])
    <3>6. /\ k \in Nat /\ j = k + 1 /\ k \in 0 .. n /\ k \in 0 .. Len(v)
          /\ j \in 0 .. n /\ n \in 0 .. n
          /\ j \in 1 .. n
      BY <1>3, <3>3, <3>5
    <3>7. Follows(q, F, k, j)
      <4> HIDE DEF k
      <4>. QED
        BY <3>3, <3>4, <3>5, <3>6, PartsNext
    <3>8. Starts(F[k], F[n]) /\ Starts(F[j], F[n])
      <4> HIDE DEF k, n
      <4>. QED
        BY <3>3, <3>4, <3>6, PartsGrow
    <3>9. v[j] \in Nat /\ q[j] = e
      BY <3>3, <3>6
    <3> HIDE DEF k, e
    <3> DEFINE c == Len(F[k])
               g == Len(e)
    <3>10. /\ c \in Nat /\ g \in Nat /\ Len(F[j]) = c + g
           /\ \A i \in 1 .. g : F[j][c + i] = e[i]
      BY <3>7, <3>9 DEF Follows
    <3>11. c < p /\ p <= c + g
      BY <3>5, <3>10 DEF k
    <3> DEFINE h == p - c
    <3> HIDE DEF c, g
    <3>12. h \in 1 .. g /\ c + h = p /\ p \in 1 .. c + g
      BY <3>1, <3>10, <3>11
    <3> HIDE DEF h
    <3>13. \A i \in 1 .. c + g : all[i] = F[j][i]
      BY <3>8, <3>10 DEF Starts, all
    <3>14. e[h] = Quote
      BY <3>2, <3>10, <3>12, <3>13
    <3>15. h = 2 /\ e[1] = Backslash
      BY <3>9, <3>12, <3>14, EscapedQuote DEF e, g
    <3>16. 1 \in 1 .. g /\ c + 1 \in 1 .. c + g /\ p = c + 2
      <4>1. c \in Nat /\ g \in Nat /\ 2 \in 1 .. g /\ c + 2 = p
        BY <3>10, <3>12, <3>15
      <4>. QED
        BY <4>1
    <3>17. all[c + 1] = Backslash
      BY <3>10, <3>13, <3>15, <3>16
    <3>18. \A i \in 1 .. c : F[n][i] = F[k][i]
      BY <3>8 DEF Starts, c
    <3>19. ASSUME NEW i \in 1 .. c + 1 PROVE body[i] = all[i]
      <4>1. i \in 1 .. d - 2 /\ 1 + i \in 1 .. l + 2 /\ 1 + i = i + 1 /\ i \in 1 .. l
        <5>1. c \in Nat /\ p = c + 2 /\ p \in 1 .. l /\ p + 1 = d
          BY <3>1, <3>10, <3>16
        <5>. QED
          BY <1>a, <5>1
      <4>. QED
        BY <1>2, <1>5, <1>7, <4>1
    <3>20. Len(body) = c + 1
      <4>1. c \in Nat /\ p = c + 2 /\ p + 1 = d /\ Len(body) = d - 2
        BY <1>7, <3>1, <3>10, <3>16
      <4>. QED
        BY <1>a, <4>1
    <3>21. Starts(F[k], body)
      <4>1. \A i \in 1 .. c : i \in 1 .. c + 1
        BY <3>10
      <4>2. \A i \in 1 .. c : body[i] = F[k][i]
        BY <3>18, <3>19, <4>1 DEF all
      <4>3. c <= Len(body)
        BY <3>10, <3>20
      <4>. QED
        BY <4>2, <4>3 DEF Starts, c
    <3> DEFINE x == c + 1
    <3>22. x = Len(F[k]) + 1 /\ x <= Len(body) /\ x = Len(body) /\ x \in 1 .. c + 1
      BY <3>10, <3>20 DEF c
    <3>23. body[x] = Backslash
      BY <3>17, <3>19, <3>22
    <3> HIDE DEF x
    <3>24. /\ Parts(Escapes(v), Nat, F) /\ k \in 0 .. Len(v) /\ body \in Seq(Nat)
           /\ Starts(F[k], body) /\ Reads(body, f)
      BY <1>2, <1>7, <2>2, <3>6, <3>21
    <3>25. /\ x = Len(F[k]) + 1 /\ x <= Len(body)
           /\ body[x] = Quote \/ (body[x] = Backslash /\ x = Len(body))
      BY <3>22, <3>23
    <3> HIDE DEF n
    <3>. QED
      BY <3>24, <3>25, BrokenReads
  <2>5. d > l + 2 \/ d < l + 2
    BY <1>2, <1>3, <1>6
  <2>. QED
    BY <2>2, <2>3, <2>4, <2>5 DEF w
<1>. QED
  BY <1>8, <1>9 DEF w

\* A pair that stands in a text, with a comma or a space behind it, is the one that is
\* read there.
LEMMA PairRead ==
    ASSUME NEW s \in Seq(Nat), NEW a \in Nat, NEW p \in Pair, NEW b \in Nat,
           PairAt(s, a, p, b), b + 1 <= Len(s), s[b + 1] \in {Comma, Space}
    PROVE  ReadPair(s, a + 1) = {[key |-> p.key, val |-> p.val, next |-> b + 1]}
<1> DEFINE i == a + 1
           n == Len(p.key)
           es == {j \in i .. Len(s) : s[j] = Equals /\ \A m \in i .. j - 1 : s[m] # Equals}
           From(e) ==
             LET v == e + 1
                 quoted == {j \in v + 1 .. Len(s) : unquoteBytes(SubSeq(s, v, j)) # {}}
                 plain  == {j \in v .. Len(s) : s[j] \in {Comma, Space}}
                 pair(text, next) == [key |-> SubSeq(s, i, e - 1), val |-> text, next |-> next]
             IN  IF v <= Len(s) /\ s[v] = Quote
                 THEN UNION {{pair(t, j + 1) : t \in unquoteBytes(SubSeq(s, v, j))} : j \in quoted}
                 ELSE {pair(SubSeq(s, v, j - 1), j) : j \in {k \in plain : \A m \in plain : k <= m}}
           e == a + n + 1
<1>1. ReadPair(s, i) = UNION {From(x) : x \in es}
  BY DEF ReadPair
<1>2. /\ p.key \in Seq(Nat) /\ p.val \in Seq(Nat) /\ n \in Nat /\ Len(s) \in Nat
      /\ \A m \in 1 .. n : p.key[m] # Equals
  <2>1. p.key \in Seq(Nat) /\ p.val \in Seq(Nat) /\ \A m \in DOMAIN p.key : p.key[m] # Equals
    BY DEF Pair
  <2>. QED
    BY <2>1, LenProperties
<1>3. /\ Stands(s, a, p.key) /\ e <= Len(s) /\ s[e] = Equals
      /\ \E t \in {p.val, writeQuotedString(p.val)} :
            ValueText(p.val, t) /\ Stands(s, e, t) /\ b = e + Len(t)
  BY DEF PairAt
<1>4. SubSeq(s, i, e - 1) = p.key
  <2> DEFINE k == p.key
  <2>1. e - 1 = a + Len(k)
    BY <1>2
  <2>2. k \in Seq(Nat) /\ Stands(s, a, k)
    BY <1>2, <1>3
  <2> HIDE DEF k, e
  <2>3. SubSeq(s, a + 1, a + Len(k)) = k
    BY <2>2, StandsIsPart
  <2>. QED
    BY <2>1, <2>3 DEF k
<1>5. PICK t \in {p.val, writeQuotedString(p.val)} :
         ValueText(p.val, t) /\ Stands(s, e, t) /\ b = e + Len(t)
  BY <1>3
<1>6. t \in Seq(Nat) /\ Len(t) \in Nat /\ e \in Nat
  BY <1>2, QuotedType, LenProperties, SMTT(30)
<1>7. SubSeq(s, e + 1, b) = t
  BY <1>5, <1>6, StandsIsPart
<1>8. \A m \in 1 .. n : s[a + m] # Equals
  BY <1>2, <1>3 DEF Stands
<1>9. \A m \in 1 .. Len(t) : s[e + m] = t[m]
  BY <1>5 DEF Stands
<1> DEFINE l == Len(t)
           pair == [key |-> p.key, val |-> p.val, next |-> b + 1]
<1>a. /\ a \in Nat /\ n \in Nat /\ i = a + 1 /\ e = a + n + 1 /\ e \in Nat /\ l \in Nat
      /\ b = e + l /\ b \in Nat /\ Len(s) \in Nat /\ e <= Len(s) /\ b + 1 <= Len(s)
  BY <1>2, <1>3, <1>5, <1>6
<1>10. es = {e}
  <2> HIDE DEF e, i
  <2>1. e \in i .. Len(s)
    <3> HIDE DEF n, l
    <3>. QED
      BY <1>a
  <2>2. ASSUME NEW m \in i .. e - 1 PROVE s[m] # Equals
    <3> DEFINE x == m - a
    <3>1. x \in 1 .. n /\ a + x = m
      <4> HIDE DEF n, l
      <4>. QED
        BY <1>a
    <3> HIDE DEF x, n
    <3>. QED
      BY <1>8, <3>1
  <2>3. ASSUME NEW j \in es PROVE j = e
    <3>1. j \in i .. Len(s) /\ s[j] = Equals /\ \A m \in i .. j - 1 : s[m] # Equals
      OBVIOUS
    <3>2. i \in Int /\ j \in Int /\ e \in Int
      BY <1>a
    <3>3. ~(j < e)
      <4> SUFFICES ASSUME j < e PROVE FALSE
        OBVIOUS
      <4>1. j \in i .. e - 1
        BY <3>1, <3>2
      <4>. QED
        BY <2>2, <3>1, <4>1
    <3>4. ~(e < j)
      <4> SUFFICES ASSUME e < j PROVE FALSE
        OBVIOUS
      <4>1. e \in i .. j - 1
        BY <2>1, <3>1, <3>2
      <4>. QED
        BY <1>3, <3>1, <4>1
    <3>. QED
      BY <3>2, <3>3, <3>4
  <2>4. e \in es
    BY <1>3, <2>1, <2>2
  <2> HIDE DEF es
  <2>. QED
    BY <2>3, <2>4
<1>11. From(e) = {pair}
  <2> DEFINE v == e + 1
             quoted == {j \in v + 1 .. Len(s) : unquoteBytes(SubSeq(s, v, j)) # {}}
             plain  == {j \in v .. Len(s) : s[j] \in {Comma, Space}}
             key == SubSeq(s, i, e - 1)
             P(text, next) == [key |-> key, val |-> text, next |-> next]
  <2>1. From(e) = IF v <= Len(s) /\ s[v] = Quote
                  THEN UNION {{P(x, j + 1) : x \in unquoteBytes(SubSeq(s, v, j))} : j \in quoted}
                  ELSE {P(SubSeq(s, v, j - 1), j) : j \in {k \in plain : \A m \in plain : k <= m}}
    OBVIOUS
  <2>k. key = p.key
    BY <1>4
  <2> HIDE DEF From, key
  <2>2. CASE t = writeQuotedString(p.val)
    <3>1. PICK F : InQuotes(p.val, F)
      BY <1>2, QuotedParts
    <3>2. l >= 2 /\ t[1] = Quote /\ 1 \in 1 .. l
      <4>1. l = Len(F[Len(p.val)]) + 2 /\ Len(F[Len(p.val)]) \in Nat /\ t[1] = Quote
        BY <2>2, <3>1 DEF InQuotes
      <4> HIDE DEF l
      <4>2. l >= 2 /\ 1 \in 1 .. l
        BY <1>a, <4>1
      <4>. QED
        BY <4>1, <4>2
    <3>3. v <= Len(s) /\ s[v] = Quote
      <4>1. s[e + 1] = t[1]
        BY <1>9, <3>2
      <4> HIDE DEF e, n, l
      <4>2. v <= Len(s)
        BY <1>a
      <4>. QED
        BY <3>2, <4>1, <4>2
    <3>4. unquoteBytes(SubSeq(s, v, b)) = {p.val}
      BY <1>2, <1>7, <2>2, QuotedIsReadBack
    <3>5. ASSUME NEW j \in quoted PROVE j = b
      <4>1. j \in e + 2 .. Len(s) /\ unquoteBytes(SubSeq(s, e + 1, j)) # {}
        <5> HIDE DEF e
        <5>1. v + 1 = e + 2
          BY <1>a
        <5>. QED
          BY <5>1
      <4> HIDE DEF e
      <4>. QED
        BY <1>2, <1>5, <1>6, <2>2, <4>1, QuotedEnds
    <3>6. b \in quoted
      <4>1. b \in v + 1 .. Len(s)
        <5> HIDE DEF e, l, n
        <5>. QED
          BY <1>a, <3>2
      <4> HIDE DEF v
      <4>. QED
        BY <3>4, <4>1
    <3>7. quoted = {b}
      <4> HIDE DEF quoted
      <4>. QED
        BY <3>5, <3>6
    <3> HIDE DEF quoted, v, e
    <3>8. From(a + n + 1) = UNION {{P(x, j + 1) : x \in unquoteBytes(SubSeq(s, v, j))} : j \in {b}}
      BY <2>1, <3>3, <3>7 DEF e
    <3>. QED
      BY <2>k, <3>4, <3>8 DEF e
  <2>3. CASE t # writeQuotedString(p.val)
    <3>1. t = p.val /\ ~NeedsQuotes(t) /\ ~Contains(t, Comma)
      BY <1>5, <2>3 DEF ValueText
    <3>2. \A m \in 1 .. l : t[m] \notin {Quote, Comma, Space}
      <4>1. DOMAIN t = 1 .. l
        BY <1>6, LenProperties
      <4>. QED
        <5> SUFFICES ASSUME NEW m \in 1 .. l PROVE t[m] \notin {Quote, Comma, Space}
          OBVIOUS
        <5>1. ~needsQuotedValueRune(t[m])
          BY <3>1, <4>1 DEF NeedsQuotes
        <5>2. t[m] # Comma
          BY <3>1 DEF Contains
        <5>. QED
          BY <5>1, <5>2 DEF needsQuotedValueRune, Space
    <3>3. \A m \in v .. b : s[m] \notin {Quote, Comma, Space}
      <4> SUFFICES ASSUME NEW m \in v .. b PROVE s[m] \notin {Quote, Comma, Space}
        OBVIOUS
      <4> DEFINE x == m - e
      <4>1. x \in 1 .. l /\ e + x = m
        <5> HIDE DEF e, l, n
        <5>. QED
          BY <1>a
      <4> HIDE DEF x, e, l
      <4>. QED
        BY <1>9, <3>2, <4>1 DEF l
    <3>4. ~(v <= Len(s) /\ s[v] = Quote)
      <4>1. Comma # Quote /\ Space # Quote
        BY DEF Comma, Quote, Space
      <4>2. CASE l = 0
        <5>1. v = b + 1
          <6> HIDE DEF e, l, n
          <6>. QED
            BY <1>a, <4>2
        <5>. QED
          BY <4>1, <5>1
      <4>3. CASE l # 0
        <5>1. v \in v .. b
          <6> HIDE DEF e, l, n
          <6>. QED
            BY <1>a, <4>3
        <5> HIDE DEF v
        <5>. QED
          BY <3>3, <5>1
      <4>. QED
        BY <4>2, <4>3
    <3> DEFINE c == b + 1
               first == {k \in plain : \A m \in plain : k <= m}
    <3>5. c \in plain /\ \A m \in plain : c <= m
      <4>1. c \in v .. Len(s)
        <5> HIDE DEF e, l, n
        <5>. QED
          BY <1>a
      <4>2. c \in plain
        <5> HIDE DEF v
        <5>. QED
          BY <4>1
      <4>3. ASSUME NEW m \in plain PROVE c <= m
        <5>1. m \in v .. Len(s) /\ s[m] \in {Comma, Space}
          OBVIOUS
        <5>2. m \notin v .. b
          <6> HIDE DEF v
          <6>. QED
            BY <3>3, <5>1
        <5>3. v \in Int /\ m \in Int /\ b \in Int
          BY <1>a, <5>1
        <5> HIDE DEF v, plain
        <5>. QED
          BY <5>1, <5>2, <5>3
      <4>. QED
        BY <4>2, <4>3
    <3>6. first = {c}
      <4>1. plain \subseteq Int
        <5>1. v \in Int
          BY <1>a
        <5> HIDE DEF v
        <5>. QED
          BY <1>a, <5>1
      <4>2. c \in first /\ c \in Int
        BY <3>5, <4>1
      <4>3. ASSUME NEW k \in first PROVE k = c
        <5>1. k \in plain /\ k <= c /\ c <= k
          <6> HIDE DEF plain, c
          <6>. QED
            BY <3>5
        <5>2. k \in Int
          <6> HIDE DEF plain
          <6>. QED
            BY <4>1, <5>1
        <5> HIDE DEF plain, first, c
        <5>. QED
          BY <4>2, <5>1, <5>2
      <4> HIDE DEF first
      <4>. QED
        BY <4>2, <4>3
    <3>7. SubSeq(s, v, c - 1) = p.val
      <4>1. c - 1 = b
        OBVIOUS
      <4>. QED
        BY <1>7, <3>1, <4>1
    <3> HIDE DEF first, plain, v, c, e
    <3>8. From(a + n + 1) = {P(SubSeq(s, v, j - 1), j) : j \in first}
      BY <2>1, <3>4 DEF e, first
    <3>. QED
      BY <2>k, <3>6, <3>7, <3>8 DEF c, e
  <2>. QED
    BY <2>2, <2>3
<1> HIDE DEF From, es, e
<1>12. UNION {From(x) : x \in es} = {pair}
  BY <1>10, <1>11
<1>. QED
  BY <1>1, <1>12

\* A pair ends behind its first rune.
LEMMA PairAhead ==
    ASSUME NEW s \in Seq(Nat), NEW i \in Nat, NEW p \in ReadPair(s, i)
    PROVE  p.next \in Nat /\ p.next > i
<1> DEFINE es == {j \in i .. Len(s) : s[j] = Equals /\ \A m \in i .. j - 1 : s[m] # Equals}
           From(e) ==
             LET v == e + 1
                 quoted == {j \in v + 1 .. Len(s) : unquoteBytes(SubSeq(s, v, j)) # {}}
                 plain  == {j \in v .. Len(s) : s[j] \in {Comma, Space}}
                 pair(text, next) == [key |-> SubSeq(s, i, e - 1), val |-> text, next |-> next]
             IN  IF v <= Len(s) /\ s[v] = Quote
                 THEN UNION {{pair(t, j + 1) : t \in unquoteBytes(SubSeq(s, v, j))} : j \in quoted}
                 ELSE {pair(SubSeq(s, v, j - 1), j) : j \in {k \in plain : \A m \in plain : k <= m}}
<1>1. ReadPair(s, i) = UNION {From(x) : x \in es}
  BY DEF ReadPair
<1>2. PICK e \in es : p \in From(e)
  <2> HIDE DEF From, es
  <2>. QED
    BY <1>1
<1>3. e \in Nat /\ i <= e /\ Len(s) \in Nat
  BY LenProperties
<1>4. \/ \E j \in e + 2 .. Len(s) : p.next = j + 1
      \/ \E j \in e + 1 .. Len(s) : p.next = j
  <2> DEFINE v == e + 1
             quoted == {j \in v + 1 .. Len(s) : unquoteBytes(SubSeq(s, v, j)) # {}}
             plain  == {j \in v .. Len(s) : s[j] \in {Comma, Space}}
             key == SubSeq(s, i, e - 1)
             P(text, next) == [key |-> key, val |-> text, next |-> next]
             first == {k \in plain : \A m \in plain : k <= m}
  <2>1. From(e) = IF v <= Len(s) /\ s[v] = Quote
                  THEN UNION {{P(x, j + 1) : x \in unquoteBytes(SubSeq(s, v, j))} : j \in quoted}
                  ELSE {P(SubSeq(s, v, j - 1), j) : j \in first}
    OBVIOUS
  <2>2. \A x, y : P(x, y).next = y
    OBVIOUS
  <2>3. quoted \subseteq e + 2 .. Len(s) /\ first \subseteq e + 1 .. Len(s)
    <3>1. v + 1 = e + 2
      BY <1>3
    <3>. QED
      BY <3>1
  <2> HIDE DEF From, P, quoted, first, v
  <2>4. \/ \E j \in quoted : \E x : p = P(x, j + 1)
        \/ \E j \in first : \E x : p = P(x, j)
    BY <1>2, <2>1
  <2>. QED
    BY <2>2, <2>3, <2>4
<1>. QED
  BY <1>3, <1>4

\* Which pairs can be read from a place on depends on what can from later ones only.
LEMMA PairsLocal ==
    ASSUME NEW s \in Seq(Nat), NEW i \in 1 .. Len(s) + 1, NEW g, NEW h,
           \A j \in i + 1 .. Len(s) + 1 : g[j] = h[j]
    PROVE  PairsAt(s, g, i) = PairsAt(s, h, i)
<1> DEFINE Rest(f, p) ==
              LET pair == [key |-> p.key, val |-> p.val]
              IN  IF p.next <= Len(s) /\ s[p.next] = Comma
                  THEN {[pairs |-> <<pair>> \o r.pairs, next |-> r.next] : r \in f[p.next + 1]}
                  ELSE {[pairs |-> <<pair>>, next |-> p.next]}
<1>1. \A f : PairsAt(s, f, i) = UNION {Rest(f, p) : p \in ReadPair(s, i)}
  BY DEF PairsAt
<1>2. ASSUME NEW p \in ReadPair(s, i) PROVE Rest(g, p) = Rest(h, p)
  <2>1. p.next <= Len(s) => p.next + 1 \in i + 1 .. Len(s) + 1
    <3>1. i \in Nat /\ Len(s) \in Nat
      BY LenProperties
    <3>2. p.next \in Nat /\ p.next > i
      BY <3>1, PairAhead
    <3>. QED
      BY <3>1, <3>2
  <2>2. p.next <= Len(s) => g[p.next + 1] = h[p.next + 1]
    BY <2>1
  <2>. QED
    BY <2>2
<1> DEFINE R == ReadPair(s, i)
<1>3. /\ PairsAt(s, g, i) = UNION {Rest(g, p) : p \in R}
      /\ PairsAt(s, h, i) = UNION {Rest(h, p) : p \in R}
      /\ \A p \in R : Rest(g, p) = Rest(h, p)
  <2> HIDE DEF Rest
  <2>. QED
    BY <1>1, <1>2
<1> HIDE DEF Rest, R
<1>4. {Rest(g, p) : p \in R} = {Rest(h, p) : p \in R}
  BY <1>3
<1>. QED
  BY <1>3, <1>4

\* f is what ReadPairs reads of s from each place on.
PairsRead(s, f) == f = [i \in 1 .. Len(s) + 1 |-> PairsAt(s, f, i)]

\* The recursion of ReadPairs is well founded.
LEMMA PairsReadExist ==
    ASSUME NEW s \in Seq(Nat)
    PROVE  \E f : PairsRead(s, f)
<1> DEFINE n == Len(s)
           From(m, g) == g = [i \in n + 1 - m .. n + 1 |-> PairsAt(s, g, i)]
           Has == {m \in Nat : m <= n => \E g : From(m, g)}
<1>1. n \in Nat
  BY LenProperties
<1>2. \A i, g, h : i \in 1 .. n + 1 /\ (\A j \in i + 1 .. n + 1 : g[j] = h[j]) =>
                      PairsAt(s, g, i) = PairsAt(s, h, i)
  BY PairsLocal
<1>3. 0 \in Has
  <2> DEFINE e == [i \in {} |-> {}]
             g == [i \in n + 1 .. n + 1 |-> PairsAt(s, e, i)]
  <2>1. PairsAt(s, g, n + 1) = PairsAt(s, e, n + 1)
    BY <1>1, <1>2
  <2>2. From(0, g)
    <3> HIDE DEF e
    <3>1. \A i \in n + 1 .. n + 1 : g[i] = PairsAt(s, g, i)
      BY <1>1, <2>1
    <3>2. n + 1 - 0 = n + 1
      BY <1>1
    <3>. QED
      BY <3>1, <3>2
  <2> HIDE DEF g
  <2>. QED
    BY <2>2
<1>4. ASSUME NEW m \in Nat, m \in Has PROVE m + 1 \in Has
  <2> SUFFICES ASSUME m + 1 <= n PROVE \E g : From(m + 1, g)
    OBVIOUS
  <2>1. PICK g : From(m, g)
    BY <1>1, <1>4
  <2> DEFINE k == n - m
             h == [i \in k .. n + 1 |-> IF i = k THEN PairsAt(s, g, k) ELSE g[i]]
  <2>2. k \in 1 .. n /\ n + 1 - (m + 1) = k /\ n + 1 - m = k + 1 /\ k \in Nat
    BY <1>1
  <2>3. \A j \in k + 1 .. n + 1 : h[j] = g[j]
    BY <2>2
  <2>4. \A i \in k .. n + 1 : h[i] = PairsAt(s, h, i)
    <3> SUFFICES ASSUME NEW i \in k .. n + 1 PROVE h[i] = PairsAt(s, h, i)
      OBVIOUS
    <3>1. PairsAt(s, h, i) = PairsAt(s, g, i)
      <4>1. i \in 1 .. n + 1 /\ \A j \in i + 1 .. n + 1 : h[j] = g[j]
        BY <1>1, <2>2, <2>3
      <4> HIDE DEF h
      <4>. QED
        BY <1>2, <4>1
    <3>2. CASE i = k
      <4>1. h[i] = PairsAt(s, g, k)
        BY <3>2
      <4>. QED
        BY <3>1, <3>2, <4>1
    <3>3. CASE i # k
      <4>1. i \in k + 1 .. n + 1 /\ h[i] = g[i]
        <5>1. i \in k + 1 .. n + 1
          <6> HIDE DEF k, h
          <6>. QED
            BY <1>1, <2>2, <3>3
        <5>. QED
          BY <2>3, <5>1
      <4>2. g[i] = PairsAt(s, g, i)
        BY <2>1, <2>2, <4>1
      <4>. QED
        BY <3>1, <4>1, <4>2
    <3>. QED
      BY <3>2, <3>3
  <2>5. h = [i \in k .. n + 1 |-> PairsAt(s, h, i)]
    BY <2>4
  <2>. QED
    BY <2>2, <2>5
<1>5. n \in Has
  <2> HIDE DEF Has
  <2>. QED
    BY <1>1, <1>3, <1>4, NatSetInduction
<1>6. \E g : From(n, g)
  BY <1>1, <1>5
<1>7. n + 1 - n = 1
  BY <1>1
<1>. QED
  BY <1>6, <1>7 DEF PairsRead

\* The pairs ps, and no others, are read from place i on, and end at place j.
IsRead(s, i, ps, j) == ReadPairs(s, i) = {[pairs |-> ps, next |-> j]}

\* A list of pairs with a space behind it is read as it is, in one way.
LEMMA ListRead ==
    ASSUME NEW s \in Seq(Nat), NEW a \in Nat, NEW ps \in Seq(Pair), ps # <<>>,
           NEW b \in Nat, Listed(s, a, ps, b), b + 1 <= Len(s), s[b + 1] = Space
    PROVE  IsRead(s, a + 2, ps, b + 1)
<1> DEFINE n == Len(ps)
           f == CHOOSE g : g = [i \in 1 .. Len(s) + 1 |-> PairsAt(s, g, i)]
<1>1. PairsRead(s, f) /\ ReadPairs(s, a + 2) = f[a + 2]
  <2>1. PairsRead(s, f)
    BY PairsReadExist DEF PairsRead
  <2>2. ReadPairs(s, a + 2) = f[a + 2]
    BY DEF ReadPairs
  <2>. QED
    BY <2>1, <2>2
<1> HIDE DEF f
<1>2. n \in Nat /\ n >= 1 /\ Len(s) \in Nat /\ \A k \in 1 .. n : ps[k] \in Pair
  BY EmptySeq, LenProperties, ElementOfSeq
<1>3. PICK ends \in [1 .. n + 1 -> 0 .. Len(s)] : ListedAt(s, a, ps, b, ends)
  BY DEF Listed
<1>4. /\ ends[1] = a /\ ends[n + 1] = b
      /\ \A k \in 1 .. n :
            PairAt(s, ends[k] + 1, ps[k], ends[k + 1]) /\ (k > 1 => s[ends[k] + 1] = Comma)
  BY <1>3 DEF ListedAt
<1> HIDE DEF n
<1>5. ASSUME NEW k \in 1 .. n, NEW j, j = k + 1
      PROVE  /\ ends[k] + 2 \in 1 .. Len(s) + 1 /\ ends[j] \in Nat /\ ends[j] + 1 <= Len(s)
             /\ s[ends[j] + 1] = IF k = n THEN Space ELSE Comma
             /\ ReadPair(s, ends[k] + 2) =
                   {[key |-> ps[k].key, val |-> ps[k].val, next |-> ends[j] + 1]}
  <2>1. k \in 1 .. n + 1 /\ j \in 1 .. n + 1
    BY <1>2, <1>5
  <2>2. ends[k] \in Nat /\ ends[j] \in Nat
    BY <1>2, <1>3, <2>1
  <2>3. PairAt(s, ends[k] + 1, ps[k], ends[j]) /\ ps[k] \in Pair
    BY <1>2, <1>4, <1>5
  <2>4. \A i \in 1 .. n : ends[i] \in Nat /\ ends[i] + 2 \in 1 .. Len(s)
    <3> SUFFICES ASSUME NEW i \in 1 .. n PROVE ends[i] \in Nat /\ ends[i] + 2 \in 1 .. Len(s)
      OBVIOUS
    <3> DEFINE c == ends[i]
               l == Len(ps[i].key)
    <3>1. i \in 1 .. n + 1
      BY <1>2
    <3>2. c \in Nat
      BY <1>2, <1>3, <3>1
    <3>3. l \in Nat
      BY <1>2, LenProperties DEF Pair
    <3>4. (c + 1) + l + 1 <= Len(s)
      BY <1>4 DEF PairAt
    <3> HIDE DEF c, l
    <3>5. c \in Nat /\ c + 2 \in 1 .. Len(s)
      BY <1>2, <3>2, <3>3, <3>4
    <3>. QED
      BY <3>5 DEF c
  <2>5. ends[j] + 1 <= Len(s) /\ s[ends[j] + 1] = IF k = n THEN Space ELSE Comma
    <3>1. CASE k = n
      BY <1>4, <1>5, <3>1
    <3>2. CASE k # n
      <4>1. j \in 1 .. n /\ j > 1
        BY <1>2, <1>5, <3>2
      <4>2. s[ends[j] + 1] = Comma /\ ends[j] + 2 \in 1 .. Len(s)
        BY <1>4, <2>4, <4>1
      <4> DEFINE c == ends[j]
      <4>3. c \in Nat /\ c + 2 \in 1 .. Len(s)
        BY <2>2, <4>2
      <4> HIDE DEF c
      <4>4. c + 1 <= Len(s)
        BY <1>2, <4>3
      <4>. QED
        BY <3>2, <4>2, <4>4 DEF c
    <3>. QED
      BY <3>1, <3>2
  <2>6. s[ends[j] + 1] \in {Comma, Space}
    BY <2>5
  <2> DEFINE c == ends[k] + 1
             d == ends[j]
  <2>7. c \in Nat /\ d \in Nat /\ PairAt(s, c, ps[k], d) /\ c + 1 = ends[k] + 2
        /\ d + 1 <= Len(s) /\ s[d + 1] \in {Comma, Space}
    <3>1. c \in Nat /\ c + 1 = ends[k] + 2
      BY <2>2, SMTT(30)
    <3> HIDE DEF c
    <3>2. d \in Nat /\ d + 1 <= Len(s) /\ s[d + 1] \in {Comma, Space}
      BY <2>2, <2>5, <2>6
    <3>3. PairAt(s, c, ps[k], d)
      BY <2>3 DEF c
    <3>. QED
      BY <3>1, <3>2, <3>3
  <2> HIDE DEF c, d
  <2>8. ReadPair(s, c + 1) = {[key |-> ps[k].key, val |-> ps[k].val, next |-> d + 1]}
    BY <2>3, <2>7, PairRead, SMTT(30)
  <2>9. ends[k] + 2 \in 1 .. Len(s) + 1
    <3> DEFINE x == ends[k] + 2
    <3>1. x \in 1 .. Len(s)
      BY <2>4
    <3> HIDE DEF x
    <3>2. x \in 1 .. Len(s) + 1
      BY <1>2, <3>1
    <3>. QED
      BY <3>2 DEF x
  <2>. QED
    BY <2>2, <2>5, <2>7, <2>8, <2>9 DEF d
<1>6. ASSUME NEW k \in 1 .. n
      PROVE  [key |-> ps[k].key, val |-> ps[k].val] = ps[k]
  BY <1>2 DEF Pair
<1> DEFINE Good(k) == f[ends[k] + 2] = {[pairs |-> SubSeq(ps, k, n), next |-> b + 1]}
           Has == {m \in Nat : m < n => Good(n - m)}
<1>7. ASSUME NEW k \in 1 .. n, NEW j, j = k + 1
      PROVE  f[ends[k] + 2] = IF k = n THEN {[pairs |-> <<ps[k]>>, next |-> ends[j] + 1]}
                            ELSE {[pairs |-> <<ps[k]>> \o r.pairs, next |-> r.next] :
                                     r \in f[ends[j] + 2]}
  <2> DEFINE c == ends[k] + 2
             d == ends[j]
             p == [key |-> ps[k].key, val |-> ps[k].val, next |-> d + 1]
  <2>1. /\ c \in 1 .. Len(s) + 1 /\ d \in Nat /\ d + 1 <= Len(s)
        /\ s[d + 1] = IF k = n THEN Space ELSE Comma
        /\ ReadPair(s, c) = {p}
    BY <1>5, <1>7
  <2>2. p.key = ps[k].key /\ p.val = ps[k].val /\ p.next = d + 1
    OBVIOUS
  <2> HIDE DEF c, d, p
  <2>3. f[c] = PairsAt(s, f, c)
    BY <1>1, <2>1 DEF PairsRead
  <2>4. PairsAt(s, f, c) = LET pair == [key |-> p.key, val |-> p.val]
                           IN  IF p.next <= Len(s) /\ s[p.next] = Comma
                               THEN {[pairs |-> <<pair>> \o r.pairs, next |-> r.next] :
                                        r \in f[p.next + 1]}
                               ELSE {[pairs |-> <<pair>>, next |-> p.next]}
    BY <2>1 DEF PairsAt
  <2>5. PairsAt(s, f, c) = IF s[d + 1] = Comma
                           THEN {[pairs |-> <<ps[k]>> \o r.pairs, next |-> r.next] :
                                    r \in f[(d + 1) + 1]}
                           ELSE {[pairs |-> <<ps[k]>>, next |-> d + 1]}
    <3> DEFINE q == [key |-> p.key, val |-> p.val]
    <3>1. q = ps[k]
      BY <1>6, <2>2
    <3>2. PairsAt(s, f, c) = IF p.next <= Len(s) /\ s[p.next] = Comma
                             THEN {[pairs |-> <<q>> \o r.pairs, next |-> r.next] :
                                      r \in f[p.next + 1]}
                             ELSE {[pairs |-> <<q>>, next |-> p.next]}
      BY <2>4
    <3> HIDE DEF q
    <3>. QED
      BY <2>1, <2>2, <3>1, <3>2
  <2>6. (d + 1) + 1 = ends[j] + 2 /\ d + 1 = ends[j] + 1 /\ Space # Comma
    BY <2>1, SMTT(30) DEF d, Space, Comma
  <2>7. f[c] = IF k = n THEN {[pairs |-> <<ps[k]>>, next |-> ends[j] + 1]}
               ELSE {[pairs |-> <<ps[k]>> \o r.pairs, next |-> r.next] : r \in f[ends[j] + 2]}
    <3>1. CASE k = n
      BY <2>1, <2>3, <2>5, <2>6, <3>1
    <3>2. CASE k # n
      <4>1. f[c] = {[pairs |-> <<ps[k]>> \o r.pairs, next |-> r.next] : r \in f[(d + 1) + 1]}
        BY <2>1, <2>3, <2>5, <3>2
      <4>. QED
        BY <2>6, <3>2, <4>1
    <3>. QED
      BY <3>1, <3>2
  <2>. QED
    BY <2>7 DEF c
<1>8. ASSUME NEW m \in Nat, m < n, m > 0 => Good(n - (m - 1))
      PROVE  Good(n - m)
  <2> DEFINE k == n - m
             j == k + 1
  <2>1. k \in 1 .. n /\ j = k + 1 /\ n - (m - 1) = j /\ (m = 0 <=> k = n)
    BY <1>2, <1>8
  <2>2. f[ends[k] + 2] = IF k = n THEN {[pairs |-> <<ps[k]>>, next |-> ends[j] + 1]}
                       ELSE {[pairs |-> <<ps[k]>> \o r.pairs, next |-> r.next] :
                                r \in f[ends[j] + 2]}
    <3> HIDE DEF j, k
    <3>. QED
      BY <1>7, <2>1
  <2>3. SubSeq(ps, k, n) = <<ps[k]>> \o SubSeq(ps, k + 1, n)
    <3>1. k \in 1 .. Len(ps) /\ n \in k .. Len(ps)
      <4> HIDE DEF k
      <4>. QED
        BY <1>2, <2>1 DEF n
    <3> HIDE DEF k
    <3>. QED
      BY <3>1, SubSeqRecursiveFirst
  <2>4. CASE m = 0
    <3>1. k = n /\ ends[j] = b
      BY <1>4, <2>1, <2>4
    <3>2. SubSeq(ps, k + 1, n) = <<>>
      <4>1. k + 1 \in Int /\ n \in Int /\ n < k + 1
        BY <1>2, <3>1
      <4>. QED
        BY <4>1, SubSeqEmpty
    <3>3. <<ps[k]>> \o <<>> = <<ps[k]>>
      BY <1>2, <2>1
    <3> HIDE DEF j, k
    <3>4. f[ends[k] + 2] = {[pairs |-> SubSeq(ps, k, n), next |-> b + 1]}
      BY <2>2, <2>3, <3>1, <3>2, <3>3
    <3>. QED
      BY <3>4 DEF k
  <2>5. CASE m # 0
    <3>1. Good(j) /\ k # n
      BY <1>8, <2>1, <2>5, SMTT(30)
    <3>2. f[ends[j] + 2] = {[pairs |-> SubSeq(ps, j, n), next |-> b + 1]}
      BY <3>1
    <3> DEFINE r == [pairs |-> SubSeq(ps, j, n), next |-> b + 1]
    <3>3. [pairs |-> <<ps[k]>> \o r.pairs, next |-> r.next] =
             [pairs |-> <<ps[k]>> \o SubSeq(ps, j, n), next |-> b + 1]
      OBVIOUS
    <3> HIDE DEF r, k
    <3>4. f[ends[k] + 2] = {[pairs |-> <<ps[k]>> \o r.pairs, next |-> r.next]}
      BY <2>2, <3>1, <3>2 DEF r
    <3>5. f[ends[k] + 2] = {[pairs |-> SubSeq(ps, k, n), next |-> b + 1]}
      BY <2>3, <3>3, <3>4
    <3>. QED
      BY <3>5 DEF k
  <2>. QED
    BY <2>4, <2>5
<1>9. 0 \in Has
  <2>1. 0 < n /\ 0 \in Nat
    BY <1>2
  <2> HIDE DEF Good
  <2>. QED
    BY <1>8, <2>1
<1>10. ASSUME NEW m \in Nat, m \in Has PROVE m + 1 \in Has
  <2>1. m + 1 < n => m < n
    BY <1>2
  <2>2. (m + 1) - 1 = m /\ m + 1 \in Nat
    OBVIOUS
  <2> HIDE DEF Good
  <2>. QED
    BY <1>8, <1>10, <2>1, <2>2
<1>11. n - 1 \in Nat /\ n - 1 < n /\ n - (n - 1) = 1
  BY <1>2
<1>12. Good(1)
  <2>1. n - 1 \in Has
    <3> HIDE DEF Has
    <3>. QED
      BY <1>9, <1>10, <1>11, NatSetInduction
  <2> HIDE DEF Good
  <2>. QED
    BY <1>11, <2>1
<1>13. SubSeq(ps, 1, n) = ps
  BY SubSeqFull DEF n
<1>. QED
  BY <1>1, <1>4, <1>12, <1>13 DEF IsRead

\* FlattenSeq takes what is appended as its last text.
LEMMA FlattenedAppend ==
    ASSUME NEW S, NEW q \in Seq(Seq(S)), NEW x \in Seq(S)
    PROVE  FlattenSeq(Append(q, x)) = FlattenSeq(q) \o x
<1> DEFINE n == Len(q)
           r == Append(q, x)
<1>1. /\ n \in Nat /\ r \in Seq(Seq(S)) /\ Len(r) = n + 1 /\ r[n + 1] = x
      /\ \A i \in 1 .. n : r[i] = q[i]
  BY LenProperties, AppendProperties
<1>2. PICK f : Parts(q, S, f) /\ FlattenSeq(q) = f[n]
  BY PartsExist
<1> HIDE DEF r, n
<1>3. PICK g : Parts(r, S, g) /\ FlattenSeq(r) = g[n + 1]
  BY <1>1, PartsExist
<1>4. /\ f[0] = <<>> /\ \A i \in 1 .. n : f[i] = f[i - 1] \o q[i]
      /\ g[0] = <<>> /\ \A i \in 1 .. n + 1 : g[i] = g[i - 1] \o r[i]
  BY <1>1, <1>2, <1>3 DEF Parts, n
<1> DEFINE Has == {m \in Nat : m <= n => g[m] = f[m]}
<1>5. 0 \in Has
  BY <1>4
<1>6. ASSUME NEW m \in Nat, m \in Has PROVE m + 1 \in Has
  <2> SUFFICES ASSUME m + 1 <= n PROVE g[m + 1] = f[m + 1]
    OBVIOUS
  <2> DEFINE i == m + 1
  <2>1. i \in 1 .. n /\ i \in 1 .. n + 1 /\ i - 1 = m /\ m <= n
    BY <1>1
  <2>2. g[m] = f[m]
    BY <1>6, <2>1
  <2> HIDE DEF i
  <2>3. g[i] = f[i]
    BY <1>1, <1>4, <2>1, <2>2
  <2>. QED
    BY <2>3 DEF i
<1>7. g[n] = f[n]
  <2>1. n \in Has
    <3> HIDE DEF Has
    <3>. QED
      BY <1>1, <1>5, <1>6, NatSetInduction
  <2>. QED
    BY <1>1, <2>1
<1>8. g[n + 1] = g[n] \o x
  <2> DEFINE i == n + 1
  <2>1. i \in 1 .. n + 1 /\ i - 1 = n /\ r[i] = x
    BY <1>1
  <2> HIDE DEF i
  <2>2. g[i] = g[n] \o x
    BY <1>4, <2>1
  <2>. QED
    BY <2>2 DEF i
<1>. QED
  BY <1>2, <1>3, <1>7, <1>8 DEF r

\* Two texts joined.
Joined(a, b) ==
    /\ a \o b \in Seq(Nat) /\ Len(a \o b) = Len(a) + Len(b)
    /\ Starts(a, a \o b) /\ Stands(a \o b, Len(a), b)

\* So it is with all of them.
LEMMA JoinedText ==
    ASSUME NEW a \in Seq(Nat), NEW b \in Seq(Nat)
    PROVE  Joined(a, b)
<1> DEFINE m == Len(a)
           n == Len(b)
           c == a \o b
<1>1. /\ m \in Nat /\ n \in Nat /\ c \in Seq(Nat) /\ Len(c) = m + n
      /\ \A i \in 1 .. m + n : c[i] = IF i <= m THEN a[i] ELSE b[i - m]
  BY LenProperties, ConcatProperties
<1> HIDE DEF m, n, c
<1>2. m <= Len(c) /\ \A i \in 1 .. m : c[i] = a[i]
  <2>1. \A i \in 1 .. m : i \in 1 .. m + n /\ i <= m
    BY <1>1
  <2>2. m <= Len(c)
    BY <1>1
  <2>. QED
    BY <1>1, <2>1, <2>2
<1>3. m + n <= Len(c) /\ \A i \in 1 .. n : c[m + i] = b[i]
  <2>1. \A i \in 1 .. n : m + i \in 1 .. m + n /\ ~(m + i <= m) /\ (m + i) - m = i
    BY <1>1
  <2>2. m + n <= Len(c)
    BY <1>1
  <2>. QED
    BY <1>1, <2>1, <2>2
<1>. QED
  BY <1>1, <1>2, <1>3 DEF Joined, Starts, Stands, m, n, c

\* To begin with is transitive.
LEMMA StartsChain ==
    ASSUME NEW a \in Seq(Nat), NEW b \in Seq(Nat), NEW c \in Seq(Nat), Starts(a, b), Starts(b, c)
    PROVE  Starts(a, c)
<1>1. Len(a) \in Nat /\ Len(b) \in Nat /\ Len(c) \in Nat /\ Len(a) <= Len(b) /\ Len(b) <= Len(c)
  BY LenProperties DEF Starts
<1>2. \A j \in 1 .. Len(a) : j \in 1 .. Len(b)
  BY <1>1
<1>3. \A j \in 1 .. Len(a) : c[j] = a[j]
  BY <1>2 DEF Starts
<1>4. Len(a) <= Len(c)
  BY <1>1
<1>. QED
  BY <1>3, <1>4 DEF Starts

\* A text that is written to the end of others.
Regroups(b, x, k, e, t) == b \o (x \o k \o e \o t) = (b \o x) \o k \o e \o t

\* It is as if each had been written by itself.
LEMMA Rebracket4 ==
    ASSUME NEW b \in Seq(Nat), NEW x \in Seq(Nat), NEW k \in Seq(Nat), NEW e \in Seq(Nat),
           NEW t \in Seq(Nat)
    PROVE  Regroups(b, x, k, e, t)
<1> DEFINE xk == x \o k
           xke == xk \o e
<1>1. xk \in Seq(Nat) /\ xke \in Seq(Nat)
  <2>1. xk \in Seq(Nat)
    BY ConcatProperties
  <2> HIDE DEF xk
  <2>. QED
    BY <2>1, ConcatProperties
<1>2. Associate(b, x, k)
  BY Rebracket
<1> HIDE DEF xk
<1>3. Associate(b, xk, e)
  BY <1>1, Rebracket
<1> HIDE DEF xke
<1>4. Associate(b, xke, t)
  BY <1>1, Rebracket
<1>5. /\ b \o xk = (b \o x) \o k
      /\ b \o xke = (b \o xk) \o e
      /\ b \o (xke \o t) = (b \o xke) \o t
  BY <1>2, <1>3, <1>4 DEF xk, xke, Associate
<1>. QED
  BY <1>5 DEF xk, xke, Regroups

\* A pair stands where it was written.
LEMMA PairWritten ==
    ASSUME NEW x \in Seq(Nat), NEW p \in Pair, NEW t \in {p.val, writeQuotedString(p.val)},
           ValueText(p.val, t)
    PROVE  LET w == x \o p.key \o <<Equals>> \o t
           IN  PairAt(w, Len(x), p, Len(w)) /\ w \in Seq(Nat) /\ Starts(x, w)
<1> DEFINE k == p.key
           e == <<Equals>>
           w1 == x \o k
           w2 == w1 \o e
           w3 == w2 \o t
<1>1. p.key \in Seq(Nat) /\ p.val \in Seq(Nat) /\ t \in Seq(Nat) /\ <<Equals>> \in Seq(Nat)
  BY QuotedType DEF Pair, Equals
<1>e. Len(e) = 1 /\ e[1] = Equals
  OBVIOUS
<1> HIDE DEF k, e
<1>t. k \in Seq(Nat) /\ e \in Seq(Nat) /\ k = p.key
  BY <1>1 DEF k, e
<1>2. Joined(x, k)
  BY <1>t, JoinedText
<1>3. w1 \in Seq(Nat) /\ Len(w1) = Len(x) + Len(k) /\ Starts(x, w1) /\ Stands(w1, Len(x), k)
  BY <1>2 DEF Joined
<1> HIDE DEF w1
<1>4. Joined(w1, e)
  BY <1>t, <1>3, JoinedText
<1>5. w2 \in Seq(Nat) /\ Len(w2) = Len(w1) + 1 /\ Starts(w1, w2) /\ Stands(w2, Len(w1), e)
  BY <1>4, <1>e DEF Joined
<1> HIDE DEF w2
<1>6. Joined(w2, t)
  BY <1>1, <1>5, JoinedText
<1>7. w3 \in Seq(Nat) /\ Len(w3) = Len(w2) + Len(t) /\ Starts(w2, w3) /\ Stands(w3, Len(w2), t)
  BY <1>6 DEF Joined
<1> HIDE DEF w3
<1>8. Starts(w1, w3) /\ Starts(x, w3)
  <2>1. Starts(w1, w3)
    BY <1>3, <1>5, <1>7, StartsChain
  <2>. QED
    BY <1>3, <1>7, <2>1, StartsChain
<1>l. Len(x) \in Nat /\ Len(k) \in Nat /\ Len(w1) \in Nat /\ Len(w2) \in Nat /\ Len(w3) \in Nat
      /\ Len(t) \in Nat
  BY <1>t, <1>1, <1>3, <1>5, <1>7, LenProperties
<1>9. Stands(w3, Len(x), k) /\ Stands(w3, Len(w1), e)
  <2>1. Stands(w3, Len(x), k)
    BY <1>l, <1>t, <1>3, <1>7, <1>8, StandsLonger
  <2>2. Stands(w3, Len(w1), e)
    BY <1>l, <1>t, <1>5, <1>7, StandsLonger
  <2>. QED
    BY <2>1, <2>2
<1>10. Len(x) + Len(k) + 1 = Len(w2) /\ Len(w1) + 1 = Len(w2) /\ Len(w2) <= Len(w3)
       /\ Len(w2) + Len(t) = Len(w3)
  BY <1>l, <1>3, <1>5, <1>7
<1>11. w3[Len(w2)] = Equals
  <2>1. w3[Len(w1) + 1] = e[1]
    BY <1>9, <1>e DEF Stands
  <2>. QED
    BY <1>e, <1>10, <2>1
<1>12. PairAt(w3, Len(x), p, Len(w3))
  BY <1>t, <1>7, <1>9, <1>10, <1>11 DEF PairAt
<1>. QED
  BY <1>7, <1>8, <1>12 DEF w3, w2, w1, k, e

\* The fields fs stand on page behind place a, where a separator is, up to its end.
FieldsOn(page, a, fs) ==
    IF fs = <<>> THEN Len(page) = a + 1 ELSE Listed(page, a, fs, Len(page))

\* A pair that is written to the end of a page, with a comma if it is not the first, is
\* one more of its fields.
LEMMA FieldAdded ==
    ASSUME NEW page \in Seq(Nat), NEW a \in Nat, NEW fs \in Seq(Pair), FieldsOn(page, a, fs),
           NEW p \in Pair, NEW t \in {p.val, writeQuotedString(p.val)}, ValueText(p.val, t),
           NEW sep, sep = IF fs # <<>> THEN <<Comma>> ELSE <<>>,
           NEW longer, longer = page \o (sep \o p.key \o <<Equals>> \o t)
    PROVE  FieldsOn(longer, a, Append(fs, p)) /\ longer \in Seq(Nat) /\ Starts(page, longer)
<1> DEFINE x == page \o sep
           w == x \o p.key \o <<Equals>> \o t
<1>1. p.key \in Seq(Nat) /\ p.val \in Seq(Nat) /\ t \in Seq(Nat) /\ <<Equals>> \in Seq(Nat)
      /\ sep \in Seq(Nat)
  BY QuotedType DEF Pair, Equals, Comma
<1>2. longer = w
  <2> DEFINE k == p.key
             e == <<Equals>>
  <2>1. k \in Seq(Nat) /\ e \in Seq(Nat) /\ longer = page \o (sep \o k \o e \o t)
    BY <1>1
  <2> HIDE DEF k, e
  <2>2. Regroups(page, sep, k, e, t)
    BY <1>1, <2>1, Rebracket4
  <2>3. longer = (page \o sep) \o k \o e \o t
    BY <2>1, <2>2 DEF Regroups
  <2>. QED
    BY <2>3 DEF k, e
<1>3. /\ x \in Seq(Nat) /\ Len(x) = Len(page) + Len(sep) /\ Starts(page, x)
      /\ Stands(x, Len(page), sep)
  BY <1>1, JoinedText DEF Joined
<1>4. PairAt(w, Len(x), p, Len(w)) /\ w \in Seq(Nat) /\ Starts(x, w)
  <2> HIDE DEF x
  <2>. QED
    BY <1>3, PairWritten
<1> HIDE DEF w, x
<1>5. Starts(page, w)
  BY <1>3, <1>4, StartsChain
<1>6. /\ Len(page) \in Nat /\ Len(x) \in Nat /\ Len(w) \in Nat
      /\ Len(page) <= Len(x) /\ Len(x) <= Len(w)
  BY <1>3, <1>4, <1>5, LenProperties DEF Starts
<1>7. Append(fs, p) = fs \o <<p>> /\ Append(fs, p) # <<>> /\ <<p>> \in Seq(Pair) /\ <<p>> # <<>>
  BY AppendIsConcat, AppendProperties
<1>8. CASE fs = <<>>
  <2>1. Len(x) = a + 1 /\ a \in 0 .. Len(w)
    <3>1. Len(sep) = 0 /\ Len(page) = a + 1
      BY <1>8 DEF FieldsOn
    <3>. QED
      BY <1>3, <1>6, <3>1
  <2>2. Listed(w, a, <<p>>, Len(w))
    <3>1. Len(w) \in 0 .. Len(w) /\ PairAt(w, a + 1, p, Len(w))
      BY <1>4, <1>6, <2>1
    <3>. QED
      BY <1>4, <2>1, <3>1, ListedOne
  <2>3. Append(fs, p) = <<p>>
    BY <1>7, <1>8
  <2>. QED
    BY <1>2, <1>4, <1>5, <1>7, <2>2, <2>3 DEF FieldsOn
<1>9. CASE fs # <<>>
  <2> DEFINE c == Len(page)
  <2>1. Listed(page, a, fs, c) /\ sep = <<Comma>>
    BY <1>9 DEF FieldsOn
  <2>2. Len(sep) = 1 /\ sep[1] = Comma /\ 1 \in 1 .. Len(sep)
    <3>1. Len(<<Comma>>) = 1 /\ <<Comma>>[1] = Comma /\ 1 \in 1 .. 1
      OBVIOUS
    <3>. QED
      BY <2>1, <3>1
  <2>3. Listed(w, a, fs, c)
    <3> HIDE DEF c
    <3>. QED
      BY <1>4, <1>5, <2>1, ListedLonger
  <2>4. Len(x) = c + 1 /\ c \in 0 .. Len(w) /\ c + 1 \in 1 .. Len(x)
    BY <1>3, <1>6, <2>2
  <2>5. w[c + 1] = Comma
    <3>1. x[c + 1] = Comma
      BY <1>3, <2>2 DEF Stands
    <3>. QED
      BY <1>4, <2>4, <3>1 DEF Starts
  <2>6. Listed(w, c, <<p>>, Len(w))
    <3>1. Len(w) \in 0 .. Len(w) /\ PairAt(w, c + 1, p, Len(w))
      BY <1>4, <1>6, <2>4
    <3> HIDE DEF c
    <3>. QED
      BY <1>4, <2>4, <3>1, ListedOne
  <2> HIDE DEF c
  <2>7. Listed(w, a, fs \o <<p>>, Len(w))
    BY <1>4, <1>7, <2>3, <2>5, <2>6, ListedJoined
  <2>. QED
    BY <1>2, <1>4, <1>5, <1>7, <2>7 DEF FieldsOn
<1>. QED
  BY <1>8, <1>9

\* What a value must be for its text to be known.
Loggable(v) ==
    /\ Item(v) /\ v.does \in Behaviours
    /\ v.kind \in {"nil", "bytes"} => v.does \in {"returns", "nil"}
    /\ v.kind \in {"number", "string", "other"} => v.does = "returns"
    /\ v.kind = "number" => ~Contains(v.text, Comma)
    /\ v.does = "fails" => v.kind = "marshaler"

\* All values are like that.
LEMMA KeyValsLoggable ==
    ASSUME NEW p \in KeyVals
    PROVE  Loggable(p[1]) /\ Loggable(p[2]) /\ Loggable(ErrorValue)
<1>1. Loggable(p[1]) /\ Loggable(p[2])
  BY LogfmtAssumption DEF LogfmtAssumption, Loggable, Item
<1>2. Loggable(ErrorValue)
  BY ErrorWritten DEF Loggable, ErrorValue, Behaviours
<1>. QED
  BY <1>1, <1>2

\* A key that is written is its own text without some runes, and no equals sign.
LEMMA KeyGives ==
    ASSUME NEW k, Loggable(k), writeKey(k).err = "none"
    PROVE  /\ k.kind \notin {"error", "unsupported"}
           /\ writeKey(k).text = KeyText(k)
           /\ KeyText(k) \in Seq(Nat) /\ \A i \in DOMAIN KeyText(k) : KeyText(k)[i] # Equals
<1>1. \A e : Failed(e).err = e
  BY DEF Failed
<1>2. k.kind # "nil" /\ k.does # "nil" /\ k.kind \notin {"error", "unsupported"}
  BY <1>1 DEF writeKey
<1>3. writeKey(k) = writeStringKey(safeString(k))
  <2>1. CASE k.kind \in {"marshaler", "bytes"}
    <3>1. k.kind = "marshaler" => safeMarshal(k).err = "none" /\ k.does \notin {"fails", "panics"}
      <4> SUFFICES ASSUME k.kind = "marshaler"
                   PROVE  safeMarshal(k).err = "none" /\ k.does \notin {"fails", "panics"}
        OBVIOUS
      <4>1. writeKey(k) = IF safeMarshal(k).err = "none" THEN writeBytesKey(safeMarshal(k).text)
                                                         ELSE safeMarshal(k)
        BY <1>2 DEF writeKey
      <4>2. safeMarshal(k).err = "none"
        BY <4>1
      <4>. QED
        BY <1>1, <4>2 DEF safeMarshal
    <3>2. k.does \notin {"fails", "panics"}
      BY <2>1, <3>1 DEF Loggable
    <3>3. safeString(k) = k.text /\ safeMarshal(k).text = k.text
      BY <3>2 DEF safeString, safeMarshal, Written
    <3>. QED
      BY <1>2, <2>1, <3>1, <3>3 DEF writeKey, writeBytesKey
  <2>2. CASE k.kind \notin {"marshaler", "bytes"}
    BY <1>2, <2>2 DEF writeKey
  <2>. QED
    BY <2>1, <2>2
<1>4. writeStringKey(safeString(k)).text = KeyText(k)
  <2>1. writeStringKey(safeString(k)).err = "none"
    BY <1>3
  <2>2. KeyText(k) = Chosen(safeString(k), keyRuneFilter)
    BY DEF KeyText, Chosen, keyRuneFilter
  <2>. QED
    BY <1>1, <2>1, <2>2 DEF writeStringKey, Written
<1>5. KeyText(k) \in Seq(Clean)
  <2>1. safeString(k) \in Seq(Nat)
    BY SafeStringType DEF Loggable
  <2>. QED
    BY <1>4, <2>1, KeyClean
<1>6. Clean \subseteq Nat /\ \A r \in Clean : r # Equals
  BY DEF Clean, keyRuneFilter
<1>7. \A i \in DOMAIN KeyText(k) : KeyText(k)[i] # Equals
  BY <1>5, <1>6, ElementOfSeq, LenProperties
<1>. QED
  BY <1>2, <1>3, <1>4, <1>5, <1>6, <1>7, SeqMonotonic

\* Only keys of two kinds are not supported.
LEMMA KeyKinds ==
    ASSUME NEW k, Loggable(k)
    PROVE  /\ writeKey(k).err = "unsupported key" <=>
                 k.kind \in {"error", "unsupported"} /\ k.does # "nil"
           /\ writeKey(k).err # "unsupported value"
           /\ writeKey(k).err = "none" \/ writeKey(k).text = <<>>
<1>1. \A e : Failed(e).err = e /\ Failed(e).text = <<>>
  BY DEF Failed
<1>2. \A t : Written(t).err = "none"
  BY DEF Written
<1>3. \A s : \/ writeStringKey(s) = Failed("invalid key")
             \/ \E t : writeStringKey(s) = Written(t)
  BY DEF writeStringKey
<1>4. CASE k.kind \in {"nil", "error", "unsupported"} \/ k.does = "nil"
  <2>1. \/ writeKey(k) = Failed("nil key") /\ (k.kind = "nil" \/ k.does = "nil")
        \/ /\ writeKey(k) = Failed("unsupported key")
           /\ k.kind \in {"error", "unsupported"} /\ k.does # "nil"
    BY <1>4 DEF writeKey
  <2>. QED
    BY <1>1, <2>1
<1>5. CASE ~(k.kind \in {"nil", "error", "unsupported"} \/ k.does = "nil")
  <2>1. \/ \E s : writeKey(k) = writeStringKey(s)
        \/ k.kind = "marshaler" /\ writeKey(k) = safeMarshal(k) /\ safeMarshal(k).err # "none"
    BY <1>5 DEF writeKey, writeBytesKey
  <2>2. \/ safeMarshal(k) = Failed("marshaler") \/ safeMarshal(k) = Failed("marshaler panic")
        \/ \E t : safeMarshal(k) = Written(t)
    BY DEF safeMarshal
  <2>3. CASE \E s : writeKey(k) = writeStringKey(s)
    <3>1. PICK s : writeKey(k) = writeStringKey(s)
      BY <2>3
    <3>2. CASE writeStringKey(s) = Failed("invalid key")
      <4>1. writeKey(k).err = "invalid key" /\ writeKey(k).text = <<>>
        BY <1>1, <3>1, <3>2
      <4>. QED
        BY <1>5, <4>1
    <3>3. CASE \E t : writeStringKey(s) = Written(t)
      <4>1. writeKey(k).err = "none"
        BY <1>2, <3>1, <3>3
      <4>. QED
        BY <1>5, <4>1
    <3>. QED
      BY <1>3, <3>2, <3>3
  <2>4. CASE k.kind = "marshaler" /\ writeKey(k) = safeMarshal(k) /\ safeMarshal(k).err # "none"
    BY <1>1, <1>2, <2>2, <2>4
  <2>. QED
    BY <2>1, <2>3, <2>4
<1>. QED
  BY <1>4, <1>5

\* t is how a value with the text x is written.
Gives(t, x, quoted) ==
    /\ x \in Seq(Nat) /\ t \in {x, writeQuotedString(x)}
    /\ quoted \/ ~Contains(x, Comma) => ValueText(x, t)

\* It is where quotes are put around what needs them.
LEMMA StringGives ==
    ASSUME NEW s \in Seq(Nat), NEW ok, NEW quoted
    PROVE  /\ Gives(writeStringValue(s, ok, quoted), s, quoted)
           /\ Gives(writeBytesValue(s, quoted), s, quoted)
<1>1. ASSUME NEW t, t = writeQuotedString(s) \/ (t = s /\ ~quoted /\ ~NeedsQuotes(s))
      PROVE  Gives(t, s, quoted)
  BY <1>1 DEF Gives, ValueText
<1>2. \/ writeStringValue(s, ok, quoted) = writeQuotedString(s)
      \/ writeStringValue(s, ok, quoted) = s /\ ~quoted /\ ~NeedsQuotes(s)
  BY DEF writeStringValue
<1>3. \/ writeBytesValue(s, quoted) = writeQuotedString(s)
      \/ writeBytesValue(s, quoted) = s /\ ~quoted /\ ~NeedsQuotes(s)
  BY DEF writeBytesValue, writeQuotedBytes
<1>. QED
  BY <1>1, <1>2, <1>3

\* A value that is written is written as the text that a reader should find.
LEMMA ValueGives ==
    ASSUME NEW v, Loggable(v), NEW quoted, writeValue(v, quoted).err = "none"
    PROVE  Gives(writeValue(v, quoted).text, ShownText(v), quoted)
<1>1. safeString(v) \in Seq(Nat) /\ v.text \in Seq(Nat) /\ Null \in Seq(Nat)
  BY SafeStringType DEF Loggable, Item, Null
<1>2. \A e : Failed(e).err = e
  BY DEF Failed
<1>3. \A t : Written(t).text = t
  BY DEF Written
<1>u. v.kind # "unsupported"
  <2>1. v.kind = "unsupported" => writeValue(v, quoted) = Failed("unsupported value")
    BY DEF writeValue
  <2>. QED
    BY <1>2, <2>1
<1>5. CASE v.kind = "nil"
  <2>1. writeValue(v, quoted) = Written(writeBytesValue(Null, quoted))
    BY <1>5 DEF writeValue
  <2>2. ShownText(v) = Null
    BY <1>5 DEF ShownText, Loggable
  <2>3. Gives(writeBytesValue(Null, quoted), Null, quoted)
    BY <1>1, StringGives
  <2>. QED
    BY <1>3, <2>1, <2>2, <2>3
<1>6. CASE v.kind = "number"
  <2>1. writeValue(v, quoted) = Written(writeStringValue(v.text, TRUE, FALSE))
    BY <1>6 DEF writeValue
  <2>2. ShownText(v) = v.text /\ ~Contains(v.text, Comma)
    BY <1>6 DEF ShownText, Loggable
  <2>3. Gives(writeStringValue(v.text, TRUE, FALSE), v.text, FALSE)
    BY <1>1, StringGives
  <2>4. Gives(writeStringValue(v.text, TRUE, FALSE), v.text, quoted)
    BY <2>2, <2>3 DEF Gives
  <2>. QED
    BY <1>3, <2>1, <2>2, <2>4
<1>7. CASE v.kind = "bytes"
  <2>1. writeValue(v, quoted) = Written(writeBytesValue(v.text, quoted))
    BY <1>7 DEF writeValue
  <2>2. ShownText(v) = v.text
    BY <1>7 DEF ShownText, Loggable
  <2>3. Gives(writeBytesValue(v.text, quoted), v.text, quoted)
    BY <1>1, StringGives
  <2>. QED
    BY <1>3, <2>1, <2>2, <2>3
<1>8. CASE v.kind = "marshaler"
  <2> DEFINE m == safeMarshal(v)
             t == IF v.does = "nil" THEN Null ELSE m.text
  <2>1. writeValue(v, quoted) = IF m.err # "none" THEN m ELSE Written(writeBytesValue(t, quoted))
    BY <1>8 DEF writeValue
  <2>2. m.err = "none"
    <3> HIDE DEF m
    <3>. QED
      BY <2>1
  <2>3. v.does \notin {"fails", "panics"}
    BY <1>2, <2>2 DEF safeMarshal
  <2>4. m.text = v.text
    BY <2>3 DEF safeMarshal, Written
  <2>5. ShownText(v) = t
    BY <1>8, <2>3, <2>4 DEF ShownText
  <2>6. t \in Seq(Nat)
    BY <1>1, <2>4
  <2>7. writeValue(v, quoted) = Written(writeBytesValue(t, quoted))
    BY <2>1, <2>2
  <2> HIDE DEF m, t
  <2>8. Gives(writeBytesValue(t, quoted), t, quoted)
    BY <2>6, StringGives
  <2>. QED
    BY <1>3, <2>5, <2>7, <2>8
<1>9. CASE v.kind \in {"error", "stringer", "pointer"} /\ v.does = "nil"
  <2>1. writeValue(v, quoted) = Written(writeStringValue(Null, FALSE, quoted))
    BY <1>9 DEF writeValue
  <2>2. ShownText(v) = Null
    BY <1>9 DEF ShownText
  <2>3. Gives(writeStringValue(Null, FALSE, quoted), Null, quoted)
    BY <1>1, StringGives
  <2>. QED
    BY <1>3, <2>1, <2>2, <2>3
<1>10. CASE /\ v.kind \in {"string", "other", "error", "stringer", "pointer"}
            /\ ~(v.kind \in {"error", "stringer", "pointer"} /\ v.does = "nil")
  <2>1. writeValue(v, quoted) = Written(writeStringValue(safeString(v),
                              v.kind # "error" \/ v.does # "panics", quoted))
    BY <1>10 DEF writeValue
  <2>2. v.does \notin {"nil", "fails"}
    BY <1>10 DEF Loggable
  <2>3. ShownText(v) = safeString(v)
    BY <1>10, <2>2 DEF ShownText, safeString
  <2> DEFINE x == safeString(v)
             ok == v.kind # "error" \/ v.does # "panics"
  <2>4. x \in Seq(Nat) /\ writeValue(v, quoted) = Written(writeStringValue(x, ok, quoted))
    BY <1>1, <2>1
  <2> HIDE DEF x, ok
  <2>5. Gives(writeStringValue(x, ok, quoted), x, quoted)
    BY <2>4, StringGives
  <2>. QED
    BY <1>3, <2>3, <2>4, <2>5 DEF x
<1>. QED
  BY <1>u, <1>5, <1>6, <1>7, <1>8, <1>9, <1>10 DEF Loggable, Item, Kinds

\* A value is replaced by an error where its own text is one.
LEMMA ValueReplaced ==
    ASSUME NEW v, Loggable(v), NEW quoted, writeValue(v, quoted).err \in Retry
    PROVE  ShownText(v) = ErrorText /\ ShownText(ErrorValue) = ErrorText
<1>1. \A t : Written(t).err = "none"
  BY DEF Written
<1>2. \A e : Failed(e).err = e
  BY DEF Failed
<1>3. ShownText(ErrorValue) = ErrorText
  BY DEF ShownText, ErrorValue
<1>4. CASE v.kind = "unsupported"
  BY <1>3, <1>4 DEF ShownText
<1>5. CASE v.kind = "marshaler"
  <2>1. writeValue(v, quoted) = safeMarshal(v) \/ \E t : writeValue(v, quoted) = Written(t)
    BY <1>5 DEF writeValue
  <2>2. safeMarshal(v).err \in Retry
    BY <1>1, <2>1 DEF Retry
  <2>3. v.does = "fails"
    BY <1>1, <1>2, <2>2 DEF safeMarshal, Retry
  <2>. QED
    BY <1>3, <2>3 DEF ShownText
<1>6. CASE v.kind \notin {"unsupported", "marshaler"}
  <2>1. \E t : writeValue(v, quoted) = Written(t)
    BY <1>6 DEF writeValue
  <2>. QED
    BY <1>1, <2>1 DEF Retry
<1>. QED
  BY <1>4, <1>5, <1>6

\* The comma before a pair that is not the first.
Separator == IF needSep THEN <<Comma>> ELSE <<>>

\* Pair q was written to the encoder, and is one of those that it was given.
Adds(q, t) ==
    /\ needSep' = TRUE /\ fields' = Append(fields, q)
    /\ Gives(t, q.val, op = "record")
    /\ buf' = buf \o (Separator \o q.key \o <<Equals>> \o t)

\* Of a value that is not written nothing is left.
LEMMA ValueFails ==
    ASSUME NEW v, NEW quoted, writeValue(v, quoted).err # "none"
    PROVE  writeValue(v, quoted).text = <<>>
<1>1. \A t : Written(t).err = "none"
  BY DEF Written
<1>2. \A e : Failed(e).text = <<>>
  BY DEF Failed
<1>3. CASE v.kind = "unsupported"
  BY <1>2, <1>3 DEF writeValue
<1>4. CASE v.kind = "marshaler"
  <2>1. writeValue(v, quoted) = safeMarshal(v) \/ \E t : writeValue(v, quoted) = Written(t)
    BY <1>4 DEF writeValue
  <2>2. (\E e : safeMarshal(v) = Failed(e)) \/ \E t : safeMarshal(v) = Written(t)
    BY DEF safeMarshal
  <2>. QED
    BY <1>1, <1>2, <2>1, <2>2
<1>5. CASE v.kind \notin {"unsupported", "marshaler"}
  <2>1. \E t : writeValue(v, quoted) = Written(t)
    BY <1>5 DEF writeValue
  <2>. QED
    BY <1>1, <2>1
<1>. QED
  BY <1>3, <1>4, <1>5

\* What EncodeKeyval makes of a key and a value.
LEMMA PairEncoded ==
    ASSUME NEW k, Loggable(k), NEW v, Loggable(v), NEW quoted
    PROVE  LET e == EncodeKeyval(k, v, quoted)
           IN  \/ writeKey(k).err # "none" /\ e = writeKey(k)
               \/ /\ writeKey(k).err = "none" /\ writeValue(v, quoted).err # "none"
                  /\ e = writeValue(v, quoted)
               \/ /\ e.err = "none" /\ k.kind \notin {"error", "unsupported"}
                  /\ [key |-> KeyText(k), val |-> ShownText(v)] \in Pair
                  /\ \E t : /\ Gives(t, ShownText(v), quoted)
                            /\ e.text = Separator \o KeyText(k) \o <<Equals>> \o t
<1> DEFINE e == EncodeKeyval(k, v, quoted)
           key == writeKey(k)
           val == writeValue(v, quoted)
<1>1. e = IF key.err # "none" THEN key ELSE IF val.err # "none" THEN val
          ELSE Written(Separator \o key.text \o <<Equals>> \o val.text)
  BY DEF EncodeKeyval, Separator
<1>2. CASE key.err = "none" /\ val.err = "none"
  <2>1. /\ k.kind \notin {"error", "unsupported"} /\ key.text = KeyText(k)
        /\ KeyText(k) \in Seq(Nat) /\ \A i \in DOMAIN KeyText(k) : KeyText(k)[i] # Equals
    BY <1>2, KeyGives
  <2>2. Gives(val.text, ShownText(v), quoted)
    BY <1>2, ValueGives
  <2>3. ShownText(v) \in Seq(Nat)
    BY <2>2 DEF Gives
  <2> DEFINE q == [key |-> KeyText(k), val |-> ShownText(v)]
  <2>4. q \in Pair
    <3>1. q \in [key : Seq(Nat), val : Seq(Nat)] /\ q.key = KeyText(k)
      BY <2>1, <2>3
    <3> HIDE DEF q
    <3>. QED
      BY <2>1, <3>1 DEF Pair
  <2>5. e = Written(Separator \o KeyText(k) \o <<Equals>> \o val.text)
    BY <1>1, <1>2, <2>1
  <2>6. e.err = "none" /\ e.text = Separator \o KeyText(k) \o <<Equals>> \o val.text
    <3>1. \A x : Written(x).err = "none" /\ Written(x).text = x
      BY DEF Written
    <3> HIDE DEF e, val
    <3>. QED
      BY <2>5, <3>1
  <2> HIDE DEF e, val
  <2>. QED
    BY <2>1, <2>2, <2>4, <2>6 DEF e
<1>3. CASE ~(key.err = "none" /\ val.err = "none")
  <2> HIDE DEF e, key, val
  <2>1. \/ key.err # "none" /\ e = key
        \/ key.err = "none" /\ val.err # "none" /\ e = val
    BY <1>1, <1>3
  <2>. QED
    BY <2>1 DEF e, key, val
<1>. QED
  BY <1>2, <1>3

\* A round that does not end the event adds a pair or leaves the encoder as it is.
LEMMA EncodeAdds ==
    ASSUME NEW p \in KeyVals, Encode(p[1], p[2]), op' # "none", buf \in Seq(Nat),
           needSep \in BOOLEAN
    PROVE  /\ op' = op /\ op # "none" /\ UNCHANGED <<tagSet, tags, line>>
           /\ \/ UNCHANGED <<buf, needSep, fields>>
              \/ \E q \in Pair : \E t : Adds(q, t)
<1> DEFINE k == p[1]
           v == p[2]
           quoted == op = "record"
           first == EncodeKeyval(k, v, quoted)
           again == EncodeKeyval(k, ErrorValue, quoted)
           last  == IF first.err \in Retry THEN again ELSE first
           a     == IF first.err \in Retry THEN first.text ELSE <<>>
           q     == [key |-> KeyText(k), val |-> ShownText(v)]
<1>1. /\ op # "none" /\ UNCHANGED <<tagSet, tags, line>>
      /\ buf' = buf \o a \o last.text
      /\ needSep' = (needSep \/ last.err = "none")
      /\ IF last.err \in {"none", "unsupported key"} THEN UNCHANGED <<op, lost>> ELSE op' = "none"
      /\ fields' = IF k.kind \in {"error", "unsupported"} THEN fields ELSE Append(fields, q)
  BY DEF Encode
<1>2. op' = op /\ last.err \in {"none", "unsupported key"}
  <2> HIDE DEF last
  <2>. QED
    BY <1>1
<1>3. Loggable(k) /\ Loggable(v) /\ Loggable(ErrorValue)
  BY KeyValsLoggable
<1>4. writeValue(ErrorValue, quoted).err = "none"
  BY ErrorWritten
<1> HIDE DEF k, v, quoted, q
<1>5. \/ writeKey(k).err # "none" /\ first = writeKey(k)
      \/ /\ writeKey(k).err = "none" /\ writeValue(v, quoted).err # "none"
         /\ first = writeValue(v, quoted)
      \/ /\ first.err = "none" /\ k.kind \notin {"error", "unsupported"}
         /\ [key |-> KeyText(k), val |-> ShownText(v)] \in Pair
         /\ \E t : /\ Gives(t, ShownText(v), quoted)
                   /\ first.text = Separator \o KeyText(k) \o <<Equals>> \o t
  BY <1>3, PairEncoded
<1>6. \/ writeKey(k).err # "none" /\ again = writeKey(k)
      \/ /\ again.err = "none" /\ k.kind \notin {"error", "unsupported"}
         /\ [key |-> KeyText(k), val |-> ShownText(ErrorValue)] \in Pair
         /\ \E t : /\ Gives(t, ShownText(ErrorValue), quoted)
                   /\ again.text = Separator \o KeyText(k) \o <<Equals>> \o t
  BY <1>3, <1>4, PairEncoded
<1> HIDE DEF first, again
<1>7. /\ \A x \in Seq(Nat) : <<>> \o x = x
      /\ buf \o <<>> = buf
  BY ConcatEmptySeq
<1>8. a = <<>>
  <2>1. first.err \in Retry => first.text = <<>>
    <3>1. "none" \notin Retry
      BY DEF Retry
    <3>. QED
      BY <1>3, <1>5, <3>1, KeyKinds, ValueFails
  <2>. QED
    BY <2>1
<1> HIDE DEF a
<1>9. buf' = buf \o last.text
  BY <1>1, <1>7, <1>8
<1>10. CASE writeKey(k).err # "none"
  <2>1. last = writeKey(k)
    <3>1. first = writeKey(k)
      <4>1. first.err = "none" => writeKey(k).err = "none"
        BY <1>5, <1>10 DEF first, EncodeKeyval
      <4>. QED
        BY <1>5, <1>10, <4>1
    <3>2. again = writeKey(k)
      BY <1>10 DEF again, EncodeKeyval
    <3>. QED
      BY <3>1, <3>2
  <2>2. last.err = "unsupported key" /\ last.text = <<>>
    <3> HIDE DEF last
    <3>. QED
      BY <1>2, <1>3, <1>10, <2>1, KeyKinds
  <2>3. k.kind \in {"error", "unsupported"}
    <3> HIDE DEF last
    <3>. QED
      BY <1>3, <2>1, <2>2, KeyKinds
  <2> HIDE DEF last
  <2>4. buf' = buf /\ fields' = fields /\ needSep' = needSep
    BY <1>1, <1>7, <1>9, <2>2, <2>3
  <2>. QED
    BY <1>1, <1>2, <2>4
<1>11. CASE writeKey(k).err = "none"
  <2>1. /\ last.err = "none" /\ k.kind \notin {"error", "unsupported"}
        /\ q \in Pair
        /\ \E t : /\ Gives(t, q.val, quoted)
                  /\ last.text = Separator \o q.key \o <<Equals>> \o t
    <3>q. /\ q.key = KeyText(k) /\ q.val = ShownText(v)
          /\ q = [key |-> KeyText(k), val |-> ShownText(v)]
      BY DEF q
    <3>n. "none" \notin Retry
      BY DEF Retry
    <3>1. CASE first.err \in Retry
      <4>1. first = writeValue(v, quoted)
        BY <1>5, <1>11, <3>1, <3>n
      <4>2. ShownText(v) = ErrorText /\ ShownText(ErrorValue) = ErrorText
        BY <1>3, <3>1, <4>1, ValueReplaced
      <4>3. last = again
        BY <3>1
      <4> HIDE DEF last
      <4>. QED
        BY <1>6, <1>11, <3>q, <4>2, <4>3
    <3>2. CASE first.err \notin Retry
      <4>1. last = first
        BY <3>2
      <4>2. first.err = "none"
        <5> HIDE DEF last
        <5>1. first.err \in {"none", "unsupported key"}
          BY <1>2, <4>1
        <5>2. \A x : writeValue(v, x).err # "unsupported key"
          <6>1. \A t : Written(t).err = "none"
            BY DEF Written
          <6>2. /\ Failed("unsupported value").err = "unsupported value"
                /\ Failed("marshaler").err = "marshaler"
                /\ Failed("marshaler panic").err = "marshaler panic"
            BY DEF Failed
          <6>3. \A x : \/ writeValue(v, x) = Failed("unsupported value")
                       \/ v.kind = "marshaler" /\ writeValue(v, x) = safeMarshal(v)
                       \/ \E t : writeValue(v, x) = Written(t)
            <7> SUFFICES ASSUME NEW x
                         PROVE  \/ writeValue(v, x) = Failed("unsupported value")
                                \/ v.kind = "marshaler" /\ writeValue(v, x) = safeMarshal(v)
                                \/ \E t : writeValue(v, x) = Written(t)
              OBVIOUS
            <7>1. CASE v.kind = "unsupported"
              BY <7>1 DEF writeValue
            <7>2. CASE v.kind = "marshaler"
              BY <7>2 DEF writeValue
            <7>3. CASE v.kind \notin {"unsupported", "marshaler"}
              BY <7>3 DEF writeValue
            <7>. QED
              BY <7>1, <7>2, <7>3
          <6>4. \/ safeMarshal(v) = Failed("marshaler")
                \/ safeMarshal(v) = Failed("marshaler panic")
                \/ \E t : safeMarshal(v) = Written(t)
            BY DEF safeMarshal
          <6>. QED
            BY <6>1, <6>2, <6>3, <6>4
        <5>. QED
          BY <1>5, <1>11, <5>1, <5>2
      <4> HIDE DEF last
      <4>. QED
        BY <1>5, <1>11, <3>q, <4>1, <4>2
    <3>. QED
      BY <3>1, <3>2
  <2>2. PICK t : Gives(t, q.val, quoted) /\ last.text = Separator \o q.key \o <<Equals>> \o t
    BY <2>1
  <2> HIDE DEF last
  <2>3. Adds(q, t)
    BY <1>1, <1>9, <2>1, <2>2 DEF Adds, quoted
  <2>. QED
    BY <1>1, <1>2, <2>1, <2>3
<1>. QED
  BY <1>10, <1>11

\* Fields of which none has a comma in its value, as a header can show them.
PlainFields(fs) == \A i \in DOMAIN fs : ~Contains(fs[i].val, Comma)

\* A tag of NewInfluxdbLogger that is written behind others is one more of them.
LEMMA TagAdded ==
    ASSUME NEW page \in Seq(Nat), NEW a \in Nat, NEW ps \in Seq(Pair),
           Listed(page, a, ps, Len(page)), NEW p \in Pair, ValueText(p.val, p.val)
    PROVE  LET longer == page \o (<<Comma>> \o p.key \o <<Equals>> \o p.val)
           IN  Listed(longer, a, Append(ps, p), Len(longer))
<1> DEFINE longer == page \o (<<Comma>> \o p.key \o <<Equals>> \o p.val)
           k == p.key
           v == p.val
           c == <<Comma>>
           e == <<Equals>>
           q == Append(ps, p)
<1>1. k \in Seq(Nat) /\ v \in Seq(Nat) /\ c \in Seq(Nat) /\ e \in Seq(Nat) /\ <<>> \in Seq(Nat)
  BY DEF Pair, Comma, Equals
<1>2. FieldsOn(longer, a, q)
  <2>1. CASE ps # <<>>
    <3> DEFINE sep == <<Comma>>
    <3>1. FieldsOn(page, a, ps)
      BY <2>1 DEF FieldsOn
    <3>2. sep = (IF ps # <<>> THEN <<Comma>> ELSE <<>>) /\ longer = page \o (sep \o p.key \o <<Equals>> \o v)
      BY <2>1
    <3> HIDE DEF longer, q, sep
    <3>3. v \in {p.val, writeQuotedString(p.val)} /\ ValueText(p.val, v)
      OBVIOUS
    <3> HIDE DEF v
    <3>4. FieldsOn(longer, a, Append(ps, p))
      BY <3>1, <3>2, <3>3, FieldAdded
    <3>. QED
      BY <3>4 DEF q
  <2>2. CASE ps = <<>>
    <3> DEFINE x == page \o c
               n == <<>>
    <3>1. Len(page) = a
      <4>1. PICK ends : ListedAt(page, a, <<>>, Len(page), ends)
        BY <2>2 DEF Listed
      <4>2. ends[1] = a /\ ends[0 + 1] = Len(page)
        BY <4>1 DEF ListedAt
      <4>. QED
        BY <4>2
    <3>2. Joined(page, c) /\ Len(c) = 1
      BY <1>1, JoinedText
    <3>3. x \in Seq(Nat) /\ Len(x) = a + 1
      <4> HIDE DEF c
      <4>. QED
        BY <3>1, <3>2 DEF Joined
    <3>4. FieldsOn(x, a, ps)
      <4> HIDE DEF x
      <4>. QED
        BY <2>2, <3>3 DEF FieldsOn
    <3>5. longer = x \o (n \o k \o e \o v)
      <4>1. longer = page \o (c \o k \o e \o v)
        OBVIOUS
      <4> HIDE DEF k, v, c, e, longer, x, n
      <4>2. Regroups(page, c, k, e, v)
        BY <1>1, Rebracket4
      <4>3. n \in Seq(Nat) /\ n \o k = k
        BY <1>1, ConcatEmptySeq DEF n
      <4>4. Regroups(x, n, k, e, v)
        BY <1>1, <3>3, <4>3, Rebracket4
      <4>5. x \o n = x
        BY <3>3, ConcatEmptySeq DEF n
      <4>6. x \o (n \o k \o e \o v) = x \o k \o e \o v
        BY <4>4, <4>5 DEF Regroups
      <4>. QED
        BY <4>1, <4>2, <4>6 DEF Regroups, x
    <3> DEFINE sep == n
    <3>6. sep = (IF ps # <<>> THEN <<Comma>> ELSE <<>>)
      BY <2>2
    <3>7. v \in {p.val, writeQuotedString(p.val)} /\ ValueText(p.val, v)
      OBVIOUS
    <3>8. longer = x \o (sep \o p.key \o <<Equals>> \o v)
      BY <3>5
    <3> HIDE DEF longer, q, x, sep, v
    <3>9. FieldsOn(longer, a, Append(ps, p))
      BY <3>3, <3>4, <3>6, <3>7, <3>8, FieldAdded
    <3>. QED
      BY <3>9 DEF q
  <2>. QED
    BY <2>1, <2>2
<1>3. q # <<>>
  BY AppendProperties
<1> HIDE DEF longer, q
<1>4. Listed(longer, a, q, Len(longer))
  BY <1>2, <1>3 DEF FieldsOn
<1>. QED
  BY <1>4 DEF longer, q

\* The tags of NewInfluxdbLogger stand behind the measurement, if they can be read.
LEMMA TagsListed ==
    ASSUME NEW m \in Seq(Nat), NEW kv \in Seq(Pair),
           \A i \in 1 .. Len(kv) : ValueText(kv[i].val, kv[i].val)
    PROVE  Listed(m \o TagText(kv), Len(m), kv, Len(m \o TagText(kv)))
<1> DEFINE q == TagTexts(kv)
           n == Len(kv)
           a == Len(m)
<1>1. /\ q \in Seq(Seq(Nat)) /\ Len(q) = n /\ n \in Nat /\ TagText(kv) = FlattenSeq(q)
      /\ \A i \in 1 .. n : q[i] = <<Comma>> \o kv[i].key \o <<Equals>> \o kv[i].val
      /\ a \in Nat
  <2>1. Pair \subseteq [key : Seq(Nat), val : Seq(Nat)]
    BY DEF Pair
  <2>2. kv \in Seq([key : Seq(Nat), val : Seq(Nat)])
    BY <2>1, SeqMonotonic
  <2>. QED
    BY <2>2, TagTextsType, LenProperties
<1> HIDE DEF q, n, a
<1>2. PICK f : Parts(q, Nat, f) /\ FlattenSeq(q) = f[n]
  BY <1>1, PartsExist
<1>3. /\ f[0] = <<>> /\ \A i \in 1 .. n : f[i] = f[i - 1] \o q[i]
      /\ \A i \in 0 .. n : f[i] \in Seq(Nat)
  BY <1>1, <1>2 DEF Parts
<1> DEFINE At(i) == Listed(m \o f[i], a, SubSeq(kv, 1, i), Len(m \o f[i]))
           Has == {i \in Nat : i <= n => At(i)}
<1>4. 0 \in Has
  <2>1. SubSeq(kv, 1, 0) = <<>>
    BY SubSeqEmpty
  <2>2. m \o f[0] = m
    BY <1>3, ConcatEmptySeq
  <2>3. a \in 0 .. Len(m)
    BY <1>1 DEF a
  <2>4. Listed(m, a, <<>>, a)
    BY <2>3, ListedNone
  <2>5. At(0)
    BY <2>1, <2>2, <2>4 DEF a
  <2>. QED
    BY <2>5
<1>5. ASSUME NEW i \in Nat, i \in Has PROVE i + 1 \in Has
  <2> SUFFICES ASSUME i + 1 <= n PROVE At(i + 1)
    OBVIOUS
  <2> DEFINE j == i + 1
             page == m \o f[i]
             ps == SubSeq(kv, 1, i)
  <2>1. /\ i <= n /\ j \in 1 .. n /\ j - 1 = i /\ i \in 0 .. n /\ j \in 0 .. n
        /\ 1 \in 1 .. n /\ j \in Nat
    BY <1>1
  <2>2. Listed(page, a, ps, Len(page))
    BY <1>5, <2>1
  <2>3. page \in Seq(Nat) /\ kv[j] \in Pair /\ ValueText(kv[j].val, kv[j].val)
    <3> HIDE DEF j
    <3>1. page \in Seq(Nat)
      BY <1>3, <2>1, ConcatProperties
    <3>. QED
      BY <2>1, <3>1, ElementOfSeq DEF n
  <2>4. ps \in Seq(Pair) /\ SubSeq(kv, 1, j) = Append(ps, kv[j])
    <3> HIDE DEF j
    <3>1. 1 \in Int /\ i \in Int /\ \A k \in 1 .. i : k \in 1 .. Len(kv)
      BY <1>1, <2>1 DEF n
    <3>2. \A k \in 1 .. i : kv[k] \in Pair
      BY <3>1, ElementOfSeq
    <3>3. ps \in Seq(Pair)
      BY <3>1, <3>2, SubSeqProperties
    <3>4. 1 \in 1 .. Len(kv) /\ j \in 1 .. Len(kv)
      BY <2>1 DEF n
    <3>5. SubSeq(kv, 1, j) = SubSeq(kv, 1, j - 1) \o <<kv[j]>>
      BY <3>4, SubSeqRecursiveSecond
    <3>6. Append(ps, kv[j]) = ps \o <<kv[j]>>
      BY <2>3, <3>3, AppendIsConcat
    <3>. QED
      BY <2>1, <3>3, <3>5, <3>6
  <2>5. m \o f[j] = page \o (<<Comma>> \o kv[j].key \o <<Equals>> \o kv[j].val)
    <3> HIDE DEF j
    <3>1. q[j] \in Seq(Nat) /\ f[i] \in Seq(Nat) /\ f[j] = f[i] \o q[j]
      <4>1. q[j] \in Seq(Nat)
        BY <1>1, <2>1, ElementOfSeq
      <4>. QED
        BY <1>3, <2>1, <4>1
    <3>2. Associate(m, f[i], q[j])
      BY <3>1, Rebracket
    <3>. QED
      BY <1>1, <2>1, <3>1, <3>2 DEF Associate
  <2> HIDE DEF j, page, ps
  <2>6. Listed(m \o f[j], a, Append(ps, kv[j]), Len(m \o f[j]))
    BY <1>1, <2>2, <2>3, <2>4, <2>5, TagAdded
  <2>7. At(j)
    BY <2>4, <2>6
  <2>. QED
    BY <2>7 DEF j
<1>6. At(n)
  <2>1. n \in Has
    <3> HIDE DEF Has
    <3>. QED
      BY <1>1, <1>4, <1>5, NatSetInduction
  <2>. QED
    BY <1>1, <2>1
<1>7. SubSeq(kv, 1, n) = kv
  BY SubSeqFull DEF n
<1>. QED
  BY <1>1, <1>2, <1>6, <1>7 DEF a

\* They begin with a comma.
LEMMA TagsBegin ==
    ASSUME NEW kv \in Seq([key : Seq(Nat), val : Seq(Nat)]), TagText(kv) # <<>>
    PROVE  TagText(kv)[1] = Comma
<1> DEFINE q == TagTexts(kv)
           n == Len(kv)
<1>1. /\ q \in Seq(Seq(Nat)) /\ Len(q) = n /\ n \in Nat /\ TagText(kv) = FlattenSeq(q)
      /\ \A i \in 1 .. n : q[i] = <<Comma>> \o kv[i].key \o <<Equals>> \o kv[i].val
  BY TagTextsType
<1> HIDE DEF q
<1>2. PICK f : Parts(q, Nat, f) /\ FlattenSeq(q) = f[n]
  BY <1>1, PartsExist
<1>3. n # 0
  BY <1>1, <1>2 DEF Parts
<1>4. 1 \in 1 .. n /\ 1 \in 0 .. n /\ n \in 0 .. n /\ 1 \in 0 .. Len(q) /\ n \in 0 .. Len(q)
  BY <1>1, <1>3
<1>5. q[1][1] = Comma /\ 1 \in 1 .. Len(q[1])
  <2> DEFINE k == kv[1].key
             v == kv[1].val
             c == <<Comma>>
             e == <<Equals>>
             x == k \o e \o v
  <2>1. k \in Seq(Nat) /\ v \in Seq(Nat) /\ c \in Seq(Nat) /\ e \in Seq(Nat) /\ c[1] = Comma
        /\ Len(c) = 1
    <3>1. kv[1] \in [key : Seq(Nat), val : Seq(Nat)]
      BY <1>4, ElementOfSeq
    <3>2. c \in Seq(Nat) /\ e \in Seq(Nat)
      BY DEF Comma, Equals
    <3>3. c[1] = Comma /\ Len(c) = 1
      OBVIOUS
    <3>. QED
      BY <3>1, <3>2, <3>3
  <2>2. q[1] = c \o k \o e \o v
    BY <1>1, <1>4
  <2> HIDE DEF k, v, c, e
  <2>3. c \o k \in Seq(Nat)
    BY <2>1, ConcatProperties
  <2>4. (c \o k) \o e \in Seq(Nat)
    BY <2>1, <2>3, ConcatProperties
  <2>5. Joined(c, k) /\ Joined(c \o k, e) /\ Joined((c \o k) \o e, v)
    BY <2>1, <2>3, <2>4, JoinedText
  <2>6. Starts(c, (c \o k) \o e)
    BY <2>1, <2>3, <2>4, <2>5, StartsChain DEF Joined
  <2>7. Starts(c, ((c \o k) \o e) \o v)
    BY <2>1, <2>4, <2>5, <2>6, StartsChain DEF Joined
  <2>8. Starts(c, q[1]) /\ q[1] \in Seq(Nat)
    BY <2>2, <2>5, <2>7 DEF Joined
  <2>9. Len(q[1]) \in Nat /\ 1 \in 1 .. 1
    BY <2>8, LenProperties
  <2>. QED
    BY <2>1, <2>8, <2>9 DEF Starts
<1>6. Follows(q, f, 0, 1)
  <2>1. 1 \in 1 .. Len(q) /\ 0 \in Nat /\ 1 = 0 + 1
    BY <1>1, <1>4
  <2>. QED
    BY <1>1, <1>2, <2>1, PartsNext
<1>7. Len(f[0]) = 0
  BY <1>2 DEF Parts
<1>8. f[1][1] = Comma /\ 1 \in 1 .. Len(f[1])
  <2>1. Len(f[1]) = Len(q[1]) /\ \A j \in 1 .. Len(q[1]) : f[1][0 + j] = q[1][j]
    BY <1>6, <1>7 DEF Follows
  <2>2. f[1][0 + 1] = q[1][1] /\ 0 + 1 = 1
    BY <1>5, <2>1
  <2>. QED
    BY <1>5, <2>1, <2>2
<1>9. Starts(f[1], f[n])
  <2>1. n \in 0 .. Len(q) /\ 1 \in 0 .. n
    BY <1>4
  <2>. QED
    BY <1>1, <1>2, <2>1, PartsGrow
<1>. QED
  BY <1>1, <1>2, <1>8, <1>9 DEF Starts

\* What a line begins with.
Beginning == measurement \o tagSet

\* The tags that a reader should find.
AllTags == created.kv \o FlattenSeq(tags)

\* The line as it would be: a record is in the encoder, the pairs of a header come
\* behind the tags.
Page == IF op = "header" THEN Beginning \o <<Comma>> \o buf ELSE buf

\* The tags are those of the logger and the headers, where these can be read.
HeadersInv ==
    /\ created \in Loggers
    /\ tagSet \in Seq(Nat) /\ tags \in Seq(Seq(Pair))
    /\ tagSet # <<>> => tagSet[1] = Comma
    /\ PlainLogger /\ PlainHeaders(tags) =>
          Listed(Beginning, Len(measurement), AllTags, Len(Beginning))

\* The encoder holds the pairs that it was given.
FieldsInv ==
    op # "none" =>
        /\ op \in {"header", "record"} /\ buf \in Seq(Nat) /\ fields \in Seq(Pair)
        /\ needSep = (fields # <<>>)
        /\ op = "record" => Starts(Beginning \o <<Space>>, buf)
        /\ op = "record" \/ PlainFields(fields) => FieldsOn(Page, Len(Beginning), fields)

ReadInv == HeadersInv /\ FieldsInv /\ LineReadable

\* A line begins with the measurement and the tags.
LEMMA BeginningText ==
    ASSUME created \in Loggers, tagSet \in Seq(Nat)
    PROVE  /\ measurement \in Seq(Nat) /\ Len(measurement) \in Nat /\ Len(tagSet) \in Nat
           /\ Beginning \in Seq(Nat) /\ Len(Beginning) = Len(measurement) + Len(tagSet)
           /\ Len(Beginning) \in Nat
           /\ Starts(measurement, Beginning) /\ Stands(Beginning, Len(measurement), tagSet)
<1>1. measurement \in Seq(Nat)
  BY RawType
<1>2. Joined(measurement, tagSet)
  BY <1>1, JoinedText
<1>3. Len(tagSet) \in Nat /\ Len(measurement) \in Nat
  BY <1>1, LenProperties
<1>4. Beginning \in Seq(Nat)
  BY <1>2 DEF Joined, Beginning
<1>5. Len(Beginning) \in Nat
  BY <1>4, LenProperties
<1>. QED
  BY <1>1, <1>2, <1>3, <1>5 DEF Joined, Beginning

\* So does one with a rune behind them,
LEMMA BeginningEnds ==
    ASSUME created \in Loggers, tagSet \in Seq(Nat), NEW r \in Nat
    PROVE  /\ Beginning \o <<r>> \in Seq(Nat) /\ Len(Beginning \o <<r>>) = Len(Beginning) + 1
           /\ Starts(Beginning, Beginning \o <<r>>) /\ (Beginning \o <<r>>)[Len(Beginning) + 1] = r
<1>1. Beginning \in Seq(Nat)
  BY BeginningText
<1>2. <<r>> \in Seq(Nat) /\ Len(<<r>>) = 1 /\ <<r>>[1] = r /\ 1 \in 1 .. 1
  OBVIOUS
<1>3. Joined(Beginning, <<r>>)
  BY <1>1, <1>2, JoinedText
<1>4. (Beginning \o <<r>>)[Len(Beginning) + 1] = r
  BY <1>2, <1>3 DEF Joined, Stands
<1>. QED
  BY <1>2, <1>3, <1>4 DEF Joined

\* The tags of a logger that can be read are pairs.
LEMMA PlainTags ==
    ASSUME created \in Loggers, PlainLogger
    PROVE  /\ created.kv \in Seq(Pair)
           /\ \A i \in 1 .. Len(created.kv) : ValueText(created.kv[i].val, created.kv[i].val)
<1> DEFINE kv == created.kv
           n == Len(kv)
<1>1. /\ kv \in Seq([key : Seq(Nat), val : Seq(Nat)]) /\ n \in Nat /\ DOMAIN kv = 1 .. n
      /\ kv \in [1 .. n -> [key : Seq(Nat), val : Seq(Nat)]]
  <2>1. kv \in Seq([key : Seq(Nat), val : Seq(Nat)])
    BY RawType
  <2>. QED
    BY <2>1, LenProperties
<1>2. \A i \in 1 .. n : Bare(kv[i].key) /\ Bare(kv[i].val)
  BY <1>1 DEF PlainLogger
<1> HIDE DEF kv, n
<1>3. ASSUME NEW i \in 1 .. n PROVE kv[i] \in Pair /\ ValueText(kv[i].val, kv[i].val)
  <2>1. \A j \in DOMAIN kv[i].key : kv[i].key[j] # Equals
    BY <1>2 DEF Bare, NeedsQuotes, needsQuotedValueRune
  <2>2. kv[i] \in Pair
    BY <1>1, <2>1 DEF Pair
  <2>3. ValueText(kv[i].val, kv[i].val)
    BY <1>2 DEF Bare, ValueText
  <2>. QED
    BY <2>2, <2>3
<1>4. kv \in [1 .. n -> Pair]
  BY <1>1, <1>3
<1>5. kv \in Seq(Pair)
  BY <1>1, <1>4
<1>. QED
  BY <1>3, <1>5 DEF kv, n

\* ReadInv holds at first.
LEMMA ReadStart == TextInit => ReadInv
<1> SUFFICES ASSUME TextInit PROVE ReadInv
  OBVIOUS
<1>1. /\ op = "none" /\ tagSet = TagText(created.kv) /\ tags = <<>> /\ line = {}
      /\ created \in Loggers
  BY DEF TextInit
<1>2. FlattenSeq(tags) = <<>> /\ tags \in Seq(Seq(Pair))
  BY <1>1 DEF FlattenSeq
<1>3. /\ created.kv \in Seq([key : Seq(Nat), val : Seq(Nat)]) /\ tagSet \in Seq(Nat)
      /\ measurement \in Seq(Nat)
  BY <1>1, RawType
<1>4. tagSet # <<>> => tagSet[1] = Comma
  BY <1>1, <1>3, TagsBegin
<1>5. ASSUME PlainLogger PROVE Listed(Beginning, Len(measurement), AllTags, Len(Beginning))
  <2> DEFINE kv == created.kv
             m == measurement
  <2>1. kv \in Seq(Pair) /\ \A i \in 1 .. Len(kv) : ValueText(kv[i].val, kv[i].val)
    BY <1>1, <1>5, PlainTags
  <2>2. AllTags = kv /\ Beginning = m \o TagText(kv) /\ m \in Seq(Nat)
    <3>1. kv \o <<>> = kv
      BY <2>1, ConcatEmptySeq
    <3>. QED
      BY <1>1, <1>2, <1>3, <3>1 DEF AllTags, Beginning
  <2> HIDE DEF kv, m
  <2>3. Listed(m \o TagText(kv), Len(m), kv, Len(m \o TagText(kv)))
    BY <2>1, <2>2, TagsListed
  <2>. QED
    BY <2>2, <2>3 DEF m
<1>6. HeadersInv
  BY <1>1, <1>2, <1>3, <1>4, <1>5 DEF HeadersInv
<1>. QED
  BY <1>1, <1>6 DEF ReadInv, FieldsInv, LineReadable

\* A step after which the tags and the lines are as before.
SameText ==
    /\ HeadersInv => HeadersInv'
    /\ LineReadable => LineReadable'
    /\ Beginning' = Beginning

\* So they mean what they did,
LEMMA Remains ==
    ASSUME UNCHANGED <<created, tagSet, tags>>
    PROVE  /\ HeadersInv => HeadersInv'
           /\ Beginning' = Beginning
           /\ UNCHANGED line => SameText
<1>1. measurement' = measurement /\ (PlainLogger' <=> PlainLogger) /\ AllTags' = AllTags
      /\ Beginning' = Beginning
  BY DEF measurement, PlainLogger, AllTags, Beginning
<1>2. HeadersInv => HeadersInv'
  BY <1>1 DEF HeadersInv
<1>3. UNCHANGED line /\ LineReadable => LineReadable'
  BY <1>1 DEF LineReadable
<1>. QED
  BY <1>1, <1>2, <1>3 DEF SameText

\* and lines that were written before stay as they are.
LEMMA Unwritten ==
    ASSUME UNCHANGED <<created, line>>
    PROVE  LineReadable => LineReadable'
<1>1. measurement' = measurement /\ (PlainLogger' <=> PlainLogger)
  BY DEF measurement, PlainLogger
<1>. QED
  BY <1>1 DEF LineReadable

\* It is kept when the encoder is taken,
LEMMA TakeReads ==
    ASSUME ReadInv, HeaderBegins \/ RecordBegins
    PROVE  ReadInv'
<1>1. /\ fields' = <<>> /\ needSep' = FALSE /\ UNCHANGED <<created, tagSet, tags, line>>
      /\ \/ op' = "header" /\ buf' = <<>>
         \/ op' = "record" /\ buf' = Beginning \o <<Space>>
  BY DEF HeaderBegins, RecordBegins, Take, Beginning
<1>2. HeadersInv' /\ LineReadable' /\ Beginning' = Beginning
  BY <1>1, Remains DEF ReadInv, SameText
<1>3. created \in Loggers /\ tagSet \in Seq(Nat) /\ Space \in Nat /\ Comma \in Nat
  BY DEF ReadInv, HeadersInv, Space, Comma
<1>4. fields' \in Seq(Pair)
  BY <1>1
<1>5. CASE op' = "header" /\ buf' = <<>>
  <2>1. Page' = Beginning \o <<Comma>> \o <<>>
    BY <1>2, <1>5 DEF Page
  <2>2. Beginning \o <<Comma>> \in Seq(Nat) /\ Len(Beginning \o <<Comma>>) = Len(Beginning) + 1
    BY <1>3, BeginningEnds
  <2>3. Page' = Beginning \o <<Comma>>
    BY <2>1, <2>2, ConcatEmptySeq
  <2>4. Len(Page') = Len(Beginning') + 1
    BY <1>2, <2>2, <2>3
  <2>5. FieldsOn(Page', Len(Beginning'), fields')
    BY <1>1, <2>4 DEF FieldsOn
  <2>6. buf' \in Seq(Nat)
    BY <1>5
  <2>. QED
    BY <1>1, <1>2, <1>4, <1>5, <2>5, <2>6 DEF ReadInv, FieldsInv
<1>6. CASE op' = "record" /\ buf' = Beginning \o <<Space>>
  <2>1. Beginning \o <<Space>> \in Seq(Nat) /\ Len(Beginning \o <<Space>>) = Len(Beginning) + 1
    BY <1>3, BeginningEnds
  <2>2. Page' = buf' /\ Len(Page') = Len(Beginning') + 1
    <3>1. Page' = buf'
      BY <1>6 DEF Page
    <3>. QED
      BY <1>2, <1>6, <2>1, <3>1
  <2>3. FieldsOn(Page', Len(Beginning'), fields')
    BY <1>1, <2>2 DEF FieldsOn
  <2>4. Starts(Beginning' \o <<Space>>, buf') /\ buf' \in Seq(Nat)
    <3>1. Len(buf') \in Nat
      BY <1>6, <2>1, LenProperties
    <3>. QED
      BY <1>2, <1>6, <2>1, <3>1 DEF Starts
  <2>. QED
    BY <1>1, <1>2, <1>4, <1>6, <2>3, <2>4 DEF ReadInv, FieldsInv
<1>. QED
  BY <1>1, <1>5, <1>6

\* when a pair is encoded,
LEMMA EncodeReads ==
    ASSUME ReadInv, NEW p \in KeyVals, Encode(p[1], p[2])
    PROVE  ReadInv'
<1>1. op # "none" /\ UNCHANGED <<created, tagSet, tags, line>>
  BY DEF Encode
<1>2. /\ HeadersInv' /\ LineReadable' /\ Beginning' = Beginning
  BY <1>1, Remains DEF ReadInv, SameText
<1>3. /\ op \in {"header", "record"} /\ buf \in Seq(Nat) /\ fields \in Seq(Pair)
      /\ needSep = (fields # <<>>)
      /\ op = "record" => Starts(Beginning \o <<Space>>, buf)
      /\ op = "record" \/ PlainFields(fields) => FieldsOn(Page, Len(Beginning), fields)
  BY <1>1 DEF ReadInv, FieldsInv
<1>t. created \in Loggers /\ tagSet \in Seq(Nat) /\ Len(Beginning) \in Nat
  BY BeginningText DEF ReadInv, HeadersInv
<1>4. CASE op' = "none"
  BY <1>2, <1>4 DEF ReadInv, FieldsInv
<1>5. CASE op' # "none"
  <2>1. /\ op' = op
        /\ \/ UNCHANGED <<buf, needSep, fields>>
           \/ \E q \in Pair : \E t : Adds(q, t)
    BY <1>3, <1>5, EncodeAdds
  <2>2. CASE UNCHANGED <<buf, needSep, fields>>
    <3>1. Page' = Page
      BY <1>2, <2>1, <2>2 DEF Page
    <3>. QED
      BY <1>1, <1>2, <1>3, <2>1, <2>2, <3>1 DEF ReadInv, FieldsInv, PlainFields
  <2>3. ASSUME NEW q \in Pair, NEW t, Adds(q, t) PROVE ReadInv'
    <3> DEFINE add == Separator \o q.key \o <<Equals>> \o t
               quoted == op = "record"
    <3>1. /\ needSep' = TRUE /\ fields' = Append(fields, q) /\ Gives(t, q.val, quoted)
          /\ buf' = buf \o add
      BY <2>3 DEF Adds
    <3>2. fields' \in Seq(Pair) /\ fields' # <<>> /\ Len(fields') = Len(fields) + 1
          /\ (\A i \in 1 .. Len(fields) : fields'[i] = fields[i]) /\ fields'[Len(fields) + 1] = q
          /\ Len(fields) \in Nat
      BY <1>3, <3>1, AppendProperties, LenProperties, SMTT(30)
    <3>3. q.key \in Seq(Nat) /\ q.val \in Seq(Nat) /\ t \in Seq(Nat) /\ <<Equals>> \in Seq(Nat)
          /\ Separator \in Seq(Nat)
      BY <3>1, QuotedType DEF Pair, Gives, Equals, Separator, Comma
    <3>4. add \in Seq(Nat)
      <4>1. Separator \o q.key \in Seq(Nat)
        BY <3>3, ConcatProperties
      <4>2. (Separator \o q.key) \o <<Equals>> \in Seq(Nat)
        BY <3>3, <4>1, ConcatProperties
      <4>. QED
        BY <3>3, <4>2, ConcatProperties
    <3>5. Page \in Seq(Nat) /\ Page' = Page \o add
      <4> HIDE DEF add
      <4>1. CASE op = "record"
        BY <1>3, <2>1, <3>1, <4>1 DEF Page
      <4>2. CASE op = "header"
        <5> DEFINE x == Beginning \o <<Comma>>
        <5>1. x \in Seq(Nat)
          <6>1. Comma \in Nat
            BY DEF Comma
          <6>. QED
            BY <1>t, <6>1, BeginningEnds
        <5>2. Page = x \o buf /\ Page' = x \o (buf \o add)
          BY <1>2, <2>1, <3>1, <4>2 DEF Page
        <5> HIDE DEF x
        <5>3. Associate(x, buf, add)
          BY <1>3, <3>4, <5>1, Rebracket
        <5>4. x \o buf \in Seq(Nat)
          BY <1>3, <5>1, ConcatProperties
        <5>. QED
          BY <5>2, <5>3, <5>4 DEF Associate
      <4>. QED
        BY <1>3, <4>1, <4>2
    <3>6. ASSUME quoted \/ PlainFields(fields')
          PROVE  FieldsOn(Page', Len(Beginning'), fields')
      <4>1. quoted \/ PlainFields(fields)
        <5>1. \A i \in 1 .. Len(fields) : i \in 1 .. Len(fields') /\ fields'[i] = fields[i]
          BY <3>2
        <5>2. DOMAIN fields' = 1 .. Len(fields') /\ DOMAIN fields = 1 .. Len(fields)
          BY <1>3, <3>2, LenProperties
        <5>. QED
          BY <3>6, <5>1, <5>2 DEF PlainFields
      <4>2. quoted \/ ~Contains(q.val, Comma)
        <5>1. Len(fields) + 1 \in DOMAIN fields'
          BY <3>2, LenProperties
        <5>. QED
          BY <3>2, <3>6, <5>1 DEF PlainFields
      <4>3. ValueText(q.val, t) /\ t \in {q.val, writeQuotedString(q.val)}
        BY <3>1, <4>2 DEF Gives
      <4>4. FieldsOn(Page, Len(Beginning), fields) /\ Len(Beginning) \in Nat
        BY <1>3, <1>t, <4>1
      <4>5. Separator = IF fields # <<>> THEN <<Comma>> ELSE <<>>
        BY <1>3 DEF Separator
      <4> DEFINE sep == Separator
                 a == Len(Beginning)
                 longer == Page'
      <4>6. sep = (IF fields # <<>> THEN <<Comma>> ELSE <<>>)
            /\ longer = Page \o (sep \o q.key \o <<Equals>> \o t)
            /\ a \in Nat /\ FieldsOn(Page, a, fields)
        BY <3>5, <4>4, <4>5
      <4> HIDE DEF sep, a, longer
      <4>7. FieldsOn(longer, a, Append(fields, q))
        BY <1>3, <3>5, <4>3, <4>6, FieldAdded
      <4>. QED
        BY <1>2, <3>1, <4>7 DEF longer, a
    <3>7. buf' \in Seq(Nat) /\ (op = "record" => Starts(Beginning' \o <<Space>>, buf'))
      <4> HIDE DEF add
      <4>1. buf' \in Seq(Nat) /\ Starts(buf, buf')
        BY <1>3, <3>1, <3>4, JoinedText DEF Joined
      <4>2. Beginning \o <<Space>> \in Seq(Nat)
        <5>1. Space \in Nat
          BY DEF Space
        <5>. QED
          BY <1>t, <5>1, BeginningEnds
      <4>3. ASSUME op = "record" PROVE Starts(Beginning \o <<Space>>, buf')
        BY <1>3, <4>1, <4>2, <4>3, StartsChain
      <4>. QED
        BY <1>2, <4>1, <4>3
    <3>. QED
      BY <1>2, <1>3, <2>1, <3>1, <3>2, <3>6, <3>7 DEF ReadInv, FieldsInv
  <2>. QED
    BY <2>1, <2>2, <2>3
<1>. QED
  BY <1>4, <1>5

\* when a header ends,
LEMMA HeaderReads ==
    ASSUME ReadInv, HeaderEnds
    PROVE  ReadInv'
<1>1. /\ op = "header" /\ op' = "none" /\ UNCHANGED <<created, line>>
      /\ tagSet' = tagSet \o <<Comma>> \o buf /\ tags' = Append(tags, fields)
  BY DEF HeaderEnds
<1>2. /\ created \in Loggers /\ tagSet \in Seq(Nat) /\ tags \in Seq(Seq(Pair))
      /\ tagSet # <<>> => tagSet[1] = Comma
      /\ PlainLogger /\ PlainHeaders(tags) =>
            Listed(Beginning, Len(measurement), AllTags, Len(Beginning))
      /\ buf \in Seq(Nat) /\ fields \in Seq(Pair)
      /\ PlainFields(fields) => FieldsOn(Page, Len(Beginning), fields)
  BY <1>1 DEF ReadInv, HeadersInv, FieldsInv
<1>c. Comma \in Nat /\ <<Comma>> \in Seq(Nat)
  BY DEF Comma
<1>m. measurement' = measurement /\ (PlainLogger' <=> PlainLogger)
  BY <1>1 DEF measurement, PlainLogger
<1> DEFINE tc == tagSet \o <<Comma>>
           bc == Beginning \o <<Comma>>
<1>3. tc \in Seq(Nat) /\ Len(tc) = Len(tagSet) + 1 /\ tc[Len(tagSet) + 1] = Comma
      /\ Starts(tagSet, tc)
  <2>1. Joined(tagSet, <<Comma>>)
    BY <1>2, <1>c, JoinedText
  <2>2. Len(<<Comma>>) = 1 /\ <<Comma>>[1] = Comma /\ 1 \in 1 .. 1
    OBVIOUS
  <2>. QED
    BY <2>1, <2>2 DEF Joined, Stands
<1>4. tagSet' \in Seq(Nat) /\ Starts(tc, tagSet')
  <2>1. Joined(tc, buf) /\ tagSet' = tc \o buf
    BY <1>1, <1>2, <1>3, JoinedText
  <2> HIDE DEF tc
  <2>. QED
    BY <2>1 DEF Joined
<1>5. /\ Beginning \in Seq(Nat) /\ Len(Beginning) \in Nat /\ Len(tagSet) \in Nat
      /\ measurement \in Seq(Nat) /\ Len(measurement) \in Nat
  BY <1>2, BeginningText
<1>6. bc \in Seq(Nat) /\ Starts(Beginning, bc) /\ bc[Len(Beginning) + 1] = Comma
      /\ Len(bc) = Len(Beginning) + 1
  BY <1>2, <1>c, BeginningEnds
<1>7. Page = bc \o buf /\ Beginning' = bc \o buf
  <2>1. Page = bc \o buf
    BY <1>1 DEF Page
  <2>2. Beginning' = measurement \o (tc \o buf)
    BY <1>1, <1>m DEF Beginning
  <2> DEFINE m == measurement
  <2>3. m \in Seq(Nat) /\ tc \in Seq(Nat) /\ buf \in Seq(Nat) /\ bc = (m \o tagSet) \o <<Comma>>
    BY <1>2, <1>3, <1>5 DEF Beginning
  <2> HIDE DEF bc, m
  <2>4. Associate(m, tagSet, <<Comma>>)
    BY <1>2, <1>c, <2>3, Rebracket
  <2>5. bc = m \o tc
    BY <2>3, <2>4 DEF Associate
  <2> HIDE DEF tc
  <2>6. Associate(m, tc, buf)
    BY <2>3, Rebracket
  <2>7. m \o (tc \o buf) = bc \o buf
    BY <2>5, <2>6 DEF Associate
  <2>. QED
    BY <2>1, <2>2, <2>7 DEF m
<1> DEFINE page == bc \o buf
           a == Len(measurement)
           l == Len(Beginning)
           n == Len(tagSet)
<1>8. page \in Seq(Nat) /\ Starts(bc, page)
  <2> HIDE DEF bc
  <2>. QED
    BY <1>2, <1>6, JoinedText DEF Joined
<1> HIDE DEF page, bc, tc, a, l, n
<1>9. page[l + 1] = Comma /\ Starts(Beginning, page) /\ l \in Nat /\ a \in Nat
  <2>1. l \in Nat /\ a \in Nat /\ l + 1 \in 1 .. Len(bc)
    BY <1>5, <1>6 DEF l, a
  <2>2. page[l + 1] = bc[l + 1]
    BY <1>8, <2>1 DEF Starts
  <2>3. Starts(Beginning, page)
    BY <1>5, <1>6, <1>8, StartsChain
  <2>. QED
    BY <1>6, <2>1, <2>2, <2>3 DEF l
<1>10. tags' \in Seq(Seq(Pair)) /\ tagSet'[1] = Comma
  <2>1. tags' \in Seq(Seq(Pair))
    BY <1>1, <1>2, AppendProperties
  <2>2. n \in Nat /\ 1 \in 1 .. Len(tc)
    <3>1. n \in Nat /\ Len(tc) = n + 1
      BY <1>3, <1>5 DEF n
    <3>. QED
      BY <3>1
  <2>3. tagSet'[1] = tc[1]
    BY <1>4, <2>2 DEF Starts
  <2>4. tc[1] = Comma
    <3>1. CASE n = 0
      BY <1>3, <3>1 DEF n
    <3>2. CASE n # 0
      <4>1. 1 \in 1 .. n
        BY <2>2, <3>2
      <4>2. tagSet # <<>>
        BY <3>2 DEF n
      <4>. QED
        BY <1>2, <1>3, <4>1, <4>2 DEF Starts, n
    <3>. QED
      BY <3>1, <3>2
  <2>. QED
    BY <2>1, <2>3, <2>4
<1>11. ASSUME PlainLogger, PlainHeaders(tags') PROVE Listed(page, a, AllTags', Len(page))
  <2> DEFINE m == Len(tags)
  <2>1. m \in Nat /\ tags'[m + 1] = fields /\ (\A i \in 1 .. m : tags'[i] = tags[i])
        /\ DOMAIN tags' = 1 .. m + 1 /\ DOMAIN tags = 1 .. m
    BY <1>1, <1>2, <1>10, AppendProperties, LenProperties
  <2>2. fields # <<>> /\ PlainFields(fields)
    <3>1. m + 1 \in DOMAIN tags'
      BY <2>1
    <3> HIDE DEF m
    <3>2. /\ tags'[m + 1] # <<>>
          /\ \A j \in DOMAIN tags'[m + 1] : ~Contains(tags'[m + 1][j].val, Comma)
      BY <1>11, <3>1 DEF PlainHeaders
    <3>. QED
      BY <2>1, <3>2 DEF PlainFields
  <2>3. PlainHeaders(tags)
    <3>1. \A i \in 1 .. m : i \in 1 .. m + 1
      BY <2>1
    <3> HIDE DEF m
    <3>. QED
      BY <1>11, <2>1, <3>1 DEF PlainHeaders
  <2>4. Listed(page, l, fields, Len(page))
    BY <1>2, <1>7, <2>2 DEF FieldsOn, page, l
  <2> DEFINE kv == created.kv
             ft == FlattenSeq(tags)
             ps == AllTags
  <2>5. kv \in Seq(Pair) /\ ft \in Seq(Pair) /\ FlattenSeq(tags') = ft \o fields
    BY <1>1, <1>2, <1>11, PlainTags, FlattenedType, FlattenedAppend
  <2>6. AllTags' = kv \o (ft \o fields) /\ ps = kv \o ft
    BY <1>1, <2>5 DEF AllTags
  <2>7. Listed(Beginning, a, ps, l)
    BY <1>2, <1>11, <2>3 DEF l, a
  <2> HIDE DEF kv, ft, ps
  <2>8. ps \in Seq(Pair) /\ AllTags' = ps \o fields
    <3>1. kv \o ft \in Seq(Pair)
      BY <2>5, ConcatProperties
    <3>2. (kv \o ft) \o fields = kv \o (ft \o fields)
      <4>1. fields \in Seq(Pair)
        BY <1>2
      <4>. QED
        BY <2>5, <4>1, ConcatAssociative, SMTT(90)
    <3>. QED
      BY <2>6, <3>1, <3>2
  <2>9. Listed(page, a, ps, l)
    BY <1>5, <1>8, <1>9, <2>7, <2>8, ListedLonger
  <2>10. Listed(page, a, ps \o fields, Len(page))
    BY <1>2, <1>8, <1>9, <2>4, <2>8, <2>9, ListedJoined
  <2>. QED
    BY <2>8, <2>10
<1>12. HeadersInv'
  BY <1>1, <1>2, <1>4, <1>7, <1>10, <1>11, <1>m DEF HeadersInv, page, a
<1>. QED
  BY <1>1, <1>12, Unwritten DEF ReadInv, FieldsInv

\* A pair that is appended is the one that Front leaves out.
LEMMA FrontOfAppend ==
    ASSUME NEW fs \in Seq(Pair), NEW c \in Pair
    PROVE  /\ Append(fs, c) \in Seq(Pair) /\ Append(fs, c) # <<>>
           /\ Front(Append(fs, c)) = fs
<1> DEFINE gs == Append(fs, c)
<1>0. /\ gs \in Seq(Pair) /\ gs # <<>> /\ Len(gs) = Len(fs) + 1
      /\ \A i \in 1 .. Len(fs) : gs[i] = fs[i]
  BY AppendProperties
<1> DEFINE n == Len(fs)
           u == SubSeq(gs, 1, n)
<1>1. n \in Nat /\ Len(gs) - 1 = n
  BY <1>0, LenProperties
<1>2. \A i \in 1 .. n : gs[i] \in Pair
  BY <1>0, <1>1, ElementOfSeq
<1>3. /\ u \in Seq(Pair) /\ Len(u) = IF 1 <= n THEN n - 1 + 1 ELSE 0
      /\ \A i \in 1 .. n - 1 + 1 : u[i] = gs[1 + i - 1]
  <2>1. 1 \in Int /\ n \in Int
    BY <1>1
  <2>. QED
    BY <1>2, <2>1, SubSeqProperties
<1>4. Front(gs) = u
  BY <1>1 DEF Front
<1> HIDE DEF u, gs
<1>5. Len(u) = n
  BY <1>1, <1>3
<1>6. ASSUME NEW i \in 1 .. n PROVE u[i] = fs[i]
  <2>1. n - 1 + 1 = n /\ 1 + i - 1 = i
    BY <1>1
  <2>. QED
    BY <1>0, <1>3, <2>1
<1>7. u = fs
  BY <1>3, <1>5, <1>6, SeqEqual
<1>. QED
  BY <1>0, <1>4, <1>7 DEF gs

\* Line s is read in one way, with the measurement me, the tags ts and the fields fs.
LineIs(s, me, ts, fs) == ReadLine(s) = {[measurement |-> me, tags |-> ts, fields |-> fs]}

\* A line whose tags and fields are listed is read as these, without the caller c.
LEMMA LineRead ==
    ASSUME NEW s \in Seq(Nat), NEW l \in Nat, NEW me, NEW ts \in Seq(Pair), NEW fs \in Seq(Pair),
           NEW c \in Pair, NEW b \in Nat,
           ReadHead(s) = {[measurement |-> me, tags |-> ts, next |-> l + 1]}, s[l + 1] = Space,
           Listed(s, l, Append(fs, c), b), b + 1 <= Len(s), s[b + 1] = Space,
           SubSeq(s, b + 1, Len(s)) = <<Space>> \o Timestamp \o <<Newline>>
    PROVE  LineIs(s, me, ts, fs)
<1> DEFINE gs == Append(fs, c)
           end == <<Space>> \o Timestamp \o <<Newline>>
           t == [measurement |-> me, tags |-> ts, next |-> l + 1]
           g == [pairs |-> gs, next |-> b + 1]
           Fields(u) == {f \in ReadPairs(s, u.next + 1) : SubSeq(s, f.next, Len(s)) = end}
           Heads == {u \in ReadHead(s) : s[u.next] = Space}
<1>1. ReadLine(s) =
         UNION {{[measurement |-> u.measurement, tags |-> u.tags, fields |-> Front(f.pairs)] :
                    f \in Fields(u)} : u \in Heads}
  BY DEF ReadLine
<1>2. gs \in Seq(Pair) /\ gs # <<>> /\ Front(gs) = fs
  BY FrontOfAppend
<1> HIDE DEF gs, end
<1>4. ReadPairs(s, t.next + 1) = {g}
  <2>1. t.next + 1 = l + 2
    OBVIOUS
  <2>2. Listed(s, l, gs, b)
    BY DEF gs
  <2> HIDE DEF t, g
  <2>3. IsRead(s, l + 2, gs, b + 1)
    BY <1>2, <2>2, ListRead
  <2>. QED
    BY <2>1, <2>3 DEF g, IsRead
<1>5. Heads = {t}
  <2>1. s[t.next] = Space
    OBVIOUS
  <2> HIDE DEF t
  <2>2. ReadHead(s) = {t}
    BY DEF t
  <2>. QED
    BY <2>1, <2>2
<1>6. Fields(t) = {g}
  <2>1. SubSeq(s, g.next, Len(s)) = end
    BY DEF end
  <2> HIDE DEF t, g
  <2>. QED
    BY <1>4, <2>1
<1>7. t.measurement = me /\ t.tags = ts /\ g.pairs = gs
  OBVIOUS
<1> HIDE DEF Heads, Fields, t, g
<1>8. ReadLine(s) = {[measurement |-> t.measurement, tags |-> t.tags, fields |-> Front(g.pairs)]}
  BY <1>1, <1>5, <1>6, SMTT(30)
<1>. QED
  BY <1>2, <1>7, <1>8 DEF LineIs

\* A text is two others joined
Joins(a, b, c) == a \o b = c
Adjoin(a, b, c) ==
    /\ a \in Seq(Nat) /\ b \in Seq(Nat) /\ c \in Seq(Nat) /\ Len(c) = Len(a) + Len(b)
    /\ \A i \in 1 .. Len(a) : c[i] = a[i]
    /\ \A i \in 1 .. Len(b) : c[Len(a) + i] = b[i]

\* if it begins with the one and the other is the rest.
LEMMA IsJoined ==
    ASSUME NEW a, NEW b, NEW c, Adjoin(a, b, c)
    PROVE  Joins(a, b, c)
<1> DEFINE m == Len(a)
           n == Len(b)
           d == a \o b
<1>1. m \in Nat /\ n \in Nat /\ d \in Seq(Nat) /\ c \in Seq(Nat) /\ Len(d) = m + n /\ Len(c) = m + n
  BY LenProperties, JoinedText DEF Joined, Adjoin
<1>2. \A i \in 1 .. m : d[i] = a[i] /\ c[i] = a[i]
  BY JoinedText DEF Joined, Starts, Adjoin
<1>3. \A i \in 1 .. n : d[m + i] = b[i] /\ c[m + i] = b[i]
  BY JoinedText DEF Joined, Stands, Adjoin
<1> HIDE DEF m, n, d
<1>4. ASSUME NEW i \in 1 .. m + n PROVE d[i] = c[i]
  <2>1. CASE i <= m
    <3>1. i \in 1 .. m
      BY <1>1, <2>1
    <3>. QED
      BY <1>2, <3>1
  <2>2. CASE ~(i <= m)
    <3> DEFINE k == i - m
    <3>1. i \in Nat /\ m \in Nat /\ n \in Nat /\ i <= m + n
      BY <1>1
    <3>2. k \in 1 .. n /\ i = m + k
      BY <2>2, <3>1
    <3> HIDE DEF k
    <3>3. d[m + k] = b[k] /\ c[m + k] = b[k]
      BY <1>3, <3>2
    <3>. QED
      BY <3>2, <3>3
  <2>. QED
    BY <2>1, <2>2
<1>5. \A i \in 1 .. Len(d) : d[i] = c[i]
  BY <1>1, <1>4
<1>6. d = c
  BY <1>1, <1>5, SeqEqual
<1>. QED
  BY <1>6 DEF d, Joins

\* The pair of the caller, with a comma for its key where it is the first.
Caller(fs) == [key |-> IF fs = <<>> THEN <<Comma, 99>> ELSE <<99>>, val |-> <<102>>]

\* Its value in quotes.
LEMMA CallerQuoted == writeQuotedString(<<102>>) = <<34, 102, 34>>
<1>1. Escape(102) = <<102>>
  BY DEF Escape, Escaped, LetterOf, Quote, Backslash, Newline, Return, Tab, Space, RuneError
<1>2. [i \in DOMAIN <<102>> |-> Escape(<<102>>[i])] = Append(<<>>, <<102>>)
  BY <1>1
<1>3. FlattenSeq(Append(<<>>, <<102>>)) = <<102>>
  <2>1. <<>> \in Seq(Seq(Nat)) /\ <<102>> \in Seq(Nat)
    OBVIOUS
  <2>2. FlattenSeq(<<>>) = <<>>
    BY DEF FlattenSeq
  <2>3. FlattenSeq(Append(<<>>, <<102>>)) = FlattenSeq(<<>>) \o <<102>>
    BY <2>1, FlattenedAppend
  <2>4. <<>> \o <<102>> = <<102>>
    BY <2>1, ConcatEmptySeq
  <2>. QED
    BY <2>2, <2>3, <2>4
<1>4. <<34>> \o <<102>> = <<34, 102>>
  <2> DEFINE a == <<34>>
             b == <<102>>
             c == <<34, 102>>
  <2>1. a \in Seq(Nat) /\ b \in Seq(Nat) /\ c \in Seq(Nat) /\ Len(a) = 1 /\ Len(b) = 1 /\ Len(c) = 2
        /\ c[1] = a[1] /\ c[1 + 1] = b[1]
    OBVIOUS
  <2> HIDE DEF a, b, c
  <2>2. Joins(a, b, c)
    <3>1. (\A i \in 1 .. Len(a) : c[i] = a[i]) /\ \A i \in 1 .. Len(b) : c[Len(a) + i] = b[i]
      BY <2>1
    <3>2. Adjoin(a, b, c)
      BY <2>1, <3>1 DEF Adjoin
    <3>. QED
      BY <3>2, IsJoined
  <2>. QED
    BY <2>2 DEF a, b, c, Joins
<1>5. <<34, 102>> \o <<34>> = <<34, 102, 34>>
  <2> DEFINE a == <<34, 102>>
             b == <<34>>
             c == <<34, 102, 34>>
  <2>1. a \in Seq(Nat) /\ b \in Seq(Nat) /\ c \in Seq(Nat) /\ Len(a) = 2 /\ Len(b) = 1 /\ Len(c) = 3
        /\ c[1] = a[1] /\ c[2] = a[2] /\ c[2 + 1] = b[1]
    OBVIOUS
  <2> HIDE DEF a, b, c
  <2>2. Joins(a, b, c)
    <3>1. (\A i \in 1 .. Len(a) : c[i] = a[i]) /\ \A i \in 1 .. Len(b) : c[Len(a) + i] = b[i]
      BY <2>1
    <3>2. Adjoin(a, b, c)
      BY <2>1, <3>1 DEF Adjoin
    <3>. QED
      BY <3>2, IsJoined
  <2>. QED
    BY <2>2 DEF a, b, c, Joins
<1>6. writeQuotedString(<<102>>) = <<34>> \o <<102>> \o <<34>>
  BY <1>2, <1>3 DEF writeQuotedString, Quote
<1>. QED
  BY <1>4, <1>5, <1>6

\* What KVLog writes for the caller is its pair.
LEMMA CallerText ==
    ASSUME NEW fs \in Seq(Pair)
    PROVE  LET sep == IF fs # <<>> THEN <<Comma>> ELSE <<>>
           IN  sep \o Caller(fs).key \o <<Equals>> \o <<34, 102, 34>> = <<Comma>> \o CallerPair
<1> DEFINE all == <<44, 99, 61, 34, 102, 34>>
<1>1. <<44>> \o CallerPair = all
  <2> DEFINE a == <<44>>
             b == CallerPair
  <2>1. a \in Seq(Nat) /\ b \in Seq(Nat) /\ all \in Seq(Nat)
        /\ Len(a) = 1 /\ Len(b) = 5 /\ Len(all) = 6
        /\ all[1] = a[1]
    BY DEF CallerPair
  <2>2. all[1 + 1] = b[1] /\ all[1 + 2] = b[2] /\ all[1 + 3] = b[3] /\ all[1 + 4] = b[4]
        /\ all[1 + 5] = b[5]
    BY DEF CallerPair
  <2> HIDE DEF a, b, all
  <2>3. Joins(a, b, all)
    <3>1. (\A i \in 1 .. Len(a) : all[i] = a[i]) /\ \A i \in 1 .. Len(b) : all[Len(a) + i] = b[i]
      BY <2>1, <2>2
    <3>2. Adjoin(a, b, all)
      BY <2>1, <3>1 DEF Adjoin
    <3>. QED
      BY <3>2, IsJoined
  <2>. QED
    BY <2>3 DEF a, b, Joins
<1>2. <<44, 99>> \o <<61>> = <<44, 99, 61>>
  <2> DEFINE a == <<44, 99>>
             b == <<61>>
             c == <<44, 99, 61>>
  <2>1. a \in Seq(Nat) /\ b \in Seq(Nat) /\ c \in Seq(Nat) /\ Len(a) = 2 /\ Len(b) = 1 /\ Len(c) = 3
        /\ c[1] = a[1] /\ c[2] = a[2] /\ c[2 + 1] = b[1]
    OBVIOUS
  <2> HIDE DEF a, b, c
  <2>2. Joins(a, b, c)
    <3>1. (\A i \in 1 .. Len(a) : c[i] = a[i]) /\ \A i \in 1 .. Len(b) : c[Len(a) + i] = b[i]
      BY <2>1
    <3>2. Adjoin(a, b, c)
      BY <2>1, <3>1 DEF Adjoin
    <3>. QED
      BY <3>2, IsJoined
  <2>. QED
    BY <2>2 DEF a, b, c, Joins
<1>3. <<44, 99, 61>> \o <<34, 102, 34>> = all
  <2> DEFINE a == <<44, 99, 61>>
             b == <<34, 102, 34>>
  <2>1. a \in Seq(Nat) /\ b \in Seq(Nat) /\ all \in Seq(Nat)
        /\ Len(a) = 3 /\ Len(b) = 3 /\ Len(all) = 6
        /\ all[1] = a[1] /\ all[2] = a[2] /\ all[3] = a[3]
    OBVIOUS
  <2>2. all[3 + 1] = b[1] /\ all[3 + 2] = b[2] /\ all[3 + 3] = b[3]
    OBVIOUS
  <2> HIDE DEF a, b, all
  <2>3. Joins(a, b, all)
    <3>1. (\A i \in 1 .. Len(a) : all[i] = a[i]) /\ \A i \in 1 .. Len(b) : all[Len(a) + i] = b[i]
      BY <2>1, <2>2
    <3>2. Adjoin(a, b, all)
      BY <2>1, <3>1 DEF Adjoin
    <3>. QED
      BY <3>2, IsJoined
  <2>. QED
    BY <2>3 DEF a, b, Joins
<1>4. <<>> \o <<44, 99>> = <<44, 99>>
  <2>1. <<44, 99>> \in Seq(Nat)
    OBVIOUS
  <2>. QED
    BY <2>1, ConcatEmptySeq
<1>5. <<44>> \o <<99>> = <<44, 99>>
  <2> DEFINE a == <<44>>
             b == <<99>>
             c == <<44, 99>>
  <2>1. a \in Seq(Nat) /\ b \in Seq(Nat) /\ c \in Seq(Nat) /\ Len(a) = 1 /\ Len(b) = 1 /\ Len(c) = 2
        /\ c[1] = a[1] /\ c[1 + 1] = b[1]
    OBVIOUS
  <2> HIDE DEF a, b, c
  <2>2. Joins(a, b, c)
    <3>1. (\A i \in 1 .. Len(a) : c[i] = a[i]) /\ \A i \in 1 .. Len(b) : c[Len(a) + i] = b[i]
      BY <2>1
    <3>2. Adjoin(a, b, c)
      BY <2>1, <3>1 DEF Adjoin
    <3>. QED
      BY <3>2, IsJoined
  <2>. QED
    BY <2>2 DEF a, b, c, Joins
<1> HIDE DEF all
<1>6. CASE fs = <<>>
  <2>1. Caller(fs).key = <<44, 99>>
    BY <1>6 DEF Caller, Comma
  <2>2. <<>> \o <<44, 99>> \o <<61>> \o <<34, 102, 34>> = <<44>> \o CallerPair
    BY <1>1, <1>2, <1>3, <1>4, Zenon
  <2>3. Comma = 44 /\ Equals = 61
    BY DEF Comma, Equals
  <2>. QED
    BY <1>6, <2>1, <2>2, <2>3, Zenon
<1>7. CASE fs # <<>>
  <2>1. Caller(fs).key = <<99>>
    BY <1>7 DEF Caller
  <2>2. <<44>> \o <<99>> \o <<61>> \o <<34, 102, 34>> = <<44>> \o CallerPair
    BY <1>1, <1>2, <1>3, <1>5, Zenon
  <2>3. Comma = 44 /\ Equals = 61
    BY DEF Comma, Equals
  <2>. QED
    BY <1>7, <2>1, <2>2, <2>3, Zenon
<1>. QED
  BY <1>6, <1>7

\* The caller is one more of the fields of a page.
CallerListed(page, a, fs, longer) ==
    Listed(longer, a, Append(fs, Caller(fs)), Len(longer)) /\ longer \in Seq(Nat)
    /\ Starts(page, longer)

\* That is what KVLog does to them,
LEMMA CallerAdded ==
    ASSUME NEW page \in Seq(Nat), NEW a \in Nat, NEW fs \in Seq(Pair), FieldsOn(page, a, fs)
    PROVE  CallerListed(page, a, fs, page \o <<Comma>> \o CallerPair) /\ Caller(fs) \in Pair
<1> DEFINE c == Caller(fs)
           t == writeQuotedString(c.val)
           sep == IF fs # <<>> THEN <<Comma>> ELSE <<>>
           longer == page \o (sep \o c.key \o <<Equals>> \o t)
<1>1. c \in Pair
  <2>1. <<102>> \in Seq(Nat) /\ <<Comma, 99>> \in Seq(Nat) /\ <<99>> \in Seq(Nat)
    BY DEF Comma
  <2>2. \A k \in {<<Comma, 99>>, <<99>>} : \A i \in DOMAIN k : k[i] # Equals
    BY DEF Comma, Equals
  <2>3. c.key \in {<<Comma, 99>>, <<99>>} /\ c \in [key : Seq(Nat), val : Seq(Nat)]
    BY <2>1 DEF Caller
  <2> HIDE DEF c
  <2>. QED
    BY <2>2, <2>3 DEF Pair
<1>2. c.val = <<102>> /\ t = <<34, 102, 34>>
  <2>1. c.val = <<102>>
    BY DEF Caller
  <2> HIDE DEF c
  <2>. QED
    BY <2>1, CallerQuoted
<1>3. longer = page \o (<<Comma>> \o CallerPair)
  BY <1>2, CallerText
<1>4. longer = page \o <<Comma>> \o CallerPair
  <2>1. <<Comma>> \in Seq(Nat) /\ CallerPair \in Seq(Nat)
    BY DEF Comma, CallerPair
  <2> HIDE DEF longer
  <2>2. Associate(page, <<Comma>>, CallerPair)
    BY <2>1, Rebracket
  <2>. QED
    BY <1>3, <2>2 DEF Associate
<1>5. FieldsOn(longer, a, Append(fs, c)) /\ longer \in Seq(Nat) /\ Starts(page, longer)
  <2> DEFINE x == sep
             w == longer
  <2>1. ValueText(c.val, t) /\ t \in {c.val, writeQuotedString(c.val)}
    BY DEF ValueText
  <2>2. x = (IF fs # <<>> THEN <<Comma>> ELSE <<>>) /\ w = page \o (x \o c.key \o <<Equals>> \o t)
    OBVIOUS
  <2> HIDE DEF c, t, x, w
  <2>3. FieldsOn(w, a, Append(fs, c)) /\ w \in Seq(Nat) /\ Starts(page, w)
    BY <1>1, <2>1, <2>2, FieldAdded
  <2>. QED
    BY <2>3 DEF w
<1>6. Append(fs, c) # <<>>
  <2> HIDE DEF c
  <2>. QED
    BY <1>1, AppendProperties
<1> HIDE DEF longer
<1>7. CallerListed(page, a, fs, longer)
  BY <1>5, <1>6 DEF FieldsOn, CallerListed
<1>. QED
  BY <1>1, <1>4, <1>7

\* The end of a line: time and newline.
LineEnd == <<Space>> \o Timestamp \o <<Newline>>
Ended(x, full) ==
    /\ full \in Seq(Nat) /\ Starts(x, full)
    /\ Len(x) + 1 <= Len(full) /\ full[Len(x) + 1] = Space
    /\ SubSeq(full, Len(x) + 1, Len(full)) = LineEnd

\* which then adds these.
LEMMA LineEnded ==
    ASSUME NEW x \in Seq(Nat)
    PROVE  Ended(x, x \o <<Space>> \o Timestamp \o <<Newline>>)
<1> DEFINE sp == <<Space>>
           nl == <<Newline>>
           tm == Timestamp
           st == sp \o tm
           end == LineEnd
<1>1. sp \in Seq(Nat) /\ nl \in Seq(Nat) /\ tm \in Seq(Nat) /\ Len(sp) = 1 /\ sp[1] = Space
      /\ Len(nl) = 1 /\ Len(tm) = 1
  BY DEF Space, Newline, Timestamp
<1>2. Joined(sp, tm) /\ st \in Seq(Nat)
  <2> HIDE DEF sp, tm
  <2>. QED
    BY <1>1, JoinedText DEF Joined
<1>3. end = st \o nl
  BY DEF LineEnd
<1>4. Joined(st, nl)
  <2> HIDE DEF st, nl
  <2>. QED
    BY <1>1, <1>2, JoinedText
<1>5. x \o sp \o tm \o nl = x \o end
  <2> HIDE DEF sp, tm, nl
  <2>1. Associate(x, sp, tm)
    BY <1>1, Rebracket
  <2>2. x \o sp \o tm = x \o st
    BY <2>1 DEF Associate
  <2> HIDE DEF st, end
  <2>3. Associate(x, st, nl)
    BY <1>1, <1>2, Rebracket
  <2>. QED
    BY <1>3, <2>2, <2>3 DEF Associate
<1> HIDE DEF end
<1>6. end \in Seq(Nat) /\ Len(end) = 3 /\ end[1] = Space
  <2> HIDE DEF sp, tm, nl
  <2>1. Len(st) = 2 /\ st[1] = Space
    <3>1. 1 \in 1 .. Len(sp)
      BY <1>1
    <3>. QED
      BY <1>1, <1>2, <3>1 DEF Joined, Starts
  <2> HIDE DEF st
  <2>2. 1 \in 1 .. Len(st)
    BY <2>1
  <2>. QED
    BY <1>1, <1>3, <1>4, <2>1, <2>2 DEF Joined, Starts
<1> DEFINE full == x \o end
<1>7. Joined(x, end)
  BY <1>6, JoinedText
<1>8. full \in Seq(Nat) /\ Len(full) = Len(x) + 3 /\ Starts(x, full) /\ Stands(full, Len(x), end)
      /\ Len(x) \in Nat
  BY <1>6, <1>7, LenProperties DEF Joined
<1> HIDE DEF full
<1>9. full[Len(x) + 1] = Space /\ Len(x) + 1 <= Len(full)
  <2>1. 1 \in 1 .. Len(end)
    BY <1>6
  <2>2. full[Len(x) + 1] = end[1]
    BY <1>8, <2>1 DEF Stands
  <2>3. Len(x) + 1 <= Len(full)
    BY <1>8
  <2>. QED
    BY <1>6, <2>2, <2>3
<1>10. SubSeq(full, Len(x) + 1, Len(full)) = end
  BY <1>6, <1>8, StandsIsPart
<1>11. Ended(x, full)
  BY <1>8, <1>9, <1>10 DEF Ended, end
<1>. QED
  BY <1>5, <1>11 DEF full

\* The measurement of a logger that can be read has nothing that ends it early.
LEMMA PlainMeasurement ==
    ASSUME created \in Loggers, PlainLogger
    PROVE  \A i \in 1 .. Len(measurement) : measurement[i] \notin {Comma, Space}
<1> DEFINE c == measurement
<1>1. c \in Seq(Nat) /\ Bare(c)
  BY RawType DEF PlainLogger
<1> HIDE DEF c
<1>2. DOMAIN c = 1 .. Len(c) /\ \A i \in 1 .. Len(c) : c[i] \in Nat
  BY <1>1, LenProperties, ElementOfSeq
<1>3. \A i \in 1 .. Len(c) : c[i] # Comma
  BY <1>1 DEF Bare, Contains
<1>4. \A i \in 1 .. Len(c) : ~(c[i] <= Space)
  BY <1>1, <1>2 DEF Bare, NeedsQuotes, needsQuotedValueRune
<1>5. \A i \in 1 .. Len(c) : c[i] # Space
  BY <1>2, <1>4 DEF Space
<1>. QED
  BY <1>3, <1>5 DEF c

\* A line begins with the measurement and the tags of the logger and its headers,
LEMMA HeadRead ==
    ASSUME HeadersInv, PlainLogger, PlainHeaders(tags), NEW s \in Seq(Nat),
           Starts(Beginning \o <<Space>>, s)
    PROVE  /\ ReadHead(s) =
                 {[measurement |-> measurement, tags |-> AllTags, next |-> Len(Beginning) + 1]}
           /\ s[Len(Beginning) + 1] = Space /\ AllTags \in Seq(Pair)
<1> DEFINE me == measurement
           m == Len(me)
           n == Len(tagSet)
           l == Len(Beginning)
           ps == AllTags
           b == Beginning \o <<Space>>
<1>1. /\ created \in Loggers /\ tagSet \in Seq(Nat) /\ tags \in Seq(Seq(Pair))
      /\ (tagSet # <<>> => tagSet[1] = Comma)
      /\ Listed(Beginning, m, ps, l)
  BY DEF HeadersInv
<1>2. /\ me \in Seq(Nat) /\ m \in Nat /\ n \in Nat /\ Beginning \in Seq(Nat) /\ l = m + n
      /\ l \in Nat /\ Starts(me, Beginning) /\ Stands(Beginning, m, tagSet)
  BY <1>1, BeginningText
<1>3. b \in Seq(Nat) /\ Len(b) = l + 1 /\ Starts(Beginning, b) /\ b[l + 1] = Space
  <2>1. Space \in Nat
    BY DEF Space
  <2>. QED
    BY <1>1, <2>1, BeginningEnds
<1>4. ps \in Seq(Pair)
  <2> DEFINE kv == created.kv
             ft == FlattenSeq(tags)
  <2>1. kv \in Seq(Pair) /\ ft \in Seq(Pair)
    BY <1>1, PlainTags, FlattenedType
  <2>2. ps = kv \o ft
    BY DEF AllTags
  <2> HIDE DEF kv, ft
  <2>. QED
    BY <2>1, <2>2, ConcatProperties
<1>5. Starts(b, s) /\ \A i \in 1 .. m : me[i] \notin {Comma, Space}
  BY <1>1, PlainMeasurement
<1>e. n = 0 <=> tagSet = <<>>
  BY <1>1, EmptySeq
<1> HIDE DEF me, m, n, l, ps, b
<1>6. Starts(Beginning, s) /\ Starts(me, s)
  <2>1. Starts(Beginning, s)
    BY <1>2, <1>3, <1>5, StartsChain
  <2>. QED
    BY <1>2, <2>1, StartsChain
<1>7. s[l + 1] = Space /\ l + 1 <= Len(s) /\ Len(s) \in Nat
  <2>1. l + 1 \in 1 .. Len(b)
    BY <1>2, <1>3
  <2>2. Len(s) \in Nat
    BY LenProperties
  <2>. QED
    BY <1>3, <1>5, <2>1, <2>2 DEF Starts
<1>8. s[m + 1] = IF tagSet = <<>> THEN Space ELSE Comma
  <2>1. CASE tagSet = <<>>
    <3>1. l + 1 = m + 1
      BY <1>2, <1>e, <2>1
    <3>. QED
      BY <1>7, <2>1, <3>1
  <2>2. CASE tagSet # <<>>
    <3>1. 1 \in 1 .. n /\ m + 1 \in 1 .. l
      BY <1>2, <1>e, <2>2
    <3>2. Beginning[m + 1] = tagSet[1]
      BY <1>2, <3>1 DEF Stands, n
    <3>3. s[m + 1] = Beginning[m + 1]
      BY <1>6, <3>1 DEF Starts, l
    <3>. QED
      BY <1>1, <2>2, <3>2, <3>3
  <2>. QED
    BY <2>1, <2>2
<1>9. MeasurementEnds(s) = {m + 1}
  <2>1. DOMAIN s = 1 .. Len(s) /\ m + 1 \in 1 .. Len(s) /\ s[m + 1] \in {Comma, Space}
    <3>1. m + 1 \in 1 .. Len(s)
      BY <1>2, <1>7
    <3>. QED
      BY <1>8, <3>1, LenProperties
  <2>2. \A i \in 1 .. m : s[i] = me[i] /\ s[i] \notin {Comma, Space}
    BY <1>5, <1>6 DEF Starts, m
  <2>3. (m + 1) - 1 = m
    BY <1>2
  <2>4. m + 1 \in MeasurementEnds(s)
    BY <2>1, <2>2, <2>3 DEF MeasurementEnds
  <2>5. ASSUME NEW i \in MeasurementEnds(s) PROVE i = m + 1
    <3>1. /\ i \in 1 .. Len(s) /\ s[i] \in {Comma, Space}
          /\ \A j \in 1 .. i - 1 : s[j] \notin {Comma, Space}
      BY <2>1 DEF MeasurementEnds
    <3>2. i \notin 1 .. m
      BY <2>2, <3>1
    <3>3. m + 1 \notin 1 .. i - 1
      BY <2>1, <3>1
    <3>. QED
      BY <1>2, <2>1, <3>1, <3>2, <3>3
  <2>. QED
    BY <2>4, <2>5
<1>10. SubSeq(s, 1, m) = me
  <2> DEFINE z == 0
  <2>1. z \in Nat /\ z + 1 = 1 /\ z + Len(me) = m
    BY <1>2 DEF m
  <2>2. Stands(s, z, me)
    <3>1. \A i \in 1 .. m : z + i = i
      OBVIOUS
    <3>2. z + Len(me) <= Len(s)
      BY <1>2, <1>7, <2>1
    <3>. QED
      BY <1>6, <3>1, <3>2 DEF Stands, Starts, m
  <2> HIDE DEF z
  <2>3. SubSeq(s, z + 1, z + Len(me)) = me
    BY <1>2, <2>1, <2>2, StandsIsPart
  <2>. QED
    BY <2>1, <2>3
<1> DEFINE t == [pairs |-> ps, next |-> l + 1]
<1>11. ReadTags(s, m + 1) = {t}
  <2>1. PICK ends : ListedAt(Beginning, m, ps, l, ends)
    BY <1>1 DEF Listed, m, ps, l
  <2>2. CASE tagSet = <<>>
    <3>1. l = m
      BY <1>2, <1>e, <2>2
    <3>2. ps = <<>>
      <4> SUFFICES ASSUME ps # <<>> PROVE FALSE
        OBVIOUS
      <4>1. Len(ps) \in Nat /\ 1 \in 1 .. Len(ps) /\ Len(Beginning) = m
        BY <1>4, <3>1, EmptySeq, LenProperties DEF l
      <4>2. PairAt(Beginning, ends[1] + 1, ps[1], ends[1 + 1]) /\ ends[1] = m
        BY <2>1, <4>1 DEF ListedAt
      <4>3. ps[1].key \in Seq(Nat)
        BY <1>4, <4>1, ElementOfSeq DEF Pair
      <4> DEFINE k == Len(ps[1].key)
      <4>4. k \in Nat /\ (m + 1) + k + 1 <= m
        BY <4>1, <4>2, <4>3, LenProperties DEF PairAt
      <4> HIDE DEF k
      <4>. QED
        BY <1>2, <4>4
    <3>3. s[m + 1] # Comma
      BY <1>8, <2>2 DEF Comma, Space
    <3>4. ReadTags(s, m + 1) = {[pairs |-> <<>>, next |-> m + 1]}
      BY <3>3 DEF ReadTags
    <3>. QED
      BY <3>1, <3>2, <3>4
  <2>3. CASE tagSet # <<>>
    <3>1. ps # <<>>
      <4> SUFFICES ASSUME ps = <<>> PROVE FALSE
        OBVIOUS
      <4>1. ends[1] = m /\ ends[0 + 1] = l
        BY <2>1 DEF ListedAt
      <4>2. l = m
        BY <4>1
      <4>. QED
        BY <1>2, <1>e, <2>3, <4>2
    <3>2. Listed(Beginning, m, ps, l)
      BY <1>1 DEF m, ps, l
    <3>3. Listed(s, m, ps, l)
      BY <1>2, <1>4, <1>6, <3>2, ListedLonger
    <3>4. IsRead(s, m + 2, ps, l + 1)
      BY <1>2, <1>4, <1>7, <3>1, <3>3, ListRead
    <3>5. s[m + 1] = Comma /\ (m + 1) + 1 = m + 2
      BY <1>2, <1>8, <2>3
    <3>. QED
      BY <3>4, <3>5 DEF ReadTags, IsRead
  <2>. QED
    BY <2>2, <2>3
<1> DEFINE H(i) == {[measurement |-> SubSeq(s, 1, i - 1), tags |-> u.pairs, next |-> u.next] :
                       u \in ReadTags(s, i)}
<1>12. ReadHead(s) = UNION {H(i) : i \in MeasurementEnds(s)}
  BY DEF ReadHead
<1>13. H(m + 1) = {[measurement |-> me, tags |-> ps, next |-> l + 1]}
  <2>1. (m + 1) - 1 = m
    BY <1>2
  <2>2. t.pairs = ps /\ t.next = l + 1
    OBVIOUS
  <2>3. SubSeq(s, 1, (m + 1) - 1) = me
    BY <1>10, <2>1
  <2> HIDE DEF t
  <2>. QED
    BY <1>11, <2>2, <2>3
<1> HIDE DEF H
<1>14. ReadHead(s) = {[measurement |-> me, tags |-> ps, next |-> l + 1]}
  <2>1. ReadHead(s) = H(m + 1)
    BY <1>9, <1>12
  <2>. QED
    BY <1>13, <2>1
<1>. QED
  BY <1>4, <1>7, <1>14 DEF me, l, ps

\* and when a record ends.
LEMMA RecordReads ==
    ASSUME ReadInv, RecordEnds
    PROVE  ReadInv'
<1> DEFINE x == buf \o <<Comma>> \o CallerPair
           full == x \o <<Space>> \o Timestamp \o <<Newline>>
           a == Len(Beginning)
           c == Caller(fields)
           b == Beginning \o <<Space>>
<1>1. /\ op = "record" /\ op' = "none" /\ UNCHANGED <<created, tagSet, tags, fields>>
      /\ line' = {[text |-> full, tags |-> tags, fields |-> fields]}
  BY DEF RecordEnds
<1>2. /\ HeadersInv /\ created \in Loggers /\ tagSet \in Seq(Nat)
      /\ buf \in Seq(Nat) /\ fields \in Seq(Pair) /\ Starts(b, buf) /\ FieldsOn(buf, a, fields)
  BY <1>1 DEF ReadInv, HeadersInv, FieldsInv, Page
<1>3. HeadersInv' /\ FieldsInv'
  BY <1>1, <1>2, Remains DEF SameText, FieldsInv
<1>4. a \in Nat /\ b \in Seq(Nat)
  <2>1. Space \in Nat
    BY DEF Space
  <2>2. b \in Seq(Nat)
    BY <1>2, <2>1, BeginningEnds
  <2>3. a \in Nat
    BY <1>2, BeginningText
  <2>. QED
    BY <2>2, <2>3
<1>5. CallerListed(buf, a, fields, x) /\ c \in Pair
  <2> HIDE DEF a, b
  <2>. QED
    BY <1>2, <1>4, CallerAdded
<1>6. Ended(x, full)
  <2>1. x \in Seq(Nat)
    BY <1>5 DEF CallerListed
  <2> HIDE DEF x
  <2>. QED
    BY <2>1, LineEnded
<1>7. x \in Seq(Nat) /\ full \in Seq(Nat) /\ Starts(buf, x) /\ Starts(x, full)
      /\ Listed(x, a, Append(fields, c), Len(x))
      /\ Len(x) + 1 <= Len(full) /\ full[Len(x) + 1] = Space
      /\ SubSeq(full, Len(x) + 1, Len(full)) = <<Space>> \o Timestamp \o <<Newline>>
  BY <1>5, <1>6 DEF CallerListed, Ended, LineEnd
<1>8. Append(fields, c) \in Seq(Pair) /\ Len(x) \in Nat
  <2> HIDE DEF c, x, full
  <2>. QED
    BY <1>2, <1>5, <1>7, AppendProperties, LenProperties
<1> HIDE DEF x, full, c, b
<1>9. Starts(b, full)
  <2>1. Starts(b, x)
    BY <1>2, <1>4, <1>7, StartsChain
  <2>. QED
    BY <1>4, <1>7, <2>1, StartsChain
<1>10. Listed(full, a, Append(fields, c), Len(x))
  <2> DEFINE gs == Append(fields, c)
             e == Len(x)
  <2>1. Listed(x, a, gs, e) /\ gs \in Seq(Pair) /\ a \in Nat
    BY <1>4, <1>7, <1>8
  <2> HIDE DEF gs, e, a
  <2>2. Listed(full, a, gs, e)
    BY <1>7, <2>1, ListedLonger
  <2>. QED
    BY <2>2 DEF gs, e
<1> DEFINE me == measurement
           ts == AllTags
<1>11. ASSUME PlainLogger, PlainHeaders(tags) PROVE LineIs(full, me, ts, fields)
  <2> DEFINE e == Len(x)
  <2>1. /\ ReadHead(full) = {[measurement |-> me, tags |-> ts, next |-> a + 1]}
        /\ full[a + 1] = Space /\ ts \in Seq(Pair)
    BY <1>2, <1>7, <1>9, <1>11, HeadRead DEF b
  <2>2. /\ Listed(full, a, Append(fields, c), e) /\ e \in Nat
        /\ e + 1 <= Len(full) /\ full[e + 1] = Space
        /\ SubSeq(full, e + 1, Len(full)) = <<Space>> \o Timestamp \o <<Newline>>
    BY <1>7, <1>8, <1>10
  <2> HIDE DEF me, ts, e, a
  <2>. QED
    BY <1>2, <1>4, <1>5, <1>7, <2>1, <2>2, LineRead
<1>12. LineReadable'
  <2>1. measurement' = measurement /\ created' = created /\ (PlainLogger' <=> PlainLogger)
    BY <1>1 DEF measurement, PlainLogger
  <2>2. ASSUME NEW m \in line', PlainLogger, PlainHeaders(m.tags)
        PROVE  ReadLine(m.text) = {[measurement |-> measurement,
                                    tags |-> created.kv \o FlattenSeq(m.tags),
                                    fields |-> m.fields]}
    <3>1. m = [text |-> full, tags |-> tags, fields |-> fields]
      BY <1>1, <2>2
    <3>2. m.text = full /\ m.tags = tags /\ m.fields = fields
      BY <3>1
    <3>. QED
      BY <1>11, <2>2, <3>2 DEF LineIs, AllTags
  <2>. QED
    BY <2>1, <2>2 DEF LineReadable
<1>. QED
  BY <1>3, <1>12 DEF ReadInv

\* ReadInv is inductive.
LEMMA ReadStep == ReadInv /\ [TextNext]_textVars => ReadInv'
<1> SUFFICES ASSUME ReadInv, [TextNext]_textVars PROVE ReadInv'
  OBVIOUS
<1>1. CASE HeaderBegins \/ RecordBegins
  BY <1>1, TakeReads
<1>2. CASE \E p \in KeyVals : Encode(p[1], p[2])
  BY <1>2, EncodeReads
<1>3. CASE HeaderEnds
  BY <1>3, HeaderReads
<1>4. CASE RecordEnds
  BY <1>4, RecordReads
<1>5. CASE UNCHANGED textVars
  <2>1. UNCHANGED <<op, buf, needSep, created, tagSet, tags, fields, line>>
    BY <1>5 DEF textVars, encVars
  <2>2. HeadersInv' /\ LineReadable' /\ Beginning' = Beginning
    BY <2>1, Remains DEF ReadInv, SameText
  <2>3. Page' = Page
    BY <2>1, <2>2 DEF Page
  <2>. QED
    BY <2>1, <2>2, <2>3 DEF ReadInv, FieldsInv
<1>. QED
  BY <1>1, <1>2, <1>3, <1>4, <1>5 DEF TextNext
-----------------------------------------------------------------------------
(* The theorems.                                                           *)

\* Whatever keys and values applications log, in records and in headers, a record
\* has no control character but the newline at its end and those that were in the
\* measurement and the tags of NewInfluxdbLogger, which are written as they are
\* (keyRuneFilter, writeStringValue and writeQuotedString filter the rest).
THEOREM RecordIsOneLine == TextSpec => []OneLine
<1>1. TextInv => OneLine
  BY DEF TextInv
<1>. QED
  BY <1>1, TextStart, TextStep, PTL DEF TextSpec

\* EncodeKeyvals ends an event with an error only for a key that is nil or of
\* which nothing is left, or a method that fails or panics.
THEOREM EventsAreLostForCause == TextSpec => []LostForCause
  BY LostStart, LostStep, PTL DEF TextSpec

\* Whatever keys and values are encoded, by whichever events, a line is read in one
\* way, and gives the measurement and tags of NewInfluxdbLogger, where these need no
\* quotes, the pairs of its logger's headers and those of its own event: EncodeKeyval
\* and the escapes of jsonstring.go leave nothing in a pair that a reader takes for
\* the end of it, and Reset nothing of an earlier event.
THEOREM LinesAreReadBack == TextSpec => []LineReadable
<1>1. ReadInv => LineReadable
  BY DEF ReadInv
<1>. QED
  BY ReadStart, ReadStep, <1>1, PTL DEF TextSpec
=============================================================================
