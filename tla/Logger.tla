------------------------------- MODULE Logger -------------------------------
(***************************************************************************)
(* Package log (log.go, origin_logger.go, influxdb_logger.go, sync.go):    *)
(* goroutines that log an event through the package functions, each with a *)
(* template that doLog copies from the default logger, and goroutines that *)
(* log through a SwapLogger.  The default logger is an OriginLogger until  *)
(* NewInfluxdbLogger replaces it; the SwapLogger wraps the InfluxdbLogger  *)
(* or nothing, and the InfluxdbLogger has a writer of the kind its comment *)
(* asks for (influxdb_logger.go:73), a SyncWriter.                         *)
(*                                                                         *)
(* defaultLogger is a pair of words that are read and written without a    *)
(* lock: a read that meets the write can get one word of each logger.      *)
(* What that does is not defined, and the model stops there.               *)
(*                                                                         *)
(* The copy is one of the struct.  It copies the mutex as it stands, and   *)
(* its two buffers keep the arrays of the original: a bytes.Buffer writes  *)
(* behind what it holds into spare capacity, so copies of a buffer with    *)
(* room write to the same place.  The model has that place of either array *)
(* and, for each copy, an array of its own.                                *)
(*                                                                         *)
(* A tag or a message is named by the event it belongs to.  Lines are      *)
(* taken to fit into a buffer that has held one.  Two goroutines at one    *)
(* place could also mix their bytes; a line then is another's as well.     *)
(***************************************************************************)
EXTENDS Naturals

CONSTANTS Events,    \* goroutines that log one event through the package
          Direct,    \* goroutines that log once through the SwapLogger
          VEvents,   \* the events of Log and the functions with a format: VLog
          LevelOf,   \* the level of each event, DEBUG .. ERROR
          Levels,    \* the levels that SetLevel sets
          Swaps      \* whether Swap is given the InfluxdbLogger (TRUE) or nil

ASSUME LoggerAssumption ==
    /\ Events \cap Direct = {}
    /\ VEvents \subseteq Events
    /\ LevelOf \in [Events -> 0 .. 3]
    /\ Levels \subseteq 0 .. 4   \* DEBUG, INFO, WARN, ERROR, NOLOG
    /\ Swaps \subseteq BOOLEAN
    /\ "base" \notin Events /\ "none" \notin Events \cup Direct

VARIABLES
    LOG_LEVEL,   \* the level below which events are dropped
    default,     \* defaultLogger: "origin", "replacing", "influx", or "torn" once read so
    early,       \* events started before NewInfluxdbLogger returned (history)
    origin,      \* events written by an OriginLogger (history)
    wrapped,     \* the SwapLogger wraps the InfluxdbLogger
    room,        \* the InfluxdbLogger has tags, and their array has room
    bufReady,    \* its buf has an array
    mu,          \* holders of its mutex, a set of at most one
    writer,      \* goroutines inside the Write that the SyncWriter guards
    at,          \* control point of each goroutine
    muCopied,    \* events whose template has a locked mutex
    tagArr,      \* the array each template's tagSet writes to
    bufArr,      \* the array each logger's buf writes to
    pooled,      \* the tags in the pooled buffer of each event of KVLog
    tagMem,      \* the tags behind those of the default logger, in each array
    bufMem,      \* the line in each array: [tags, msg]
    out,         \* lines written: [by, tags, msg] (history)
    crowded      \* goroutines that another one overlapped (history)

copyVars == <<muCopied, tagArr>>
memVars  == <<tagMem, bufMem, bufReady>>
setVars  == <<LOG_LEVEL, default, wrapped, room>>
pastVars == <<early, origin, crowded>>
vars == <<setVars, mu, writer, at, pooled, bufArr, copyVars, memVars, out, pastVars>>

Goroutines == Events \cup Direct
Arrays     == Events \cup {"base"}
Tags       == Events \cup {"base", "none"}
Messages   == Goroutines \cup {"none"}
Line       == [tags : Tags, msg : Messages]

Pcs == {"idle", "check", "copy", "origin", "header", "lock", "tags", "message", "kv",
        "write", "writing", "done"}

TypeOK ==
    /\ LOG_LEVEL \in 0 .. 4
    /\ default \in {"origin", "replacing", "influx", "torn"}
    /\ early \subseteq Events
    /\ origin \subseteq Events
    /\ wrapped \in BOOLEAN
    /\ room \in BOOLEAN
    /\ bufReady \in BOOLEAN
    /\ mu \subseteq Direct /\ \A d, e \in mu : d = e
    /\ writer \subseteq Goroutines /\ \A g, h \in writer : g = h
    /\ at \in [Goroutines -> Pcs]
    /\ pooled \in [Events -> Tags]
    /\ muCopied \subseteq Events
    /\ tagArr \in [Events -> Arrays]
    /\ bufArr \in [Goroutines -> Arrays]
    /\ tagMem \in [Arrays -> Tags]
    /\ bufMem \in [Arrays -> Line]
    /\ out \subseteq [by : Goroutines, tags : Tags, msg : Messages]
    /\ crowded \subseteq Goroutines

\* NewInfluxdbLogger will be called with tags or without.
Init ==
    /\ LOG_LEVEL = 0
    /\ default = "origin"
    /\ early = {}
    /\ origin = {}
    /\ wrapped = FALSE
    /\ room \in BOOLEAN
    /\ bufReady = FALSE
    /\ mu = {}
    /\ writer = {}
    /\ pooled = [e \in Events |-> "none"]
    /\ at = [g \in Goroutines |-> "idle"]
    /\ muCopied = {}
    /\ tagArr = [e \in Events |-> e]
    /\ bufArr = [g \in Goroutines |-> IF g \in Events THEN g ELSE "base"]
    /\ tagMem = [a \in Arrays |-> "none"]
    /\ bufMem = [a \in Arrays |-> [tags |-> "none", msg |-> "none"]]
    /\ out = {}
    /\ crowded = {}

Running == default # "torn"

Goto(g, pc) == at' = [at EXCEPT ![g] = pc]
Active == {g \in Goroutines : at[g] \notin {"idle", "done"}}
OwnTags(g) == IF g \in Events THEN g ELSE "base"
-----------------------------------------------------------------------------
(* What applications set.                                                  *)

SetLevel(l) ==
    /\ Running
    /\ LOG_LEVEL' = l
    /\ UNCHANGED <<default, wrapped, room, mu, writer, at, pooled, bufArr, copyVars, memVars,
                   out, pastVars>>

\* NewInfluxdbLogger writes the two words of defaultLogger.
Replace ==
    /\ Running
    /\ \/ default = "origin" /\ default' = "replacing"
       \/ default = "replacing" /\ default' = "influx"
    /\ UNCHANGED <<LOG_LEVEL, wrapped, room, mu, writer, at, pooled, bufArr, copyVars, memVars,
                   out, pastVars>>

\* The SwapLogger is given the logger that NewInfluxdbLogger returned, or nil.
Swap(full) ==
    /\ Running
    /\ full => default = "influx"
    /\ wrapped' = full
    /\ UNCHANGED <<LOG_LEVEL, default, room, mu, writer, at, pooled, bufArr, copyVars, memVars,
                   out, pastVars>>
-----------------------------------------------------------------------------
(* An event of the package functions.                                      *)

\* g runs from now on, beside those that run.
Enter(g) == crowded' = IF Active = {} THEN crowded ELSE crowded \cup Active \cup {g}

Start(e) ==
    /\ Running
    /\ at[e] = "idle"
    /\ Goto(e, "check")
    /\ early' = IF default = "influx" THEN early ELSE early \cup {e}
    /\ Enter(e)
    /\ UNCHANGED <<setVars, mu, writer, pooled, bufArr, copyVars, memVars, out, origin>>

\* doLog and doFormatLog drop events below the level.
CheckLevel(e) ==
    /\ Running
    /\ at[e] = "check"
    /\ Goto(e, IF LOG_LEVEL > LevelOf[e] THEN "done" ELSE "copy")
    /\ UNCHANGED <<setVars, mu, writer, pooled, bufArr, copyVars, memVars, out, pastVars>>

\* Mutant: the logger that the package starts with is remembered.
ReadFirst == {"origin"}

\* The logger that a read of defaultLogger gives.
Read == IF default = "replacing" THEN {"origin", "influx", "torn"} ELSE {default}

\* A mutex that is held is copied locked, and one with waiters may be: it can
\* be on its way from one holder to the next.
CopyMutex(e) ==
    \/ mu = {} /\ UNCHANGED muCopied
    \/ /\ mu # {} \/ \E d \in Direct : at[d] = "lock"
       /\ muCopied' = muCopied \cup {e}

\* WithHeader of OriginLogger copies a header string, and Output of the
\* standard log package writes the event in one piece.
CopyOrigin(e) ==
    /\ Running
    /\ at[e] = "copy"
    /\ "origin" \in Read
    /\ Goto(e, "origin")
    /\ UNCHANGED <<setVars, mu, writer, pooled, bufArr, copyVars, memVars, out, pastVars>>

OriginLog(e) ==
    /\ Running
    /\ at[e] = "origin"
    /\ Goto(e, "done")
    /\ origin' = origin \cup {e}
    /\ UNCHANGED <<setVars, mu, writer, pooled, bufArr, copyVars, memVars, out, early, crowded>>

ReadTorn(e) ==
    /\ Running
    /\ at[e] = "copy"
    /\ "torn" \in Read
    /\ default' = "torn"
    /\ UNCHANGED <<LOG_LEVEL, wrapped, room, mu, writer, at, pooled, bufArr, copyVars, memVars,
                   out, pastVars>>

\* Mutant: the template writes to the default logger's tags, room or not.
CopyNothing(e) ==
    /\ Running
    /\ at[e] = "copy"
    /\ "influx" \in Read
    /\ Goto(e, "header")
    /\ CopyMutex(e)
    /\ tagArr' = [tagArr EXCEPT ![e] = "base"]
    /\ bufArr' = [bufArr EXCEPT ![e] = IF bufReady THEN "base" ELSE e]
    /\ UNCHANGED <<setVars, mu, writer, pooled, memVars, out, pastVars>>

\* WithHeader of InfluxdbLogger has a value receiver: mutex and buffers are copied.
Copy(e) ==
    /\ Running
    /\ at[e] = "copy"
    /\ "influx" \in Read
    /\ Goto(e, "header")
    /\ CopyMutex(e)
    /\ tagArr' = [tagArr EXCEPT ![e] = IF room THEN "base" ELSE e]
    /\ bufArr' = [bufArr EXCEPT ![e] = IF bufReady THEN "base" ELSE e]
    /\ UNCHANGED <<setVars, mu, writer, pooled, memVars, out, pastVars>>

\* Mutant: the tags are not written.
HeaderForgotten(e) ==
    /\ Running
    /\ at[e] = "header"
    /\ Goto(e, IF e \in VEvents THEN "lock" ELSE "kv")
    /\ UNCHANGED <<setVars, mu, writer, pooled, bufArr, copyVars, memVars, out, pastVars>>

\* The copy's tags are written behind those it has.  SetDepth copies it again,
\* and either VLog or KVLog is called.
Header(e) ==
    /\ Running
    /\ at[e] = "header"
    /\ tagMem' = [tagMem EXCEPT ![tagArr[e]] = e]
    /\ Goto(e, IF e \in VEvents THEN "lock" ELSE "kv")
    /\ UNCHANGED <<setVars, mu, writer, pooled, bufArr, copyVars, bufMem, bufReady, out, pastVars>>

\* KVLog puts its line together in a buffer of the pool, unless a value cannot
\* be encoded.
KVLog(e) ==
    /\ Running
    /\ at[e] = "kv"
    /\ \/ Goto(e, "write") /\ pooled' = [pooled EXCEPT ![e] = tagMem[tagArr[e]]]
       \/ Goto(e, "done") /\ UNCHANGED pooled
    /\ UNCHANGED <<setVars, mu, writer, bufArr, copyVars, memVars, out, pastVars>>
-----------------------------------------------------------------------------
(* VLog, by an event on its template or by a goroutine of the SwapLogger.  *)

\* Log of the SwapLogger drops events while it wraps no logger.
SwapLog(d) ==
    /\ Running
    /\ at[d] = "idle"
    /\ IF wrapped THEN Goto(d, "lock") /\ Enter(d)
                  ELSE Goto(d, "done") /\ UNCHANGED crowded
    /\ UNCHANGED <<setVars, mu, writer, pooled, bufArr, copyVars, memVars, out, early, origin>>

\* A template's mutex is its own; copied in the locked state it stays locked.
Lock(g) ==
    /\ Running
    /\ at[g] = "lock"
    /\ \/ g \in Events \ muCopied /\ UNCHANGED mu
       \/ g \in Direct /\ mu = {} /\ mu' = {g}
    /\ Goto(g, "tags")
    /\ UNCHANGED <<setVars, writer, pooled, bufArr, copyVars, memVars, out, pastVars>>

\* The buffer is reset, and measurement and tags go into its array.
WriteTags(g) ==
    /\ Running
    /\ at[g] = "tags"
    /\ bufMem' = [bufMem EXCEPT ![bufArr[g]].tags =
                     IF g \in Events THEN tagMem[tagArr[g]] ELSE "base"]
    /\ bufReady' = (bufReady \/ g \in Direct)
    /\ Goto(g, "message")
    /\ UNCHANGED <<setVars, mu, writer, pooled, bufArr, copyVars, tagMem, out, pastVars>>

WriteMessage(g) ==
    /\ Running
    /\ at[g] = "message"
    /\ bufMem' = [bufMem EXCEPT ![bufArr[g]].msg = g]
    /\ Goto(g, "write")
    /\ UNCHANGED <<setVars, mu, writer, pooled, bufArr, copyVars, tagMem, bufReady, out, pastVars>>
-----------------------------------------------------------------------------
(* Write of the SyncWriter, and the end of VLog and KVLog.                 *)

WriterLock(g) ==
    /\ Running
    /\ at[g] = "write"
    /\ writer = {}
    /\ writer' = {g}
    /\ Goto(g, "writing")
    /\ UNCHANGED <<setVars, mu, pooled, bufArr, copyVars, memVars, out, pastVars>>

\* What g hands to the writer, which reads it now: the pooled buffer, or the
\* array of its logger.
LineOf(g) == IF g \in Events \ VEvents
             THEN [by |-> g, tags |-> pooled[g], msg |-> g]
             ELSE [by |-> g, tags |-> bufMem[bufArr[g]].tags, msg |-> bufMem[bufArr[g]].msg]

\* Two writes at a time mix their bytes.
Mixed(line) == [line EXCEPT !.msg = "none"]

\* Mutant: the deferred Unlock of VLog is forgotten.
WriteLineLocked(g) ==
    /\ Running
    /\ at[g] = "writing"
    /\ \/ out' = out \cup {IF writer = {g} THEN LineOf(g) ELSE Mixed(LineOf(g))}
       \/ UNCHANGED out
    /\ writer' = writer \ {g}
    /\ Goto(g, "done")
    /\ UNCHANGED <<setVars, mu, pooled, bufArr, copyVars, memVars, pastVars>>

\* The line is written, or the writer fails, and the mutexes are released.
WriteLine(g) ==
    /\ Running
    /\ at[g] = "writing"
    /\ \/ out' = out \cup {IF writer = {g} THEN LineOf(g) ELSE Mixed(LineOf(g))}
       \/ UNCHANGED out
    /\ writer' = writer \ {g}
    /\ mu' = mu \ {g}
    /\ Goto(g, "done")
    /\ pooled' = [e \in Events |-> IF e = g THEN "none" ELSE pooled[e]]
    /\ UNCHANGED <<setVars, bufArr, copyVars, memVars, pastVars>>

DoLog(e) ==
    \/ CheckLevel(e) \/ CopyOrigin(e) \/ OriginLog(e) \/ ReadTorn(e)
    \/ Copy(e) \/ Header(e) \/ KVLog(e)

VLog(g) == Lock(g) \/ WriteTags(g) \/ WriteMessage(g)

Write(g) == WriterLock(g) \/ WriteLine(g)

\* A step of somebody who logs.
Step ==
    \/ \E e \in Events : DoLog(e)
    \/ \E g \in Goroutines : VLog(g) \/ Write(g)

Next ==
    \/ \E l \in Levels : SetLevel(l)
    \/ Replace
    \/ \E full \in Swaps : Swap(full)
    \/ \E e \in Events : Start(e)
    \/ \E d \in Direct : SwapLog(d)
    \/ Step

Spec == Init /\ [][Next]_vars
-----------------------------------------------------------------------------
(* Properties.                                                             *)

Own(line) == line.tags = OwnTags(line.by) /\ line.msg = line.by

\* An event that no other overlaps is written with its own tags and message,
\* whatever earlier events left in the arrays they shared.
OwnWhenAlone == \A line \in out : line.by \notin crowded => Own(line)

\* Where no array is shared - the InfluxdbLogger has no tags with room behind
\* them and nobody has called VLog on it - events may overlap as they like, on
\* one writer that could not take two lines at a time.
OwnWithoutSharing == ~room /\ ~bufReady => \A line \in out : Own(line)

\* An event that starts after NewInfluxdbLogger has returned goes to the new
\* logger and never reads defaultLogger torn.
SafeOnceReplaced ==
    /\ origin \subseteq early
    /\ default = "torn" => \E e \in early : at[e] = "copy"

\* Goroutine g waits for a mutex: its logger's or that of the SyncWriter.
Waits(g) ==
    \/ at[g] = "lock" /\ g \in muCopied
    \/ at[g] = "lock" /\ g \in Direct /\ mu # {}
    \/ at[g] = "write" /\ writer # {}

\* A mutex is all that goroutines wait for: one that waits for none can go on.
WaitsBlock == Running => (ENABLED Step <=> \E g \in Active : ~Waits(g))

\* Where all wait, each does for the mutex of a template that was copied while
\* somebody else held the mutex of the InfluxdbLogger or waited for it.
OnlyCopiedWait ==
    Running /\ (\A g \in Active : Waits(g)) =>
        \A g \in Active : at[g] = "lock" /\ g \in muCopied

\* Everybody who logs comes back, whatever the order in which the mutexes of
\* logger and writer are asked for, except an event whose template has a mutex
\* copied in the locked state.  (A step brings its goroutine nearer to the end,
\* so scheduled goroutines come to where none of them can take one.)
EventsEnd ==
    /\ WaitsBlock
    /\ OnlyCopiedWait
    /\ Running /\ ~ENABLED Step => \A g \in Active : at[g] = "lock" /\ g \in muCopied

\* The comment in KVLog (influxdb_logger.go:218) says that loggers are safe for
\* concurrent use.  Two events that overlap can get each other's tags.
LinesOwn == \A line \in out : Own(line)
=============================================================================
